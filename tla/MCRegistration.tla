--------------------------- MODULE MCRegistration ---------------------------
(***************************************************************************)
(* From a frame to a movement, in one run: a behaviour is what the monitor *)
(* of a camera makes of its frames; one request for the plate in a photo;  *)
(* or the registration of what the cameras of a gate read, "A" and "B", of *)
(* which the second may be a misreading of the first.                      *)
(***************************************************************************)
EXTENDS RegistrationClaims, Recognition, CameraMonitors, TLC

CONSTANTS p, q

VARIABLE part   \* the part of this behaviour

\* What a monitor votes for; the one voted for first wins among equals.
TextSymmetry == Permutations(PlateTexts)

MCObsPlate == [o \in Observations |-> IF o = "o1" THEN "A" ELSE "B"]

Default == [auto |-> TRUE, save |-> TRUE, mode |-> "local", trigger |-> "after_confirmation",
            fallback |-> TRUE, trust |-> FALSE, firstRead |-> FALSE]

MCCompanySettings ==
    {[Default EXCEPT !.mode = "verified", !.firstRead = TRUE],
     [Default EXCEPT !.mode = "external", !.fallback = FALSE, !.trigger = "after_single_read",
                     !.trust = TRUE]}

Inherited == [inherit |-> TRUE] @@ [f \in Fields |-> None]

MCPointSettings ==
    {Inherited, [Inherited EXCEPT !.auto = FALSE],
     [Inherited EXCEPT !.inherit = FALSE, !.mode = "local", !.save = FALSE]}

\* A plate of each format; misreadings of both, of one, of neither; a text
\* with a plate among words; two rows, one of which ends in a misreading.
MCReadTexts ==
    {<<<<"K", "K", "K", "9", "K", "9", "9">>>>,
     <<<<"K", "K", "9", "9", "Q", "9", "Q">>>>,
     <<<<"K", "K", "K", "K", "9", "9", "9">>>>,
     <<<<"K", "K", "K">>>>,
     <<<<"-", "9", "9", "9", "Q">>>>}

\* Every word of seven of a digit that may be a letter, a letter that may be a
\* digit and a letter that is none, alone or split or among other words.
MCVisionTexts ==
    {<<word>> : word \in [1 .. 7 -> {"9", "Q", "K"}]}
      \cup {<<<<"K", "K", "K", "-", "9", "9", "9", "9">>>>,
            <<<<"K", "Q", "K">>, <<"9", "9", "9", "Q">>>>,
            <<<<"K", "K", "K", "9", "K", "9", "9">>, <<"K", "K", "K", "9", "9", "9", "9">>>>,
            <<<<"K", "K">>, <<"9", "K", "K", "9", "Q", "9", "9">>>>}

MCRegistrationInit ==
    /\ part \in {"monitors", "recognition", "registration"}
    /\ Init /\ RecognitionInit /\ MonitorsInit
    /\ part # "registration" => /\ company.mode = "verified" /\ point.inherit /\ point.auto = None
                                /\ \A v \in Plates : vehicles[v] = "absent"

MCRegistrationNext ==
    /\ UNCHANGED part
    /\ \/ part = "monitors" /\ MonitorsNext /\ UNCHANGED <<recognitionVars, vars>>
       \/ part = "recognition" /\ RecognitionNext /\ UNCHANGED <<monitorsVars, vars>>
       \/ part = "registration" /\ Next /\ UNCHANGED <<monitorsVars, recognitionVars>>

MCRegistrationSpec ==
    MCRegistrationInit /\ [][MCRegistrationNext]_<<part, monitorsVars, recognitionVars, vars>>
=============================================================================
