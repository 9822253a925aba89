---------------------------- MODULE Registration ----------------------------
(***************************************************************************)
(* How an observation becomes an automatic movement: processObservation    *)
(* and commitRecognition (auto-registration.service.ts) with the external  *)
(* recognition of RecognitionResolverService, at one gate.                 *)
(*                                                                         *)
(* EventPipeline shows that the cameras of a gate are processed one at a   *)
(* time, hence one job.  A step is a query or a call that the job awaits:  *)
(* what it read before stays in its memory while gatekeepers confirm       *)
(* observations, vehicles and settings change and time passes.  Queries    *)
(* between which nothing they read can matter to the other are one step.   *)
(* A vehicle stands for its plate; reviews, Movements has them, are left   *)
(* out, and so is the expiry of an observation, which only keeps a job or  *)
(* a confirmation from starting.                                           *)
(***************************************************************************)
EXTENDS Naturals, Sequences, FiniteSets

CONSTANTS
    Observations,
    Plates,
    ObsPlate,         \* the plate that the camera read
    Sure,             \* observations above anprFirstReadMinConfidence
    Cooldown,         \* anprAutoRegisterCooldownSeconds, in instants
    CompanySettings,  \* the settings a company may have
    PointSettings,    \* the settings a gate may have
    MaxProcessed,     \* identifiers that this.processed may hold
    KeptProcessed,    \* identifiers it keeps when it holds more
    MaxTime,          \* bound: instants
    MaxEvents,        \* bound: changes of settings and vehicles, failed requests, crashes
    None              \* null

Fields == {"auto", "save", "mode", "trigger", "fallback", "trust", "firstRead"}

Resolved == [auto: BOOLEAN, save: BOOLEAN, mode: {"local", "verified", "external"},
             trigger: {"after_single_read", "after_confirmation"},
             fallback: BOOLEAN, trust: BOOLEAN, firstRead: BOOLEAN]

ASSUME RegistrationAssumption ==
    /\ ObsPlate \in [Observations -> Plates]
    /\ Sure \subseteq Observations
    /\ CompanySettings \subseteq Resolved
    /\ \A s \in PointSettings : /\ s.inherit \in BOOLEAN
                                /\ \A f \in Fields : s[f] = None \/ \E r \in Resolved : s[f] = r[f]
    /\ {Cooldown, MaxTime, MaxEvents, KeptProcessed} \subseteq Nat
    /\ MaxProcessed \in Nat /\ KeptProcessed <= MaxProcessed
    /\ {"unchecked", "unavailable"} \cap Plates = {}
    /\ None \notin Plates \cup {"unchecked", "unavailable"}

VARIABLES
    now,
    company, point,  \* settings
    vehicles,        \* [Plates -> {"absent", "active", "inactive"}]
    shown,           \* what the cameras show of each observation
    captured,        \* capturedAt
    movements,       \* the rows, in order of creation
    marks,           \* externalCheckedAt and externalPlate of the stored observations
    processed,       \* this.processed, oldest first
    job,             \* the observation in progress
    calls,           \* history: calls of the external service whose result was not lost
    answers,         \* history: plates it returned, above anprExternalMinConfidence
    events           \* for the bound

outside == <<company, point, vehicles, shown, captured>>
history == <<calls, answers>>
vars == <<now, outside, movements, marks, processed, job, history, events>>

NoJob == [pc |-> "none", obs |-> None, confirmed |-> FALSE, config |-> None, mark |-> None,
          vehicle |-> None, save |-> FALSE, route |-> None, answer |-> None, plate |-> None]

Event == events < MaxEvents /\ events' = events + 1

\* resolveAnprConfig: a gate that inherits may still switch registration off.
Resolve(c, p) ==
    [f \in Fields |-> IF f = "auto" /\ p.auto = FALSE THEN FALSE
                      ELSE IF p.inherit \/ p[f] = None THEN c[f] ELSE p[f]]

\* findExistingByObservation.
Registered(o) == \E k \in 1 .. Len(movements) : movements[k].obs = o

\* hasRecentMovement, for a vehicle, and hasRecentMovementByPlate, without one.
Recent(vehicle, plate) ==
    /\ Cooldown > 0
    /\ \E k \in 1 .. Len(movements) :
          /\ IF vehicle = "absent" THEN movements[k].plate = plate ELSE movements[k].vehicle = plate
          /\ movements[k].time + Cooldown >= now

-----------------------------------------------------------------------------
(* processObservation.                                                     *)

\* Mutant: the identifiers are never trimmed.
RememberAll(o) == Append(processed, o)

Remember(o) ==
    LET all == Append(processed, o)
    IN  IF Len(all) <= MaxProcessed THEN all
        ELSE SubSeq(all, Len(all) - KeptProcessed + 1, Len(all))

\* The observation is not to be visited again.
Handled == job' = NoJob /\ processed' = Remember(job.obs)

Goto(pc) == job' = [job EXCEPT !.pc = pc] /\ UNCHANGED processed

\* getActiveObservation has answered; the observation is not in processed.
JobStart(o) ==
    /\ job = NoJob /\ shown[o] \in {"candidate", "confirmed"}
    /\ \A k \in 1 .. Len(processed) : processed[k] # o
    /\ job' = [NoJob EXCEPT !.pc = "config", !.obs = o, !.confirmed = (shown[o] = "confirmed")]
    /\ UNCHANGED <<now, outside, movements, marks, processed, history, events>>

\* The settings and, unless they switch registration off, the stored observation.
ReadConfig ==
    /\ job.pc = "config"
    /\ LET config == Resolve(company, point)
       IN  IF ~config.auto THEN Handled
           ELSE /\ job' = [job EXCEPT !.pc = "existing", !.config = config, !.mark = marks[job.obs]]
                /\ UNCHANGED processed
    /\ UNCHANGED <<now, outside, movements, marks, history, events>>

ReadExisting ==
    /\ job.pc = "existing"
    /\ IF Registered(job.obs) THEN Handled ELSE Goto("vehicle")
    /\ UNCHANGED <<now, outside, movements, marks, history, events>>

ReadVehicle ==
    /\ job.pc = "vehicle"
    /\ job' = [job EXCEPT !.pc = "recent", !.vehicle = vehicles[ObsPlate[job.obs]]]
    /\ UNCHANGED <<now, outside, movements, marks, processed, history, events>>

\* What becomes of an observation that is not in its cooldown: registered
\* vehicles first, then the external service at once, then, when the
\* observation is confirmed, the recognition mode.
Route ==
    LET config == job.config
        trusted == (config.trust \/ config.firstRead) /\ job.vehicle = "active"
    IN  IF trusted /\ config.firstRead /\ job.obs \in Sure THEN "registered"
        ELSE IF trusted THEN IF job.confirmed THEN "registered" ELSE "wait"
        ELSE IF config.trigger = "after_single_read" /\ config.mode # "local" THEN "external"
        ELSE IF ~job.confirmed THEN "wait"
        ELSE IF config.mode = "local" THEN "local"
        ELSE IF config.mode = "verified" \/ config.fallback THEN "verified" ELSE "external"

\* A job that waits ends without marking the observation as processed.
Decide ==
    /\ job.pc = "recent"
    /\ IF Recent(job.vehicle, ObsPlate[job.obs]) THEN Handled
       ELSE /\ job' = IF Route = "wait" THEN NoJob
                      ELSE [NoJob EXCEPT !.pc = IF Route \in {"registered", "local"} THEN "commit"
                                                ELSE "external",
                                         !.obs = job.obs, !.mark = job.mark, !.route = Route,
                                         !.save = job.config.save, !.plate = ObsPlate[job.obs]]
            /\ UNCHANGED processed
    /\ UNCHANGED <<now, outside, movements, marks, history, events>>

-----------------------------------------------------------------------------
(* evaluateExternal: the route "verified" falls back to the plate of the   *)
(* camera, "external" does not.                                            *)

\* Mutant: a fallback that the settings do not allow.
ConcludeLocally(mark) ==
    /\ job' = [job EXCEPT !.pc = "commit", !.mark = mark, !.answer = None,
                          !.plate = IF mark = None THEN ObsPlate[job.obs] ELSE mark]
    /\ UNCHANGED processed

Conclude(mark) ==
    IF mark = None /\ job.route = "external" THEN Handled
    ELSE /\ job' = [job EXCEPT !.pc = "commit", !.mark = mark, !.answer = None,
                               !.plate = IF mark = None THEN ObsPlate[job.obs] ELSE mark]
         /\ UNCHANGED processed

\* Mutant: only a stored plate counts as an answer.
AskedWithPlate == job.mark \in Plates

Asked == job.mark # "unchecked"

ReuseAnswer ==
    /\ job.pc = "external" /\ Asked
    /\ Conclude(job.mark)
    /\ UNCHANGED <<now, outside, movements, marks, history, events>>

\* The image of the observation cannot be read or the provider is unknown.
ImageMissing ==
    /\ job.pc = "external" /\ ~Asked
    /\ Event
    /\ job' = [job EXCEPT !.pc = "mark", !.answer = "unavailable"]
    /\ UNCHANGED <<now, outside, movements, marks, processed, history>>

\* An answer without a plate stands for every failure of the provider and for
\* a plate of too little confidence.
CallExternal ==
    /\ job.pc = "external" /\ ~Asked
    /\ calls' = [calls EXCEPT ![job.obs] = @ + 1]
    /\ \E plate \in Plates \cup {None} :
          /\ job' = [job EXCEPT !.pc = "mark", !.answer = plate]
          /\ answers' = [answers EXCEPT ![job.obs] = @ \cup ({plate} \ {None})]
    /\ UNCHANGED <<now, outside, movements, marks, processed, events>>

\* The result of a call is lost before it was stored.
Forgotten ==
    calls' = IF job.pc = "mark" /\ job.answer # "unavailable"
             THEN [calls EXCEPT ![job.obs] = @ - 1] ELSE calls

\* markExternalChecked: the entity is marked, and stored unless that fails.
Mark ==
    /\ job.pc = "mark"
    /\ LET mark == IF job.answer = "unavailable" THEN None ELSE job.answer
       IN  /\ Conclude(mark)
           /\ \/ /\ marks' = [marks EXCEPT ![job.obs] = mark]
                 /\ UNCHANGED <<calls, events>>
              \/ Event /\ Forgotten /\ UNCHANGED marks
    /\ UNCHANGED <<now, outside, movements, answers>>

-----------------------------------------------------------------------------
(* commitRecognition.                                                      *)

CommitVehicle ==
    /\ job.pc = "commit"
    /\ job' = [job EXCEPT !.pc = "cooldown", !.vehicle = vehicles[job.plate]]
    /\ UNCHANGED <<now, outside, movements, marks, processed, history, events>>

\* Mutant: the cooldown is only checked for the plate of the camera.
CheckedPlateOfCamera == Recent(job.vehicle, ObsPlate[job.obs])

InCooldown == Recent(job.vehicle, job.plate)

CommitCooldown ==
    /\ job.pc = "cooldown"
    /\ IF InCooldown THEN Handled
       ELSE Goto(IF job.vehicle = "absent" /\ job.save THEN "photo" ELSE "create")
    /\ UNCHANGED <<now, outside, movements, marks, history, events>>

\* saveEvidencePhoto saves the whole entity, its mark too; it may fail.
SavePhoto ==
    /\ job.pc = "photo"
    /\ Goto("create")
    /\ marks' \in {marks, [marks EXCEPT ![job.obs] = job.mark]}
    /\ UNCHANGED <<now, outside, movements, history, events>>

\* createAutoRegistered.  A vehicle removed meanwhile violates its foreign key
\* (one that was registered anew counts as the same vehicle).
Create ==
    /\ job.pc = "create"
    /\ IF Registered(job.obs) THEN Handled /\ UNCHANGED movements
       ELSE IF job.vehicle # "absent" /\ vehicles[job.plate] = "absent"
       THEN job' = NoJob /\ UNCHANGED <<movements, processed>>
       ELSE /\ movements' = Append(movements,
                  [obs |-> job.obs, time |-> captured[job.obs], plate |-> job.plate, at |-> now,
                   vehicle |-> IF job.vehicle = "absent" THEN None ELSE job.plate,
                   route |-> job.route])
            /\ Handled
    /\ UNCHANGED <<now, outside, marks, history, events>>

\* A query of the job throws.
JobFail ==
    /\ Event
    /\ job.pc \in {"config", "existing", "vehicle", "recent", "commit", "cooldown", "create"}
    /\ job' = NoJob
    /\ UNCHANGED <<now, outside, movements, marks, processed, history>>

Crash ==
    /\ Event
    /\ job' = NoJob /\ processed' = <<>>
    /\ Forgotten
    /\ UNCHANGED <<now, outside, movements, marks, answers>>

-----------------------------------------------------------------------------
(* Cameras, gatekeepers and administrators.                                *)

Show(o) ==
    /\ \/ shown[o] = "hidden" /\ captured' = [captured EXCEPT ![o] = now]
       \/ shown[o] = "candidate" /\ UNCHANGED captured
    /\ \E status \in {"candidate", "confirmed"} \ {shown[o]} : shown' = [shown EXCEPT ![o] = status]
    /\ UNCHANGED <<now, company, point, vehicles, movements, marks, processed, job, history, events>>

\* createFromObservation: the plate of the camera, no recognizedPlate.
Confirm(o) ==
    /\ shown[o] = "confirmed" /\ ~Registered(o)
    /\ vehicles[ObsPlate[o]] # "inactive"
    /\ vehicles' = [vehicles EXCEPT ![ObsPlate[o]] = "active"]
    /\ movements' = Append(movements, [obs |-> o, time |-> now, plate |-> None, at |-> now,
                                       vehicle |-> ObsPlate[o], route |-> "confirmed"])
    /\ UNCHANGED <<now, company, point, shown, captured, marks, processed, job, history, events>>

\* create, update (active) and remove of VehicleService.
ChangeVehicle(p) ==
    /\ Event
    /\ \E status \in {"absent", "active", "inactive"} \ {vehicles[p]} :
          /\ status = "absent" => \A k \in 1 .. Len(movements) : movements[k].vehicle # p
          /\ vehicles' = [vehicles EXCEPT ![p] = status]
    /\ UNCHANGED <<now, company, point, shown, captured, movements, marks, processed, job, history>>

ChangeSettings ==
    /\ Event
    /\ company' \in CompanySettings /\ point' \in PointSettings
    /\ UNCHANGED <<now, vehicles, shown, captured, movements, marks, processed, job, history>>

Tick ==
    /\ now < MaxTime
    /\ now' = now + 1
    /\ UNCHANGED <<outside, movements, marks, processed, job, history, events>>

-----------------------------------------------------------------------------

Init ==
    /\ now = 0
    /\ company \in CompanySettings /\ point \in PointSettings
    /\ vehicles = [p \in Plates |-> "absent"]
    /\ shown = [o \in Observations |-> "hidden"]
    /\ captured = [o \in Observations |-> 0]
    /\ movements = <<>>
    /\ marks = [o \in Observations |-> "unchecked"]
    /\ processed = <<>>
    /\ job = NoJob
    /\ calls = [o \in Observations |-> 0]
    /\ answers = [o \in Observations |-> {}]
    /\ events = 0

Next ==
    \/ ReadConfig \/ ReadExisting \/ ReadVehicle \/ Decide
    \/ ReuseAnswer \/ ImageMissing \/ CallExternal \/ Mark
    \/ CommitVehicle \/ CommitCooldown \/ SavePhoto \/ Create
    \/ JobFail \/ Crash
    \/ \E o \in Observations : JobStart(o) \/ Show(o) \/ Confirm(o)
    \/ \E p \in Plates : ChangeVehicle(p)
    \/ ChangeSettings \/ Tick

Spec == Init /\ [][Next]_vars

-----------------------------------------------------------------------------
(* Properties.                                                             *)

Movement == [obs: Observations, time: Nat, at: Nat, plate: Plates \cup {None},
             vehicle: Plates \cup {None},
             route: {"registered", "local", "verified", "external", "confirmed"}]

Checked == Plates \cup {None}

TypeOK ==
    /\ now \in Nat /\ events \in Nat
    /\ company \in CompanySettings /\ point \in PointSettings
    /\ vehicles \in [Plates -> {"absent", "active", "inactive"}]
    /\ shown \in [Observations -> {"hidden", "candidate", "confirmed"}]
    /\ captured \in [Observations -> Nat]
    /\ movements \in Seq(Movement)
    /\ marks \in [Observations -> Checked \cup {"unchecked"}]
    /\ processed \in Seq(Observations) /\ Len(processed) <= MaxProcessed
    /\ \/ job = NoJob
       \/ /\ job.obs \in Observations
          /\ job.pc \in {"existing", "vehicle", "recent"} => job.config \in Resolved /\ job.config.auto
          /\ job.pc \in {"commit", "cooldown", "photo", "create"} => job.plate \in Plates
    /\ calls \in [Observations -> Nat]
    /\ answers \in [Observations -> SUBSET Plates]

\* The external service, which is paid per call, is asked once per observation:
\* again only when the result of an earlier call could not be stored.
AskedOnce == \A o \in Observations : calls[o] <= 1

\* Where the settings leave the decision to the external service, no movement
\* carries a plate that it did not return, through crashes and retries; and a
\* result that was stored is the one that is registered.
ExternalDecides ==
    \A k \in 1 .. Len(movements) :
        LET m == movements[k]
        IN  /\ m.route = "external" => m.plate \in answers[m.obs]
            /\ m.route \in {"external", "verified"} /\ marks[m.obs] \in Plates => m.plate = marks[m.obs]

\* No automatic movement is created while an earlier one of its plate was
\* captured within the last cooldown, also when the external service corrects the
\* plate and the photo is saved in between.  This is what the checks count, from
\* the capture of the one to the creation of the other, for a vehicle whose
\* registration both movements know of; RegistrationClaims says what the
\* documentation promises beyond it.
CreatedAfterCooldown ==
    \A j, k \in 1 .. Len(movements) :
        LET m == movements[j]
            n == movements[k]
        IN  /\ j < k /\ m.plate = n.plate /\ m.plate # None
            /\ ~(m.vehicle = None /\ n.vehicle # None)
            /\ Cooldown > 0
            => m.time + Cooldown < n.at
=============================================================================
