---------------------------- MODULE GateAttention ----------------------------
(***************************************************************************)
(* What the pipeline from the cameras to the registration promises, with   *)
(* neither feed nor poll nor queue: a camera that shows a new state is     *)
(* due; a gate serves one camera at a time; sooner or later a camera that  *)
(* is due is attended to, if the monitors that show it do not restart.     *)
(* EventPipeline implements it.                                            *)
(***************************************************************************)
CONSTANTS Cameras, PointOf

VARIABLES
    due,       \* the cameras whose current state nobody has looked at
    serving    \* the cameras whose observation is being processed

attention == <<due, serving>>

Show(c) ==
    /\ due' = due \cup {c}
    /\ UNCHANGED serving

\* The gate of c is free.
Serve(c) ==
    /\ \A d \in serving : PointOf[d] # PointOf[c]
    /\ serving' = serving \cup {c}
    /\ UNCHANGED due

\* The current state of c has been looked at, with or without serving c.
Attend(c) ==
    /\ c \in due
    /\ due' = due \ {c}
    /\ serving' \in {serving, serving \ {c}}

\* An error, or c shows a newer state by now: c is as due as it was.
Leave(c) ==
    /\ serving' = serving \ {c}
    /\ UNCHANGED due

\* The process that serves dies.
Abandon ==
    /\ serving' = {}
    /\ UNCHANGED due

\* The states die with the process that shows them.
Forget ==
    /\ due' = {}
    /\ UNCHANGED serving

Init == due = {} /\ serving = {}

Next ==
    \/ \E c \in Cameras : Show(c) \/ Serve(c) \/ Attend(c) \/ Leave(c)
    \/ Abandon \/ Forget

Spec == Init /\ [][Next]_attention

FairSpec == Spec /\ \A c \in Cameras : WF_attention(Attend(c))
=============================================================================
