--------------------------- MODULE MCEventPipeline ---------------------------
(***************************************************************************)
(* Small instances of EventPipeline, in one run.  Both cameras of a gate   *)
(* are watched, and two things happen: two events, or an event and a       *)
(* fault.  Or one camera is watched, which publishes more often.           *)
(***************************************************************************)
EXTENDS EventPipeline

CONSTANTS a, b

VARIABLE watched   \* the cameras that are registered in this behaviour

watchedVars == <<watched, vars>>

OneGate == [c \in Cameras |-> "gate"]

WatchedInit == Init /\ watched \in {Cameras, {a}}

WatchedNext ==
    /\ Next /\ UNCHANGED watched
    /\ monitors' \subseteq watched
    /\ watched = Cameras => published' + faults' <= 2

\* Cameras that are not watched are not registered.
WatchedSpec ==
    /\ WatchedInit /\ [][WatchedNext]_watchedVars
    /\ Fairness
    /\ \A c \in Cameras : WF_vars(Upsert(c) /\ c \in watched)
=============================================================================
