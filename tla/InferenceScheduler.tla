------------------------- MODULE InferenceScheduler -------------------------
(***************************************************************************)
(* InferenceScheduler (anpr-service/app/services/inference.py): the queue  *)
(* in front of the one thread that reads plates.  A camera has at most one *)
(* image in it, which a newer one replaces in its place; manual requests   *)
(* hold one of MaxManual slots each, until their image has left the queue  *)
(* and the thread, even when their client stopped waiting before.          *)
(***************************************************************************)
EXTENDS Integers, Sequences, FiniteSets

CONSTANTS
    Cameras,
    Requests,     \* manual requests that can be under way
    MaxMonitors,  \* settings.max_monitors
    MaxManual,    \* settings.max_manual_pending
    StaleAfter,   \* stale_after_seconds
    Nil

Keys == Cameras \cup Requests

\* An image: its camera or request and, for a camera, the monitor that
\* captured it, the monitor's epoch and the instant of the capture.
Images == [key: Keys, from: Nat \cup {Nil}, epoch: Nat, at: Nat]

ASSUME SchedulerAssumption ==
    /\ Cameras \cap Requests = {} /\ Nil \notin Keys \cup Images \cup Nat
    /\ MaxMonitors \in Nat /\ MaxManual \in Nat \ {0} /\ StaleAfter \in Nat \ {0}

VARIABLES
    clock,          \* time.monotonic()
    pending,      \* self.pending: images in the order of their keys
    active,       \* the image in the thread (self.active_key)
    manualCount,  \* self.manual_count
    future,       \* the future of each manual request
    event,        \* self.event
    closed,       \* self.closed
    overtaken     \* history: images read since the key of each image is in line

scheduler == <<pending, active, manualCount, future, event, closed, overtaken>>

Manual(r) == [key |-> r, from |-> Nil, epoch |-> 0, at |-> 0]

Waiting == {pending[k].key : k \in DOMAIN pending}
Active(key) == active # Nil /\ active.key = key
Position(key) == CHOOSE k \in DOMAIN pending : pending[k].key = key
Without(key) ==
    IF key \notin Waiting THEN pending
    ELSE SubSeq(pending, 1, Position(key) - 1) \o SubSeq(pending, Position(key) + 1, Len(pending))
Expired(image) == image.key \in Cameras /\ clock >= image.at + StaleAfter
Forgive(keys) == [key \in Keys |-> IF key \in keys THEN 0 ELSE overtaken[key]]

SchedulerInit ==
    /\ clock = 1
    /\ pending = <<>> /\ active = Nil /\ manualCount = 0
    /\ future = [r \in Requests |-> "idle"]
    /\ event = FALSE /\ closed = FALSE
    /\ overtaken = [key \in Keys |-> 0]

-----------------------------------------------------------------------------
(* Cameras.                                                                *)

\* Mutant: a newer image goes to the end of the line.
PlaceLast(image) == Append(Without(image.key), image)

Place(image) ==
    IF image.key \in Waiting
    THEN [pending EXCEPT ![Position(image.key)] = image]
    ELSE Append(pending, image)

\* submit_monitor: refused while an image of the camera is being read.
SubmitMonitor(image) ==
    /\ IF closed \/ Active(image.key)
       THEN UNCHANGED <<pending, event>>
       ELSE pending' = Place(image) /\ event' = TRUE
    /\ UNCHANGED <<active, manualCount, future, closed, overtaken>>

RemoveMonitor(c) ==
    /\ pending' = Without(c)
    /\ overtaken' = Forgive({c})
    /\ UNCHANGED <<active, manualCount, future, event, closed>>

-----------------------------------------------------------------------------
(* Manual requests.                                                        *)

\* recognize, up to its await.  A request that finds no slot is refused and
\* changes nothing.
Recognize(r) ==
    /\ future[r] = "idle" /\ r \notin Waiting /\ ~Active(r)
    /\ ~closed /\ manualCount < MaxManual
    /\ manualCount' = manualCount + 1
    /\ future' = [future EXCEPT ![r] = "waiting"]
    /\ pending' = Append(pending, Manual(r))
    /\ event' = TRUE
    /\ UNCHANGED <<clock, active, closed, overtaken>>

\* complete
Complete(r) ==
    /\ manualCount' = manualCount - 1
    /\ future' = [future EXCEPT ![r] = IF @ = "waiting" THEN "done" ELSE @]

Return(r) ==
    /\ future[r] = "done"
    /\ future' = [future EXCEPT ![r] = "idle"]
    /\ UNCHANGED <<clock, pending, active, manualCount, event, closed, overtaken>>

\* Mutant: a request that stops waiting always gives its slot back.
TimeOutReleased(r) ==
    /\ future[r] \in {"waiting", "done"}
    /\ future' = [future EXCEPT ![r] = "idle"]
    /\ pending' = Without(r)
    /\ manualCount' = manualCount - 1
    /\ overtaken' = Forgive({r})
    /\ UNCHANGED <<clock, active, event, closed>>

\* The wait ends without an answer: the slot is free again only when the image
\* was still in line.
TimeOut(r) ==
    /\ future[r] \in {"waiting", "done"}
    /\ future' = [future EXCEPT ![r] = "idle"]
    /\ pending' = Without(r)
    /\ manualCount' = IF r \in Waiting THEN manualCount - 1 ELSE manualCount
    /\ overtaken' = Forgive({r})
    /\ UNCHANGED <<clock, active, event, closed>>

-----------------------------------------------------------------------------
(* The worker.                                                             *)

Sleep ==
    /\ ~closed /\ active = Nil /\ event /\ pending = <<>>
    /\ event' = FALSE
    /\ UNCHANGED <<clock, pending, active, manualCount, future, closed, overtaken>>

\* An image that is too old leaves the line unread.
Take ==
    /\ ~closed /\ active = Nil /\ event /\ pending # <<>>
    /\ pending' = Tail(pending)
    /\ LET image == Head(pending) IN
          \/ Expired(image) /\ overtaken' = Forgive({image.key}) /\ UNCHANGED active
          \/ /\ ~Expired(image)
             /\ active' = image
             /\ overtaken' = [key \in Keys |-> IF key \in Waiting \ {image.key}
                                               THEN overtaken[key] + 1 ELSE 0]
    /\ UNCHANGED <<clock, manualCount, future, event, closed>>

\* The thread is done with a manual image.
ManualResult(r) ==
    /\ Active(r)
    /\ active' = Nil
    /\ Complete(r)
    /\ UNCHANGED <<clock, pending, event, closed, overtaken>>

\* close: pending requests fail and their slots are free.
Close ==
    /\ ~closed
    /\ closed' = TRUE /\ event' = TRUE
    /\ pending' = <<>>
    /\ manualCount' = manualCount - Cardinality(Waiting \cap Requests)
    /\ future' = [r \in Requests |-> IF r \in Waiting THEN "done" ELSE future[r]]
    /\ overtaken' = Forgive(Keys)
    /\ UNCHANGED <<clock, active>>

-----------------------------------------------------------------------------
(* Properties.                                                             *)

\* A slot is held exactly by the manual images in line or in the thread,
\* however timeouts, results and the shutdown race; no slot is freed twice or
\* lost, a waiting client's image is never dropped, and no key is in line twice.
SlotsAccounted ==
    /\ manualCount = Cardinality(Waiting \cap Requests)
                     + (IF active # Nil /\ active.key \in Requests THEN 1 ELSE 0)
    /\ manualCount <= MaxManual
    /\ \A r \in Requests : future[r] = "waiting" => r \in Waiting \/ Active(r)
    /\ Cardinality(Waiting) = Len(pending)

\* The queue keeps within the capacity that stats.queue reports, and admission
\* is fair: once in line, an image is overtaken by at most that many others,
\* whoever replaces or submits images meanwhile.
FairAdmission ==
    /\ Len(pending) <= MaxMonitors + MaxManual
    /\ \A key \in Keys : overtaken[key] < MaxMonitors + MaxManual
=============================================================================
