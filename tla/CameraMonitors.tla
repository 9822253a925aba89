--------------------------- MODULE CameraMonitors ---------------------------
(***************************************************************************)
(* CameraMonitor and MonitorManager                                        *)
(* (anpr-service/app/routers/monitors.py): each monitored camera has a     *)
(* task that captures frames and submits them to the InferenceScheduler; a *)
(* result votes for a plate, and the plate with the most votes in a window *)
(* of time is the camera's observation, a candidate first and confirmed    *)
(* after enough votes.  All of it is one asyncio thread: a step lasts from *)
(* one await to the next.                                                  *)
(*                                                                         *)
(* A new configuration replaces a camera's monitor by a new one, and       *)
(* results for the old one may still be on their way, so a monitor is one  *)
(* of Monitors and frames carry the one that captured them.  An            *)
(* observation is identified by the instant of its first frame             *)
(* (captured_at): a monitor captures one frame per tick at most.           *)
(***************************************************************************)
EXTENDS InferenceScheduler

CONSTANTS
    PlateTexts,
    MaxCreated,         \* bound: monitors created in all
    MaxClock,            \* bound: instants
    ConfirmationReads,  \* confirmation_reads
    Window              \* confirmation_reads * anpr_read_ttl_seconds

Monitors == 1 .. MaxCreated

\* A vote is what was read in the frame of an instant (historico).
Vote == [plate: PlateTexts, at: Nat]

MonitorState ==
    [camera: Cameras, status: {"waiting", "candidate", "confirmed", "stale", "offline"},
     observation: Nat \cup {Nil}, plate: PlateTexts \cup {Nil}, reads: Nat, lastSeen: Nat,
     votes: SUBSET Vote, epoch: Nat, failed: Nat, closed: BOOLEAN, started: Nat, capturing: BOOLEAN]

ASSUME MonitorsAssumption ==
    /\ ConfirmationReads \in Nat \ {0} /\ Window \in Nat
    /\ MaxCreated \in Nat /\ MaxClock \in Nat
    /\ {"none", "unsure", "error"} \cap PlateTexts = {} /\ Nil \notin PlateTexts \cup MonitorState

VARIABLES
    monitor,     \* the monitors created so far
    registered,  \* self.monitors: the monitor of each camera
    closing,     \* upsert and remove between their two steps
    told,        \* history: the state of each monitor when it last published
    readings     \* history: what was read since the monitor's last failed capture

monitorsVars == <<clock, scheduler, monitor, registered, closing, told, readings>>

New(c) ==
    [camera |-> c, status |-> "waiting", observation |-> Nil, plate |-> Nil, reads |-> 0,
     lastSeen |-> 0, votes |-> {}, epoch |-> 0, failed |-> 0, closed |-> FALSE,
     started |-> 0, capturing |-> FALSE]

Fresh == CHOOSE i \in Monitors : monitor[i] = Nil /\ \A j \in Monitors : j < i => monitor[j] # Nil

\* _event_state
EventState(m) == <<m.status, m.observation, m.plate, m.reads, m.lastSeen>>

-----------------------------------------------------------------------------
(* The observation of a monitor.                                           *)

Invalidate(m, status) ==
    [m EXCEPT !.status = status, !.observation = Nil, !.plate = Nil, !.reads = 0,
              !.lastSeen = 0, !.votes = {}]

\* state
State(m) ==
    IF m.observation # Nil /\ clock - m.lastSeen >= StaleAfter THEN Invalidate(m, "stale") ELSE m

\* _votes: those within the window before a frame.
ValidVotes(votes, at) == {v \in votes : v.at + Window >= at}

Votes(votes, p) == Cardinality({v \in votes : v.plate = p})

\* The plate with the most votes; the one voted for first among equals.
MostVoted(votes) ==
    LET first == CHOOSE v \in votes : \A w \in votes :
                    LET mine == Votes(votes, v.plate)
                        other == Votes(votes, w.plate) IN
                    other < mine \/ (other = mine /\ (v.at <= w.at \/ v.plate = w.plate))
    IN  first.plate

\* A frame without a plate keeps a candidate that still has votes.
Unread(m, at) ==
    IF m.status = "confirmed" THEN m
    ELSE IF m.plate # Nil /\ Votes(m.votes, m.plate) > 0
         THEN [m EXCEPT !.reads = Votes(m.votes, m.plate), !.lastSeen = at]
         ELSE Invalidate(m, "waiting")

\* Mutant: the status follows the votes.
ReadAgain(m, p, at) ==
    LET votes == ValidVotes(m.votes \cup {[plate |-> p, at |-> at]}, at)
        elected == MostVoted(votes)
        changed == elected # m.plate
    IN  [m EXCEPT !.votes = votes, !.plate = elected, !.reads = Votes(votes, elected),
                  !.lastSeen = at,
                  !.observation = IF changed THEN at ELSE @,
                  !.status = IF Votes(votes, elected) >= ConfirmationReads THEN "confirmed" ELSE "candidate"]

\* A frame that shows plate p.
Read(m, p, at) ==
    LET votes == ValidVotes(m.votes \cup {[plate |-> p, at |-> at]}, at)
        elected == MostVoted(votes)
        changed == elected # m.plate
    IN  [m EXCEPT !.votes = votes, !.plate = elected, !.reads = Votes(votes, elected),
                  !.lastSeen = at,
                  !.observation = IF changed THEN at ELSE @,
                  !.status = IF \/ Votes(votes, elected) >= ConfirmationReads
                                \/ ~changed /\ m.status = "confirmed"
                             THEN "confirmed" ELSE "candidate"]

Rejected(m, image) == m.closed \/ image.epoch # m.epoch

\* _accept
Accepted(m, image, result) ==
    LET current == State(m)
        recent == [current EXCEPT !.votes = ValidVotes(@, image.at)]
    IN  IF Rejected(m, image) THEN m
        ELSE IF clock >= image.at + StaleAfter THEN current
        ELSE CASE result = "error"  -> Invalidate(current, "offline")
               [] result = "none"   -> Unread(recent, image.at)
               [] result = "unsure" -> recent
               [] OTHER             -> Read(recent, result, image.at)

-----------------------------------------------------------------------------
(* Steps of a monitor.                                                     *)

\* Mutant: only a new observation is published.
PublishObservations(i, m) ==
    /\ monitor' = [monitor EXCEPT ![i] = m]
    /\ told' = [told EXCEPT ![i] = IF m.observation # monitor[i].observation THEN EventState(m) ELSE @]

\* The monitor's state becomes m, and is published when it changed.
Publish(i, m) ==
    /\ monitor' = [monitor EXCEPT ![i] = m]
    /\ told' = [told EXCEPT ![i] = IF EventState(m) # EventState(monitor[i]) THEN EventState(m) ELSE @]

\* The state of a monitor is looked at: by its capture loop, or by a request
\* for the state or the photo.
Look(c) ==
    /\ registered[c] # Nil
    /\ LET i == registered[c] IN
          /\ State(monitor[i]) # monitor[i]
          /\ Publish(i, State(monitor[i]))
    /\ UNCHANGED <<clock, scheduler, registered, closing, readings>>

CaptureStart(i) ==
    /\ monitor[i] # Nil
    /\ ~monitor[i].closed /\ ~monitor[i].capturing /\ monitor[i].started < clock
    /\ Publish(i, [State(monitor[i]) EXCEPT !.capturing = TRUE, !.started = clock])
    /\ UNCHANGED <<clock, scheduler, registered, closing, readings>>

Capturing(i) == monitor[i] # Nil /\ monitor[i].capturing

\* The scene filter lets a frame without changes go, but never while an
\* observation is shown.
CaptureEnd(i) ==
    /\ Capturing(i)
    /\ monitor' = [monitor EXCEPT ![i].capturing = FALSE]
    /\ LET m == monitor[i] IN
          \/ SubmitMonitor([key |-> m.camera, from |-> i, epoch |-> m.epoch, at |-> m.started])
          \/ m.status \notin {"candidate", "confirmed"} /\ UNCHANGED scheduler
    /\ UNCHANGED <<clock, registered, closing, told, readings>>

\* Mutant: images captured before the failure stay valid.
CaptureFailKept(i) ==
    /\ Capturing(i)
    /\ Publish(i, [Invalidate(monitor[i], "offline") EXCEPT
                      !.failed = monitor[i].started, !.capturing = FALSE])
    /\ readings' = [readings EXCEPT ![i] = {}]
    /\ RemoveMonitor(monitor[i].camera)
    /\ UNCHANGED <<clock, registered, closing>>

CaptureFail(i) ==
    /\ Capturing(i)
    /\ Publish(i, [Invalidate(monitor[i], "offline") EXCEPT
                      !.epoch = @ + 1, !.failed = monitor[i].started, !.capturing = FALSE])
    /\ readings' = [readings EXCEPT ![i] = {}]
    /\ RemoveMonitor(monitor[i].camera)
    /\ UNCHANGED <<clock, registered, closing>>

\* accept
Accept(i, image, result) ==
    IF Rejected(monitor[i], image)
    THEN UNCHANGED <<monitor, told>>
    ELSE Publish(i, Accepted(monitor[i], image, result))

\* The thread is done with a camera's image.
CameraResult(result) ==
    /\ active # Nil /\ active.key \in Cameras
    /\ active' = Nil
    /\ Accept(active.from, active, result)
    /\ readings' = IF result \in PlateTexts /\ active.at > monitor[active.from].failed
                   THEN [readings EXCEPT ![active.from] = @ \cup {[plate |-> result, at |-> active.at]}]
                   ELSE readings
    /\ UNCHANGED <<clock, pending, manualCount, future, event, closed, overtaken, registered, closing>>

-----------------------------------------------------------------------------
(* MonitorManager.                                                         *)

\* Mutant: upsert and remove without self.lock.
LockIgnored == TRUE

LockFree == closing = {}

\* close, up to its await: the task is cancelled.
CloseBegin(i) ==
    /\ monitor' = [monitor EXCEPT ![i].closed = TRUE, ![i].capturing = FALSE]
    /\ RemoveMonitor(monitor[i].camera)

Start(c) ==
    /\ monitor' = [monitor EXCEPT ![Fresh] = New(c)]
    /\ registered' = [registered EXCEPT ![c] = Fresh]
    /\ told' = [told EXCEPT ![Fresh] = EventState(New(c))]

\* upsert of a camera that is not monitored; beyond max_monitors it is refused.
Upsert(c) ==
    /\ ~closed /\ LockFree
    /\ registered[c] = Nil
    /\ Cardinality({d \in Cameras : registered[d] # Nil}) < MaxMonitors
    /\ \E i \in Monitors : monitor[i] = Nil
    /\ Start(c)
    /\ UNCHANGED <<clock, scheduler, closing, readings>>

\* upsert with another configuration, or remove, up to the await of close.
ReplaceBegin(c) ==
    /\ ~closed /\ LockFree
    /\ registered[c] # Nil
    /\ \E i \in Monitors : monitor[i] = Nil
    /\ CloseBegin(registered[c])
    /\ closing' = closing \cup {[kind |-> "upsert", camera |-> c, old |-> registered[c]]}
    /\ UNCHANGED <<clock, registered, told, readings>>

RemoveBegin(c) ==
    /\ LockFree
    /\ registered[c] # Nil
    /\ CloseBegin(registered[c])
    /\ registered' = [registered EXCEPT ![c] = Nil]
    /\ closing' = closing \cup {[kind |-> "remove", camera |-> c, old |-> registered[c]]}
    /\ UNCHANGED <<clock, told, readings>>

\* The task has ended; the old monitor's observation ends with it.
RemoveEnd(o) ==
    /\ o.kind = "remove"
    /\ Publish(o.old, Invalidate(monitor[o.old], "offline"))
    /\ closing' = closing \ {o}
    /\ UNCHANGED <<clock, scheduler, registered, readings>>

ReplaceEnd(o) ==
    /\ o.kind = "upsert" /\ \E i \in Monitors : monitor[i] = Nil
    /\ LET old == Invalidate(monitor[o.old], "offline") IN
          /\ monitor' = [monitor EXCEPT ![o.old] = old, ![Fresh] = New(o.camera)]
          /\ told' = [told EXCEPT ![o.old] = EventState(old), ![Fresh] = EventState(New(o.camera))]
    /\ registered' = [registered EXCEPT ![o.camera] = Fresh]
    /\ closing' = closing \ {o}
    /\ UNCHANGED <<clock, scheduler, readings>>

\* The service stops: MonitorManager.close removes every monitor, and then the
\* scheduler is closed.
ServiceClose ==
    /\ closing = {} /\ \A c \in Cameras : registered[c] = Nil
    /\ Close
    /\ UNCHANGED <<monitor, registered, closing, told, readings>>

-----------------------------------------------------------------------------

MonitorsInit ==
    /\ SchedulerInit
    /\ monitor = [i \in Monitors |-> Nil]
    /\ registered = [c \in Cameras |-> Nil]
    /\ closing = {}
    /\ told = [i \in Monitors |-> Nil]
    /\ readings = [i \in Monitors |-> {}]

ClockTick ==
    /\ clock < MaxClock
    /\ clock' = clock + 1
    /\ UNCHANGED <<scheduler, monitor, registered, closing, told, readings>>

Results == PlateTexts \cup {"none", "unsure", "error"}

Request(r) == Recognize(r) \/ Return(r) \/ TimeOut(r) \/ ManualResult(r)

MonitorsNext ==
    \/ ClockTick
    \/ /\ Sleep \/ Take \/ \E r \in Requests : Request(r)
       /\ UNCHANGED <<monitor, registered, closing, told, readings>>
    \/ \E result \in Results : CameraResult(result)
    \/ \E i \in Monitors : CaptureStart(i) \/ CaptureEnd(i) \/ CaptureFail(i)
    \/ \E c \in Cameras : Look(c) \/ Upsert(c) \/ ReplaceBegin(c) \/ RemoveBegin(c)
    \/ \E o \in closing : RemoveEnd(o) \/ ReplaceEnd(o)
    \/ ServiceClose

MonitorsSpec == MonitorsInit /\ [][MonitorsNext]_monitorsVars

-----------------------------------------------------------------------------
(* Properties.                                                             *)

\* A plate is confirmed by ConfirmationReads frames that showed it within the
\* window, all of them captured by this monitor after its last failed capture:
\* late results, replaced monitors and expired votes never count.
ConfirmedByReadings ==
    [][\A i \in Monitors :
          LET m == monitor[i]
              n == monitor'[i]
          IN  /\ m # Nil /\ n.status = "confirmed"
              /\ m.status # "confirmed" \/ m.observation # n.observation
              => Cardinality({r \in readings'[i] : r.plate = n.plate /\ r.at + Window >= n.lastSeen})
                    >= ConfirmationReads]_monitor

\* An observation keeps its plate and, once confirmed, stays confirmed until it
\* ends: single misreadings, frames without a plate and expired votes do not
\* take it back.
ObservationStable ==
    [][\A i \in Monitors :
          LET m == monitor[i]
              n == monitor'[i]
          IN  m # Nil /\ m.observation # Nil /\ n.observation = m.observation
              => n.plate = m.plate /\ (m.status = "confirmed" => n.status = "confirmed")]_monitor

\* Whoever acts on every event of a monitor misses none of its states.
EveryChangeTold == \A i \in Monitors : monitor[i] # Nil => told[i] = EventState(monitor[i])

\* No monitor captures but the registered one of its camera, within the limit.
OneLiveMonitor ==
    /\ \A i \in Monitors : monitor[i] # Nil /\ ~monitor[i].closed => registered[monitor[i].camera] = i
    /\ Cardinality({c \in Cameras : registered[c] # Nil}) <= MaxMonitors
=============================================================================
