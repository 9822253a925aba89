---------------------------- MODULE EventPipeline ----------------------------
(***************************************************************************)
(* How a state seen by a camera monitor reaches automatic registration:    *)
(* the feed of the ANPR service (MonitorEvents), the long poll that        *)
(* consumes it and the job queue of AutoRegistrationService                *)
(* (src/src/auto-registration/auto-registration.service.ts).               *)
(*                                                                         *)
(* The API is one JavaScript thread.  A synchronous loop is taken one      *)
(* iteration at a time (Enqueue for the events of an answer, Pump for the  *)
(* queue) and the guard Turn keeps every other callback waiting until the  *)
(* loop is over.  The states of the cameras are numbered: version is the   *)
(* number of the current one, and a job examines the one it was given.     *)
(***************************************************************************)
EXTENDS MonitorEvents, FiniteSets

CONSTANTS
    Points,
    PointOf,      \* the gate of each camera
    Concurrency,  \* concurrency
    MaxPending,   \* maxPending
    MaxEvents,    \* bound: events published in all
    MaxFaults     \* bound: failures, restarts and crashes

ASSUME PipelineAssumption ==
    /\ PointOf \in [Cameras -> Points]
    /\ Concurrency \in Nat \ {0}
    /\ MaxPending \in Nat \ {0}
    /\ MaxEvents \in Nat /\ MaxFaults \in Nat
    /\ IsFiniteSet(Cameras)

VARIABLES
    monitors,   \* MonitorManager.monitors: the cameras the service watches
    shown,      \* the monitors that show an observation
    version,    \* number of the state each camera shows
    examined,   \* history: the latest state of each camera that was examined
    failed,     \* history: cameras whose last job ended in an error
    published,  \* number of events ever published (for the bound)
    faults,     \* number of faults so far (for the bound)
    poll,       \* the long poll: its phase, its cursor, its answer
    cursor,     \* this.cursor
    overflow,   \* the queue overflowed since the last poll was sent
    inbox,      \* cameras the current callback has yet to enqueue
    pending,    \* this.pending, in insertion order
    jobs,       \* this.jobs: how far the job of each camera is
    got,        \* the state that a camera's job was given
    located,    \* keys of this.cameraPoints
    busyPoints, \* this.busyPoints
    repair,     \* this.running
    awaited,    \* the jobs that repair awaits
    stopped     \* this.stopped

service == <<feed, monitors, shown, version, published>>
history == <<examined, failed>>
queue == <<cursor, overflow, inbox, pending, jobs, got, located, busyPoints>>
repairs == <<repair, awaited>>
vars == <<service, history, faults, poll, queue, repairs, stopped>>

Phase == {"none", "asked", "answered", "processing"}
NoPoll(phase) == [phase |-> phase, cursor |-> None, batch |-> None]

Queued == {pending[k] : k \in 1 .. Len(pending)}
Running == {c \in Cameras : jobs[c] # "none"}

Fault == faults < MaxFaults /\ faults' = faults + 1

-----------------------------------------------------------------------------
(* The queue.                                                              *)

\* The queued cameras a job may start for: no job of theirs is running and
\* their gate, when it is known, is free.
Eligible(c) == jobs[c] = "none" /\ ~(c \in located /\ PointOf[c] \in busyPoints)

CanStart == ~stopped /\ Cardinality(Running) < Concurrency /\ \E c \in Queued : Eligible(c)

\* The thread is free for a callback: the loops are over and the poll is out.
Turn == inbox = {} /\ ~CanStart /\ (stopped \/ poll.phase # "idle")

\* pump: the first camera in line that may start.
Pump ==
    /\ CanStart
    /\ \E k \in 1 .. Len(pending) :
          /\ Eligible(pending[k]) /\ \A j \in 1 .. k - 1 : ~Eligible(pending[j])
          /\ jobs' = [jobs EXCEPT ![pending[k]] = "asked"]
          /\ pending' = SubSeq(pending, 1, k - 1) \o SubSeq(pending, k + 1, Len(pending))
    /\ UNCHANGED <<service, history, faults, poll, cursor, overflow, inbox, got, located, busyPoints,
                   repairs, stopped>>

\* Mutant: off by one.
HasRoomForOneMore == Len(pending) <= MaxPending

HasRoom == Len(pending) < MaxPending

\* enqueue: a queued camera stays in its place; a full queue asks for a resync.
Enqueue(c) ==
    /\ c \in inbox /\ ~CanStart
    /\ inbox' = inbox \ {c}
    /\ \/ c \in Queued /\ UNCHANGED <<pending, cursor, overflow>>
       \/ /\ c \notin Queued /\ HasRoom
          /\ pending' = Append(pending, c)
          /\ UNCHANGED <<cursor, overflow>>
       \/ /\ c \notin Queued /\ ~HasRoom
          /\ cursor' = None
          /\ overflow' = TRUE
          /\ UNCHANGED pending
    /\ UNCHANGED <<service, history, faults, poll, jobs, got, located, busyPoints, repairs, stopped>>

-----------------------------------------------------------------------------
(* The ANPR service.                                                       *)

Upsert(c) ==
    /\ c \notin monitors
    /\ monitors' = monitors \cup {c}
    /\ UNCHANGED <<feed, shown, version, published, history, faults, poll, queue, repairs, stopped>>

\* A monitor's state changes and is published.
Observe(c) ==
    /\ c \in monitors /\ published < MaxEvents
    /\ Publish(c)
    /\ published' = published + 1
    /\ shown' = shown \cup {c}
    /\ version' = [version EXCEPT ![c] = @ + 1]
    /\ failed' = failed \ {c}
    /\ UNCHANGED <<monitors, examined, faults, poll, queue, repairs, stopped>>

\* The states of the monitors die with their process, and so do the requests
\* it has not answered.
ServiceRestart ==
    /\ Fault
    /\ FeedRestart
    /\ monitors' = {} /\ shown' = {}
    /\ examined' = version
    /\ failed' = {}
    /\ poll' = IF poll.phase = "sent" THEN NoPoll("lost") ELSE poll
    /\ UNCHANGED <<version, published, queue, repairs, stopped>>

PollAnswer ==
    /\ poll.phase = "sent"
    /\ poll' = [poll EXCEPT !.phase = "answered", !.batch = Answer(poll.cursor, monitors)]
    /\ UNCHANGED <<service, history, faults, queue, repairs, stopped>>

\* GET /monitors/:id, the state at the moment of the answer.
JobAnswer(c) ==
    /\ jobs[c] = "asked" /\ c \in monitors
    /\ jobs' = [jobs EXCEPT ![c] = "answered"]
    /\ got' = [got EXCEPT ![c] = version[c]]
    /\ UNCHANGED <<service, history, faults, poll, cursor, overflow, inbox, pending, located,
                   busyPoints, repairs, stopped>>

-----------------------------------------------------------------------------
(* consumeEvents.                                                          *)

PollSend ==
    /\ poll.phase = "idle" /\ ~stopped /\ inbox = {} /\ ~CanStart
    /\ poll' = [NoPoll("sent") EXCEPT !.cursor = cursor]
    /\ overflow' = FALSE
    /\ UNCHANGED <<service, history, faults, cursor, inbox, pending, jobs, got, located, busyPoints,
                   repairs, stopped>>

\* The cursor moves on before the events are enqueued; a reset also starts a
\* repair, unless one is running.
PollApply ==
    /\ Turn /\ ~stopped /\ poll.phase = "answered"
    /\ cursor' = poll.batch.cursor
    /\ inbox' = poll.batch.events
    /\ repair' = IF poll.batch.reset /\ repair = "idle" THEN "listing" ELSE repair
    /\ poll' = NoPoll("idle")
    /\ UNCHANGED <<service, history, faults, overflow, pending, jobs, got, located, busyPoints,
                   awaited, stopped>>

\* The request or its answer is lost; the cursor stays where it was.
PollLose ==
    /\ Fault
    /\ poll.phase \in {"sent", "answered"}
    /\ poll' = NoPoll("lost")
    /\ UNCHANGED <<service, history, queue, repairs, stopped>>

PollRetry ==
    /\ Turn /\ ~stopped /\ poll.phase = "lost"
    /\ poll' = NoPoll("idle")
    /\ UNCHANGED <<service, history, faults, queue, repairs, stopped>>

-----------------------------------------------------------------------------
(* processCamera.                                                          *)

\* Mutant: the promise of a job that ended stays in what repair awaits.
JobEndUnawaited(c) ==
    /\ jobs' = [jobs EXCEPT ![c] = "none"]
    /\ UNCHANGED awaited

\* The job ends: the worker is free and the next callback is pump.
JobEnd(c) ==
    /\ jobs' = [jobs EXCEPT ![c] = "none"]
    /\ awaited' = awaited \ {c}

Forget(known, c) == IF c \in Queued THEN known ELSE known \ {c}

Examine(c) == examined' = [examined EXCEPT ![c] = IF got[c] > @ THEN got[c] ELSE @]

\* No usable observation, or the process is stopping.
JobIgnore(c) ==
    /\ Turn /\ jobs[c] = "answered"
    /\ JobEnd(c)
    /\ IF stopped THEN UNCHANGED examined ELSE Examine(c)
    /\ located' = Forget(located, c)
    /\ UNCHANGED <<service, failed, faults, poll, cursor, overflow, inbox, pending, got, busyPoints,
                   repair, stopped>>

\* Another camera of the gate is being processed: back to the queue.
JobRequeue(c) ==
    /\ Turn /\ ~stopped /\ jobs[c] = "answered" /\ PointOf[c] \in busyPoints
    /\ pending' = IF c \in Queued THEN pending ELSE Append(pending, c)
    /\ located' = located \cup {c}
    /\ JobEnd(c)
    /\ UNCHANGED <<service, history, faults, poll, cursor, overflow, inbox, got, busyPoints,
                   repair, stopped>>

\* The observation is in this.processed.
JobSkip(c) ==
    /\ Turn /\ ~stopped /\ jobs[c] = "answered" /\ PointOf[c] \notin busyPoints
    /\ JobEnd(c) /\ Examine(c)
    /\ located' = Forget(located \cup {c}, c)
    /\ UNCHANGED <<service, failed, faults, poll, cursor, overflow, inbox, pending, got, busyPoints,
                   repair, stopped>>

\* Mutant: the gate is not checked.
JobBeginUnchecked(c) ==
    /\ Turn /\ ~stopped /\ jobs[c] = "answered"
    /\ jobs' = [jobs EXCEPT ![c] = "processing"]
    /\ located' = located \cup {c}
    /\ busyPoints' = busyPoints \cup {PointOf[c]}
    /\ UNCHANGED <<service, history, faults, poll, cursor, overflow, inbox, pending, got, repairs,
                   stopped>>

JobBegin(c) ==
    /\ Turn /\ ~stopped /\ jobs[c] = "answered" /\ PointOf[c] \notin busyPoints
    /\ jobs' = [jobs EXCEPT ![c] = "processing"]
    /\ located' = located \cup {c}
    /\ busyPoints' = busyPoints \cup {PointOf[c]}
    /\ UNCHANGED <<service, history, faults, poll, cursor, overflow, inbox, pending, got, repairs,
                   stopped>>

\* processObservation returned.
JobDone(c) ==
    /\ Turn /\ jobs[c] = "processing"
    /\ JobEnd(c) /\ Examine(c)
    /\ busyPoints' = busyPoints \ {PointOf[c]}
    /\ located' = Forget(located, c)
    /\ UNCHANGED <<service, failed, faults, poll, cursor, overflow, inbox, pending, got, repair, stopped>>

\* The state could not be read, or processObservation threw.
JobFail(c) ==
    /\ Turn
    /\ \/ jobs[c] = "asked" /\ c \notin monitors /\ UNCHANGED <<faults, busyPoints>>
       \/ jobs[c] \in {"asked", "answered"} /\ Fault /\ UNCHANGED busyPoints
       \/ jobs[c] = "processing" /\ Fault /\ busyPoints' = busyPoints \ {PointOf[c]}
    /\ JobEnd(c)
    /\ failed' = failed \cup {c}
    /\ located' = Forget(located, c)
    /\ UNCHANGED <<service, examined, poll, cursor, overflow, inbox, pending, got, repair, stopped>>

-----------------------------------------------------------------------------
(* reconcile and repair.                                                   *)

\* The interval of 30 seconds.
Timer ==
    /\ Turn /\ ~stopped /\ repair = "idle"
    /\ repair' = "listing"
    /\ UNCHANGED <<service, history, faults, poll, queue, awaited, stopped>>

\* getActiveObservations skips the cameras whose request fails; the others
\* that show an observation are enqueued.  The code reads one camera after
\* another; here all are read at once, for a state that changes in between is
\* published, and a camera enqueued in vain has nothing usable (JobIgnore).
RepairList ==
    /\ Turn /\ repair = "listing"
    /\ \E skipped \in SUBSET shown :
          /\ IF skipped = {} THEN UNCHANGED faults ELSE Fault
          /\ inbox' = IF stopped THEN {} ELSE shown \ skipped
    /\ repair' = "draining"
    /\ UNCHANGED <<service, history, poll, cursor, overflow, pending, jobs, got, located, busyPoints,
                   awaited, stopped>>

\* while (!stopped && jobs.size) await Promise.all(jobs.values())
RepairDrain ==
    /\ Turn /\ repair = "draining" /\ awaited = {}
    /\ IF stopped \/ Running = {}
       THEN repair' = "idle" /\ UNCHANGED awaited
       ELSE awaited' = Running /\ UNCHANGED repair
    /\ UNCHANGED <<service, history, faults, poll, queue, stopped>>

-----------------------------------------------------------------------------
(* The process of the API stops, crashes and starts.                       *)

\* onModuleDestroy; the poll is aborted.
Stop ==
    /\ Turn /\ ~stopped
    /\ Fault
    /\ stopped' = TRUE
    /\ pending' = <<>>
    /\ poll' = NoPoll("idle")
    /\ UNCHANGED <<service, history, cursor, overflow, inbox, jobs, got, located, busyPoints, repairs>>

QueueInit ==
    /\ cursor = None /\ overflow = FALSE /\ inbox = {} /\ pending = <<>>
    /\ jobs = [c \in Cameras |-> "none"]
    /\ got = [c \in Cameras |-> 0]
    /\ located = {} /\ busyPoints = {}

Boot ==
    /\ poll' = NoPoll("idle")
    /\ cursor' = None /\ overflow' = FALSE /\ inbox' = {} /\ pending' = <<>>
    /\ jobs' = [c \in Cameras |-> "none"]
    /\ got' = [c \in Cameras |-> 0]
    /\ located' = {} /\ busyPoints' = {}
    /\ repair' = "idle" /\ awaited' = {}
    /\ stopped' = FALSE
    /\ UNCHANGED <<service, history>>

\* onModuleDestroy awaits the running repair and the jobs.
Reboot ==
    /\ stopped /\ Running = {} /\ repair = "idle"
    /\ UNCHANGED faults
    /\ Boot

Crash ==
    /\ Fault
    /\ Boot

-----------------------------------------------------------------------------

Init ==
    /\ FeedInit
    /\ monitors = {} /\ shown = {}
    /\ version = [c \in Cameras |-> 0]
    /\ examined = [c \in Cameras |-> 0]
    /\ failed = {}
    /\ published = 0 /\ faults = 0
    /\ poll = NoPoll("idle")
    /\ QueueInit
    /\ repair = "idle" /\ awaited = {}
    /\ stopped = FALSE

Poll == PollSend \/ PollAnswer \/ PollApply \/ PollRetry

Repair == Timer \/ RepairList \/ RepairDrain

Job(c) == JobAnswer(c) \/ JobIgnore(c) \/ JobRequeue(c) \/ JobSkip(c) \/ JobBegin(c) \/ JobDone(c)

Next ==
    \/ Pump \/ Poll \/ Repair \/ Reboot
    \/ \E c \in Cameras : Enqueue(c) \/ Job(c) \/ JobFail(c) \/ Upsert(c) \/ Observe(c)
    \/ ServiceRestart \/ PollLose \/ Stop \/ Crash

Spec == Init /\ [][Next]_vars

\* A synchronous loop ends; answers arrive; a callback that waits for the
\* thread gets it, for the callbacks run in the order in which they became
\* ready (Turn disables them in between, hence strong fairness).
Fairness ==
    /\ WF_vars(Pump) /\ WF_vars(Reboot)
    /\ SF_vars(Poll) /\ SF_vars(Repair)
    /\ \A c \in Cameras : WF_vars(Enqueue(c)) /\ SF_vars(Job(c) \/ JobFail(c))

FairSpec == Spec /\ Fairness /\ \A c \in Cameras : WF_vars(Upsert(c))

-----------------------------------------------------------------------------
(* Properties.                                                             *)

TypeOK ==
    /\ FeedTypeOK
    /\ monitors \subseteq Cameras /\ shown \subseteq monitors
    /\ version \in [Cameras -> Nat] /\ examined \in [Cameras -> Nat]
    /\ failed \subseteq Cameras
    /\ published \in Nat /\ faults \in Nat
    /\ poll \in [phase: {"idle", "sent", "answered", "lost"},
                 cursor: [epoch: Nat, position: Nat] \cup {None},
                 batch: Batch \cup {None}]
    /\ cursor \in [epoch: Nat, position: Nat] \cup {None}
    /\ overflow \in BOOLEAN
    /\ inbox \subseteq Cameras
    /\ pending \in Seq(Cameras)
    /\ jobs \in [Cameras -> Phase]
    /\ got \in [Cameras -> Nat]
    /\ located \subseteq Cameras
    /\ busyPoints \subseteq Points
    /\ repair \in {"idle", "listing", "draining"}
    /\ awaited \subseteq Cameras
    /\ stopped \in BOOLEAN

\* Something will still make the API look at the current state of c.
WakeUpDue(c) ==
    \/ c \in inbox \cup Queued
    \/ jobs[c] = "asked"
    \/ jobs[c] \in {"answered", "processing"} /\ got[c] = version[c]
    \/ c \in Named(cursor, monitors)
    \/ stopped   \* the next process starts without a cursor

\* With room for every camera in the queue, no state is silently lost: through
\* lost polls, forgotten events, restarts of either process and jobs that are
\* overtaken by newer events, the current state of a camera is examined or a
\* wake-up for it is on its way (or its job reported an error).
NoSilentLoss ==
    \A c \in Cameras : examined[c] < version[c] /\ c \notin failed => WakeUpDue(c)

\* Two cameras of a gate are never processed at once, so the second one sees
\* the movement of the first in its cooldown; a gate is busy only meanwhile.
OneJobPerPoint ==
    /\ \A c, d \in Cameras :
          jobs[c] = "processing" /\ jobs[d] = "processing" /\ PointOf[c] = PointOf[d] => c = d
    /\ busyPoints = {PointOf[c] : c \in {d \in Cameras : jobs[d] = "processing"}}

\* The queue may grow beyond maxPending, by requeued jobs, but never by more
\* than the number of workers; no camera is queued twice.
QueueBounded ==
    /\ Len(pending) + Cardinality(Running) <= MaxPending + Concurrency
    /\ Cardinality(Running) <= Concurrency
    /\ Cardinality(Queued) = Len(pending)

\* The pipeline implements GateAttention: a gate serves one camera at a time, and
\* every state that a camera shows is examined, or overtaken by a later one that
\* is, for repair makes up for jobs that failed and for events that were dropped.
Attention == INSTANCE GateAttention
                 WITH due <- {c \in Cameras : examined[c] < version[c]},
                      serving <- {c \in Cameras : jobs[c] = "processing"}

EveryStateAttended == Attention!FairSpec
=============================================================================
