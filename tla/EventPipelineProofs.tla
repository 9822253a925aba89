------------------------ MODULE EventPipelineProofs ------------------------
(***************************************************************************)
(* Proofs about EventPipeline, for any number of cameras, gates and        *)
(* workers and any bounds.                                                 *)
(***************************************************************************)
EXTENDS EventPipeline, FiniteSetTheorems, SequenceTheorems, TLAPS

-----------------------------------------------------------------------------
(* Types.                                                                  *)

\* An answer that has arrived and is not lost has been produced.
Answered == poll.phase = "answered" => poll.batch \in Batch

LEMMA NamedCameras ==
  ASSUME FeedTypeOK, monitors \subseteq Cameras, NEW cur
  PROVE  Named(cur, monitors) \in SUBSET Cameras
<1>1. \A k \in 1 .. Len(entries) : entries[k] \in Cameras
  BY DEF FeedTypeOK
<1> QED  BY <1>1 DEF Named

LEMMA PublishType ==
  ASSUME FeedTypeOK, NEW c \in Cameras, Publish(c)
  PROVE  FeedTypeOK'
<1> USE FeedAssumption DEF FeedTypeOK, Publish
<1>1. CASE Len(entries) < Capacity
  BY <1>1
<1>2. CASE ~(Len(entries) < Capacity)
  <2>1. entries # <<>>
    BY <1>2
  <2>2. Tail(entries) \in Seq(Cameras) /\ Len(Tail(entries)) = Len(entries) - 1
    BY <2>1, HeadTailProperties
  <2> QED  BY <1>2, <2>2
<1> QED  BY <1>1, <1>2

\* What pump leaves in the queue.
Without(k) == SubSeq(pending, 1, k - 1) \o SubSeq(pending, k + 1, Len(pending))

LEMMA WithoutProperties ==
  ASSUME pending \in Seq(Cameras), NEW k \in 1 .. Len(pending)
  PROVE  /\ Without(k) \in Seq(Cameras)
         /\ Len(Without(k)) = Len(pending) - 1
         /\ \A i \in 1 .. Len(pending) - 1 :
               Without(k)[i] = IF i < k THEN pending[i] ELSE pending[i + 1]
<1> DEFINE left == SubSeq(pending, 1, k - 1)
           right == SubSeq(pending, k + 1, Len(pending))
<1>0. Len(pending) \in Nat /\ \A i \in 1 .. Len(pending) : pending[i] \in Cameras
  OBVIOUS
<1>1. /\ left \in Seq(Cameras) /\ Len(left) = k - 1
      /\ \A i \in 1 .. k - 1 : left[i] = pending[i]
  <2>1. \A i \in 1 .. k - 1 : pending[i] \in Cameras
    BY <1>0
  <2> QED  BY <1>0, <2>1, SubSeqProperties
<1>2. /\ right \in Seq(Cameras) /\ Len(right) = Len(pending) - k
      /\ \A i \in 1 .. Len(pending) - k : right[i] = pending[k + i]
  <2>1. \A i \in k + 1 .. Len(pending) : pending[i] \in Cameras
    BY <1>0
  <2>2. /\ right \in Seq(Cameras)
        /\ Len(right) = IF k + 1 <= Len(pending) THEN Len(pending) - (k + 1) + 1 ELSE 0
        /\ \A i \in 1 .. Len(pending) - (k + 1) + 1 : right[i] = pending[k + 1 + i - 1]
    BY <1>0, <2>1, SubSeqProperties
  <2>3. \A i \in 1 .. Len(pending) - k : k + 1 + i - 1 = k + i
    OBVIOUS
  <2> QED  BY <1>0, <2>2, <2>3
<1> HIDE DEF left, right
<1>3. /\ left \o right \in Seq(Cameras)
      /\ Len(left \o right) = Len(left) + Len(right)
      /\ \A i \in 1 .. Len(left) + Len(right) :
            (left \o right)[i] = IF i <= Len(left) THEN left[i] ELSE right[i - Len(left)]
  BY <1>1, <1>2, ConcatProperties
<1>4. ASSUME NEW i \in 1 .. Len(pending) - 1
      PROVE  (left \o right)[i] = IF i < k THEN pending[i] ELSE pending[i + 1]
  <2>1. CASE i < k
    BY <1>0, <1>1, <1>2, <1>3, <2>1
  <2>2. CASE ~(i < k)
    <3>1. (left \o right)[i] = right[i - (k - 1)]
      BY <1>0, <1>1, <1>2, <1>3, <2>2
    <3>2. i - (k - 1) \in 1 .. Len(pending) - k /\ k + (i - (k - 1)) = i + 1
      BY <1>0, <2>2
    <3> QED  BY <1>2, <2>2, <3>1, <3>2
  <2> QED  BY <2>1, <2>2
<1>5. Without(k) = left \o right
  BY DEF Without, left, right
<1>6. Len(left) + Len(right) = Len(pending) - 1
  BY <1>0, <1>1, <1>2
<1> QED  BY <1>3, <1>4, <1>5, <1>6

\* The step of each action preserves the types.  Most actions leave most
\* variables alone.
LEMMA StepType ==
  ASSUME TypeOK, Answered, [Next]_vars
  PROVE  TypeOK' /\ Answered'
<1> USE PipelineAssumption, FeedAssumption DEF TypeOK, Answered, Phase, NoPoll, JobEnd, Forget, Fault
<1>1. CASE UNCHANGED vars
  BY <1>1 DEF vars, service, history, queue, repairs, feed, FeedTypeOK
<1>2. CASE Pump
  <2>1. PICK k \in 1 .. Len(pending) :
           jobs' = [jobs EXCEPT ![pending[k]] = "asked"] /\ pending' = Without(k)
    BY <1>2 DEF Pump, Without
  <2>2. pending' \in Seq(Cameras) /\ pending[k] \in Cameras
    BY <2>1, WithoutProperties
  <2> QED  BY <1>2, <2>1, <2>2 DEF Pump, service, history, repairs, feed, FeedTypeOK
<1>3. CASE PollSend
  BY <1>3 DEF PollSend, service, history, repairs, feed, FeedTypeOK
<1>4. CASE PollAnswer
  <2>1. Answer(poll.cursor, monitors) \in Batch
    BY NamedCameras DEF Answer, Batch, FeedTypeOK, Reset
  <2> QED  BY <1>4, <2>1 DEF PollAnswer, service, history, queue, repairs, feed, FeedTypeOK
<1>5. CASE PollApply
  BY <1>5 DEF PollApply, Batch, service, history, feed, FeedTypeOK
<1>6. CASE PollRetry
  BY <1>6 DEF PollRetry, service, history, queue, repairs, feed, FeedTypeOK
<1>7. CASE Timer
  BY <1>7 DEF Timer, service, history, queue, feed, FeedTypeOK
<1>8. CASE RepairList
  BY <1>8 DEF RepairList, service, history, feed, FeedTypeOK
<1>9. CASE RepairDrain
  BY <1>9 DEF RepairDrain, Running, service, history, queue, feed, FeedTypeOK
<1>10. ASSUME Boot, faults' \in Nat PROVE TypeOK' /\ Answered'
  <2>1. FeedTypeOK'
    BY <1>10 DEF Boot, service, feed, FeedTypeOK
  <2>2. /\ monitors' \subseteq Cameras /\ shown' \subseteq monitors'
        /\ version' \in [Cameras -> Nat] /\ examined' \in [Cameras -> Nat]
        /\ failed' \subseteq Cameras /\ published' \in Nat
    BY <1>10 DEF Boot, service, history
  <2>3. jobs' \in [Cameras -> Phase] /\ got' \in [Cameras -> Nat]
    BY <1>10 DEF Boot
  <2>4. pending' \in Seq(Cameras) /\ inbox' \subseteq Cameras /\ cursor' = None
    BY <1>10 DEF Boot
  <2> HIDE DEF Phase
  <2> QED  BY <1>10, <2>1, <2>2, <2>3, <2>4 DEF Boot
<1>11. ASSUME NEW c \in Cameras, Enqueue(c) PROVE TypeOK' /\ Answered'
  <2>1. pending' \in Seq(Cameras)
    <3>1. pending' = pending \/ pending' = Append(pending, c)
      BY <1>11 DEF Enqueue
    <3>2. Append(pending, c) \in Seq(Cameras)
      BY AppendProperties
    <3> QED  BY <3>1, <3>2
  <2>2. cursor' \in {None, cursor} /\ overflow' \in BOOLEAN
    BY <1>11 DEF Enqueue
  <2>3. FeedTypeOK'
    BY <1>11 DEF Enqueue, service, feed, FeedTypeOK
  <2> QED  BY <1>11, <2>1, <2>2, <2>3 DEF Enqueue, service, history, repairs
<1>12. ASSUME NEW c \in Cameras, JobAnswer(c) PROVE TypeOK' /\ Answered'
  BY <1>12 DEF JobAnswer, service, history, repairs, feed, FeedTypeOK
<1>13. ASSUME NEW c \in Cameras, JobIgnore(c) PROVE TypeOK' /\ Answered'
  BY <1>13 DEF JobIgnore, Examine, service, feed, FeedTypeOK
<1>14. ASSUME NEW c \in Cameras, JobRequeue(c) PROVE TypeOK' /\ Answered'
  BY <1>14 DEF JobRequeue, service, history, feed, FeedTypeOK
<1>15. ASSUME NEW c \in Cameras, JobSkip(c) PROVE TypeOK' /\ Answered'
  BY <1>15 DEF JobSkip, Examine, service, feed, FeedTypeOK
<1>16. ASSUME NEW c \in Cameras, JobBegin(c) PROVE TypeOK' /\ Answered'
  BY <1>16 DEF JobBegin, service, history, repairs, feed, FeedTypeOK
<1>17. ASSUME NEW c \in Cameras, JobDone(c) PROVE TypeOK' /\ Answered'
  BY <1>17 DEF JobDone, Examine, service, feed, FeedTypeOK
<1>18. ASSUME NEW c \in Cameras, JobFail(c) PROVE TypeOK' /\ Answered'
  BY <1>18 DEF JobFail, service, feed, FeedTypeOK
<1>19. ASSUME NEW c \in Cameras, Upsert(c) PROVE TypeOK' /\ Answered'
  BY <1>19 DEF Upsert, history, queue, repairs, feed, FeedTypeOK
<1>20. ASSUME NEW c \in Cameras, Observe(c) PROVE TypeOK' /\ Answered'
  <2>1. FeedTypeOK'
    BY <1>20, PublishType DEF Observe
  <2> QED  BY <1>20, <2>1 DEF Observe, queue, repairs
<1>21. CASE ServiceRestart
  <2>1. FeedTypeOK'
    BY <1>21 DEF ServiceRestart, FeedRestart, FeedTypeOK
  <2> QED  BY <1>21, <2>1 DEF ServiceRestart, queue, repairs
<1>22. CASE PollLose
  BY <1>22 DEF PollLose, service, history, queue, repairs, feed, FeedTypeOK
<1>23. CASE Stop
  BY <1>23 DEF Stop, service, history, repairs, feed, FeedTypeOK
<1>24. CASE Crash
  BY <1>10, <1>24 DEF Crash
<1>25. CASE Reboot
  BY <1>10, <1>25 DEF Reboot
<1> QED
  BY <1>1, <1>2, <1>3, <1>4, <1>5, <1>6, <1>7, <1>8, <1>9, <1>11, <1>12, <1>13, <1>14,
     <1>15, <1>16, <1>17, <1>18, <1>19, <1>20, <1>21, <1>22, <1>23, <1>24, <1>25
  DEF Next, Poll, Repair, Job

\* The service and the API start without jobs, events or answers.
LEMMA InitType == Init => TypeOK /\ Answered
<1> SUFFICES ASSUME Init PROVE TypeOK /\ Answered
  OBVIOUS
<1> USE PipelineAssumption, FeedAssumption DEF Init, FeedInit, QueueInit, NoPoll
<1>1. FeedTypeOK
  BY DEF FeedTypeOK
<1>2. /\ version \in [Cameras -> Nat] /\ examined \in [Cameras -> Nat]
      /\ jobs \in [Cameras -> Phase] /\ got \in [Cameras -> Nat]
  BY DEF Phase
<1>3. pending \in Seq(Cameras)
  OBVIOUS
<1> QED  BY <1>1, <1>2, <1>3 DEF TypeOK, Answered

-----------------------------------------------------------------------------
(* One job per gate.                                                       *)

\* The cameras of jobs that changed hands since the last state.
LEMMA StepPoints ==
  ASSUME TypeOK, OneJobPerPoint, [Next]_vars
  PROVE  OneJobPerPoint'
<1> USE PipelineAssumption DEF TypeOK, OneJobPerPoint, Phase
<1>1. ASSUME UNCHANGED <<jobs, busyPoints>> PROVE OneJobPerPoint'
  BY <1>1
\* A job that is not processing moves to another phase.
<1>2. ASSUME NEW c \in Cameras, jobs[c] # "processing",
             NEW phase \in Phase, phase # "processing",
             jobs' = [jobs EXCEPT ![c] = phase], UNCHANGED busyPoints
      PROVE  OneJobPerPoint'
  <2>1. \A d \in Cameras : jobs'[d] = "processing" <=> jobs[d] = "processing"
    BY <1>2
  <2> QED  BY <1>2, <2>1
\* A job that was processing ends and frees its gate.
<1>3. ASSUME NEW c \in Cameras, jobs[c] = "processing",
             jobs' = [jobs EXCEPT ![c] = "none"], busyPoints' = busyPoints \ {PointOf[c]}
      PROVE  OneJobPerPoint'
  <2>1. \A d \in Cameras : jobs'[d] = "processing" <=> jobs[d] = "processing" /\ d # c
    BY <1>3
  <2> QED  BY <1>3, <2>1
<1>4. ASSUME NEW c \in Cameras, JobBegin(c) PROVE OneJobPerPoint'
  <2>1. \A d \in Cameras : jobs'[d] = "processing" <=> jobs[d] = "processing" \/ d = c
    BY <1>4 DEF JobBegin
  <2>2. busyPoints' = busyPoints \cup {PointOf[c]} /\ PointOf[c] \notin busyPoints
    BY <1>4 DEF JobBegin
  <2>3. \A d \in Cameras : jobs[d] = "processing" => PointOf[d] \in busyPoints
    OBVIOUS
  <2>4. \A d, e \in Cameras :
           jobs'[d] = "processing" /\ jobs'[e] = "processing" /\ PointOf[d] = PointOf[e] => d = e
    BY <2>1, <2>2, <2>3
  <2>5. busyPoints' = {PointOf[d] : d \in {e \in Cameras : jobs'[e] = "processing"}}
    BY <2>1, <2>2
  <2> QED  BY <2>4, <2>5
<1>5. CASE Pump
  <2>1. PICK k \in 1 .. Len(pending) :
           jobs[pending[k]] = "none" /\ jobs' = [jobs EXCEPT ![pending[k]] = "asked"]
    BY <1>5 DEF Pump, Eligible
  <2>2. pending[k] \in Cameras /\ UNCHANGED busyPoints
    BY <1>5, <2>1 DEF Pump
  <2> QED  BY <1>2, <2>1, <2>2
<1>6. ASSUME Boot PROVE OneJobPerPoint'
  BY <1>6 DEF Boot
<1>7. ASSUME NEW c \in Cameras, JobAnswer(c) PROVE OneJobPerPoint'
  BY <1>2, <1>7 DEF JobAnswer
<1>8. ASSUME NEW c \in Cameras, JobIgnore(c) \/ JobRequeue(c) \/ JobSkip(c) PROVE OneJobPerPoint'
  BY <1>2, <1>8 DEF JobIgnore, JobRequeue, JobSkip, JobEnd
<1>9. ASSUME NEW c \in Cameras, JobDone(c) PROVE OneJobPerPoint'
  BY <1>3, <1>9 DEF JobDone, JobEnd
<1>10. ASSUME NEW c \in Cameras, JobFail(c) PROVE OneJobPerPoint'
  BY <1>2, <1>3, <1>10 DEF JobFail, JobEnd
<1>11. CASE \/ PollSend \/ PollAnswer \/ PollApply \/ PollRetry \/ PollLose
            \/ Timer \/ RepairList \/ RepairDrain \/ ServiceRestart \/ Stop
  BY <1>1, <1>11
  DEF PollSend, PollAnswer, PollApply, PollRetry, PollLose, Timer, RepairList, RepairDrain,
      ServiceRestart, Stop, queue
<1>12. ASSUME NEW c \in Cameras, Enqueue(c) \/ Upsert(c) \/ Observe(c) PROVE OneJobPerPoint'
  BY <1>1, <1>12 DEF Enqueue, Upsert, Observe, queue
<1>13. CASE UNCHANGED vars
  BY <1>1, <1>13 DEF vars, queue
<1> QED
  BY <1>4, <1>5, <1>6, <1>7, <1>8, <1>9, <1>10, <1>11, <1>12, <1>13
  DEF Next, Poll, Repair, Job, Reboot, Crash

-----------------------------------------------------------------------------
(* The length of the queue.                                                *)

\* No camera stands in the queue twice.
Distinct == \A i, j \in 1 .. Len(pending) : pending[i] = pending[j] => i = j

\* A queued camera that is requeued takes the place of its running job, hence
\* the sum of both counts.
QueueInv ==
    /\ Distinct
    /\ Len(pending) + Cardinality(Running) <= MaxPending + Concurrency
    /\ Cardinality(Running) <= Concurrency

LEMMA FiniteRunning == IsFiniteSet(Running) /\ Cardinality(Running) \in Nat
<1>1. Running \in SUBSET Cameras
  BY DEF Running
<1> QED  BY <1>1, PipelineAssumption, FS_Subset, FS_CardinalityType

LEMMA QueuedCount ==
  ASSUME pending \in Seq(Cameras), Distinct
  PROVE  Cardinality(Queued) = Len(pending)
<1> DEFINE place == [k \in 1 .. Len(pending) |-> pending[k]]
<1>1. Len(pending) \in Nat
  OBVIOUS
<1>2. IsFiniteSet(1 .. Len(pending)) /\ Cardinality(1 .. Len(pending)) = Len(pending)
  BY <1>1, FS_Interval
<1>3. place \in Surjection(1 .. Len(pending), Queued)
  BY DEF Queued, Surjection
<1>4. place \in Injection(1 .. Len(pending), Queued)
  BY <1>3 DEF Surjection, Injection, IsInjective, Distinct
<1> HIDE DEF place
<1> QED  BY <1>1, <1>2, <1>3, <1>4, FS_Surjection

\* A job that changes its phase is still running.
LEMMA SameRunning ==
  ASSUME jobs \in [Cameras -> Phase], NEW c \in Cameras, jobs[c] # "none",
         NEW phase, phase # "none", jobs' = [jobs EXCEPT ![c] = phase]
  PROVE  Running' = Running
BY DEF Running

LEMMA LessRunning ==
  ASSUME jobs \in [Cameras -> Phase], NEW c \in Cameras, jobs[c] # "none",
         jobs' = [jobs EXCEPT ![c] = "none"]
  PROVE  /\ Cardinality(Running)' = Cardinality(Running) - 1
         /\ Cardinality(Running) \in Nat
<1>1. Running' = Running \ {c} /\ c \in Running
  BY DEF Running
<1>2. Cardinality(Running \ {c}) = Cardinality(Running) - 1
  BY <1>1, FiniteRunning, FS_RemoveElement
<1> QED  BY <1>1, <1>2, FiniteRunning

LEMMA MoreRunning ==
  ASSUME jobs \in [Cameras -> Phase], NEW c \in Cameras, jobs[c] = "none",
         jobs' = [jobs EXCEPT ![c] = "asked"]
  PROVE  /\ Cardinality(Running)' = Cardinality(Running) + 1
         /\ Cardinality(Running) \in Nat
<1>1. Running' = Running \cup {c} /\ c \notin Running
  BY DEF Running
<1>2. Cardinality(Running \cup {c}) = Cardinality(Running) + 1
  BY <1>1, FiniteRunning, FS_AddElement
<1> QED  BY <1>1, <1>2, FiniteRunning

LEMMA DistinctAppend ==
  ASSUME pending \in Seq(Cameras), Distinct, NEW c \in Cameras, c \notin Queued,
         pending' = Append(pending, c)
  PROVE  Distinct' /\ Len(pending') = Len(pending) + 1
<1>1. /\ Len(pending') = Len(pending) + 1
      /\ \A i \in 1 .. Len(pending) : pending'[i] = pending[i] /\ pending[i] # c
      /\ pending'[Len(pending) + 1] = c
  BY AppendProperties DEF Queued
<1> QED  BY <1>1 DEF Distinct

LEMMA DistinctWithout ==
  ASSUME pending \in Seq(Cameras), Distinct, NEW k \in 1 .. Len(pending),
         pending' = Without(k)
  PROVE  Distinct' /\ Len(pending') = Len(pending) - 1
<1>1. /\ Len(pending') = Len(pending) - 1
      /\ \A i \in 1 .. Len(pending) - 1 :
            pending'[i] = IF i < k THEN pending[i] ELSE pending[i + 1]
  BY WithoutProperties
<1>2. ASSUME NEW i \in 1 .. Len(pending'), NEW j \in 1 .. Len(pending'),
             pending'[i] = pending'[j]
      PROVE  i = j
  <2> DEFINE old(n) == IF n < k THEN n ELSE n + 1
  <2>1. \A n \in 1 .. Len(pending) - 1 :
           old(n) \in 1 .. Len(pending) /\ pending'[n] = pending[old(n)]
    BY <1>1
  <2>2. old(i) = old(j)
    BY <1>1, <1>2, <2>1 DEF Distinct
  <2> QED  BY <1>1, <2>2
<1> QED  BY <1>1, <1>2 DEF Distinct

LEMMA StepQueue ==
  ASSUME TypeOK, QueueInv, [Next]_vars
  PROVE  QueueInv'
<1>0. /\ Concurrency \in Nat \ {0} /\ MaxPending \in Nat \ {0}
      /\ Len(pending) \in Nat /\ Cardinality(Running) \in Nat
      /\ pending \in Seq(Cameras) /\ jobs \in [Cameras -> Phase]
  BY PipelineAssumption, FiniteRunning DEF TypeOK
<1>1. ASSUME UNCHANGED <<jobs, pending>> PROVE QueueInv'
  BY <1>1 DEF QueueInv, Distinct, Running
\* A job ends and its camera is not queued again.
<1>2. ASSUME NEW c \in Cameras, jobs[c] # "none", jobs' = [jobs EXCEPT ![c] = "none"],
             UNCHANGED pending
      PROVE  QueueInv'
  <2>1. Cardinality(Running)' = Cardinality(Running) - 1
    BY <1>0, <1>2, LessRunning
  <2>2. Distinct'
    BY <1>2 DEF QueueInv, Distinct
  <2> QED  BY <1>0, <1>2, <2>1, <2>2 DEF QueueInv
<1>3. ASSUME NEW c \in Cameras, JobAnswer(c) \/ JobBegin(c) PROVE QueueInv'
  <2>1. PICK phase \in {"answered", "processing"} :
           jobs[c] # "none" /\ jobs' = [jobs EXCEPT ![c] = phase]
    BY <1>3 DEF JobAnswer, JobBegin
  <2>2. Running' = Running
    BY <1>0, <2>1, SameRunning
  <2>3. UNCHANGED pending
    BY <1>3 DEF JobAnswer, JobBegin
  <2> QED  BY <2>2, <2>3 DEF QueueInv, Distinct
<1>4. CASE Pump
  <2>1. PICK k \in 1 .. Len(pending) :
           /\ jobs[pending[k]] = "none" /\ jobs' = [jobs EXCEPT ![pending[k]] = "asked"]
           /\ pending' = Without(k)
    BY <1>4 DEF Pump, Eligible, Without
  <2>2. Distinct' /\ Len(pending') = Len(pending) - 1
    BY <1>0, <2>1, DistinctWithout DEF QueueInv
  <2>3. pending[k] \in Cameras
    BY <1>0
  <2>4. Cardinality(Running)' = Cardinality(Running) + 1
    BY <1>0, <2>1, <2>3, MoreRunning
  <2>5. Cardinality(Running) < Concurrency
    BY <1>4 DEF Pump, CanStart
  <2> QED  BY <1>0, <2>2, <2>4, <2>5 DEF QueueInv
<1>5. ASSUME NEW c \in Cameras, Enqueue(c) PROVE QueueInv'
  <2>1. UNCHANGED jobs
    BY <1>5 DEF Enqueue
  <2>2. CASE UNCHANGED pending
    BY <1>1, <2>1, <2>2
  <2>3. CASE c \notin Queued /\ HasRoom /\ pending' = Append(pending, c)
    <3>1. Distinct' /\ Len(pending') = Len(pending) + 1
      BY <1>0, <2>3, DistinctAppend DEF QueueInv
    <3>2. Running' = Running
      BY <2>1 DEF Running
    <3> QED  BY <1>0, <2>3, <3>1, <3>2 DEF QueueInv, HasRoom
  <2> QED  BY <1>5, <2>2, <2>3 DEF Enqueue
<1>6. ASSUME NEW c \in Cameras, JobRequeue(c) PROVE QueueInv'
  <2>1. jobs[c] # "none" /\ jobs' = [jobs EXCEPT ![c] = "none"]
    BY <1>6 DEF JobRequeue, JobEnd
  <2>2. CASE c \in Queued
    BY <1>2, <1>6, <2>1, <2>2 DEF JobRequeue
  <2>3. CASE c \notin Queued
    <3>1. pending' = Append(pending, c)
      BY <1>6, <2>3 DEF JobRequeue
    <3>2. Distinct' /\ Len(pending') = Len(pending) + 1
      BY <1>0, <2>3, <3>1, DistinctAppend DEF QueueInv
    <3>3. Cardinality(Running)' = Cardinality(Running) - 1
      BY <1>0, <2>1, LessRunning
    <3> QED  BY <1>0, <3>2, <3>3 DEF QueueInv
  <2> QED  BY <2>2, <2>3
<1>7. ASSUME NEW c \in Cameras, JobIgnore(c) \/ JobSkip(c) \/ JobDone(c) \/ JobFail(c) PROVE QueueInv'
  <2>1. jobs[c] # "none" /\ jobs' = [jobs EXCEPT ![c] = "none"] /\ UNCHANGED pending
    BY <1>7 DEF JobIgnore, JobSkip, JobDone, JobFail, JobEnd
  <2> QED  BY <1>2, <2>1
\* The process stops or starts.
<1>8. ASSUME pending' = <<>>, UNCHANGED jobs PROVE QueueInv'
  <2>1. Running' = Running
    BY <1>8 DEF Running
  <2> QED  BY <1>0, <1>8, <2>1 DEF QueueInv, Distinct
<1>9. ASSUME Boot PROVE QueueInv'
  <2>1. pending' = <<>> /\ Running' = {}
    BY <1>9 DEF Boot, Running
  <2> QED  BY <1>0, <2>1, FS_EmptySet DEF QueueInv, Distinct
<1>10. CASE \/ PollSend \/ PollAnswer \/ PollApply \/ PollRetry \/ PollLose
            \/ Timer \/ RepairList \/ RepairDrain \/ ServiceRestart
  BY <1>1, <1>10
  DEF PollSend, PollAnswer, PollApply, PollRetry, PollLose, Timer, RepairList, RepairDrain,
      ServiceRestart, queue
<1>11. ASSUME NEW c \in Cameras, Upsert(c) \/ Observe(c) PROVE QueueInv'
  BY <1>1, <1>11 DEF Upsert, Observe, queue
<1>12. CASE Stop
  BY <1>8, <1>12 DEF Stop
<1>13. CASE UNCHANGED vars
  BY <1>1, <1>13 DEF vars, queue
<1> QED
  BY <1>3, <1>4, <1>5, <1>6, <1>7, <1>9, <1>10, <1>11, <1>12, <1>13
  DEF Next, Poll, Repair, Job, Reboot, Crash

-----------------------------------------------------------------------------
(* No state is silently lost.                                              *)

\* The premise of NoSilentLoss: the queue never overflows.
RoomForAll == Cardinality(Cameras) <= MaxPending

\* The service has issued the cursor: it names no event of the future.
Issued(cur) ==
    \/ cur = None
    \/ cur.epoch < epoch
    \/ cur.epoch = epoch /\ cur.position <= sequence

Unseen(c) == examined[c] < version[c] /\ c \notin failed

\* WakeUpDue without the events that the next poll will bring.
InHand(c) ==
    \/ c \in inbox \cup Queued
    \/ jobs[c] = "asked"
    \/ jobs[c] \in {"answered", "processing"} /\ got[c] = version[c]
    \/ stopped

\* What is to be examined is monitored, so a poll without a cursor names it.
Monitored ==
    /\ \A k \in 1 .. Len(entries) : entries[k] \in monitors
    /\ \A c \in Cameras : examined[c] < version[c] => c \in monitors

CursorsIssued ==
    /\ Issued(cursor)
    /\ poll.phase \in {"sent", "answered"} => poll.cursor = cursor
    /\ poll.phase = "answered" => Issued(poll.batch.cursor)

Covered(names) == \A c \in Cameras : Unseen(c) => InHand(c) \/ c \in names

\* An answer on its way, applied, loses nothing: what it does not name is
\* named by the cursor that it brings.
AnswerCovers ==
    poll.phase = "answered" => Covered(poll.batch.events \cup Named(poll.batch.cursor, monitors))

DeliveryInv == Monitored /\ CursorsIssued /\ Covered(Named(cursor, monitors)) /\ AnswerCovers

LEMMA CoveredMeansDue == Covered(Named(cursor, monitors)) <=> NoSilentLoss
BY DEF Covered, NoSilentLoss, WakeUpDue, Unseen, InHand

Position == [epoch: Nat, position: Nat]

LEMMA PublishNames ==
  ASSUME FeedTypeOK, Monitored, NEW cur \in Position \cup {None}, Issued(cur),
         NEW c \in Cameras, c \in monitors, Publish(c), UNCHANGED monitors
  PROVE  Issued(cur)' /\ Named(cur, monitors) \cup {c} \subseteq Named(cur, monitors)'
<1> USE FeedAssumption DEF FeedTypeOK, Position
<1>0. sequence' = sequence + 1 /\ epoch' = epoch
  BY DEF Publish
<1>1. Issued(cur)'
  BY <1>0 DEF Issued
<1>2. CASE Reset(cur)'
  <2>1. Named(cur, monitors)' = monitors
    BY <1>2 DEF Named
  <2>2. Named(cur, monitors) \subseteq monitors
    BY DEF Named, Monitored
  <2> QED  BY <1>1, <2>1, <2>2
<1>3. CASE ~Reset(cur)'
  <2>1. /\ cur # None /\ cur \in Position /\ cur.epoch = epoch
        /\ cur.position \in Nat /\ cur.position <= sequence
        /\ cur.position + Len(entries') >= sequence + 1
    BY <1>0, <1>3, PublishType DEF Reset, Issued
  <2>2. Named(cur, monitors)' =
          {entries'[k] : k \in {j \in 1 .. Len(entries') :
                                  sequence + 1 - Len(entries') + j > cur.position}}
    BY <1>0, <1>3 DEF Named, Number
  <2>3. CASE Len(entries) < Capacity
    <3>1. /\ Len(entries') = Len(entries) + 1
          /\ \A k \in 1 .. Len(entries) : entries'[k] = entries[k]
          /\ entries'[Len(entries) + 1] = c
      BY <2>3, AppendProperties DEF Publish
    <3>2. ~Reset(cur)
      BY <2>1, <3>1 DEF Reset
    <3>3. ASSUME NEW k \in 1 .. Len(entries), Number(k) > cur.position
          PROVE  entries[k] \in Named(cur, monitors)'
      <4>1. k \in 1 .. Len(entries') /\ sequence + 1 - Len(entries') + k > cur.position
        BY <2>1, <3>1, <3>3 DEF Number
      <4> QED  BY <2>2, <3>1, <4>1
    <3>4. c \in Named(cur, monitors)'
      <4>1. /\ Len(entries') \in 1 .. Len(entries')
            /\ sequence + 1 - Len(entries') + Len(entries') > cur.position
        BY <2>1, <3>1
      <4> QED  BY <2>2, <3>1, <4>1
    <3> QED  BY <1>1, <3>2, <3>3, <3>4 DEF Named
  <2>4. CASE ~(Len(entries) < Capacity)
    <3>1. entries # <<>> /\ entries' = Append(Tail(entries), c)
      BY <2>4 DEF Publish
    <3>2. /\ Tail(entries) \in Seq(Cameras) /\ Len(Tail(entries)) = Len(entries) - 1
          /\ \A k \in 1 .. Len(entries) - 1 : Tail(entries)[k] = entries[k + 1]
      BY <3>1, HeadTailProperties
    <3>3. /\ Len(entries') = Len(entries)
          /\ \A k \in 1 .. Len(entries) - 1 : entries'[k] = entries[k + 1]
          /\ entries'[Len(entries)] = c
      BY <3>1, <3>2, AppendProperties
    <3>4. ~Reset(cur)
      BY <2>1, <3>3 DEF Reset
    <3>5. ASSUME NEW k \in 1 .. Len(entries), Number(k) > cur.position
          PROVE  entries[k] \in Named(cur, monitors)'
      <4>1. k - 1 \in 1 .. Len(entries) - 1
        BY <2>1, <3>3, <3>5 DEF Number
      <4>2. sequence + 1 - Len(entries') + (k - 1) > cur.position
        BY <2>1, <3>3, <3>5 DEF Number
      <4>3. entries'[k - 1] = entries[k]
        BY <3>3, <4>1
      <4> QED  BY <2>2, <3>3, <4>1, <4>2, <4>3
    <3>6. c \in Named(cur, monitors)'
      <4>1. /\ Len(entries') \in 1 .. Len(entries')
            /\ sequence + 1 - Len(entries') + Len(entries') > cur.position
        BY <2>1, <3>1, <3>3
      <4> QED  BY <2>2, <3>3, <4>1
    <3> QED  BY <1>1, <3>4, <3>5, <3>6 DEF Named
  <2> QED  BY <2>3, <2>4
<1> QED  BY <1>2, <1>3

LEMMA RoomWhenMissing ==
  ASSUME TypeOK, QueueInv, RoomForAll, NEW c \in Cameras, c \notin Queued
  PROVE  HasRoom
<1>1. Queued \in SUBSET (Cameras \ {c})
  BY DEF Queued, TypeOK
<1>2. /\ IsFiniteSet(Cameras \ {c})
      /\ Cardinality(Cameras \ {c}) = Cardinality(Cameras) - 1
      /\ Cardinality(Cameras) \in Nat
  BY PipelineAssumption, FS_RemoveElement, FS_CardinalityType
<1>3. Cardinality(Queued) <= Cardinality(Cameras \ {c})
  BY <1>1, <1>2, FS_Subset
<1>4. Cardinality(Queued) = Len(pending) /\ Len(pending) \in Nat
  BY QueuedCount DEF TypeOK, QueueInv
<1> QED  BY <1>2, <1>3, <1>4, PipelineAssumption DEF RoomForAll, HasRoom

\* A step within the API: what is still unseen stays in hand.
Progress ==
    \A c \in Cameras :
       /\ examined'[c] < version'[c] => examined[c] < version[c]
       /\ Unseen(c)' => Unseen(c) /\ (InHand(c) => InHand(c)')

LEMMA ProgressSuffices ==
  ASSUME DeliveryInv, Progress, UNCHANGED <<feed, monitors, version, cursor>>,
         poll' = poll \/ poll'.phase \notin {"sent", "answered"}
  PROVE  DeliveryInv'
<1> USE DEF feed
<1>1. \A cur : Named(cur, monitors)' = Named(cur, monitors) /\ (Issued(cur)' <=> Issued(cur))
  BY DEF Named, Reset, Number, Issued
<1>2. Monitored'
  BY DEF DeliveryInv, Monitored, Progress
<1>3. CursorsIssued'
  BY <1>1 DEF DeliveryInv, CursorsIssued, Issued
<1>4. \A names : Covered(names) => \A c \in Cameras : Unseen(c)' => InHand(c)' \/ c \in names
  BY DEF Covered, Progress
<1>5. Covered(Named(cursor, monitors))'
  BY <1>1, <1>4 DEF Covered, DeliveryInv
<1>6. AnswerCovers'
  BY <1>1, <1>4 DEF Covered, DeliveryInv, AnswerCovers
<1> QED  BY <1>2, <1>3, <1>5, <1>6 DEF DeliveryInv

LEMMA PumpProgress ==
  ASSUME TypeOK, Pump
  PROVE  Progress
<1>1. PICK k \in 1 .. Len(pending) :
         /\ jobs[pending[k]] = "none" /\ jobs' = [jobs EXCEPT ![pending[k]] = "asked"]
         /\ pending' = Without(k)
  BY DEF Pump, Eligible, Without
<1>2. \A d \in Queued : d # pending[k] => d \in Queued'
  <2> SUFFICES ASSUME NEW j \in 1 .. Len(pending), pending[j] # pending[k]
               PROVE  pending[j] \in Queued'
    BY DEF Queued
  <2>1. /\ Len(pending') = Len(pending) - 1 /\ Len(pending) \in Nat
        /\ \A i \in 1 .. Len(pending) - 1 :
              pending'[i] = IF i < k THEN pending[i] ELSE pending[i + 1]
    <3>1. pending \in Seq(Cameras)
      BY DEF TypeOK
    <3>2. pending' = Without(k)
      BY <1>1
    <3>3. k \in 1 .. Len(pending)
      OBVIOUS
    <3>4. Len(pending) \in Nat
      BY <3>1
    <3>5. Len(Without(k)) = Len(pending) - 1
          /\ \A i \in 1 .. Len(pending) - 1 :
                Without(k)[i] = IF i < k THEN pending[i] ELSE pending[i + 1]
      BY <3>1, <3>3, WithoutProperties
    <3> QED  BY <3>2, <3>4, <3>5
  <2>2. CASE j < k
    <3>1. j \in 1 .. Len(pending') /\ pending'[j] = pending[j]
      BY <2>1, <2>2
    <3> QED  BY <3>1 DEF Queued
  <2>3. CASE ~(j < k)
    <3>1. j # k
      OBVIOUS
    <3>2. j - 1 \in 1 .. Len(pending') /\ pending'[j - 1] = pending[j]
      BY <2>1, <2>3, <3>1
    <3> QED  BY <3>2 DEF Queued
  <2> QED  BY <2>2, <2>3
<1>3. jobs'[pending[k]] = "asked" /\ \A d \in Cameras : d # pending[k] => jobs'[d] = jobs[d]
  BY <1>1 DEF TypeOK
<1>4. UNCHANGED <<examined, version, failed, got, inbox, stopped>>
  BY DEF Pump, service, history
<1> QED  BY <1>2, <1>3, <1>4 DEF Progress, Unseen, InHand

LEMMA AppendQueued ==
  ASSUME pending \in Seq(Cameras), NEW c \in Cameras, pending' = Append(pending, c)
  PROVE  Queued' = Queued \cup {c}
<1>1. /\ Len(pending) \in Nat /\ Len(pending') = Len(pending) + 1
      /\ \A i \in 1 .. Len(pending) : pending'[i] = pending[i]
      /\ pending'[Len(pending) + 1] = c
  BY AppendProperties
<1>2. ASSUME NEW d \in Queued PROVE d \in Queued'
  <2>1. PICK i \in 1 .. Len(pending) : d = pending[i]
    BY <1>2 DEF Queued
  <2>2. i \in 1 .. Len(pending') /\ d = pending'[i]
    BY <1>1, <2>1
  <2> QED  BY <2>2 DEF Queued
<1>3. c \in Queued'
  <2>1. Len(pending) + 1 \in 1 .. Len(pending')
    BY <1>1
  <2> QED  BY <1>1, <2>1 DEF Queued
<1>4. ASSUME NEW d \in Queued' PROVE d \in Queued \cup {c}
  <2>1. PICK i \in 1 .. Len(pending') : d = pending'[i]
    BY <1>4 DEF Queued
  <2>2. i \in 1 .. Len(pending) \/ i = Len(pending) + 1
    BY <1>1, <2>1
  <2> QED  BY <1>1, <2>1, <2>2 DEF Queued
<1> QED  BY <1>2, <1>3, <1>4

\* A job ends with its state examined, with an error, or back in the queue.
LEMMA JobProgress ==
  ASSUME TypeOK, NEW c \in Cameras,
         \/ JobAnswer(c) \/ JobIgnore(c) \/ JobRequeue(c) \/ JobSkip(c) \/ JobBegin(c)
         \/ JobDone(c) \/ JobFail(c)
  PROVE  Progress
<1> USE DEF TypeOK, Phase
\* The other jobs, and the queue.
<1>1. /\ \A d \in Cameras : d # c => jobs'[d] = jobs[d]
      /\ \A d \in Cameras : d # c => got'[d] = got[d]
      /\ \A d \in Cameras : d # c => examined'[d] = examined[d]
      /\ \A d \in Cameras : d # c => (d \in failed' <=> d \in failed)
      /\ UNCHANGED <<version, inbox, stopped>>
  <2>1. \A d \in Cameras : d # c => jobs'[d] = jobs[d]
    BY DEF JobAnswer, JobIgnore, JobRequeue, JobSkip, JobBegin, JobDone, JobFail, JobEnd
  <2>2. \A d \in Cameras : d # c => got'[d] = got[d]
    BY DEF JobAnswer, JobIgnore, JobRequeue, JobSkip, JobBegin, JobDone, JobFail
  <2>3. \A d \in Cameras : d # c => examined'[d] = examined[d]
    BY DEF JobAnswer, JobIgnore, JobRequeue, JobSkip, JobBegin, JobDone, JobFail, Examine, history
  <2>4. failed' = failed \/ failed' = failed \cup {c}
    BY DEF JobAnswer, JobIgnore, JobRequeue, JobSkip, JobBegin, JobDone, JobFail, history
  <2>5. UNCHANGED <<version, inbox, stopped>>
    BY DEF JobAnswer, JobIgnore, JobRequeue, JobSkip, JobBegin, JobDone, JobFail, service
  <2> QED  BY <2>1, <2>2, <2>3, <2>4, <2>5
<1>2. Queued \subseteq Queued'
  <2>1. pending' = pending \/ pending' = Append(pending, c)
    BY DEF JobAnswer, JobIgnore, JobRequeue, JobSkip, JobBegin, JobDone, JobFail
  <2>2. CASE UNCHANGED pending
    BY <2>2 DEF Queued
  <2>3. CASE pending' = Append(pending, c)
    BY <2>3, AppendQueued
  <2> QED  BY <2>1, <2>2, <2>3
<1>3. examined'[c] >= examined[c] /\ examined[c] \in Nat /\ examined'[c] \in Nat /\ version[c] \in Nat
  BY DEF JobAnswer, JobIgnore, JobRequeue, JobSkip, JobBegin, JobDone, JobFail, Examine, service, history
<1>4. Unseen(c)' => Unseen(c)
  <2>1. c \in failed => c \in failed'
    BY DEF JobAnswer, JobIgnore, JobRequeue, JobSkip, JobBegin, JobDone, JobFail, history
  <2> QED  BY <1>1, <1>3, <2>1 DEF Unseen
\* It is enough to look at the camera of the job.
<1>5. ASSUME Unseen(c)' /\ InHand(c) => InHand(c)' PROVE Progress
  <2>1. examined'[c] < version'[c] => examined[c] < version[c]
    BY <1>1, <1>3
  <2>2. ASSUME NEW d \in Cameras, d # c
        PROVE  /\ examined'[d] < version'[d] => examined[d] < version[d]
               /\ Unseen(d)' => Unseen(d)
               /\ InHand(d) => InHand(d)'
    <3>1. /\ jobs'[d] = jobs[d] /\ got'[d] = got[d] /\ examined'[d] = examined[d]
          /\ d \in failed' <=> d \in failed
          /\ version' = version /\ inbox' = inbox /\ stopped' = stopped
      BY <1>1, <2>2
    <3>2. Unseen(d)' => Unseen(d)
      BY <3>1 DEF Unseen
    <3>3. InHand(d) => InHand(d)'
      BY <1>2, <3>1 DEF InHand
    <3> QED  BY <3>1, <3>2, <3>3
  <2> QED  BY <1>4, <1>5, <2>1, <2>2 DEF Progress
<1>6. CASE JobAnswer(c) \/ JobBegin(c)
  <2>1. jobs'[c] \in {"answered", "processing"}
    BY <1>6 DEF JobAnswer, JobBegin
  <2>2. \/ got'[c] = version[c]
        \/ jobs[c] = "answered" /\ got'[c] = got[c]
    BY <1>6 DEF JobAnswer, JobBegin
  <2>3. UNCHANGED <<pending, inbox, stopped, version>>
    BY <1>6 DEF JobAnswer, JobBegin, service
  <2>4. jobs[c] \in {"asked", "answered"}
    BY <1>6 DEF JobAnswer, JobBegin
  <2>5. InHand(c) => InHand(c)'
    BY <1>2, <2>1, <2>2, <2>3, <2>4 DEF InHand
  <2> QED  BY <1>5, <2>5
<1>7. CASE (JobIgnore(c) /\ ~stopped) \/ JobSkip(c) \/ JobDone(c)
  <2>1. jobs[c] \in {"answered", "processing"} /\ examined'[c] >= got[c] /\ got[c] \in Nat
    BY <1>7 DEF JobIgnore, JobSkip, JobDone, Examine
  <2>2. Unseen(c)' => got[c] # version[c]
    BY <1>1, <1>3, <2>1 DEF Unseen
  <2>3. Unseen(c)' /\ InHand(c) => InHand(c)'
    BY <1>1, <1>2, <2>1, <2>2 DEF InHand
  <2> QED  BY <1>5, <2>3
<1>8. CASE JobIgnore(c) /\ stopped
  BY <1>1, <1>8, <1>5 DEF InHand
<1>9. CASE JobRequeue(c)
  <2>1. c \in Queued'
    <3>1. CASE c \in Queued
      BY <1>2, <3>1
    <3>2. CASE c \notin Queued
      <4>1. pending' = Append(pending, c)
        BY <1>9, <3>2 DEF JobRequeue
      <4> QED  BY <4>1, AppendQueued
    <3> QED  BY <3>1, <3>2
  <2> QED  BY <1>5, <2>1 DEF InHand
<1>10. CASE JobFail(c)
  <2>1. c \in failed'
    BY <1>10 DEF JobFail
  <2> QED  BY <1>5, <2>1 DEF Unseen
<1> QED  BY <1>6, <1>7, <1>8, <1>9, <1>10

LEMMA EnqueueProgress ==
  ASSUME TypeOK, QueueInv, RoomForAll, NEW c \in Cameras, Enqueue(c)
  PROVE  Progress /\ cursor' = cursor
<1>1. \/ c \in Queued /\ UNCHANGED <<pending, cursor>>
      \/ pending' = Append(pending, c) /\ UNCHANGED cursor
  BY RoomWhenMissing DEF Enqueue
<1>2. Queued \cup {c} \subseteq Queued'
  <2>1. CASE c \in Queued /\ UNCHANGED pending
    BY <2>1 DEF Queued
  <2>2. CASE pending' = Append(pending, c)
    BY <2>2, AppendQueued DEF TypeOK
  <2> QED  BY <1>1, <2>1, <2>2
<1>3. /\ inbox' = inbox \ {c}
      /\ UNCHANGED <<examined, version, failed, jobs, got, stopped>>
  BY DEF Enqueue, service, history
<1> QED  BY <1>1, <1>2, <1>3 DEF Progress, Unseen, InHand

LEMMA StepDelivery ==
  ASSUME TypeOK, Answered, QueueInv, RoomForAll, DeliveryInv, [Next]_vars
  PROVE  DeliveryInv'
<1> USE DEF DeliveryInv
<1>1. CASE UNCHANGED vars
  <2>1. Progress
    BY <1>1 DEF vars, service, history, queue, Progress, Unseen, InHand, Queued
  <2> QED  BY <1>1, <2>1, ProgressSuffices DEF vars, service, queue
<1>2. CASE Pump
  <2>1. UNCHANGED <<feed, monitors, version, cursor, poll>>
    BY <1>2 DEF Pump, service
  <2> QED  BY <1>2, <2>1, PumpProgress, ProgressSuffices
<1>3. ASSUME NEW c \in Cameras, Enqueue(c) PROVE DeliveryInv'
  <2>1. UNCHANGED <<feed, monitors, version, poll>>
    BY <1>3 DEF Enqueue, service
  <2> QED  BY <1>3, <2>1, EnqueueProgress, ProgressSuffices
<1>4. ASSUME NEW c \in Cameras, Job(c) \/ JobFail(c) PROVE DeliveryInv'
  <2>1. UNCHANGED <<feed, monitors, version, cursor, poll>>
    BY <1>4
    DEF Job, JobAnswer, JobIgnore, JobRequeue, JobSkip, JobBegin, JobDone, JobFail, service
  <2>2. Progress
    BY <1>4, JobProgress DEF Job
  <2> QED  BY <2>1, <2>2, ProgressSuffices
\* The repair, a lost poll and the end of the process touch nothing in hand.
<1>5. CASE Repair \/ PollRetry \/ PollLose \/ Stop
  <2>1. UNCHANGED <<feed, monitors, version, cursor, examined, failed, jobs, got>>
    BY <1>5
    DEF Repair, Timer, RepairList, RepairDrain, PollRetry, PollLose, Stop, service, history, queue
  <2>2. /\ stopped' = stopped \/ stopped'
        /\ stopped' \/ pending' = pending
        /\ inbox \subseteq inbox'
    BY <1>5
    DEF Repair, Timer, RepairList, RepairDrain, PollRetry, PollLose, Stop, queue, Turn
  <2>3. poll' = poll \/ poll'.phase \notin {"sent", "answered"}
    BY <1>5
    DEF Repair, Timer, RepairList, RepairDrain, PollRetry, PollLose, Stop, NoPoll
  <2>4. Progress
    BY <2>1, <2>2 DEF Progress, Unseen, InHand, Queued
  <2> QED  BY <2>1, <2>3, <2>4, ProgressSuffices
<1>6. CASE PollSend
  <2>1. UNCHANGED <<service, history, cursor, inbox, pending, jobs, got, stopped>>
    BY <1>6 DEF PollSend
  <2>2. poll'.phase = "sent" /\ poll'.cursor = cursor
    BY <1>6 DEF PollSend, NoPoll
  <2>3. \A names : Covered(names)' <=> Covered(names)
    BY <2>1 DEF Covered, Unseen, InHand, Queued, service, history
  <2>4. Named(cursor, monitors)' = Named(cursor, monitors)
    BY <2>1 DEF Named, Reset, Number, service, feed
  <2>5. Monitored' /\ CursorsIssued'
    BY <2>1, <2>2 DEF Monitored, CursorsIssued, Issued, service, history, feed
  <2> QED  BY <2>2, <2>3, <2>4, <2>5 DEF AnswerCovers, Covered
<1>7. CASE PollAnswer
  <2> DEFINE answer == Answer(poll.cursor, monitors)
  <2>1. UNCHANGED <<service, history, queue, stopped>>
    BY <1>7 DEF PollAnswer
  <2>2. poll'.phase = "answered" /\ poll'.cursor = cursor /\ poll'.batch = answer
    BY <1>7 DEF PollAnswer, TypeOK, CursorsIssued
  <2>3. answer.cursor = [epoch |-> epoch, position |-> sequence]
        /\ answer.events = Named(cursor, monitors)
    BY <1>7 DEF PollAnswer, Answer, CursorsIssued
  <2>4. Covered(Named(cursor, monitors))'
    BY <2>1
    DEF Covered, Unseen, InHand, Queued, Named, Reset, Number, service, feed, history, queue
  <2>5. Monitored' /\ CursorsIssued'
    BY <2>1, <2>2, <2>3
    DEF Monitored, CursorsIssued, Issued, service, history, queue, feed, TypeOK, FeedTypeOK
  <2>6. poll'.batch.events = Named(cursor, monitors)'
    BY <2>1, <2>2, <2>3 DEF Named, Reset, Number, service, feed, queue
  <2> QED  BY <2>2, <2>4, <2>5, <2>6 DEF AnswerCovers, Covered
<1>8. CASE PollApply
  <2>1. /\ UNCHANGED <<service, history, pending, jobs, got, stopped>>
        /\ cursor' = poll.batch.cursor /\ inbox' = poll.batch.events /\ inbox = {}
        /\ poll.phase = "answered" /\ poll'.phase = "idle"
    BY <1>8 DEF PollApply, Turn, NoPoll
  <2>2. Monitored' /\ CursorsIssued'
    BY <2>1 DEF Monitored, CursorsIssued, Issued, service, history, feed
  <2>3. Named(cursor, monitors)' = Named(poll.batch.cursor, monitors)
    BY <2>1 DEF Named, Reset, Number, service, feed
  <2>4. Covered(Named(cursor, monitors))'
    BY <2>1, <2>3 DEF AnswerCovers, Covered, Unseen, InHand, Queued, service, history
  <2> QED  BY <2>1, <2>2, <2>4 DEF AnswerCovers
\* A new process polls without a cursor.
<1>9. ASSUME Boot PROVE DeliveryInv'
  <2>1. /\ UNCHANGED <<feed, monitors, version, examined, failed>>
        /\ cursor' = None /\ poll'.phase = "idle"
    BY <1>9 DEF Boot, NoPoll, service, history
  <2>2. Monitored' /\ CursorsIssued'
    BY <2>1 DEF Monitored, CursorsIssued, Issued, feed
  <2>3. Named(cursor, monitors)' = monitors
    BY <2>1 DEF Named, Reset
  <2>4. \A c \in Cameras : Unseen(c)' => c \in monitors
    BY <2>1 DEF Unseen, Monitored
  <2> QED  BY <2>1, <2>2, <2>3, <2>4 DEF Covered, AnswerCovers
<1>10. ASSUME NEW c \in Cameras, Upsert(c) PROVE DeliveryInv'
  <2>1. /\ UNCHANGED <<feed, version, history, poll, queue, stopped>>
        /\ monitors' = monitors \cup {c}
    BY <1>10 DEF Upsert
  <2>2. \A cur : Named(cur, monitors) \subseteq Named(cur, monitors)'
    BY <2>1 DEF Named, Reset, Number, feed
  <2>3. \A d \in Cameras : (Unseen(d)' <=> Unseen(d)) /\ (InHand(d)' <=> InHand(d))
    BY <2>1 DEF Unseen, InHand, Queued, history, queue
  <2>4. Monitored' /\ CursorsIssued'
    BY <2>1 DEF Monitored, CursorsIssued, Issued, history, queue, feed
  <2>5. UNCHANGED <<poll, cursor>>
    BY <2>1 DEF queue
  <2> QED  BY <2>2, <2>3, <2>4, <2>5 DEF Covered, AnswerCovers
<1>11. ASSUME NEW c \in Cameras, Observe(c) PROVE DeliveryInv'
  <2>1. /\ UNCHANGED <<monitors, examined, poll, queue, stopped>>
        /\ c \in monitors /\ Publish(c)
        /\ version' = [version EXCEPT ![c] = version[c] + 1] /\ failed' = failed \ {c}
    BY <1>11 DEF Observe
  <2>2. \A cur \in Position \cup {None} :
           Issued(cur) =>
             /\ Issued(cur)'
             /\ Named(cur, monitors) \cup {c} \subseteq Named(cur, monitors)'
    BY <2>1, PublishNames DEF TypeOK
  <2>3. \A d \in Cameras : d # c => (Unseen(d)' <=> Unseen(d)) /\ (InHand(d) => InHand(d)')
    BY <2>1 DEF Unseen, InHand, Queued, queue, TypeOK
  <2>4. /\ cursor \in Position \cup {None} /\ Issued(cursor)
        /\ poll.phase = "answered" =>
              poll.batch.cursor \in Position \cup {None} /\ Issued(poll.batch.cursor)
    BY DEF TypeOK, Answered, Position, Batch, CursorsIssued
  <2>5. UNCHANGED <<cursor, poll>>
    BY <2>1 DEF queue
  <2>6. CursorsIssued'
    BY <2>2, <2>4, <2>5 DEF CursorsIssued
  <2>7. Monitored'
    <3>1. \A d \in Cameras : examined'[d] < version'[d] => d \in monitors'
      BY <2>1 DEF Monitored, TypeOK
    <3>2. ASSUME NEW k \in 1 .. Len(entries') PROVE entries'[k] \in monitors'
      <4>0. /\ Len(entries) \in Nat /\ monitors' = monitors
            /\ \A j \in 1 .. Len(entries) : entries[j] \in monitors
        BY <2>1 DEF Monitored, TypeOK, FeedTypeOK
      <4>1. CASE Len(entries) < Capacity
        <5>1. Len(entries') = Len(entries) + 1
              /\ (\A j \in 1 .. Len(entries) : entries'[j] = entries[j])
              /\ entries'[Len(entries) + 1] = c
          BY <2>1, <4>1, AppendProperties DEF Publish, TypeOK, FeedTypeOK
        <5>2. k \in 1 .. Len(entries) \/ k = Len(entries) + 1
          BY <4>0, <5>1
        <5> QED  BY <2>1, <4>0, <5>1, <5>2
      <4>2. CASE ~(Len(entries) < Capacity)
        <5>1. entries # <<>> /\ entries' = Append(Tail(entries), c)
          BY <2>1, <4>2, FeedAssumption DEF Publish, TypeOK, FeedTypeOK
        <5>2. /\ Tail(entries) \in Seq(Cameras) /\ Len(Tail(entries)) = Len(entries) - 1
              /\ \A j \in 1 .. Len(entries) - 1 : Tail(entries)[j] = entries[j + 1]
          BY <5>1, HeadTailProperties DEF TypeOK, FeedTypeOK
        <5>3. /\ Len(entries') = Len(entries)
              /\ \A j \in 1 .. Len(entries) - 1 : entries'[j] = entries[j + 1]
              /\ entries'[Len(entries)] = c
          BY <5>1, <5>2, AppendProperties
        <5>4. (k \in 1 .. Len(entries) - 1 /\ k + 1 \in 1 .. Len(entries)) \/ k = Len(entries)
          BY <4>0, <5>3
        <5> QED  BY <2>1, <4>0, <5>3, <5>4
      <4> QED  BY <4>1, <4>2
    <3> QED  BY <3>1, <3>2 DEF Monitored
  <2>8. Covered(Named(cursor, monitors))'
    BY <2>2, <2>3, <2>4, <2>5 DEF Covered
  <2>9. AnswerCovers'
    BY <2>2, <2>3, <2>4, <2>5 DEF Covered, AnswerCovers
  <2> QED  BY <2>6, <2>7, <2>8, <2>9
<1>12. CASE ServiceRestart
  <2>1. /\ examined' = version /\ version' = version /\ UNCHANGED queue
        /\ epoch' = epoch + 1 /\ entries' = <<>>
        /\ poll' = poll \/ poll'.phase = "lost"
    BY <1>12 DEF ServiceRestart, FeedRestart, NoPoll
  <2>2. \A c \in Cameras : ~(examined'[c] < version'[c])
    BY <2>1 DEF TypeOK
  <2>3. \A cur \in Position \cup {None} : Issued(cur) => Issued(cur)'
    BY <2>1 DEF Issued, Position, TypeOK, FeedTypeOK
  <2>4. CursorsIssued'
    BY <2>1, <2>3 DEF CursorsIssued, TypeOK, Answered, Position, Batch, queue
  <2>5. Monitored'
    BY <2>1, <2>2 DEF Monitored
  <2> QED  BY <2>2, <2>4, <2>5 DEF Covered, AnswerCovers, Unseen
<1> QED
  BY <1>1, <1>2, <1>3, <1>4, <1>5, <1>6, <1>7, <1>8, <1>9, <1>10, <1>11, <1>12
  DEF Next, Poll, Reboot, Crash

-----------------------------------------------------------------------------
(* Theorems.                                                               *)

Inv == TypeOK /\ Answered /\ OneJobPerPoint /\ QueueInv

LEMMA Invariance == Spec => []Inv
<1>1. Init => Inv
  <2> SUFFICES ASSUME Init PROVE Inv
    OBVIOUS
  <2>1. Running = {} /\ pending = <<>>
    BY DEF Init, QueueInit, Running
  <2>2. QueueInv
    BY <2>1, PipelineAssumption, FS_EmptySet DEF QueueInv, Distinct
  <2>3. OneJobPerPoint
    BY DEF Init, QueueInit, OneJobPerPoint
  <2> QED  BY <2>2, <2>3, InitType DEF Inv
<1>2. Inv /\ [Next]_vars => Inv'
  BY StepType, StepPoints, StepQueue DEF Inv
<1> QED  BY <1>1, <1>2, PTL DEF Spec

\* The feed, the poll and the queue keep their types: an answer that is
\* applied is always one that the service gave.
THEOREM PipelineTypeCorrect == Spec => []TypeOK
<1>1. Inv => TypeOK
  BY DEF Inv
<1> QED  BY <1>1, Invariance, PTL

\* pump and processCamera process one camera of a gate at a time, however
\* many cameras and workers there are and whatever fails.
THEOREM GateProcessedOnce == Spec => []OneJobPerPoint
<1>1. Inv => OneJobPerPoint
  BY DEF Inv
<1> QED  BY <1>1, Invariance, PTL

\* enqueue and the requeueing of processCamera together keep the queue within
\* maxPending plus the idle workers, without duplicates.
THEOREM QueueStaysBounded == Spec => []QueueBounded
<1>1. Inv => QueueBounded
  BY QueuedCount DEF Inv, TypeOK, QueueInv, QueueBounded
<1> QED  BY <1>1, Invariance, PTL

\* With room for every camera in the queue, the current state of a monitored
\* camera is examined, reported as an error, or a wake-up for it is on its
\* way: through forgotten events, lost polls, resets, restarts of either
\* process and jobs that newer events overtake.
THEOREM NothingSilentlyLost ==
  ASSUME RoomForAll
  PROVE  Spec => []NoSilentLoss
<1>1. Init => DeliveryInv
  <2> SUFFICES ASSUME Init PROVE DeliveryInv
    OBVIOUS
  <2>1. entries = <<>> /\ cursor = None /\ poll.phase = "idle"
    BY DEF Init, FeedInit, QueueInit, NoPoll
  <2>2. \A c \in Cameras : ~(examined[c] < version[c])
    <3>1. examined = version /\ version \in [Cameras -> Nat]
      BY DEF Init
    <3>2. \A n \in Nat : ~(n < n)
      OBVIOUS
    <3> QED  BY <3>1, <3>2
  <2>3. Monitored /\ CursorsIssued
    BY <2>1, <2>2 DEF Monitored, CursorsIssued, Issued
  <2> QED  BY <2>1, <2>2, <2>3 DEF DeliveryInv, Covered, Unseen, AnswerCovers
<1>2. Inv /\ DeliveryInv /\ [Next]_vars => DeliveryInv'
  BY StepDelivery DEF Inv
<1>3. DeliveryInv => NoSilentLoss
  BY CoveredMeansDue DEF DeliveryInv
<1> QED  BY <1>1, <1>2, <1>3, Invariance, PTL DEF Spec

-----------------------------------------------------------------------------
(* The pipeline implements GateAttention.                                  *)

Due == {c \in Cameras : examined[c] < version[c]}

Serving == {c \in Cameras : jobs[c] = "processing"}

\* No state is examined before it is shown.
NotAhead == \A c \in Cameras : got[c] <= version[c] /\ examined[c] <= version[c]

LEMMA StepNotAhead ==
  ASSUME TypeOK, NotAhead, [Next]_vars
  PROVE  NotAhead'
<1> USE DEF NotAhead
<1>0. \A d \in Cameras : got[d] \in Nat /\ version[d] \in Nat /\ examined[d] \in Nat
  BY DEF TypeOK
<1>1. CASE UNCHANGED <<got, version, examined>>
  BY <1>1
<1>2. ASSUME NEW c \in Cameras, Examine(c), UNCHANGED <<got, version>>
      PROVE  NotAhead'
  BY <1>0, <1>2 DEF Examine, TypeOK
<1>3. ASSUME NEW c \in Cameras, Observe(c)
      PROVE  NotAhead'
  <2>1. /\ version' = [version EXCEPT ![c] = version[c] + 1]
        /\ UNCHANGED <<got, examined>>
    BY <1>3 DEF Observe, queue
  <2> QED  BY <1>0, <2>1 DEF TypeOK
<1>4. ASSUME NEW c \in Cameras, JobAnswer(c)
      PROVE  NotAhead'
  <2>1. /\ got' = [got EXCEPT ![c] = version[c]]
        /\ UNCHANGED <<version, examined>>
    BY <1>4 DEF JobAnswer, service, history
  <2> QED  BY <1>0, <2>1 DEF TypeOK
<1>5. CASE ServiceRestart
  <2>1. examined' = version /\ UNCHANGED <<version, got>>
    BY <1>5 DEF ServiceRestart, queue
  <2> QED  BY <1>0, <2>1
<1>6. CASE Reboot \/ Crash
  <2>1. got' = [c \in Cameras |-> 0] /\ UNCHANGED <<version, examined>>
    BY <1>6 DEF Reboot, Crash, Boot, service, history
  <2> QED  BY <1>0, <2>1
<1>7. ASSUME NEW c \in Cameras, JobIgnore(c) \/ JobSkip(c) \/ JobDone(c)
      PROVE  NotAhead'
  <2>1. UNCHANGED <<got, version>> /\ (Examine(c) \/ UNCHANGED examined)
    BY <1>7 DEF JobIgnore, JobSkip, JobDone, service
  <2> QED  BY <1>1, <1>2, <2>1
<1>8. CASE \/ UNCHANGED vars \/ Pump \/ Poll \/ Repair \/ PollLose \/ Stop
           \/ \E c \in Cameras : \/ Enqueue(c) \/ Upsert(c) \/ JobFail(c)
                                \/ JobRequeue(c) \/ JobBegin(c)
  <2>1. UNCHANGED <<got, version, examined>>
    BY <1>8
    DEF vars, Pump, Poll, PollSend, PollAnswer, PollApply, PollRetry, PollLose, Repair, Timer, RepairList,
        RepairDrain, Stop, Enqueue, Upsert, JobFail, JobRequeue, JobBegin, service, history, queue
  <2> QED  BY <1>1, <2>1
<1> QED
  BY <1>3, <1>4, <1>5, <1>6, <1>7, <1>8 DEF Next, Job

\* A job that ends after it was given a state leaves at most its camera's
\* dueness behind.
LEMMA ExamineAttends ==
  ASSUME TypeOK, NEW c \in Cameras, Examine(c), UNCHANGED version
  PROVE  Due' = Due \/ (c \in Due /\ Due' = Due \ {c})
<1>1. examined' = [examined EXCEPT ![c] = examined'[c]] /\ examined'[c] \in Nat /\ examined[c] <= examined'[c]
  BY DEF Examine, TypeOK
<1>2. \A d \in Cameras : d # c => examined'[d] = examined[d]
  BY <1>1 DEF TypeOK
<1>3. version[c] \in Nat /\ examined[c] \in Nat
  BY DEF TypeOK
<1>4. CASE examined'[c] < version[c]
  <2>1. c \in Due
    BY <1>1, <1>3, <1>4 DEF Due
  <2> QED  BY <1>2, <1>4, <2>1 DEF Due
<1>5. CASE ~(examined'[c] < version[c])
  <2>1. Due' = Due \ {c}
    BY <1>2, <1>5 DEF Due
  <2> QED  BY <2>1
<1> QED  BY <1>4, <1>5

\* A job that ends frees its gate and serves nobody any more.
LEMMA EndedServes ==
  ASSUME TypeOK, NEW c \in Cameras, JobEnd(c)
  PROVE  Serving' = Serving \ {c}
BY DEF JobEnd, TypeOK, Serving

LEMMA StepAttention ==
  ASSUME TypeOK, OneJobPerPoint, NotAhead, [Next]_vars
  PROVE  [Attention!Next]_(Attention!attention)
<1> DEFINE Same == Due' = Due /\ Serving' = Serving
           Done(c) == Due' = Due \/ (c \in Due /\ Due' = Due \ {c})
<1>0. (UNCHANGED <<examined, version>> => Due' = Due) /\ (UNCHANGED jobs => Serving' = Serving)
  BY DEF Due, Serving
<1>1. Same => UNCHANGED Attention!attention
  BY DEF Attention!attention, Due, Serving
<1>2. ASSUME NEW c \in Cameras, Done(c), Serving' = Serving \ {c}
      PROVE  Attention!Next
  <2>1. CASE Due' = Due
    <3>1. Attention!Leave(c)
      BY <1>2, <2>1 DEF Attention!Leave, Due, Serving
    <3> QED  BY <1>2, <3>1 DEF Attention!Next
  <2>2. CASE c \in Due /\ Due' = Due \ {c}
    <3>1. Attention!Attend(c)
      BY <1>2, <2>2 DEF Attention!Attend, Due, Serving
    <3> QED  BY <1>2, <3>1 DEF Attention!Next
  <2> QED  BY <1>2, <2>1, <2>2
<1>3. CASE UNCHANGED vars
  BY <1>0, <1>1, <1>3 DEF vars, service, history, queue
<1>4. CASE Pump
  <2>1. PICK k \in 1 .. Len(pending) : Eligible(pending[k]) /\ jobs' = [jobs EXCEPT ![pending[k]] = "asked"]
    BY <1>4 DEF Pump
  <2>2. pending[k] \in Cameras /\ jobs[pending[k]] = "none"
    BY <2>1 DEF Eligible, TypeOK
  <2>3. Serving' = Serving
    BY <2>1, <2>2 DEF TypeOK, Serving
  <2> QED  BY <1>0, <1>1, <1>4, <2>3 DEF Pump, service, history
<1>5. CASE Poll \/ Repair \/ PollLose \/ Stop \/ \E c \in Cameras : Enqueue(c) \/ Upsert(c)
  BY <1>0, <1>1, <1>5
  DEF Poll, PollSend, PollAnswer, PollApply, PollRetry, PollLose, Repair, Timer, RepairList, RepairDrain,
      Stop, Enqueue, Upsert, service, history, queue
<1>6. ASSUME NEW c \in Cameras, Observe(c)
      PROVE  Attention!Next
  <2>1. Due' = Due \cup {c}
    <3>1. version'[c] = version[c] + 1 /\ \A d \in Cameras : d # c => version'[d] = version[d]
      BY <1>6 DEF Observe, TypeOK
    <3>2. examined' = examined
      BY <1>6 DEF Observe
    <3>3. \A d \in Cameras : /\ examined[d] \in Nat /\ version[d] \in Nat
                           /\ examined[d] <= version[d]
      BY DEF TypeOK, NotAhead
    <3> QED  BY <3>1, <3>2, <3>3 DEF Due
  <2>2. Serving' = Serving
    BY <1>0, <1>6 DEF Observe, queue
  <2>3. Attention!Show(c)
    BY <2>1, <2>2 DEF Attention!Show, Due, Serving
  <2> QED  BY <2>3 DEF Attention!Next
<1>7. ASSUME NEW c \in Cameras, JobAnswer(c)
      PROVE  Same
  <2>1. Serving' = Serving
    BY <1>7 DEF JobAnswer, TypeOK, Serving
  <2> QED  BY <1>0, <1>7, <2>1 DEF JobAnswer, service, history
<1>8. ASSUME NEW c \in Cameras, JobIgnore(c) \/ JobSkip(c) \/ JobDone(c) \/ JobRequeue(c) \/ JobFail(c)
      PROVE  Done(c) /\ Serving' = Serving \ {c}
  <2>1. JobEnd(c) /\ UNCHANGED version /\ (Examine(c) \/ UNCHANGED examined)
    BY <1>8 DEF JobIgnore, JobSkip, JobDone, JobRequeue, JobFail, service, history
  <2> QED  BY <1>0, <2>1, ExamineAttends, EndedServes
<1>9. ASSUME NEW c \in Cameras, JobBegin(c)
      PROVE  Attention!Next
  <2>1. \A d \in Serving : PointOf[d] # PointOf[c]
    BY <1>9 DEF JobBegin, OneJobPerPoint, Serving
  <2>2. Serving' = Serving \cup {c}
    BY <1>9 DEF JobBegin, TypeOK, Serving
  <2>3. Due' = Due
    BY <1>0, <1>9 DEF JobBegin, service, history
  <2>4. Attention!Serve(c)
    BY <2>1, <2>2, <2>3 DEF Attention!Serve, Due, Serving
  <2> QED  BY <2>4 DEF Attention!Next
<1>10. CASE ServiceRestart
  <2>1. Due' = {}
    <3>1. examined' = version /\ version' = version /\ \A n \in Nat : ~(n < n)
      BY <1>10 DEF ServiceRestart
    <3> QED  BY <3>1 DEF Due, TypeOK
  <2>2. Serving' = Serving
    BY <1>0, <1>10 DEF ServiceRestart, queue
  <2>3. Attention!Forget
    BY <2>1, <2>2 DEF Attention!Forget, Due, Serving
  <2> QED  BY <2>3 DEF Attention!Next
<1>11. CASE Reboot \/ Crash
  <2>1. Serving' = {} /\ Due' = Due
    BY <1>0, <1>11 DEF Reboot, Crash, Boot, Serving, service, history
  <2>2. Attention!Abandon
    BY <2>1 DEF Attention!Abandon, Due, Serving
  <2> QED  BY <2>2 DEF Attention!Next
<1> QED
  BY <1>1, <1>2, <1>3, <1>4, <1>5, <1>6, <1>7, <1>8, <1>9, <1>10, <1>11 DEF Next, Job

\* Whatever happens to the feed, the polls, the queue and the two processes, a
\* gate serves one camera at a time and a camera stops being due only when its
\* current state has been looked at, or died with its process: the safety part
\* of EveryStateAttended.
THEOREM PipelineImplementsAttention == Spec => Attention!Spec
<1>1. Init => Attention!Init
  <2> SUFFICES ASSUME Init PROVE Attention!Init
    OBVIOUS
  <2>1. \A c \in Cameras : examined[c] = 0 /\ version[c] = 0 /\ jobs[c] = "none"
    BY Zenon DEF Init, QueueInit
  <2>2. Due = {} /\ Serving = {}
    BY <2>1 DEF Due, Serving
  <2> QED  BY <2>2 DEF Attention!Init, Due, Serving
<1>2. Init => NotAhead
  <2>1. Init => \A c \in Cameras : examined[c] = 0 /\ version[c] = 0 /\ got[c] = 0
    BY Zenon DEF Init, QueueInit
  <2>2. (\A c \in Cameras : examined[c] = 0 /\ version[c] = 0 /\ got[c] = 0) => NotAhead
    <3>1. 0 <= 0
      OBVIOUS
    <3> QED  BY Zenon, <3>1 DEF NotAhead
  <2> QED  BY <2>1, <2>2
<1>3. Inv /\ NotAhead /\ [Next]_vars => NotAhead'
  BY StepNotAhead DEF Inv
<1>4. Inv /\ NotAhead /\ [Next]_vars => [Attention!Next]_(Attention!attention)
  BY StepAttention DEF Inv
<1> QED  BY <1>1, <1>2, <1>3, <1>4, Invariance, PTL DEF Spec, Attention!Spec
=============================================================================
