------------------------ MODULE CameraMonitorsProofs ------------------------
(***************************************************************************)
(* Proofs about InferenceScheduler and CameraMonitors, for any number of   *)
(* cameras, requests, plates and monitors and any limits.                  *)
(***************************************************************************)
EXTENDS CameraMonitors, FiniteSetTheorems, SequenceTheorems, WellFoundedInduction, TLAPS

-----------------------------------------------------------------------------
(* The line of images.                                                     *)

\* No key is in line twice.
Distinct(line) ==
    \A j, k \in 1 .. Len(line) : line[j].key = line[k].key => j = k

KeysOf(line) == {line[k].key : k \in 1 .. Len(line)}

LineOK == pending \in Seq(Images) /\ Distinct(pending)

\* A line has as many keys as images.
LEMMA KeysCounted ==
  ASSUME NEW line \in Seq(Images), Distinct(line)
  PROVE  IsFiniteSet(KeysOf(line)) /\ Cardinality(KeysOf(line)) = Len(line)
<1> DEFINE f == [k \in 1 .. Len(line) |-> line[k].key]
<1>1. Len(line) \in Nat
  OBVIOUS
<1>2. IsFiniteSet(1 .. Len(line)) /\ Cardinality(1 .. Len(line)) = Len(line)
  BY <1>1, FS_Interval
<1>3. f \in Surjection(1 .. Len(line), KeysOf(line))
  BY DEF Surjection, KeysOf
<1>4. f \in Injection(1 .. Len(line), KeysOf(line))
  BY <1>3 DEF Injection, IsInjective, Surjection, Distinct
<1> QED  BY <1>2, <1>3, <1>4, FS_Surjection

LEMMA WaitingKeys == pending \in Seq(Images) => Waiting = KeysOf(pending)
BY DEF Waiting, KeysOf

\* A key in line has one position.
LEMMA PositionOfKey ==
  ASSUME LineOK, NEW key \in Waiting
  PROVE  /\ Position(key) \in 1 .. Len(pending)
         /\ pending[Position(key)].key = key
BY DEF LineOK, Waiting, Position

\* What leaves with a key is its image alone; nobody moves back.
LEMMA WithoutProperties ==
  ASSUME LineOK, NEW key
  PROVE  /\ Without(key) \in Seq(Images) /\ Distinct(Without(key))
         /\ KeysOf(Without(key)) = Waiting \ {key}
         /\ \A k \in 1 .. Len(Without(key)) :
               \E j \in k .. Len(pending) : Without(key)[k] = pending[j] /\ pending[j].key # key
<1>1. CASE key \notin Waiting
  <2>1. Without(key) = pending
    BY <1>1 DEF Without
  <2>2. \A k \in 1 .. Len(pending) : k \in k .. Len(pending) /\ pending[k].key # key
    BY <1>1 DEF Waiting, LineOK
  <2> QED  BY <1>1, <2>1, <2>2, WaitingKeys DEF LineOK
<1>2. CASE key \in Waiting
  <2> DEFINE at == Position(key)
             n == Len(pending)
             left == SubSeq(pending, 1, at - 1)
             right == SubSeq(pending, at + 1, n)
  <2>0. at \in 1 .. n /\ pending[at].key = key /\ n \in Nat
    BY <1>2, PositionOfKey DEF LineOK
  <2>1. \A k \in 1 .. n : pending[k] \in Images
    BY DEF LineOK
  <2> HIDE DEF at, n
  <2>2. /\ left \in Seq(Images) /\ Len(left) = at - 1
        /\ \A k \in 1 .. at - 1 : left[k] = pending[k]
    <3>1. \A k \in 1 .. at - 1 : pending[k] \in Images
      BY <2>0, <2>1
    <3> QED  BY <2>0, <3>1, SubSeqProperties
  <2>3. /\ right \in Seq(Images) /\ Len(right) = n - at
        /\ \A k \in 1 .. n - at : right[k] = pending[at + k]
    <3>1. \A k \in at + 1 .. n : pending[k] \in Images
      BY <2>0, <2>1
    <3>2. /\ right \in Seq(Images) /\ Len(right) = IF at + 1 <= n THEN n - (at + 1) + 1 ELSE 0
          /\ \A k \in 1 .. n - (at + 1) + 1 : right[k] = pending[at + 1 + k - 1]
      BY <2>0, <3>1, SubSeqProperties
    <3>3. \A k \in 1 .. n - at : at + 1 + k - 1 = at + k
      BY <2>0
    <3> QED  BY <2>0, <3>2, <3>3
  <2> HIDE DEF left, right
  <2>4. /\ left \o right \in Seq(Images)
        /\ Len(left \o right) = n - 1
        /\ \A k \in 1 .. n - 1 :
              (left \o right)[k] = IF k <= at - 1 THEN left[k] ELSE right[k - (at - 1)]
    <3>1. /\ left \o right \in Seq(Images)
          /\ Len(left \o right) = Len(left) + Len(right)
          /\ \A k \in 1 .. Len(left) + Len(right) :
                (left \o right)[k] = IF k <= Len(left) THEN left[k] ELSE right[k - Len(left)]
      BY <2>2, <2>3, ConcatProperties
    <3>2. Len(left) + Len(right) = n - 1
      BY <2>0, <2>2, <2>3
    <3> QED  BY <2>2, <3>1, <3>2
  <2>5. Without(key) = left \o right
    BY <1>2 DEF Without, left, right, at, n
  <2>6. \A k \in 1 .. n - 1 : Without(key)[k] = pending[IF k < at THEN k ELSE k + 1]
    <3> SUFFICES ASSUME NEW k \in 1 .. n - 1
                 PROVE  (left \o right)[k] = pending[IF k < at THEN k ELSE k + 1]
      BY <2>5
    <3>1. CASE k < at
      BY <2>0, <2>2, <2>4, <3>1
    <3>2. CASE ~(k < at)
      <4>1. k - (at - 1) \in 1 .. n - at /\ at + (k - (at - 1)) = k + 1
        BY <2>0, <3>2
      <4> QED  BY <2>0, <2>3, <2>4, <3>2, <4>1
    <3> QED  BY <3>1, <3>2
  <2> DEFINE from(k) == IF k < at THEN k ELSE k + 1
  <2>7. \A k \in 1 .. n - 1 : /\ from(k) \in k .. n /\ from(k) \in 1 .. n /\ from(k) # at
                              /\ Without(key)[k] = pending[from(k)]
    BY <2>0, <2>6
  <2>8. \A j, k \in 1 .. n - 1 : from(j) = from(k) => j = k
    BY <2>0
  <2>9. \A i \in 1 .. n : i # at => \E k \in 1 .. n - 1 : from(k) = i
    <3> SUFFICES ASSUME NEW i \in 1 .. n, i # at PROVE \E k \in 1 .. n - 1 : from(k) = i
      OBVIOUS
    <3>1. CASE i < at
      <4>1. i \in 1 .. n - 1 /\ from(i) = i
        BY <2>0, <3>1
      <4> QED  BY <4>1
    <3>2. CASE i > at
      <4>1. i - 1 \in 1 .. n - 1 /\ from(i - 1) = i
        BY <2>0, <3>2
      <4> QED  BY <4>1
    <3> QED  BY <2>0, <3>1, <3>2
  <2> HIDE DEF from
  <2>10. \A j, k \in 1 .. n : pending[j].key = pending[k].key => j = k
    BY DEF LineOK, Distinct, n
  <2>11. \A k \in 1 .. n - 1 : pending[from(k)].key # key
    BY <2>0, <2>7, <2>10
  <2>12. Without(key) \in Seq(Images) /\ Len(Without(key)) = n - 1
    BY <2>4, <2>5
  <2>13. Distinct(Without(key))
    BY <2>7, <2>8, <2>10, <2>12 DEF Distinct
  <2>14. Waiting = {pending[k].key : k \in 1 .. n}
    BY DEF Waiting, LineOK, n
  <2>15. KeysOf(Without(key)) = Waiting \ {key}
    <3>1. KeysOf(Without(key)) = {pending[from(k)].key : k \in 1 .. n - 1}
      BY <2>7, <2>12 DEF KeysOf
    <3> QED  BY <2>0, <2>7, <2>9, <2>10, <2>11, <2>14, <3>1
  <2> QED  BY <2>7, <2>11, <2>12, <2>13, <2>15 DEF n
<1> QED  BY <1>1, <1>2

\* A new image is alone with its key; the others stay where they are.
LEMMA PlaceProperties ==
  ASSUME LineOK, NEW image \in Images
  PROVE  /\ Place(image) \in Seq(Images) /\ Distinct(Place(image))
         /\ KeysOf(Place(image)) = Waiting \cup {image.key}
         /\ \A k \in 1 .. Len(Place(image)) :
               \/ Place(image)[k] = image /\ (k = Len(Place(image)) \/ image.key \in Waiting)
               \/ k \in 1 .. Len(pending) /\ Place(image)[k] = pending[k]
         /\ \A k \in 1 .. Len(pending) :
               k \in 1 .. Len(Place(image)) /\ Place(image)[k].key = pending[k].key
<1> DEFINE n == Len(pending)
<1>0. n \in Nat /\ \A k \in 1 .. n : pending[k] \in Images
  BY DEF LineOK
<1>1. CASE image.key \in Waiting
  <2> DEFINE at == Position(image.key)
             line == [pending EXCEPT ![at] = image]
  <2>1. at \in 1 .. n /\ pending[at].key = image.key
    BY <1>1, PositionOfKey
  <2>2. line \in Seq(Images) /\ Len(line) = n
    BY <2>1, ExceptSeq DEF LineOK
  <2>3. \A k \in 1 .. n : line[k] = IF k = at THEN image ELSE pending[k]
    BY DEF LineOK
  <2>4. Place(image) = line
    BY <1>1 DEF Place
  <2> HIDE DEF line, at
  <2>5. \A k \in 1 .. n : line[k].key = pending[k].key
    BY <2>1, <2>3
  <2>6. Distinct(line)
    BY <2>2, <2>5 DEF LineOK, Distinct
  <2>7. KeysOf(line) = KeysOf(pending)
    BY <2>2, <2>5 DEF KeysOf
  <2> QED  BY <1>1, <2>2, <2>3, <2>4, <2>5, <2>6, <2>7, WaitingKeys DEF LineOK
<1>2. CASE image.key \notin Waiting
  <2> DEFINE line == Append(pending, image)
  <2>1. /\ line \in Seq(Images) /\ Len(line) = n + 1 /\ line[n + 1] = image
        /\ \A k \in 1 .. n : line[k] = pending[k]
    BY AppendProperties DEF LineOK
  <2>2. Place(image) = line
    BY <1>2 DEF Place
  <2> HIDE DEF line
  <2>3. \A k \in 1 .. n : pending[k].key # image.key
    BY <1>2, WaitingKeys DEF LineOK, KeysOf
  <2>4. Distinct(line)
    BY <1>0, <2>1, <2>3 DEF LineOK, Distinct
  <2>5. KeysOf(line) = KeysOf(pending) \cup {image.key}
    BY <1>0, <2>1 DEF KeysOf
  <2> QED  BY <1>0, <2>1, <2>2, <2>4, <2>5, WaitingKeys DEF LineOK
<1> QED  BY <1>1, <1>2

\* The first image leaves; everybody else moves up one place.
LEMMA TailProperties ==
  ASSUME LineOK, pending # <<>>
  PROVE  /\ Head(pending) = pending[1] /\ Head(pending) \in Images /\ Head(pending).key \in Waiting
         /\ Tail(pending) \in Seq(Images) /\ Distinct(Tail(pending))
         /\ KeysOf(Tail(pending)) = Waiting \ {Head(pending).key}
         /\ \A k \in 1 .. Len(Tail(pending)) :
               k + 1 \in 1 .. Len(pending) /\ Tail(pending)[k] = pending[k + 1]
<1> DEFINE n == Len(pending)
           rest == Tail(pending)
<1>1. n \in Nat \ {0}
  BY EmptySeq DEF LineOK
<1>2. /\ Head(pending) = pending[1] /\ rest \in Seq(Images) /\ Len(rest) = n - 1
      /\ \A k \in 1 .. Len(rest) : rest[k] = pending[k + 1]
  BY HeadTailProperties DEF LineOK
<1>3. \A j, k \in 1 .. n : pending[j] \in Images /\ (pending[j].key = pending[k].key => j = k)
  BY DEF LineOK, Distinct
<1>4. Waiting = {pending[k].key : k \in 1 .. n}
  BY WaitingKeys DEF KeysOf, LineOK
<1> HIDE DEF n, rest
<1>5. Distinct(rest)
  <2> SUFFICES ASSUME NEW j \in 1 .. Len(rest), NEW k \in 1 .. Len(rest), rest[j].key = rest[k].key
               PROVE  j = k
    BY DEF Distinct
  <2>1. j + 1 \in 1 .. n /\ k + 1 \in 1 .. n /\ pending[j + 1].key = pending[k + 1].key
    BY <1>1, <1>2
  <2> QED  BY <1>1, <1>2, <1>3, <2>1
<1>6. KeysOf(rest) = Waiting \ {pending[1].key}
  <2>1. \A key \in KeysOf(rest) : key \in Waiting /\ key # pending[1].key
    <3> SUFFICES ASSUME NEW k \in 1 .. Len(rest)
                 PROVE  rest[k].key \in Waiting /\ rest[k].key # pending[1].key
      BY DEF KeysOf
    <3>1. k + 1 \in 1 .. n /\ 1 \in 1 .. n /\ k + 1 # 1 /\ rest[k] = pending[k + 1]
      BY <1>1, <1>2
    <3> QED  BY <1>3, <1>4, <3>1
  <2>2. \A key \in Waiting : key # pending[1].key => key \in KeysOf(rest)
    <3> SUFFICES ASSUME NEW k \in 1 .. n, pending[k].key # pending[1].key
                 PROVE  pending[k].key \in KeysOf(rest)
      BY <1>4
    <3>1. k - 1 \in 1 .. Len(rest) /\ (k - 1) + 1 = k
      BY <1>1, <1>2
    <3>2. rest[k - 1] = pending[k]
      BY <1>2, <3>1
    <3> QED  BY <3>1, <3>2 DEF KeysOf
  <2> QED  BY <2>1, <2>2
<1>7. pending[1] \in Images /\ pending[1].key \in Waiting
  BY <1>1, <1>3, <1>4
<1> QED  BY <1>1, <1>2, <1>5, <1>6, <1>7 DEF n, rest

-----------------------------------------------------------------------------
(* The slots of the scheduler.                                             *)

QueueTyped ==
    /\ LineOK
    /\ active \in Images \cup {Nil}
    /\ future \in [Requests -> {"idle", "waiting", "done"}]
    /\ manualCount \in Nat
    /\ overtaken \in [Keys -> Nat]

\* What happens to the scheduler in a step of the service.
FreeThread ==
    /\ active # Nil /\ active.key \in Cameras /\ active' = Nil
    /\ UNCHANGED <<pending, manualCount, future, event, closed, overtaken>>

SchedulerStep ==
    \/ UNCHANGED scheduler
    \/ \E image \in Images : image.key \in Cameras /\ SubmitMonitor(image)
    \/ \E c \in Cameras : RemoveMonitor(c)
    \/ FreeThread
    \/ Sleep \/ Take \/ Close
    \/ \E r \in Requests : Recognize(r) \/ Return(r) \/ TimeOut(r) \/ ManualResult(r)

\* How many keys of a set are manual requests.
LEMMA KeyJoins ==
  ASSUME NEW S, IsFiniteSet(S), NEW key \in Keys
  PROVE  /\ IsFiniteSet(S \cap Requests) /\ Cardinality(S \cap Requests) \in Nat
         /\ key \in Cameras => Cardinality((S \cup {key}) \cap Requests) = Cardinality(S \cap Requests)
         /\ key \in Requests /\ key \notin S
               => Cardinality((S \cup {key}) \cap Requests) = Cardinality(S \cap Requests) + 1
<1> DEFINE T == S \cap Requests
<1>1. IsFiniteSet(T) /\ Cardinality(T) \in Nat
  BY FS_Intersection, FS_CardinalityType
<1>2. ASSUME key \in Cameras PROVE (S \cup {key}) \cap Requests = T
  BY <1>2, SchedulerAssumption
<1>3. ASSUME key \in Requests, key \notin S PROVE Cardinality((S \cup {key}) \cap Requests) = Cardinality(T) + 1
  <2>1. (S \cup {key}) \cap Requests = T \cup {key} /\ key \notin T
    BY <1>3
  <2>2. Cardinality(T \cup {key}) = Cardinality(T) + 1
    BY <1>1, <2>1, FS_AddElement
  <2> QED  BY <2>1, <2>2
<1> QED  BY <1>1, <1>2, <1>3

LEMMA KeyLeaves ==
  ASSUME NEW S, IsFiniteSet(S), NEW key \in Keys
  PROVE  /\ key \in Cameras \/ key \notin S
               => Cardinality((S \ {key}) \cap Requests) = Cardinality(S \cap Requests)
         /\ key \in Requests /\ key \in S
               => /\ Cardinality((S \ {key}) \cap Requests) = Cardinality(S \cap Requests) - 1
                  /\ Cardinality(S \cap Requests) \in Nat \ {0}
<1>1. IsFiniteSet(S \cap Requests) /\ Cardinality(S \cap Requests) \in Nat
  BY FS_Intersection, FS_CardinalityType
<1>2. ASSUME key \in Cameras \/ key \notin S PROVE (S \ {key}) \cap Requests = S \cap Requests
  BY <1>2, SchedulerAssumption
<1>3. ASSUME key \in Requests, key \in S
      PROVE  /\ Cardinality((S \ {key}) \cap Requests) = Cardinality(S \cap Requests) - 1
             /\ Cardinality(S \cap Requests) \in Nat \ {0}
  <2> DEFINE T == (S \ {key}) \cap Requests
  <2>1. IsFiniteSet(T) /\ Cardinality(T) \in Nat
    BY FS_Difference, FS_Intersection, FS_CardinalityType
  <2>2. S \cap Requests = T \cup {key} /\ key \notin T
    BY <1>3
  <2>3. Cardinality(T \cup {key}) = Cardinality(T) + 1
    BY <2>1, <2>2, FS_AddElement
  <2>4. Cardinality(S \cap Requests) = Cardinality(T) + 1
    BY <2>2, <2>3
  <2> HIDE DEF T
  <2>5. Cardinality(T) = Cardinality(S \cap Requests) - 1 /\ Cardinality(S \cap Requests) \in Nat \ {0}
    BY <2>1, <2>4
  <2> QED  BY <2>5 DEF T
<1> QED  BY <1>2, <1>3

LEMMA NextLine ==
  ASSUME NEW line \in Seq(Images), Distinct(line), pending' = line
  PROVE  LineOK' /\ Waiting' = KeysOf(line) /\ Cardinality(Waiting') = Len(pending')
<1>1. Waiting' = KeysOf(line)
  BY DEF Waiting, KeysOf
<1>2. LineOK'
  BY DEF LineOK, Distinct
<1> QED  BY <1>1, <1>2, KeysCounted

\* Every step of the scheduler keeps the account of the slots.
LEMMA SlotsKept ==
  ASSUME QueueTyped, SlotsAccounted, SchedulerStep
  PROVE  QueueTyped' /\ SlotsAccounted'
<1> DEFINE Held == Cardinality(Waiting \cap Requests)
           InThread(image) == IF image # Nil /\ image.key \in Requests THEN 1 ELSE 0
<1> USE DEF QueueTyped
<1>0. /\ IsFiniteSet(Waiting) /\ Waiting \subseteq Keys /\ Held \in Nat
      /\ manualCount = Held + InThread(active) /\ manualCount <= MaxManual
      /\ \A r \in Requests : future[r] = "waiting" => r \in Waiting \/ Active(r)
      /\ Cardinality(Waiting) = Len(pending)
  <2>1. Waiting = KeysOf(pending) /\ IsFiniteSet(Waiting)
    BY WaitingKeys, KeysCounted DEF LineOK
  <2>2. Waiting \subseteq Keys
    <3>1. \A k \in 1 .. Len(pending) : pending[k] \in Images
      BY DEF LineOK
    <3> QED  BY <2>1, <3>1 DEF KeysOf, Images
  <2>3. Held \in Nat
    BY <2>1, FS_Intersection, FS_CardinalityType
  <2> QED  BY <2>1, <2>2, <2>3 DEF SlotsAccounted
<1>1. CASE UNCHANGED scheduler
  BY <1>1 DEF scheduler, SlotsAccounted, Waiting, Active, LineOK, Distinct
<1>2. ASSUME NEW image \in Images, image.key \in Cameras, SubmitMonitor(image)
      PROVE  QueueTyped' /\ SlotsAccounted'
  <2>1. UNCHANGED <<active, manualCount, future, overtaken>>
    BY <1>2 DEF SubmitMonitor
  <2>2. CASE UNCHANGED pending
    BY <2>1, <2>2 DEF SlotsAccounted, Waiting, Active, LineOK, Distinct
  <2>3. CASE pending' = Place(image)
    <3>1. LineOK' /\ Waiting' = Waiting \cup {image.key} /\ Cardinality(Waiting') = Len(pending')
      BY <2>3, PlaceProperties, NextLine
    <3>2. Cardinality(Waiting' \cap Requests) = Held
      BY <1>0, <1>2, <3>1, KeyJoins DEF Keys
    <3>3. \A r \in Requests : future'[r] = "waiting" => r \in Waiting' \/ Active(r)'
      BY <1>0, <2>1, <3>1 DEF Active
    <3> QED  BY <1>0, <2>1, <3>1, <3>2, <3>3 DEF SlotsAccounted
  <2> QED  BY <1>2, <2>2, <2>3 DEF SubmitMonitor
<1>3. ASSUME NEW c \in Cameras, RemoveMonitor(c) PROVE QueueTyped' /\ SlotsAccounted'
  <2>1. UNCHANGED <<active, manualCount, future>> /\ pending' = Without(c) /\ overtaken' = Forgive({c})
    BY <1>3 DEF RemoveMonitor
  <2>2. LineOK' /\ Waiting' = Waiting \ {c} /\ Cardinality(Waiting') = Len(pending')
    BY <2>1, WithoutProperties, NextLine
  <2>3. Cardinality(Waiting' \cap Requests) = Held
    BY <1>0, <2>2, KeyLeaves DEF Keys
  <2>4. \A r \in Requests : future'[r] = "waiting" => r \in Waiting' \/ Active(r)'
    BY <1>0, <2>1, <2>2, SchedulerAssumption DEF Active
  <2>5. overtaken' \in [Keys -> Nat]
    BY <2>1 DEF Forgive
  <2> QED  BY <1>0, <2>1, <2>2, <2>3, <2>4, <2>5 DEF SlotsAccounted
<1>4. CASE FreeThread
  <2>1. active # Nil /\ active.key \in Cameras /\ active' = Nil
        /\ UNCHANGED <<pending, manualCount, future, overtaken>>
    BY <1>4 DEF FreeThread
  <2>2. InThread(active) = 0 /\ InThread(active') = 0
    BY <2>1, SchedulerAssumption
  <2>3. LineOK' /\ Waiting' = Waiting
    BY <2>1 DEF LineOK, Distinct, Waiting
  <2>4. \A r \in Requests : future'[r] = "waiting" => r \in Waiting' \/ Active(r)'
    BY <1>0, <2>1, <2>3, SchedulerAssumption DEF Active
  <2> QED  BY <1>0, <2>1, <2>2, <2>3, <2>4 DEF SlotsAccounted
<1>5. CASE Sleep
  BY <1>5 DEF Sleep, SlotsAccounted, Waiting, Active, LineOK, Distinct
<1>6. CASE Take
  <2> DEFINE image == Head(pending)
  <2>1. /\ active = Nil /\ pending # <<>> /\ pending' = Tail(pending) /\ UNCHANGED <<manualCount, future>>
        /\ \/ Expired(image) /\ overtaken' = Forgive({image.key}) /\ UNCHANGED active
           \/ /\ active' = image
              /\ overtaken' = [key \in Keys |-> IF key \in Waiting \ {image.key}
                                                THEN overtaken[key] + 1 ELSE 0]
    BY <1>6 DEF Take
  <2>2. image \in Images /\ image.key \in Waiting
    BY <2>1, TailProperties
  <2>3. LineOK' /\ Waiting' = Waiting \ {image.key} /\ Cardinality(Waiting') = Len(pending')
    BY <2>1, TailProperties, NextLine
  <2>4. overtaken' \in [Keys -> Nat] /\ active' \in Images \cup {Nil}
    BY <2>1, <2>2 DEF Forgive
  <2> HIDE DEF image
  <2>5. CASE image.key \in Cameras
    <3>1. Cardinality(Waiting' \cap Requests) = Held
      BY <1>0, <2>2, <2>3, <2>5, KeyLeaves DEF Keys
    <3>2. InThread(active') = 0 /\ InThread(active) = 0
      BY <2>1, <2>5, SchedulerAssumption
    <3>3. \A r \in Requests : future'[r] = "waiting" => r \in Waiting' \/ Active(r)'
      BY <1>0, <2>1, <2>3, <2>5, SchedulerAssumption DEF Active
    <3> QED  BY <1>0, <2>1, <2>3, <2>4, <3>1, <3>2, <3>3 DEF SlotsAccounted
  <2>6. CASE image.key \notin Cameras
    <3>1. image.key \in Requests /\ image # Nil /\ ~Expired(image)
      BY <2>2, <2>6, SchedulerAssumption DEF Images, Keys, Expired
    <3>2. Cardinality(Waiting' \cap Requests) = Held - 1
      BY <1>0, <2>2, <2>3, <3>1, KeyLeaves DEF Keys
    <3>3. InThread(active') = 1 /\ InThread(active) = 0
      BY <2>1, <3>1
    <3>4. \A r \in Requests : future'[r] = "waiting" => r \in Waiting' \/ Active(r)'
      BY <1>0, <2>1, <2>3, <3>1 DEF Active
    <3> QED  BY <1>0, <2>1, <2>3, <2>4, <3>2, <3>3, <3>4 DEF SlotsAccounted
  <2> QED  BY <2>5, <2>6
<1>7. CASE Close
  <2>1. /\ pending' = <<>> /\ UNCHANGED active
        /\ manualCount' = manualCount - Held
        /\ future' = [r \in Requests |-> IF r \in Waiting THEN "done" ELSE future[r]]
        /\ overtaken' = Forgive(Keys)
    BY <1>7 DEF Close
  <2>2. LineOK' /\ Waiting' = {} /\ Cardinality(Waiting') = Len(pending')
    <3>1. <<>> \in Seq(Images) /\ Distinct(<<>>) /\ KeysOf(<<>>) = {}
      BY DEF Distinct, KeysOf
    <3> QED  BY <2>1, <3>1, NextLine
  <2>3. Cardinality(Waiting' \cap Requests) = 0
    BY <2>2, FS_EmptySet
  <2>4. /\ manualCount' = Cardinality(Waiting' \cap Requests) + InThread(active')
        /\ manualCount' <= MaxManual /\ manualCount' \in Nat
    <3>1. InThread(active') = InThread(active) /\ InThread(active) \in {0, 1}
      BY <2>1
    <3>2. manualCount' = InThread(active) /\ manualCount' <= manualCount
      <4> HIDE DEF InThread
      <4> QED  BY <1>0, <2>1, <3>1
    <3> HIDE DEF InThread
    <3> QED  BY <1>0, <2>3, <3>1, <3>2, SchedulerAssumption
  <2>5. \A r \in Requests : future'[r] = "waiting" => r \in Waiting' \/ Active(r)'
    BY <1>0, <2>1 DEF Active
  <2>6. future' \in [Requests -> {"idle", "waiting", "done"}] /\ overtaken' \in [Keys -> Nat]
    BY <2>1 DEF Forgive
  <2> QED  BY <1>0, <2>1, <2>2, <2>3, <2>4, <2>5, <2>6 DEF SlotsAccounted
<1>8. ASSUME NEW r \in Requests, Recognize(r) PROVE QueueTyped' /\ SlotsAccounted'
  <2>1. /\ r \notin Waiting /\ manualCount < MaxManual /\ manualCount' = manualCount + 1
        /\ future' = [future EXCEPT ![r] = "waiting"]
        /\ pending' = Append(pending, Manual(r)) /\ UNCHANGED <<active, overtaken>>
    BY <1>8 DEF Recognize
  <2>2. Manual(r) \in Images /\ Manual(r).key = r /\ r \in Keys
    BY DEF Manual, Images, Keys
  <2>3. Place(Manual(r)) = Append(pending, Manual(r))
    BY <2>1, <2>2 DEF Place
  <2>4. LineOK' /\ Waiting' = Waiting \cup {r} /\ Cardinality(Waiting') = Len(pending')
    BY <2>1, <2>2, <2>3, PlaceProperties, NextLine
  <2>5. Cardinality(Waiting' \cap Requests) = Held + 1
    BY <1>0, <2>1, <2>2, <2>4, KeyJoins
  <2>6. manualCount' = Cardinality(Waiting' \cap Requests) + InThread(active') /\ manualCount' <= MaxManual
    BY <1>0, <2>1, <2>5, SchedulerAssumption
  <2>7. \A q \in Requests : future'[q] = "waiting" => q \in Waiting' \/ Active(q)'
    BY <1>0, <2>1, <2>4 DEF Active
  <2> QED  BY <1>0, <2>1, <2>4, <2>6, <2>7 DEF SlotsAccounted
<1>9. ASSUME NEW r \in Requests, Return(r) PROVE QueueTyped' /\ SlotsAccounted'
  BY <1>0, <1>9 DEF Return, SlotsAccounted, Waiting, Active, LineOK, Distinct
<1>10. ASSUME NEW r \in Requests, TimeOut(r) PROVE QueueTyped' /\ SlotsAccounted'
  <2>1. /\ pending' = Without(r) /\ future' = [future EXCEPT ![r] = "idle"]
        /\ manualCount' = IF r \in Waiting THEN manualCount - 1 ELSE manualCount
        /\ overtaken' = Forgive({r}) /\ UNCHANGED active
    BY <1>10 DEF TimeOut
  <2>2. LineOK' /\ Waiting' = Waiting \ {r} /\ Cardinality(Waiting') = Len(pending')
    BY <2>1, WithoutProperties, NextLine
  <2>3. /\ r \notin Waiting => Cardinality(Waiting' \cap Requests) = Held
        /\ r \in Waiting => Cardinality(Waiting' \cap Requests) = Held - 1 /\ Held \in Nat \ {0}
    BY <1>0, <2>2, KeyLeaves DEF Keys
  <2>4. /\ manualCount' = Cardinality(Waiting' \cap Requests) + InThread(active')
        /\ manualCount' <= MaxManual /\ manualCount' \in Nat
    <3>1. CASE r \in Waiting
      BY <1>0, <2>1, <2>3, <3>1, SchedulerAssumption
    <3>2. CASE r \notin Waiting
      BY <1>0, <2>1, <2>3, <3>2, SchedulerAssumption
    <3> QED  BY <3>1, <3>2
  <2>5. \A q \in Requests : future'[q] = "waiting" => q \in Waiting' \/ Active(q)'
    BY <1>0, <2>1, <2>2 DEF Active
  <2>6. overtaken' \in [Keys -> Nat]
    BY <2>1 DEF Forgive
  <2> QED  BY <1>0, <2>1, <2>2, <2>4, <2>5, <2>6 DEF SlotsAccounted
<1>11. ASSUME NEW r \in Requests, ManualResult(r) PROVE QueueTyped' /\ SlotsAccounted'
  <2>1. /\ active # Nil /\ active.key = r /\ active' = Nil
        /\ manualCount' = manualCount - 1
        /\ future' = [future EXCEPT ![r] = IF @ = "waiting" THEN "done" ELSE @]
        /\ UNCHANGED <<pending, overtaken>>
    BY <1>11 DEF ManualResult, Complete, Active
  <2>2. LineOK' /\ Waiting' = Waiting /\ Cardinality(Waiting') = Len(pending')
    BY <1>0, <2>1 DEF LineOK, Distinct, Waiting
  <2>3. InThread(active) = 1 /\ InThread(active') = 0
    BY <2>1
  <2>4. /\ manualCount' = Cardinality(Waiting' \cap Requests) + InThread(active')
        /\ manualCount' <= MaxManual /\ manualCount' \in Nat
    BY <1>0, <2>1, <2>2, <2>3, SchedulerAssumption
  <2>5. future' \in [Requests -> {"idle", "waiting", "done"}]
    BY <2>1
  <2>6. \A q \in Requests : future'[q] = "waiting" => q \in Waiting' \/ Active(q)'
    BY <1>0, <2>1, <2>2 DEF Active
  <2> QED  BY <1>0, <2>1, <2>2, <2>4, <2>5, <2>6 DEF SlotsAccounted
<1> QED
  BY <1>1, <1>2, <1>3, <1>4, <1>5, <1>6, <1>7, <1>8, <1>9, <1>10, <1>11 DEF SchedulerStep

-----------------------------------------------------------------------------
(* The order of the line.                                                  *)

Limit == MaxMonitors + MaxManual

\* Each place that an image moves up pays for one image read before it.
LineFair ==
    /\ \A k \in 1 .. Len(pending) : overtaken[pending[k].key] + k <= Limit
    /\ \A key \in Keys \ Waiting : overtaken[key] = 0

\* The line is as long as the watched cameras and the slots allow.
LEMMA LineWithinLimit ==
  ASSUME NEW line \in Seq(Images), Distinct(line),
         NEW Watched, IsFiniteSet(Watched), Cardinality(Watched) <= MaxMonitors,
         KeysOf(line) \cap Cameras \subseteq Watched,
         Cardinality(KeysOf(line) \cap Requests) <= MaxManual
  PROVE  Len(line) <= Limit
<1> DEFINE C == KeysOf(line) \cap Cameras
           R == KeysOf(line) \cap Requests
<1>1. IsFiniteSet(KeysOf(line)) /\ Cardinality(KeysOf(line)) = Len(line)
  BY KeysCounted
<1>2. IsFiniteSet(C) /\ IsFiniteSet(R) /\ Cardinality(C) \in Nat /\ Cardinality(R) \in Nat
  BY <1>1, FS_Intersection, FS_CardinalityType
<1>3. KeysOf(line) = C \cup R /\ C \cap R = {}
  <2>1. \A k \in 1 .. Len(line) : line[k] \in Images
    OBVIOUS
  <2>2. KeysOf(line) \subseteq Keys
    BY <2>1 DEF KeysOf, Images
  <2> QED  BY <2>2, SchedulerAssumption DEF Keys
<1>4. Cardinality(C \cup R) = Cardinality(C) + Cardinality(R) - Cardinality(C \cap R)
  BY <1>2, FS_Union
<1>5. Cardinality(C \cap R) = 0
  BY <1>3, FS_EmptySet
<1>6. Cardinality(C) <= Cardinality(Watched) /\ Cardinality(Watched) \in Nat
  BY FS_Subset, FS_CardinalityType
<1>7. Len(line) = Cardinality(C) + Cardinality(R)
  <2>1. Len(line) = Cardinality(C) + Cardinality(R) - 0
    BY <1>1, <1>3, <1>4, <1>5
  <2> QED  BY <1>2, <2>1
<1>8. Cardinality(R) <= MaxManual
  OBVIOUS
<1> HIDE DEF C, R
<1> QED  BY <1>2, <1>6, <1>7, <1>8, SchedulerAssumption DEF Limit

LEMMA FairKept ==
  ASSUME QueueTyped, LineFair, SchedulerStep, QueueTyped', Len(pending') <= Limit
  PROVE  LineFair'
<1> DEFINE n == Len(pending)
<1>0. /\ LineOK /\ n \in Nat /\ Limit \in Nat \ {0} /\ Waiting = KeysOf(pending)
      /\ overtaken \in [Keys -> Nat] /\ overtaken' \in [Keys -> Nat]
      /\ \A k \in 1 .. n : pending[k] \in Images /\ pending[k].key \in Keys /\ pending[k].key \in Waiting
      /\ Len(pending') \in Nat
  <2>1. LineOK /\ LineOK' /\ overtaken \in [Keys -> Nat] /\ overtaken' \in [Keys -> Nat]
    BY DEF QueueTyped
  <2>2. \A k \in 1 .. n : pending[k] \in Images
    BY <2>1 DEF LineOK
  <2>3. \A k \in 1 .. n : pending[k].key \in Keys
    BY <2>2 DEF Images
  <2>4. Limit \in Nat \ {0}
    BY SchedulerAssumption DEF Limit
  <2>5. n \in Nat /\ Len(pending') \in Nat
    BY <2>1 DEF LineOK
  <2>6. Waiting = KeysOf(pending)
    BY <2>1, WaitingKeys DEF LineOK
  <2>7. \A k \in 1 .. n : pending[k].key \in Waiting
    BY <2>6 DEF KeysOf
  <2> QED  BY <2>1, <2>2, <2>3, <2>4, <2>5, <2>6, <2>7
\* An image that nobody overtakes any more.
<1>1. ASSUME NEW key \in Keys, pending' = Without(key), overtaken' = Forgive({key}) PROVE LineFair'
  <2>1. /\ pending' \in Seq(Images) /\ Distinct(pending') /\ KeysOf(pending') = Waiting \ {key}
        /\ \A k \in 1 .. Len(pending') :
              \E j \in k .. n : pending'[k] = pending[j] /\ pending[j].key # key
    BY <1>0, <1>1, WithoutProperties
  <2>2. Waiting' = Waiting \ {key}
    BY <2>1, NextLine
  <2>3. ASSUME NEW k \in 1 .. Len(pending') PROVE overtaken'[pending'[k].key] + k <= Limit
    <3>1. PICK j \in k .. n : pending'[k] = pending[j] /\ pending[j].key # key
      BY <2>1
    <3>2. j \in 1 .. n /\ k <= j /\ j \in Nat /\ k \in Nat
      BY <1>0
    <3>3. overtaken'[pending[j].key] = overtaken[pending[j].key] /\ overtaken[pending[j].key] \in Nat
      BY <1>0, <1>1, <3>1, <3>2 DEF Forgive
    <3>4. overtaken[pending[j].key] + j <= Limit
      BY <3>2 DEF LineFair
    <3>5. overtaken'[pending'[k].key] = overtaken[pending[j].key]
      BY <3>1, <3>3
    <3> QED  BY <1>0, <3>2, <3>3, <3>4, <3>5
  <2>4. \A other \in Keys \ Waiting' : overtaken'[other] = 0
    BY <1>0, <1>1, <2>2 DEF LineFair, Forgive
  <2> QED  BY <2>3, <2>4 DEF LineFair
\* A new image, or a newer one of the same camera.
<1>2. ASSUME NEW image \in Images, pending' = Place(image), UNCHANGED overtaken PROVE LineFair'
  <2>1. /\ pending' \in Seq(Images) /\ Distinct(pending') /\ KeysOf(pending') = Waiting \cup {image.key}
        /\ \A k \in 1 .. Len(pending') :
              \/ pending'[k] = image
              \/ k \in 1 .. n /\ pending'[k] = pending[k]
        /\ \A k \in 1 .. n : k \in 1 .. Len(pending') /\ pending'[k].key = pending[k].key
    BY <1>0, <1>2, PlaceProperties
  <2>2. Waiting' = Waiting \cup {image.key}
    BY <2>1, NextLine
  <2>3. ASSUME NEW k \in 1 .. Len(pending') PROVE overtaken'[pending'[k].key] + k <= Limit
    <3>1. CASE k \in 1 .. n
      BY <1>2, <2>1, <3>1 DEF LineFair
    <3>2. CASE k \notin 1 .. n
      <4>1. pending'[k] = image /\ image.key \in Keys
        BY <2>1, <3>2 DEF Images
      <4>2. \A j \in 1 .. n : pending[j].key # image.key
        BY <2>1, <3>2, <4>1 DEF Distinct
      <4>3. image.key \notin Waiting
        BY <1>0, <4>2 DEF KeysOf
      <4>4. overtaken'[pending'[k].key] = 0 /\ k <= Len(pending')
        BY <1>0, <1>2, <4>1, <4>3 DEF LineFair
      <4> QED  BY <1>0, <4>4
    <3> QED  BY <3>1, <3>2
  <2>4. \A other \in Keys \ Waiting' : overtaken'[other] = 0
    BY <1>0, <1>2, <2>2 DEF LineFair
  <2> QED  BY <2>3, <2>4 DEF LineFair
<1>3. CASE Take
  <2> DEFINE image == Head(pending)
  <2>1. /\ pending # <<>> /\ pending' = Tail(pending)
        /\ \/ overtaken' = Forgive({image.key})
           \/ overtaken' = [key \in Keys |-> IF key \in Waiting \ {image.key}
                                             THEN overtaken[key] + 1 ELSE 0]
    BY <1>3 DEF Take
  <2>2. /\ pending' \in Seq(Images) /\ Distinct(pending') /\ KeysOf(pending') = Waiting \ {image.key}
        /\ image.key \in Waiting
        /\ \A k \in 1 .. Len(pending') : k + 1 \in 1 .. n /\ pending'[k] = pending[k + 1]
    BY <1>0, <2>1, TailProperties
  <2> HIDE DEF image
  <2>3. Waiting' = Waiting \ {image.key}
    BY <2>2, NextLine
  <2>4. \A key \in Keys : key \in Waiting' => overtaken'[key] <= overtaken[key] + 1
    BY <1>0, <2>1, <2>3 DEF Forgive
  <2>5. ASSUME NEW k \in 1 .. Len(pending') PROVE overtaken'[pending'[k].key] + k <= Limit
    <3>1. k + 1 \in 1 .. n /\ pending'[k] = pending[k + 1] /\ k \in Nat
      BY <1>0, <2>2
    <3>2. overtaken[pending[k + 1].key] + (k + 1) <= Limit
      BY <3>1 DEF LineFair
    <3>3. pending'[k].key \in Waiting' /\ pending'[k].key \in Keys
      BY <1>0, <2>2, <2>3, <3>1 DEF KeysOf
    <3>4. overtaken'[pending'[k].key] \in Nat /\ overtaken[pending'[k].key] \in Nat
      BY <1>0, <3>3
    <3> QED  BY <1>0, <2>4, <3>1, <3>2, <3>3, <3>4
  <2>6. \A other \in Keys \ Waiting' : overtaken'[other] = 0
    BY <1>0, <2>1, <2>3 DEF LineFair, Forgive
  <2> QED  BY <2>5, <2>6 DEF LineFair
<1>4. CASE Close
  <2>1. pending' = <<>> /\ overtaken' = Forgive(Keys)
    BY <1>4 DEF Close
  <2> QED  BY <2>1 DEF LineFair, Forgive
<1>5. CASE UNCHANGED <<pending, overtaken>>
  BY <1>5 DEF LineFair, Waiting
<1> QED
  <2>1. ASSUME NEW c \in Cameras, RemoveMonitor(c) PROVE LineFair'
    BY <1>1, <2>1 DEF RemoveMonitor, Keys
  <2>2. ASSUME NEW image \in Images, SubmitMonitor(image) PROVE LineFair'
    BY <1>2, <1>5, <2>2 DEF SubmitMonitor
  <2>3. ASSUME NEW r \in Requests, Recognize(r) PROVE LineFair'
    <3>1. Manual(r) \in Images /\ Manual(r).key = r
      BY DEF Manual, Images, Keys
    <3>2. pending' = Place(Manual(r)) /\ UNCHANGED overtaken
      BY <2>3, <3>1 DEF Recognize, Place
    <3> QED  BY <1>2, <3>1, <3>2
  <2>4. ASSUME NEW r \in Requests, Return(r) \/ TimeOut(r) \/ ManualResult(r) PROVE LineFair'
    BY <1>1, <1>5, <2>4 DEF Return, TimeOut, ManualResult, Keys
  <2>5. CASE UNCHANGED scheduler \/ FreeThread \/ Sleep
    BY <1>5, <2>5 DEF scheduler, FreeThread, Sleep
  <2> QED  BY <1>3, <1>4, <2>1, <2>2, <2>3, <2>4, <2>5 DEF SchedulerStep

-----------------------------------------------------------------------------
(* What a look, a result and a failure make of a monitor.                  *)

LEMMA Least ==
  ASSUME NEW T \in SUBSET Nat, T # {}
  PROVE  \E n \in T : \A k \in T : n <= k
<1> DEFINE R == OpToRel(<, Nat)
<1>1. IsWellFoundedOn(R, Nat)
  BY NatLessThanWellFounded DEF OpToRel
<1>2. \A x, y \in Nat : x < y => <<x, y>> \in R
  BY DEF OpToRel
<1> HIDE DEF R
<1>3. \E n \in T : \A k \in T : ~ (<<k, n>> \in R)
  BY <1>1, WFMin
<1>4. PICK n \in T : \A k \in T : ~ (k < n)
  BY <1>2, <1>3
<1> QED  BY <1>4

Finite(m) == IsFiniteSet(m.votes)

\* What only a capture or the manager changes.
SameMonitor(m, n) ==
    /\ n.camera = m.camera /\ n.epoch = m.epoch /\ n.failed = m.failed /\ n.closed = m.closed
    /\ n.started = m.started /\ n.capturing = m.capturing

Status == {"waiting", "candidate", "confirmed", "stale", "offline"}

LEMMA VotesCounted ==
  ASSUME NEW votes \in SUBSET Vote, IsFiniteSet(votes), NEW p
  PROVE  Votes(votes, p) \in Nat /\ Votes(votes, p) <= Cardinality(votes)
<1>1. {v \in votes : v.plate = p} \subseteq votes
  OBVIOUS
<1>2. /\ IsFiniteSet({v \in votes : v.plate = p})
      /\ Cardinality({v \in votes : v.plate = p}) <= Cardinality(votes)
  BY <1>1, FS_Subset
<1> QED  BY <1>2, FS_CardinalityType DEF Votes

\* There is a plate with the most votes, and it was voted for.
LEMMA SomebodyElected ==
  ASSUME NEW votes \in SUBSET Vote, IsFiniteSet(votes), votes # {}
  PROVE  MostVoted(votes) \in PlateTexts
<1> DEFINE count(v) == Votes(votes, v.plate)
           N == Cardinality(votes)
<1>0. N \in Nat /\ \A v \in votes : count(v) \in Nat /\ count(v) <= N /\ v.at \in Nat /\ v.plate \in PlateTexts
  BY FS_CardinalityType, VotesCounted DEF Vote
<1> HIDE DEF count, N
<1>1. PICK u \in votes : \A w \in votes : count(w) <= count(u)
  <2> DEFINE T == {N - count(v) : v \in votes}
  <2>1. T \in SUBSET Nat /\ T # {}
    BY <1>0
  <2>2. PICK k \in T : \A j \in T : k <= j
    BY <2>1, Least
  <2>3. PICK u \in votes : k = N - count(u)
    BY <2>2
  <2>4. \A w \in votes : N - count(u) <= N - count(w)
    BY <2>2, <2>3
  <2> HIDE DEF T
  <2> QED  BY <1>0, <2>4
<1>2. PICK v \in votes : /\ count(v) = count(u)
                         /\ \A w \in votes : count(w) = count(u) => v.at <= w.at
  <2> DEFINE T == {w.at : w \in {x \in votes : count(x) = count(u)}}
  <2>1. T \in SUBSET Nat /\ u.at \in T
    BY <1>0
  <2>2. PICK k \in T : \A j \in T : k <= j
    BY <2>1, Least
  <2> QED  BY <2>2
<1>3. \A w \in votes : \/ count(w) < count(v)
                       \/ count(w) = count(v) /\ (v.at <= w.at \/ v.plate = w.plate)
  BY <1>0, <1>1, <1>2
<1> DEFINE First(x) == \A w \in votes : \/ count(w) < count(x)
                                        \/ count(w) = count(x) /\ (x.at <= w.at \/ x.plate = w.plate)
           first == CHOOSE x \in votes : First(x)
<1>4. first \in votes
  BY <1>3
<1>5. MostVoted(votes) = first.plate
  BY DEF MostVoted, count
<1> QED  BY <1>0, <1>4, <1>5

LEMMA InvalidateGives ==
  ASSUME NEW m \in MonitorState, NEW status \in Status
  PROVE  /\ Invalidate(m, status) \in MonitorState /\ SameMonitor(m, Invalidate(m, status))
         /\ Invalidate(m, status).observation = Nil /\ Invalidate(m, status).votes = {}
         /\ Invalidate(m, status).status = status
BY DEF Invalidate, MonitorState, SameMonitor, Status

LEMMA StateGives ==
  ASSUME NEW m \in MonitorState
  PROVE  /\ State(m) \in MonitorState /\ SameMonitor(m, State(m))
         /\ \/ State(m) = m
            \/ /\ State(m).observation = Nil /\ State(m).votes = {}
               /\ State(m).status = "stale"
<1>1. CASE State(m) = m
  BY <1>1 DEF SameMonitor
<1>2. CASE State(m) = Invalidate(m, "stale")
  BY <1>2, InvalidateGives DEF Status
<1> QED  BY <1>1, <1>2 DEF State

LEMMA ValidVotesAre ==
  ASSUME NEW votes \in SUBSET Vote, NEW at \in Nat
  PROVE  ValidVotes(votes, at) \in SUBSET votes /\ ValidVotes(votes, at) \in SUBSET Vote
BY DEF ValidVotes

LEMMA UnreadGives ==
  ASSUME NEW m \in MonitorState, IsFiniteSet(m.votes), NEW at \in Nat
  PROVE  /\ Unread(m, at) \in MonitorState /\ SameMonitor(m, Unread(m, at))
         /\ Unread(m, at).votes \in {{}, m.votes}
         /\ Unread(m, at).observation \in {Nil, m.observation}
         /\ Unread(m, at).observation # Nil => Unread(m, at).plate = m.plate
         /\ Unread(m, at).status = "confirmed" <=> m.status = "confirmed"
<1>1. CASE m.status = "confirmed"
  BY <1>1 DEF Unread, SameMonitor
<1>2. CASE Unread(m, at) = Invalidate(m, "waiting") /\ m.status # "confirmed"
  BY <1>2, InvalidateGives DEF Status
<1>3. CASE Unread(m, at) = [m EXCEPT !.reads = Votes(m.votes, m.plate), !.lastSeen = at] /\ m.status # "confirmed"
  <2>1. m.votes \in SUBSET Vote
    BY DEF MonitorState
  <2>2. Votes(m.votes, m.plate) \in Nat
    BY <2>1, VotesCounted
  <2>3. Unread(m, at) \in MonitorState
    BY <1>3, <2>2 DEF MonitorState
  <2>4. /\ SameMonitor(m, Unread(m, at)) /\ Unread(m, at).votes = m.votes
        /\ Unread(m, at).observation = m.observation /\ Unread(m, at).plate = m.plate
        /\ Unread(m, at).status = m.status
    BY <1>3 DEF MonitorState, SameMonitor
  <2> QED  BY <1>3, <2>3, <2>4
<1> QED  BY <1>1, <1>2, <1>3 DEF Unread

\* A frame that shows a plate: the votes that confirm it are among those that
\* were valid and its own.
LEMMA ReadGives ==
  ASSUME NEW m \in MonitorState, IsFiniteSet(m.votes), NEW p \in PlateTexts, NEW at \in Nat,
         NEW n, n = Read(m, p, at)
  PROVE  /\ n \in MonitorState /\ SameMonitor(m, n)
         /\ n.votes \subseteq m.votes \cup {[plate |-> p, at |-> at]}
         /\ \/ n.observation = m.observation /\ n.plate = m.plate
               /\ (m.status = "confirmed" => n.status = "confirmed")
            \/ n.observation = at
         /\ n.status = "confirmed" /\ (m.status # "confirmed" \/ n.observation # m.observation)
            => /\ \A v \in n.votes : v.at + Window >= n.lastSeen
               /\ Votes(n.votes, n.plate) >= ConfirmationReads
<1> DEFINE vote == [plate |-> p, at |-> at]
           votes == ValidVotes(m.votes \cup {vote}, at)
           elected == MostVoted(votes)
           changed == elected # m.plate
           count == Votes(votes, elected)
           observation == IF changed THEN at ELSE m.observation
           status == IF count >= ConfirmationReads \/ (~changed /\ m.status = "confirmed")
                     THEN "confirmed" ELSE "candidate"
<1>1. m.votes \in SUBSET Vote /\ vote \in Vote /\ m.observation \in Nat \cup {Nil}
  BY DEF MonitorState, Vote
<1>2. /\ votes \subseteq m.votes \cup {vote} /\ votes \in SUBSET Vote /\ vote \in votes
      /\ \A v \in votes : v.at + Window >= at
  BY <1>1, MonitorsAssumption DEF ValidVotes
<1>3. IsFiniteSet(votes)
  <2>1. IsFiniteSet(m.votes \cup {vote})
    <3> HIDE DEF vote
    <3> QED  BY FS_AddElement
  <2> HIDE DEF vote, votes
  <2> QED  BY <1>2, <2>1, FS_Subset
<1>4. elected \in PlateTexts /\ count \in Nat
  BY <1>2, <1>3, SomebodyElected, VotesCounted
<1>5. n = [m EXCEPT !.votes = votes, !.plate = elected, !.reads = count, !.lastSeen = at,
                    !.observation = observation, !.status = status]
  BY DEF Read
<1>6. observation \in Nat \cup {Nil} /\ status \in Status /\ (status = "confirmed" <=>
         count >= ConfirmationReads \/ (~changed /\ m.status = "confirmed"))
  <2>1. observation \in Nat \cup {Nil}
    BY <1>1
  <2> HIDE DEF vote, votes, elected, changed, count, observation
  <2>2. status \in Status /\ (status = "confirmed" <=>
           count >= ConfirmationReads \/ (~changed /\ m.status = "confirmed"))
    BY Zenon DEF Status
  <2> QED  BY <2>1, <2>2
<1>7. (observation = m.observation /\ elected = m.plate) \/ observation = at
  OBVIOUS
<1>8. changed => observation = at
  OBVIOUS
<1>8a. ~changed => observation = m.observation
  OBVIOUS
<1> HIDE DEF vote, votes, elected, changed, count, observation, status
<1>9. n \in MonitorState
  BY <1>2, <1>4, <1>5, <1>6 DEF MonitorState, Status
<1>10. /\ SameMonitor(m, n) /\ n.votes = votes /\ n.plate = elected /\ n.lastSeen = at
       /\ n.observation = observation /\ n.status = status
  BY <1>5 DEF MonitorState, SameMonitor
<1>11. \/ n.observation = m.observation /\ n.plate = m.plate
          /\ (m.status = "confirmed" => n.status = "confirmed")
       \/ n.observation = at
  BY <1>6, <1>8, <1>8a, <1>10 DEF changed
<1>12. ASSUME n.status = "confirmed", m.status # "confirmed" \/ n.observation # m.observation
       PROVE  count >= ConfirmationReads
  BY <1>6, <1>8a, <1>10, <1>12
<1> QED  BY <1>2, <1>9, <1>10, <1>11, <1>12 DEF count, vote

\* A result that is not rejected: what it may do to the votes, the observation
\* and the status.
LEMMA AcceptedGives ==
  ASSUME NEW m \in MonitorState, IsFiniteSet(m.votes), NEW image, image.at \in Nat,
         NEW result \in Results, NEW n, n = Accepted(m, image, result)
  PROVE  /\ n \in MonitorState /\ SameMonitor(m, n)
         /\ \A v \in n.votes : \/ v \in m.votes
                               \/ result \in PlateTexts /\ v = [plate |-> result, at |-> image.at]
         /\ \/ n.observation = Nil
            \/ n.observation = m.observation /\ n.plate = m.plate
               /\ (m.status = "confirmed" => n.status = "confirmed")
            \/ n.observation = image.at
         /\ n.status = "confirmed" /\ (m.status # "confirmed" \/ n.observation # m.observation)
            => /\ \A v \in n.votes : v.at + Window >= n.lastSeen
               /\ Votes(n.votes, n.plate) >= ConfirmationReads
<1> DEFINE current == State(m)
           recent == [current EXCEPT !.votes = ValidVotes(@, image.at)]
<1>1. /\ current \in MonitorState /\ SameMonitor(m, current)
      /\ \/ current = m
         \/ current.observation = Nil /\ current.votes = {} /\ current.status = "stale"
  BY StateGives
<1>2. IsFiniteSet(current.votes) /\ current.votes \subseteq m.votes /\ current.votes \in SUBSET Vote
  <2>1. current.votes \subseteq m.votes /\ current.votes \in SUBSET Vote
    BY <1>1 DEF MonitorState
  <2> QED  BY <2>1, FS_Subset
<1>3. /\ recent \in MonitorState /\ SameMonitor(current, recent)
      /\ recent.votes = ValidVotes(current.votes, image.at)
      /\ recent.status = current.status /\ recent.observation = current.observation
      /\ recent.plate = current.plate
  <2> DEFINE votes == ValidVotes(current.votes, image.at)
  <2>1. votes \in SUBSET Vote
    BY <1>2, ValidVotesAre
  <2>2. recent = [current EXCEPT !.votes = votes]
    BY <1>1 DEF MonitorState
  <2> HIDE DEF votes, recent, current
  <2>3. recent \in MonitorState /\ recent.votes = votes
    BY <1>1, <2>1, <2>2 DEF MonitorState
  <2>4. SameMonitor(current, recent) /\ recent.status = current.status
        /\ recent.observation = current.observation /\ recent.plate = current.plate
    BY <1>1, <2>2 DEF MonitorState, SameMonitor
  <2> QED  BY <2>3, <2>4 DEF votes
<1>4. recent.votes \subseteq m.votes /\ IsFiniteSet(recent.votes)
  BY <1>2, <1>3, ValidVotesAre, FS_Subset
<1>5. SameMonitor(m, recent)
  BY <1>1, <1>3 DEF SameMonitor
<1>6. \/ /\ recent.observation = Nil /\ recent.status = "stale"
      \/ /\ recent.observation = m.observation /\ recent.plate = m.plate /\ recent.status = m.status
  BY <1>1, <1>3
<1>7. CASE n = m
  BY <1>7 DEF SameMonitor
<1>8. CASE n = current
  <2>1. CASE current = m
    BY <1>7, <1>8, <2>1
  <2>2. CASE current.observation = Nil /\ current.votes = {} /\ current.status = "stale"
    BY <1>1, <1>8, <2>2
  <2> QED  BY <1>1, <2>1, <2>2
<1>9. CASE n = Invalidate(current, "offline")
  <2>1. n \in MonitorState /\ SameMonitor(current, n) /\ n.observation = Nil /\ n.votes = {}
        /\ n.status = "offline"
    BY <1>1, <1>9, InvalidateGives DEF Status
  <2>2. SameMonitor(m, n)
    BY <1>1, <2>1 DEF SameMonitor
  <2> QED  BY <2>1, <2>2
<1> HIDE DEF current, recent
<1>10. CASE n = recent
  BY <1>3, <1>4, <1>5, <1>6, <1>10
<1>11. CASE n = Unread(recent, image.at)
  <2>1. /\ n \in MonitorState /\ SameMonitor(recent, n) /\ n.votes \in {{}, recent.votes}
        /\ n.observation \in {Nil, recent.observation}
        /\ n.observation # Nil => n.plate = recent.plate
        /\ n.status = "confirmed" <=> recent.status = "confirmed"
    BY <1>3, <1>4, <1>11, UnreadGives
  <2>2. SameMonitor(m, n)
    BY <1>5, <2>1 DEF SameMonitor
  <2>3. n.status = "confirmed" => m.status = "confirmed"
    BY <1>6, <2>1
  <2>4. recent.status = "confirmed" => n = recent
    BY <1>11 DEF Unread
  <2> QED  BY <1>4, <1>6, <2>1, <2>2, <2>3, <2>4
<1>12. CASE result \in PlateTexts /\ n = Read(recent, result, image.at)
  <2>1. /\ n \in MonitorState /\ SameMonitor(recent, n)
        /\ n.votes \subseteq recent.votes \cup {[plate |-> result, at |-> image.at]}
        /\ \/ n.observation = recent.observation /\ n.plate = recent.plate
              /\ (recent.status = "confirmed" => n.status = "confirmed")
           \/ n.observation = image.at
        /\ n.status = "confirmed" /\ (recent.status # "confirmed" \/ n.observation # recent.observation)
           => /\ \A v \in n.votes : v.at + Window >= n.lastSeen
              /\ Votes(n.votes, n.plate) >= ConfirmationReads
    BY <1>3, <1>4, <1>12, ReadGives
  <2>2. SameMonitor(m, n)
    BY <1>5, <2>1 DEF SameMonitor
  <2>3. m.status # "confirmed" \/ n.observation # m.observation
        => recent.status # "confirmed" \/ n.observation # recent.observation
    BY <1>6
  <2> QED  BY <1>4, <1>6, <1>12, <2>1, <2>2, <2>3
<1> QED
  <2>1. result \in {"none", "unsure", "error"} \/ result \in PlateTexts
    BY DEF Results
  <2> QED
    BY <1>7, <1>8, <1>9, <1>10, <1>11, <1>12, <2>1, MonitorsAssumption DEF Accepted, current, recent

-----------------------------------------------------------------------------
(* The inductive invariant of the monitors.                                *)

Watched == {c \in Cameras : registered[c] # Nil}

MonitorsTyped ==
    /\ clock \in Nat
    /\ monitor \in [Monitors -> MonitorState \cup {Nil}]
    /\ told \in [Monitors -> {EventState(m) : m \in MonitorState} \cup {Nil}]
    /\ readings \in [Monitors -> SUBSET Vote]
    /\ registered \in [Cameras -> Monitors \cup {Nil}]

\* The registered monitor of a camera is its only open one, also between the
\* two steps of upsert and remove, which the lock allows one at a time.
Registry ==
    /\ \A i \in Monitors : monitor[i] # Nil /\ ~monitor[i].closed => registered[monitor[i].camera] = i
    /\ \A c \in Cameras : registered[c] # Nil =>
          monitor[registered[c]] # Nil /\ monitor[registered[c]].camera = c
    /\ IsFiniteSet(Watched) /\ Cardinality(Watched) <= MaxMonitors
    /\ \A o, p \in closing : o = p
    /\ \A o \in closing :
          /\ o.old \in Monitors /\ o.camera \in Cameras
          /\ monitor[o.old] # Nil /\ monitor[o.old].closed /\ monitor[o.old].camera = o.camera
          /\ o.kind = "upsert" => registered[o.camera] = o.old

\* A camera with an image in line is watched.
LineWatched == Waiting \cap Cameras \subseteq Watched

\* What a monitor knows comes from frames that it captured before.
HistoryOK(m, read) ==
    /\ m.failed <= m.started /\ m.started <= clock
    /\ m.capturing => m.failed < m.started /\ ~m.closed
    /\ m.observation # Nil =>
          m.observation <= m.started /\ (m.capturing => m.observation < m.started)
    /\ IsFiniteSet(read) /\ m.votes \subseteq read

MonitorHistory ==
    \A i \in Monitors :
       IsFiniteSet(readings[i]) /\ (monitor[i] # Nil => HistoryOK(monitor[i], readings[i]))

InFlight == {pending[k] : k \in 1 .. Len(pending)} \cup ({active} \ {Nil})

\* An image is of its monitor's camera; unless a capture failed since, it is
\* newer than the last failure and than what is observed.
Fits(image, m) ==
    /\ m.camera = image.key /\ image.epoch <= m.epoch /\ image.at <= m.started
    /\ m.capturing => image.at < m.started
    /\ image.epoch = m.epoch =>
          /\ m.failed < image.at
          /\ m.observation # Nil => m.observation < image.at

ImageOK(image) ==
    image.from \in Monitors /\ monitor[image.from] # Nil /\ Fits(image, monitor[image.from])

NotTwice == active # Nil => active.key \notin Waiting

Flight ==
    /\ \A image \in InFlight : image.key \in Cameras => ImageOK(image)
    /\ NotTwice

IInv ==
    /\ QueueTyped /\ SlotsAccounted /\ LineFair
    /\ MonitorsTyped /\ Registry /\ LineWatched /\ MonitorHistory /\ Flight
    /\ EveryChangeTold

LEMMA FreshMonitor ==
  ASSUME \E i \in Monitors : monitor[i] = Nil
  PROVE  Fresh \in Monitors /\ monitor[Fresh] = Nil
<1> DEFINE T == {i \in Monitors : monitor[i] = Nil}
<1>1. T \in SUBSET Nat /\ T # {}
  BY DEF Monitors
<1>2. PICK i \in T : \A j \in T : i <= j
  BY <1>1, Least
<1>3. \A j \in Monitors : j < i => monitor[j] # Nil
  BY <1>1, <1>2 DEF Monitors
<1>4. i \in Monitors /\ monitor[i] = Nil
  BY <1>2
<1> QED  BY <1>3, <1>4 DEF Fresh

\* Which images a step of the scheduler leaves in it.
OtherStep ==
    \/ Sleep \/ Take \/ Close
    \/ \E r \in Requests : Recognize(r) \/ Return(r) \/ TimeOut(r) \/ ManualResult(r)

LEMMA PendingImages ==
  QueueTyped => /\ Waiting = KeysOf(pending)
                /\ \A image \in InFlight : image \in Images
                /\ \A k \in 1 .. Len(pending) : pending[k] \in Images
BY WaitingKeys DEF QueueTyped, LineOK, InFlight

LEMMA RemovedFromLine ==
  ASSUME QueueTyped, NEW key, pending' = Without(key)
  PROVE  /\ Waiting' = Waiting \ {key}
         /\ \A k \in 1 .. Len(pending') : pending'[k] \in {pending[j] : j \in 1 .. Len(pending)}
<1>1. /\ Without(key) \in Seq(Images) /\ Distinct(Without(key)) /\ KeysOf(Without(key)) = Waiting \ {key}
      /\ \A k \in 1 .. Len(Without(key)) : \E j \in k .. Len(pending) : Without(key)[k] = pending[j]
  BY WithoutProperties DEF QueueTyped
<1>2. Waiting' = Waiting \ {key}
  BY <1>1, NextLine
<1>3. \A k \in 1 .. Len(pending') : \E j \in 1 .. Len(pending) : pending'[k] = pending[j]
  BY <1>1
<1> QED  BY <1>2, <1>3

LEMMA PlacedInLine ==
  ASSUME QueueTyped, NEW image \in Images, pending' = Place(image)
  PROVE  /\ Waiting' = Waiting \cup {image.key}
         /\ \A k \in 1 .. Len(pending') :
               pending'[k] \in {pending[j] : j \in 1 .. Len(pending)} \cup {image}
<1>1. /\ Place(image) \in Seq(Images) /\ Distinct(Place(image))
      /\ KeysOf(Place(image)) = Waiting \cup {image.key}
      /\ \A k \in 1 .. Len(Place(image)) :
            Place(image)[k] = image \/ (k \in 1 .. Len(pending) /\ Place(image)[k] = pending[k])
  BY PlaceProperties DEF QueueTyped
<1>2. Waiting' = Waiting \cup {image.key}
  BY <1>1, NextLine
<1> QED  BY <1>1, <1>2

LEMMA SubmitFlight ==
  ASSUME QueueTyped, NotTwice, NEW image \in Images, SubmitMonitor(image)
  PROVE  NotTwice' /\ InFlight' \subseteq InFlight \cup {image} /\ Waiting' \subseteq Waiting \cup {image.key}
<1>1. CASE UNCHANGED pending
  BY <1>1 DEF SubmitMonitor, NotTwice, InFlight, Waiting
<1>2. CASE pending' = Place(image) /\ ~Active(image.key)
  <2>1. UNCHANGED active
    BY DEF SubmitMonitor
  <2>2. Waiting' = Waiting \cup {image.key}
    BY <1>2, PlacedInLine
  <2>3. \A k \in 1 .. Len(pending') : pending'[k] \in InFlight \cup {image}
    BY <1>2, PlacedInLine DEF InFlight
  <2> QED  BY <1>2, <2>1, <2>2, <2>3 DEF NotTwice, InFlight, Active
<1> QED  BY <1>1, <1>2 DEF SubmitMonitor

LEMMA RemoveFlight ==
  ASSUME QueueTyped, NotTwice, NEW c, RemoveMonitor(c)
  PROVE  NotTwice' /\ InFlight' \subseteq InFlight /\ Waiting' = Waiting \ {c}
<1>1. pending' = Without(c) /\ UNCHANGED active
  BY DEF RemoveMonitor
<1>2. Waiting' = Waiting \ {c} /\ \A k \in 1 .. Len(pending') : pending'[k] \in InFlight
  BY <1>1, RemovedFromLine DEF InFlight
<1> QED  BY <1>1, <1>2 DEF NotTwice, InFlight

LEMMA FreeFlight ==
  ASSUME QueueTyped, NotTwice, FreeThread
  PROVE  /\ NotTwice' /\ Waiting' = Waiting
         /\ \A image \in InFlight' : image \in InFlight /\ image.key # active.key
<1>1. active # Nil /\ active' = Nil /\ UNCHANGED pending
  BY DEF FreeThread
<1> QED  BY <1>1 DEF NotTwice, InFlight, Waiting, QueueTyped, LineOK

LEMMA OtherFlight ==
  ASSUME QueueTyped, NotTwice, OtherStep
  PROVE  /\ NotTwice' /\ Waiting' \cap Cameras \subseteq Waiting
         /\ \A image \in InFlight' : image \in InFlight \/ image.key \in Requests
<1> USE DEF QueueTyped
<1>1. CASE UNCHANGED <<pending, active>>
  BY <1>1 DEF NotTwice, InFlight, Waiting
<1>2. CASE Take
  <2>1. /\ pending # <<>> /\ pending' = Tail(pending) /\ active = Nil
        /\ active' = Nil \/ active' = Head(pending)
    BY <1>2 DEF Take
  <2>2. /\ Head(pending) = pending[1] /\ Tail(pending) \in Seq(Images) /\ Distinct(Tail(pending))
        /\ 1 \in 1 .. Len(pending)
        /\ KeysOf(Tail(pending)) = Waiting \ {Head(pending).key}
        /\ \A k \in 1 .. Len(Tail(pending)) : k + 1 \in 1 .. Len(pending) /\ Tail(pending)[k] = pending[k + 1]
    BY <2>1, TailProperties, EmptySeq DEF LineOK
  <2>3. Waiting' = Waiting \ {Head(pending).key}
    BY <2>1, <2>2, NextLine
  <2>4. \A k \in 1 .. Len(pending') : pending'[k] \in {pending[j] : j \in 1 .. Len(pending)}
    BY <2>1, <2>2
  <2>5. Head(pending) \in InFlight
    BY <2>2, PendingImages, SchedulerAssumption DEF InFlight
  <2> QED  BY <2>1, <2>3, <2>4, <2>5 DEF NotTwice, InFlight
<1>3. CASE Close
  <2>1. pending' = <<>> /\ UNCHANGED active
    BY <1>3 DEF Close
  <2> QED  BY <2>1 DEF NotTwice, InFlight, Waiting
<1>4. ASSUME NEW r \in Requests, Recognize(r)
      PROVE  /\ NotTwice' /\ Waiting' \cap Cameras \subseteq Waiting
             /\ \A image \in InFlight' : image \in InFlight \/ image.key \in Requests
  <2>1. Manual(r) \in Images /\ Manual(r).key = r
    BY DEF Manual, Images, Keys
  <2>2. pending' = Place(Manual(r)) /\ ~Active(r) /\ UNCHANGED active
    BY <1>4, <2>1 DEF Recognize, Place
  <2>3. Waiting' = Waiting \cup {r} /\ \A k \in 1 .. Len(pending') : pending'[k] \in InFlight \cup {Manual(r)}
    BY <2>1, <2>2, PlacedInLine DEF InFlight
  <2> QED  BY <2>1, <2>2, <2>3, SchedulerAssumption DEF NotTwice, InFlight, Active
<1>5. ASSUME NEW r \in Requests, TimeOut(r)
      PROVE  /\ NotTwice' /\ Waiting' \cap Cameras \subseteq Waiting
             /\ \A image \in InFlight' : image \in InFlight \/ image.key \in Requests
  <2>1. pending' = Without(r) /\ UNCHANGED active
    BY <1>5 DEF TimeOut
  <2>2. Waiting' = Waiting \ {r} /\ \A k \in 1 .. Len(pending') : pending'[k] \in InFlight
    BY <2>1, RemovedFromLine DEF InFlight
  <2> QED  BY <2>1, <2>2 DEF NotTwice, InFlight
<1>6. ASSUME NEW r \in Requests, ManualResult(r)
      PROVE  /\ NotTwice' /\ Waiting' \cap Cameras \subseteq Waiting
             /\ \A image \in InFlight' : image \in InFlight \/ image.key \in Requests
  BY <1>6 DEF ManualResult, NotTwice, InFlight, Waiting
<1> QED
  BY <1>1, <1>2, <1>3, <1>4, <1>5, <1>6 DEF OtherStep, Sleep, Return

-----------------------------------------------------------------------------
(* Steps of one monitor.                                                   *)

\* A step of the scheduler keeps its part of the invariant.
LEMMA QueueStep ==
  ASSUME QueueTyped, SlotsAccounted, LineFair, SchedulerStep,
         LineWatched', IsFiniteSet(Watched'), Cardinality(Watched') <= MaxMonitors
  PROVE  QueueTyped' /\ SlotsAccounted' /\ LineFair'
<1>1. QueueTyped' /\ SlotsAccounted'
  BY SlotsKept
<1>2. pending' \in Seq(Images) /\ Distinct(pending') /\ Waiting' = KeysOf(pending')
  BY <1>1, NextLine DEF QueueTyped, LineOK, Distinct
<1>3. Cardinality(KeysOf(pending') \cap Requests) <= MaxManual
  <2>1. IsFiniteSet(KeysOf(pending'))
    BY <1>2, KeysCounted
  <2>2. Cardinality(KeysOf(pending') \cap Requests) \in Nat
    BY <2>1, FS_Intersection, FS_CardinalityType
  <2>3. /\ manualCount' = Cardinality(KeysOf(pending') \cap Requests)
                          + (IF active' # Nil /\ active'.key \in Requests THEN 1 ELSE 0)
        /\ manualCount' <= MaxManual
    BY <1>1, <1>2 DEF SlotsAccounted
  <2> QED  BY <2>2, <2>3, SchedulerAssumption
<1>4. Len(pending') <= Limit
  BY <1>2, <1>3, LineWithinLimit DEF LineWatched
<1> QED  BY <1>1, <1>4, FairKept

\* A monitor changes and tells it: the registry and the other monitors are as
\* they were.
LEMMA OneMonitor ==
  ASSUME MonitorsTyped, Registry, MonitorHistory, EveryChangeTold,
         NEW i \in Monitors, monitor[i] # Nil,
         NEW n \in MonitorState, n.camera = monitor[i].camera, n.closed = monitor[i].closed,
         Publish(i, n), UNCHANGED <<clock, registered>>, closing' \subseteq closing,
         readings' \in [Monitors -> SUBSET Vote],
         \A j \in Monitors : j # i => readings'[j] = readings[j],
         HistoryOK(n, readings'[i])
  PROVE  MonitorsTyped' /\ Registry' /\ MonitorHistory' /\ EveryChangeTold' /\ Watched' = Watched
<1>1. n # Nil /\ monitor[i] \in MonitorState
  BY MonitorsAssumption DEF MonitorsTyped
<1>2. /\ monitor' \in [Monitors -> MonitorState \cup {Nil}] /\ monitor'[i] = n
      /\ \A j \in Monitors : j # i => monitor'[j] = monitor[j]
  BY DEF Publish, MonitorsTyped
<1>3. /\ told' \in [Monitors -> {EventState(m) : m \in MonitorState} \cup {Nil}]
      /\ told'[i] = IF EventState(n) # EventState(monitor[i]) THEN EventState(n) ELSE told[i]
      /\ \A j \in Monitors : j # i => told'[j] = told[j]
  BY DEF Publish, MonitorsTyped
<1>4. EveryChangeTold'
  <2>1. \A j \in Monitors : monitor'[j] # Nil => told'[j] = EventState(monitor'[j])
    <3> TAKE j \in Monitors
    <3>1. CASE j = i
      BY <1>2, <1>3, <3>1 DEF EveryChangeTold
    <3>2. CASE j # i
      BY <1>2, <1>3, <3>2 DEF EveryChangeTold
    <3> QED  BY <3>1, <3>2
  <2> QED  BY <2>1 DEF EveryChangeTold, EventState
<1>5. MonitorsTyped'
  BY <1>2, <1>3 DEF MonitorsTyped, EventState
<1>6. Watched' = Watched
  BY DEF Watched
<1>7. Registry'
  <2>1. \A j \in Monitors : /\ monitor'[j] = Nil <=> monitor[j] = Nil
                            /\ monitor[j] # Nil => /\ monitor'[j].camera = monitor[j].camera
                                                    /\ monitor'[j].closed = monitor[j].closed
    BY <1>1, <1>2
  <2>2. \A c \in Cameras : registered[c] \in Monitors \cup {Nil}
    BY DEF MonitorsTyped
  <2> QED  BY <1>6, <2>1, <2>2 DEF Registry
<1>8. MonitorHistory'
  BY <1>1, <1>2 DEF MonitorHistory, HistoryOK
<1> QED  BY <1>4, <1>5, <1>6, <1>7, <1>8

\* The images on their way fit their monitors, when those of the monitor that
\* changes do.
LEMMA OneFlight ==
  ASSUME QueueTyped, MonitorsTyped, Flight, NotTwice',
         NEW i \in Monitors, monitor[i] # Nil, NEW n \in MonitorState,
         monitor' = [monitor EXCEPT ![i] = n],
         \A image \in InFlight' : image.key \in Cameras =>
            \/ image \in InFlight /\ (image.from = i /\ Fits(image, monitor[i]) => Fits(image, n))
            \/ image.from = i /\ Fits(image, n)
  PROVE  Flight'
<1>1. n # Nil
  BY MonitorsAssumption
<1>2. monitor'[i] = n /\ \A j \in Monitors : j # i => monitor'[j] = monitor[j]
  BY DEF MonitorsTyped
<1>3. ASSUME NEW image \in InFlight', image.key \in Cameras PROVE ImageOK(image)'
  <2>1. image.from \in Monitors /\ monitor'[image.from] # Nil /\ Fits(image, monitor'[image.from])
    <3>1. CASE image.from = i /\ Fits(image, n)
      BY <1>1, <1>2, <3>1
    <3>2. CASE image \in InFlight /\ (image.from = i /\ Fits(image, monitor[i]) => Fits(image, n))
      BY <1>1, <1>2, <1>3, <3>2 DEF Flight, ImageOK
    <3> QED  BY <1>3, <3>1, <3>2
  <2> QED  BY <2>1 DEF ImageOK, Fits
<1> QED  BY <1>3 DEF Flight

LEMMA Kept ==
  ASSUME IInv, SchedulerStep, MonitorsTyped', Registry', MonitorHistory', EveryChangeTold',
         LineWatched', Flight'
  PROVE  IInv'
BY QueueStep DEF IInv, Registry

LEMMA QuietScheduler ==
  ASSUME UNCHANGED scheduler
  PROVE  SchedulerStep /\ InFlight' = InFlight /\ Waiting' = Waiting /\ (NotTwice => NotTwice')
BY DEF scheduler, SchedulerStep, InFlight, Waiting, NotTwice

LEMMA LookKept ==
  ASSUME IInv, NEW c \in Cameras, Look(c)
  PROVE  IInv'
<1> DEFINE i == registered[c]
           m == monitor[i]
           n == State(m)
<1>1. /\ i \in Monitors /\ m # Nil /\ m \in MonitorState
      /\ Publish(i, n) /\ UNCHANGED <<clock, scheduler, registered, closing, readings>>
  BY DEF Look, IInv, MonitorsTyped, Registry
<1>2. HistoryOK(m, readings[i]) /\ readings \in [Monitors -> SUBSET Vote]
  BY <1>1 DEF IInv, MonitorHistory, MonitorsTyped
<1>3. /\ n \in MonitorState /\ SameMonitor(m, n)
      /\ n = m \/ (n.observation = Nil /\ n.votes = {})
  BY <1>1, StateGives
<1> HIDE DEF i, m, n
<1>4. HistoryOK(n, readings[i])
  BY <1>2, <1>3 DEF HistoryOK, SameMonitor
<1>5. \A image : Fits(image, m) => Fits(image, n)
  BY <1>3 DEF Fits, SameMonitor
<1>6. MonitorsTyped' /\ Registry' /\ MonitorHistory' /\ EveryChangeTold' /\ Watched' = Watched
  BY <1>1, <1>2, <1>3, <1>4, OneMonitor DEF IInv, m, SameMonitor
<1>7. Flight'
  BY <1>1, <1>3, <1>5, QuietScheduler, OneFlight DEF IInv, Flight, Publish, m
<1> QED  BY <1>1, <1>6, <1>7, QuietScheduler, Kept DEF IInv, LineWatched

LEMMA CaptureStartKept ==
  ASSUME IInv, NEW i \in Monitors, CaptureStart(i)
  PROVE  IInv'
<1> DEFINE m == monitor[i]
           u == State(m)
           n == [u EXCEPT !.capturing = TRUE, !.started = clock]
<1>1. /\ m # Nil /\ m \in MonitorState /\ ~m.closed /\ m.started < clock /\ clock \in Nat
      /\ Publish(i, n) /\ UNCHANGED <<clock, scheduler, registered, closing, readings>>
  BY DEF CaptureStart, IInv, MonitorsTyped
<1>2. HistoryOK(m, readings[i]) /\ readings \in [Monitors -> SUBSET Vote]
  BY <1>1 DEF IInv, MonitorHistory, MonitorsTyped
<1>3. /\ u \in MonitorState /\ SameMonitor(m, u)
      /\ u = m \/ (u.observation = Nil /\ u.votes = {})
  BY <1>1, StateGives
<1> HIDE DEF m, u
<1>4. /\ n \in MonitorState /\ n.capturing /\ n.started = clock
      /\ n.camera = m.camera /\ n.closed = m.closed /\ n.epoch = m.epoch /\ n.failed = m.failed
      /\ n.observation = u.observation /\ n.votes = u.votes
  BY <1>1, <1>3 DEF MonitorState, SameMonitor
<1>5. m.failed \in Nat /\ m.started \in Nat /\ m.observation \in Nat \cup {Nil}
  BY <1>1 DEF MonitorState
<1> HIDE DEF n
<1>6. HistoryOK(n, readings[i])
  BY <1>1, <1>2, <1>3, <1>4, <1>5 DEF HistoryOK
<1>7. \A image \in Images : Fits(image, m) /\ image.key \in Cameras /\ image.at \in Nat => Fits(image, n)
  BY <1>1, <1>3, <1>4, <1>5 DEF Fits
<1>8. MonitorsTyped' /\ Registry' /\ MonitorHistory' /\ EveryChangeTold' /\ Watched' = Watched
  BY <1>1, <1>2, <1>4, <1>6, OneMonitor DEF IInv, m
<1>9. \A image \in InFlight' : image \in InFlight /\ image \in Images /\ image.at \in Nat
  BY <1>1, QuietScheduler, PendingImages DEF IInv, Images
<1>10. Flight'
  BY <1>1, <1>4, <1>7, <1>9, QuietScheduler, OneFlight DEF IInv, Flight, Publish, m
<1> QED  BY <1>1, <1>8, <1>10, QuietScheduler, Kept DEF IInv, LineWatched

LEMMA FailureKept ==
  ASSUME IInv, NEW i \in Monitors, CaptureFail(i)
  PROVE  IInv'
<1> DEFINE m == monitor[i]
           u == Invalidate(m, "offline")
           n == [u EXCEPT !.epoch = @ + 1, !.failed = m.started, !.capturing = FALSE]
<1>1. /\ m # Nil /\ m \in MonitorState /\ m.capturing
      /\ Publish(i, n) /\ UNCHANGED <<clock, registered, closing>>
      /\ readings' = [readings EXCEPT ![i] = {}] /\ RemoveMonitor(m.camera)
  BY DEF CaptureFail, Capturing, IInv, MonitorsTyped
<1>2. HistoryOK(m, readings[i]) /\ readings \in [Monitors -> SUBSET Vote]
  BY <1>1 DEF IInv, MonitorHistory, MonitorsTyped
<1>3. u \in MonitorState /\ SameMonitor(m, u) /\ u.observation = Nil /\ u.votes = {}
  BY <1>1, InvalidateGives DEF Status
<1>4. m.failed \in Nat /\ m.started \in Nat /\ m.camera \in Cameras /\ m.epoch \in Nat
  BY <1>1 DEF MonitorState
<1> HIDE DEF m, u
<1>5. /\ n \in MonitorState /\ n.capturing = FALSE /\ n.started = m.started
      /\ n.camera = m.camera /\ n.closed = m.closed /\ n.epoch = m.epoch + 1 /\ n.failed = m.started
      /\ n.observation = Nil /\ n.votes = {}
  <2>1. u.epoch = m.epoch /\ u.epoch + 1 \in Nat
    BY <1>3, <1>4 DEF SameMonitor
  <2> QED  BY <1>3, <1>4, <2>1 DEF MonitorState, SameMonitor
<1> HIDE DEF n
<1>6. /\ readings' \in [Monitors -> SUBSET Vote] /\ readings'[i] = {}
      /\ \A j \in Monitors : j # i => readings'[j] = readings[j]
  BY <1>1, <1>2
<1>7. HistoryOK(n, readings'[i])
  BY <1>2, <1>4, <1>5, <1>6, FS_EmptySet DEF HistoryOK
<1>8. \A image \in Images : image.epoch \in Nat /\ Fits(image, m) => Fits(image, n)
  BY <1>4, <1>5 DEF Fits
<1>9. MonitorsTyped' /\ Registry' /\ MonitorHistory' /\ EveryChangeTold' /\ Watched' = Watched
  BY <1>1, <1>5, <1>6, <1>7, OneMonitor DEF IInv, m
<1>10. NotTwice' /\ InFlight' \subseteq InFlight /\ Waiting' = Waiting \ {m.camera} /\ SchedulerStep
  BY <1>1, <1>4, RemoveFlight DEF IInv, Flight, SchedulerStep
<1>11. \A image \in InFlight' : image \in InFlight /\ image \in Images /\ image.epoch \in Nat
  BY <1>10, PendingImages DEF IInv, Images
<1>12. Flight'
  BY <1>1, <1>5, <1>8, <1>10, <1>11, OneFlight DEF IInv, Publish, m
<1> QED  BY <1>9, <1>10, <1>12, Kept DEF IInv, LineWatched

LEMMA CaptureEndKept ==
  ASSUME IInv, NEW i \in Monitors, CaptureEnd(i)
  PROVE  IInv'
<1> DEFINE m == monitor[i]
           n == [m EXCEPT !.capturing = FALSE]
           image == [key |-> m.camera, from |-> i, epoch |-> m.epoch, at |-> m.started]
<1>1. /\ m # Nil /\ m \in MonitorState /\ m.capturing
      /\ UNCHANGED <<clock, registered, closing, told, readings>>
      /\ SubmitMonitor(image) \/ UNCHANGED scheduler
  BY DEF CaptureEnd, Capturing, IInv, MonitorsTyped
<1>2. monitor' = [monitor EXCEPT ![i] = n]
  <2>1. monitor' = [monitor EXCEPT ![i].capturing = FALSE]
    BY DEF CaptureEnd
  <2> QED  BY <2>1 DEF IInv, MonitorsTyped
<1>3. HistoryOK(m, readings[i]) /\ readings \in [Monitors -> SUBSET Vote]
  BY <1>1 DEF IInv, MonitorHistory, MonitorsTyped
<1>4. registered[m.camera] = i
  BY <1>1, <1>3 DEF IInv, Registry, HistoryOK
<1>5. image \in Images /\ image.key = m.camera /\ m.camera \in Cameras
  BY <1>1 DEF MonitorState, Images, Keys, Monitors
<1> HIDE DEF m
<1>6. /\ n \in MonitorState /\ n.capturing = FALSE /\ n.started = m.started
      /\ n.camera = m.camera /\ n.closed = m.closed /\ n.epoch = m.epoch /\ n.failed = m.failed
      /\ n.observation = m.observation /\ n.votes = m.votes /\ EventState(n) = EventState(m)
  BY <1>1 DEF MonitorState, EventState
<1>7. Fits(image, n)
  <2>1. m.failed < m.started /\ (m.observation # Nil => m.observation < m.started)
    BY <1>1, <1>3 DEF HistoryOK
  <2>2. m.epoch \in Nat /\ m.started \in Nat
    BY <1>1 DEF MonitorState
  <2> QED  BY <1>5, <1>6, <2>1, <2>2 DEF Fits
<1> HIDE DEF n
<1>8. Publish(i, n)
  BY <1>1, <1>2, <1>6 DEF Publish, m, IInv, MonitorsTyped
<1>9. HistoryOK(n, readings'[i])
  BY <1>1, <1>3, <1>6 DEF HistoryOK
<1>10. \A other : Fits(other, m) => Fits(other, n)
  BY <1>6 DEF Fits
<1>11. MonitorsTyped' /\ Registry' /\ MonitorHistory' /\ EveryChangeTold' /\ Watched' = Watched
  BY <1>1, <1>3, <1>6, <1>8, <1>9, OneMonitor DEF IInv, m
<1>12. NotTwice' /\ InFlight' \subseteq InFlight \cup {image} /\ Waiting' \subseteq Waiting \cup {m.camera}
       /\ SchedulerStep
  <2>1. CASE SubmitMonitor(image)
    BY <1>5, <2>1, SubmitFlight DEF IInv, Flight, SchedulerStep
  <2>2. CASE UNCHANGED scheduler
    BY <2>2, QuietScheduler DEF IInv, Flight
  <2> QED  BY <1>1, <2>1, <2>2
<1>13. image.from = i
  OBVIOUS
<1> HIDE DEF image
<1>14. Flight'
  BY <1>1, <1>2, <1>6, <1>7, <1>10, <1>12, <1>13, OneFlight DEF IInv, m
<1>15. m.camera \in Watched
  BY <1>4, <1>5, SchedulerAssumption DEF Watched, Monitors
<1> QED  BY <1>11, <1>12, <1>14, <1>15, Kept DEF IInv, LineWatched

LEMMA CameraResultKept ==
  ASSUME IInv, NEW result \in Results, CameraResult(result)
  PROVE  IInv'
<1> DEFINE i == active.from
           m == monitor[i]
           n == Accepted(m, active, result)
           vote == [plate |-> result, at |-> active.at]
<1>1. /\ active # Nil /\ active.key \in Cameras
      /\ UNCHANGED <<clock, registered, closing>> /\ FreeThread /\ Accept(i, active, result)
      /\ readings' = IF result \in PlateTexts /\ active.at > m.failed
                     THEN [readings EXCEPT ![i] = @ \cup {vote}]
                     ELSE readings
  BY DEF CameraResult, FreeThread
<1>2. active \in InFlight /\ active \in Images
  BY <1>1 DEF InFlight, IInv, QueueTyped
<1>3. i \in Monitors /\ m # Nil /\ m \in MonitorState /\ Fits(active, m)
  BY <1>1, <1>2 DEF IInv, Flight, ImageOK, MonitorsTyped
<1>4. HistoryOK(m, readings[i]) /\ readings \in [Monitors -> SUBSET Vote]
  BY <1>3 DEF IInv, MonitorHistory, MonitorsTyped
<1>5. active.at \in Nat
  BY <1>2 DEF Images
<1>6. IsFiniteSet(m.votes)
  BY <1>4, FS_Subset DEF HistoryOK
<1>7. /\ n \in MonitorState /\ SameMonitor(m, n)
      /\ \A v \in n.votes : v \in m.votes \/ (result \in PlateTexts /\ v = vote)
      /\ n.observation \in {Nil, m.observation, active.at}
  BY <1>3, <1>5, <1>6, AcceptedGives
<1>8. Publish(i, n)
  <2>1. CASE Rejected(m, active)
    <3>1. n = m /\ UNCHANGED <<monitor, told>>
      BY <1>1, <2>1 DEF Accept, Accepted
    <3> HIDE DEF n
    <3> QED  BY <1>3, <3>1 DEF Publish, IInv, MonitorsTyped
  <2>2. CASE ~Rejected(m, active)
    BY <1>1, <2>2 DEF Accept
  <2> QED  BY <2>1, <2>2
<1>9. Rejected(m, active) => n = m
  BY DEF Accepted
<1>10. m.started \in Nat /\ m.failed \in Nat
  BY <1>3 DEF MonitorState
<1>11. vote \in Vote \/ result \notin PlateTexts
  BY <1>5 DEF Vote
<1> HIDE DEF i, m, n, vote
<1>12. /\ readings' \in [Monitors -> SUBSET Vote]
       /\ \A j \in Monitors : j # i => readings'[j] = readings[j]
       /\ readings[i] \subseteq readings'[i] /\ IsFiniteSet(readings'[i])
       /\ result \in PlateTexts /\ active.at > m.failed => vote \in readings'[i]
  <2>1. CASE result \in PlateTexts /\ active.at > m.failed
    <3>1. readings' = [readings EXCEPT ![i] = readings[i] \cup {vote}]
      BY <1>1, <2>1
    <3>2. IsFiniteSet(readings[i] \cup {vote})
      BY <1>4, FS_AddElement DEF HistoryOK
    <3> QED  BY <1>3, <1>4, <1>11, <2>1, <3>1, <3>2
  <2>2. CASE ~(result \in PlateTexts /\ active.at > m.failed)
    BY <1>1, <1>4, <2>2 DEF HistoryOK
  <2> QED  BY <2>1, <2>2
<1>13. HistoryOK(n, readings'[i])
  <2>1. n.votes \subseteq readings'[i]
    <3>1. CASE Rejected(m, active)
      BY <1>4, <1>9, <1>12, <3>1 DEF HistoryOK
    <3>2. CASE ~Rejected(m, active)
      <4>1. m.failed < active.at
        BY <1>3, <3>2 DEF Rejected, Fits
      <4>2. result \in PlateTexts => vote \in readings'[i]
        BY <1>5, <1>10, <1>12, <4>1
      <4> QED  BY <1>4, <1>7, <1>12, <4>2 DEF HistoryOK
    <3> QED  BY <3>1, <3>2
  <2>2. n.observation # Nil =>
           n.observation <= n.started /\ (n.capturing => n.observation < n.started)
    BY <1>3, <1>4, <1>7 DEF HistoryOK, Fits, SameMonitor
  <2> QED  BY <1>4, <1>7, <1>12, <2>1, <2>2 DEF HistoryOK, SameMonitor
<1>14. MonitorsTyped' /\ Registry' /\ MonitorHistory' /\ EveryChangeTold' /\ Watched' = Watched
  BY <1>1, <1>3, <1>7, <1>8, <1>12, <1>13, OneMonitor DEF IInv, SameMonitor, m
<1>15. /\ NotTwice' /\ Waiting' = Waiting
       /\ \A image \in InFlight' : image \in InFlight /\ image.key # active.key
  BY <1>1, FreeFlight DEF IInv, Flight
<1>16. \A image \in InFlight' : image \in InFlight /\ ~Fits(image, m)
  BY <1>3, <1>15 DEF Fits
<1>17. Flight'
  BY <1>3, <1>7, <1>8, <1>15, <1>16, OneFlight DEF IInv, Publish, m
<1> QED  BY <1>1, <1>14, <1>15, <1>17, Kept DEF IInv, LineWatched, SchedulerStep

-----------------------------------------------------------------------------
(* Steps of the manager.                                                   *)

\* The old monitor of a camera is closed, with or without a new one to come.
LEMMA BeginKept ==
  ASSUME IInv, NEW c \in Cameras, LockFree, registered[c] # Nil,
         CloseBegin(registered[c]), NEW kind,
         closing' = closing \cup {[kind |-> kind, camera |-> c, old |-> registered[c]]},
         \/ kind = "upsert" /\ UNCHANGED registered
         \/ kind = "remove" /\ registered' = [registered EXCEPT ![c] = Nil],
         UNCHANGED <<clock, told, readings>>
  PROVE  IInv'
<1> DEFINE i == registered[c]
           m == monitor[i]
           n == [m EXCEPT !.closed = TRUE, !.capturing = FALSE]
           o == [kind |-> kind, camera |-> c, old |-> i]
<1>1. /\ i \in Monitors /\ m # Nil /\ m \in MonitorState /\ m.camera = c
      /\ registered \in [Cameras -> Monitors \cup {Nil}]
      /\ \A j \in Monitors : monitor[j] # Nil /\ ~monitor[j].closed => registered[monitor[j].camera] = j
      /\ \A d \in Cameras : registered[d] # Nil =>
            registered[d] \in Monitors /\ monitor[registered[d]] # Nil /\ monitor[registered[d]].camera = d
      /\ IsFiniteSet(Watched) /\ Cardinality(Watched) <= MaxMonitors
  BY DEF IInv, MonitorsTyped, Registry
<1>2. monitor' = [monitor EXCEPT ![i] = n] /\ RemoveMonitor(c)
  <2>1. monitor' = [monitor EXCEPT ![i].closed = TRUE, ![i].capturing = FALSE] /\ RemoveMonitor(m.camera)
    BY DEF CloseBegin
  <2> QED  BY <1>1, <2>1 DEF IInv, MonitorsTyped
<1>3. closing' = {o}
  BY DEF LockFree
<1>4. HistoryOK(m, readings[i])
  BY <1>1 DEF IInv, MonitorHistory
<1>5. o.kind = kind /\ o.camera = c /\ o.old = i
  OBVIOUS
<1> HIDE DEF m, o, i
<1>6. /\ n \in MonitorState /\ n.capturing = FALSE /\ n.closed /\ n.started = m.started
      /\ n.camera = m.camera /\ n.epoch = m.epoch /\ n.failed = m.failed
      /\ n.observation = m.observation /\ n.votes = m.votes /\ EventState(n) = EventState(m)
  BY <1>1 DEF MonitorState, EventState
<1> HIDE DEF n
<1>7. n # Nil
  BY <1>6, MonitorsAssumption
<1>8. /\ monitor' \in [Monitors -> MonitorState \cup {Nil}] /\ monitor'[i] = n
      /\ \A j \in Monitors : j # i => monitor'[j] = monitor[j]
  BY <1>1, <1>2, <1>6 DEF IInv, MonitorsTyped
<1>9. MonitorsTyped'
  BY <1>1, <1>8 DEF IInv, MonitorsTyped, EventState
<1>10. \A d \in Cameras : /\ registered'[d] # Nil => registered'[d] = registered[d]
                          /\ d # c => registered'[d] = registered[d]
                          /\ kind = "upsert" => registered'[d] = registered[d]
  BY <1>1
<1>11. IsFiniteSet(Watched') /\ Cardinality(Watched') <= MaxMonitors
  <2>1. Watched' \subseteq Watched
    BY <1>10 DEF Watched
  <2>2. IsFiniteSet(Watched') /\ Cardinality(Watched') <= Cardinality(Watched)
    BY <1>1, <2>1, FS_Subset
  <2>3. Cardinality(Watched) \in Nat /\ Cardinality(Watched') \in Nat
    BY <1>1, <2>2, FS_CardinalityType
  <2> QED  BY <1>1, <2>2, <2>3, SchedulerAssumption
<1>12. Registry'
  <2>1. ASSUME NEW j \in Monitors, monitor'[j] # Nil, ~monitor'[j].closed
        PROVE  registered'[monitor'[j].camera] = j
    <3>1. j # i /\ monitor'[j] = monitor[j] /\ monitor[j] \in MonitorState
      BY <1>6, <1>8, <2>1 DEF IInv, MonitorsTyped
    <3>2. registered[monitor[j].camera] = j /\ monitor[j].camera \in Cameras
      BY <1>1, <2>1, <3>1 DEF MonitorState
    <3>3. monitor[j].camera # c
      BY <3>1, <3>2 DEF i
    <3> QED  BY <1>10, <3>1, <3>2, <3>3
  <2>2. \A d \in Cameras : registered'[d] # Nil =>
           monitor'[registered'[d]] # Nil /\ monitor'[registered'[d]].camera = d
    <3> SUFFICES ASSUME NEW d \in Cameras, registered'[d] # Nil
                 PROVE  monitor'[registered'[d]] # Nil /\ monitor'[registered'[d]].camera = d
      OBVIOUS
    <3>1. /\ registered'[d] = registered[d] /\ registered[d] \in Monitors
          /\ monitor[registered[d]] # Nil /\ monitor[registered[d]].camera = d
      BY <1>1, <1>10
    <3> QED  BY <1>6, <1>7, <1>8, <3>1 DEF m
  <2>3. /\ i \in Monitors /\ c \in Cameras
        /\ monitor'[i] # Nil /\ monitor'[i].closed /\ monitor'[i].camera = c
        /\ kind = "upsert" => registered'[c] = i
    BY <1>1, <1>6, <1>7, <1>8, <1>10 DEF i
  <2> QED  BY <1>3, <1>5, <1>11, <2>1, <2>2, <2>3 DEF Registry
<1>13. MonitorHistory'
  <2>1. HistoryOK(n, readings[i])
    BY <1>4, <1>6 DEF HistoryOK
  <2> QED  BY <1>8, <2>1 DEF IInv, MonitorHistory, HistoryOK
<1>14. EveryChangeTold'
  <2>1. \A j \in Monitors : monitor'[j] # Nil => told[j] = EventState(monitor'[j])
    BY <1>1, <1>6, <1>8 DEF IInv, EveryChangeTold, m
  <2> QED  BY <2>1 DEF EveryChangeTold, EventState
<1>15. NotTwice' /\ InFlight' \subseteq InFlight /\ Waiting' = Waiting \ {c} /\ SchedulerStep
  BY <1>2, RemoveFlight DEF IInv, Flight, SchedulerStep
<1>16. \A image : Fits(image, m) => Fits(image, n)
  BY <1>6 DEF Fits
<1>17. Flight'
  BY <1>1, <1>2, <1>6, <1>15, <1>16, OneFlight DEF IInv, m
<1>18. LineWatched'
  BY <1>10, <1>15 DEF IInv, LineWatched, Watched
<1> QED  BY <1>9, <1>12, <1>13, <1>14, <1>15, <1>17, <1>18, Kept

LEMMA RemoveEndKept ==
  ASSUME IInv, NEW o \in closing, RemoveEnd(o)
  PROVE  IInv'
<1> DEFINE i == o.old
           m == monitor[i]
           n == Invalidate(m, "offline")
<1>1. /\ i \in Monitors /\ m # Nil /\ m \in MonitorState
      /\ Publish(i, n) /\ UNCHANGED <<clock, scheduler, registered, readings>> /\ closing' = closing \ {o}
  BY DEF RemoveEnd, IInv, MonitorsTyped, Registry
<1>2. HistoryOK(m, readings[i]) /\ readings \in [Monitors -> SUBSET Vote]
  BY <1>1 DEF IInv, MonitorHistory, MonitorsTyped
<1>3. n \in MonitorState /\ SameMonitor(m, n) /\ n.observation = Nil /\ n.votes = {}
  BY <1>1, InvalidateGives DEF Status
<1> HIDE DEF i, m, n
<1>4. HistoryOK(n, readings[i])
  BY <1>2, <1>3 DEF HistoryOK, SameMonitor
<1>5. \A image : Fits(image, m) => Fits(image, n)
  BY <1>3 DEF Fits, SameMonitor
<1>6. MonitorsTyped' /\ Registry' /\ MonitorHistory' /\ EveryChangeTold' /\ Watched' = Watched
  BY <1>1, <1>2, <1>3, <1>4, OneMonitor DEF IInv, m, SameMonitor
<1>7. Flight'
  BY <1>1, <1>3, <1>5, QuietScheduler, OneFlight DEF IInv, Flight, Publish, m
<1> QED  BY <1>1, <1>6, <1>7, QuietScheduler, Kept DEF IInv, LineWatched

LEMMA ReplaceEndKept ==
  ASSUME IInv, NEW o \in closing, ReplaceEnd(o)
  PROVE  IInv'
<1> DEFINE i == o.old
           m == monitor[i]
           n == Invalidate(m, "offline")
           f == Fresh
           c == o.camera
           new == New(c)
<1>1. /\ i \in Monitors /\ m # Nil /\ m \in MonitorState /\ m.closed /\ m.camera = c /\ c \in Cameras
      /\ registered[c] = i
      /\ monitor' = [monitor EXCEPT ![i] = n, ![f] = new]
      /\ told' = [told EXCEPT ![i] = EventState(n), ![f] = EventState(new)]
      /\ registered' = [registered EXCEPT ![c] = f] /\ closing' = closing \ {o}
      /\ UNCHANGED <<clock, scheduler, readings>>
  BY DEF ReplaceEnd, IInv, MonitorsTyped, Registry
<1>2. f \in Monitors /\ monitor[f] = Nil
  BY FreshMonitor DEF ReplaceEnd
<1>3. HistoryOK(m, readings[i]) /\ IInv
  BY <1>1 DEF IInv, MonitorHistory
<1>4. n \in MonitorState /\ SameMonitor(m, n) /\ n.observation = Nil /\ n.votes = {}
  BY <1>1, InvalidateGives DEF Status
<1>5. /\ new \in MonitorState /\ new.camera = c /\ ~new.closed /\ ~new.capturing /\ new.observation = Nil
      /\ new.votes = {} /\ new.failed = 0 /\ new.started = 0
  BY <1>1 DEF New, MonitorState
<1>6. i # f
  BY <1>1, <1>2
<1> HIDE DEF i, m, n, f, c, new
<1>7. n # Nil /\ new # Nil /\ f # Nil /\ clock \in Nat
  BY <1>2, <1>4, <1>5, MonitorsAssumption, SchedulerAssumption DEF Monitors, IInv, MonitorsTyped
<1>8. /\ monitor' \in [Monitors -> MonitorState \cup {Nil}] /\ monitor'[i] = n /\ monitor'[f] = new
      /\ \A j \in Monitors : j # i /\ j # f => monitor'[j] = monitor[j]
  BY <1>1, <1>2, <1>4, <1>5, <1>6 DEF IInv, MonitorsTyped
<1>9. /\ told' \in [Monitors -> {EventState(x) : x \in MonitorState} \cup {Nil}]
      /\ told'[i] = EventState(n) /\ told'[f] = EventState(new)
      /\ \A j \in Monitors : j # i /\ j # f => told'[j] = told[j]
  BY <1>1, <1>2, <1>4, <1>5, <1>6 DEF IInv, MonitorsTyped
<1>10. /\ registered' \in [Cameras -> Monitors \cup {Nil}] /\ registered'[c] = f
       /\ \A d \in Cameras : d # c => registered'[d] = registered[d]
  BY <1>1, <1>2 DEF IInv, MonitorsTyped
<1>11. MonitorsTyped'
  BY <1>1, <1>8, <1>9, <1>10 DEF IInv, MonitorsTyped, EventState
<1>12. Watched' = Watched
  BY <1>1, <1>7, <1>10, SchedulerAssumption DEF Watched, Monitors
<1>13. Registry'
  <2>1. ASSUME NEW j \in Monitors, monitor'[j] # Nil, ~monitor'[j].closed
        PROVE  registered'[monitor'[j].camera] = j
    <3>1. CASE j = f
      BY <1>5, <1>8, <1>10, <3>1
    <3>2. CASE j = i
      BY <1>1, <1>4, <1>8, <2>1, <3>2 DEF SameMonitor
    <3>3. CASE j # f /\ j # i
      <4>1. monitor'[j] = monitor[j] /\ registered[monitor[j].camera] = j /\ monitor[j] \in MonitorState
        BY <1>8, <2>1, <3>3 DEF IInv, Registry, MonitorsTyped
      <4>2. monitor[j].camera \in Cameras /\ monitor[j].camera # c
        BY <1>1, <3>3, <4>1 DEF MonitorState
      <4> QED  BY <1>10, <4>1, <4>2
    <3> QED  BY <3>1, <3>2, <3>3
  <2>2. ASSUME NEW d \in Cameras, registered'[d] # Nil
        PROVE  monitor'[registered'[d]] # Nil /\ monitor'[registered'[d]].camera = d
    <3>1. CASE d = c
      BY <1>5, <1>7, <1>8, <1>10, <3>1
    <3>2. CASE d # c
      <4>1. /\ registered'[d] = registered[d] /\ registered[d] \in Monitors
            /\ monitor[registered[d]] # Nil /\ monitor[registered[d]].camera = d
        BY <1>10, <2>2, <3>2 DEF IInv, Registry, MonitorsTyped
      <4>2. registered[d] # i /\ registered[d] # f
        BY <1>1, <1>2, <3>2, <4>1 DEF m
      <4> QED  BY <1>8, <4>1, <4>2
    <3> QED  BY <3>1, <3>2
  <2>3. closing' = {}
    BY <1>1 DEF IInv, Registry
  <2>4. IsFiniteSet(Watched') /\ Cardinality(Watched') <= MaxMonitors
    BY <1>12 DEF IInv, Registry
  <2> QED  BY <2>1, <2>2, <2>3, <2>4 DEF Registry
<1>14. MonitorHistory'
  <2>1. HistoryOK(n, readings[i])
    BY <1>3, <1>4 DEF HistoryOK, SameMonitor
  <2>2. HistoryOK(new, readings[f])
    <3>1. IsFiniteSet(readings[f])
      BY <1>2 DEF IInv, MonitorHistory
    <3> QED  BY <1>5, <1>7, <3>1 DEF HistoryOK
  <2> QED  BY <1>1, <1>8, <2>1, <2>2 DEF IInv, MonitorHistory, HistoryOK
<1>15. EveryChangeTold'
  <2>1. \A j \in Monitors : monitor'[j] # Nil => told'[j] = EventState(monitor'[j])
    BY <1>8, <1>9 DEF IInv, EveryChangeTold
  <2> QED  BY <2>1 DEF EveryChangeTold, EventState
<1>16. SchedulerStep /\ InFlight' = InFlight /\ Waiting' = Waiting /\ NotTwice'
  BY <1>1, QuietScheduler DEF IInv, Flight
<1>17. Flight'
  <2>1. ASSUME NEW image \in InFlight', image.key \in Cameras PROVE ImageOK(image)'
    <3>1. image.from \in Monitors /\ monitor[image.from] # Nil /\ Fits(image, monitor[image.from])
      BY <1>16, <2>1 DEF IInv, Flight, ImageOK
    <3>2. image.from # f
      BY <1>2, <3>1
    <3>3. CASE image.from = i
      <4>1. Fits(image, n)
        BY <1>4, <3>1, <3>3 DEF Fits, SameMonitor, m
      <4> QED  BY <1>7, <1>8, <3>1, <3>3, <4>1 DEF ImageOK, Fits
    <3>4. CASE image.from # i
      BY <1>8, <3>1, <3>2, <3>4 DEF ImageOK, Fits
    <3> QED  BY <3>3, <3>4
  <2> QED  BY <1>16, <2>1 DEF Flight
<1> QED  BY <1>11, <1>12, <1>13, <1>14, <1>15, <1>16, <1>17, Kept DEF IInv, LineWatched

LEMMA UpsertKept ==
  ASSUME IInv, NEW c \in Cameras, Upsert(c)
  PROVE  IInv'
<1> DEFINE f == Fresh
           new == New(c)
<1>1. /\ closing = {} /\ registered[c] = Nil /\ Cardinality(Watched) < MaxMonitors
      /\ monitor' = [monitor EXCEPT ![f] = new]
      /\ told' = [told EXCEPT ![f] = EventState(new)]
      /\ registered' = [registered EXCEPT ![c] = f]
      /\ UNCHANGED <<clock, scheduler, closing, readings>>
  BY DEF Upsert, Start, LockFree, Watched
<1>2. f \in Monitors /\ monitor[f] = Nil
  BY FreshMonitor DEF Upsert
<1>3. /\ new \in MonitorState /\ new.camera = c /\ ~new.closed /\ ~new.capturing /\ new.observation = Nil
      /\ new.votes = {} /\ new.failed = 0 /\ new.started = 0
  BY DEF New, MonitorState
<1> HIDE DEF f, new
<1>4. new # Nil /\ f # Nil /\ clock \in Nat
  BY <1>2, <1>3, MonitorsAssumption, SchedulerAssumption DEF Monitors, IInv, MonitorsTyped
<1>5. /\ monitor' \in [Monitors -> MonitorState \cup {Nil}] /\ monitor'[f] = new
      /\ \A j \in Monitors : j # f => monitor'[j] = monitor[j]
  BY <1>1, <1>2, <1>3 DEF IInv, MonitorsTyped
<1>6. /\ told' \in [Monitors -> {EventState(x) : x \in MonitorState} \cup {Nil}]
      /\ told'[f] = EventState(new)
      /\ \A j \in Monitors : j # f => told'[j] = told[j]
  BY <1>1, <1>2, <1>3 DEF IInv, MonitorsTyped
<1>7. /\ registered' \in [Cameras -> Monitors \cup {Nil}] /\ registered'[c] = f
      /\ \A d \in Cameras : d # c => registered'[d] = registered[d]
  BY <1>1, <1>2 DEF IInv, MonitorsTyped
<1>8. MonitorsTyped'
  BY <1>1, <1>5, <1>6, <1>7 DEF IInv, MonitorsTyped, EventState
<1>9. IsFiniteSet(Watched') /\ Cardinality(Watched') <= MaxMonitors /\ Watched \subseteq Watched'
  <2>1. Watched' = Watched \cup {c} /\ c \notin Watched
    BY <1>1, <1>4, <1>7 DEF Watched
  <2>2. IsFiniteSet(Watched) /\ Cardinality(Watched) \in Nat
    BY FS_CardinalityType DEF IInv, Registry
  <2>3. IsFiniteSet(Watched') /\ Cardinality(Watched') = Cardinality(Watched) + 1
    BY <2>1, <2>2, FS_AddElement
  <2> QED  BY <1>1, <2>1, <2>2, <2>3, SchedulerAssumption
<1>10. Registry'
  <2>1. ASSUME NEW j \in Monitors, monitor'[j] # Nil, ~monitor'[j].closed
        PROVE  registered'[monitor'[j].camera] = j
    <3>1. CASE j = f
      BY <1>3, <1>5, <1>7, <3>1
    <3>2. CASE j # f
      <4>1. monitor'[j] = monitor[j] /\ registered[monitor[j].camera] = j /\ monitor[j] \in MonitorState
        BY <1>5, <2>1, <3>2 DEF IInv, Registry, MonitorsTyped
      <4>2. monitor[j].camera \in Cameras /\ monitor[j].camera # c
        BY <1>1, <4>1, SchedulerAssumption DEF MonitorState, Monitors
      <4> QED  BY <1>7, <4>1, <4>2
    <3> QED  BY <3>1, <3>2
  <2>2. ASSUME NEW d \in Cameras, registered'[d] # Nil
        PROVE  monitor'[registered'[d]] # Nil /\ monitor'[registered'[d]].camera = d
    <3>1. CASE d = c
      BY <1>3, <1>4, <1>5, <1>7, <3>1
    <3>2. CASE d # c
      <4>1. /\ registered'[d] = registered[d] /\ registered[d] \in Monitors
            /\ monitor[registered[d]] # Nil /\ monitor[registered[d]].camera = d
        BY <1>7, <2>2, <3>2 DEF IInv, Registry, MonitorsTyped
      <4>2. registered[d] # f
        BY <1>2, <4>1
      <4> QED  BY <1>5, <4>1, <4>2
    <3> QED  BY <3>1, <3>2
  <2> QED  BY <1>1, <1>9, <2>1, <2>2 DEF Registry
<1>11. MonitorHistory'
  <2>1. HistoryOK(new, readings[f])
    <3>1. IsFiniteSet(readings[f])
      BY <1>2 DEF IInv, MonitorHistory
    <3> QED  BY <1>3, <1>4, <3>1 DEF HistoryOK
  <2> QED  BY <1>1, <1>5, <2>1 DEF IInv, MonitorHistory, HistoryOK
<1>12. EveryChangeTold'
  <2>1. \A j \in Monitors : monitor'[j] # Nil => told'[j] = EventState(monitor'[j])
    BY <1>5, <1>6 DEF IInv, EveryChangeTold
  <2> QED  BY <2>1 DEF EveryChangeTold, EventState
<1>13. SchedulerStep /\ InFlight' = InFlight /\ Waiting' = Waiting /\ NotTwice'
  BY <1>1, QuietScheduler DEF IInv, Flight
<1>14. Flight'
  <2>1. ASSUME NEW image \in InFlight', image.key \in Cameras PROVE ImageOK(image)'
    <3>1. /\ image.from \in Monitors /\ monitor[image.from] # Nil /\ Fits(image, monitor[image.from])
          /\ image.from # f
      BY <1>2, <1>13, <2>1 DEF IInv, Flight, ImageOK
    <3> QED  BY <1>5, <3>1 DEF ImageOK, Fits
  <2> QED  BY <1>13, <2>1 DEF Flight
<1> QED  BY <1>8, <1>9, <1>10, <1>11, <1>12, <1>13, <1>14, Kept DEF IInv, LineWatched

\* The monitors stay as they are.
LEMMA MonitorsQuiet ==
  ASSUME IInv, UNCHANGED <<monitor, registered, closing, told, readings>>,
         clock' \in Nat, clock <= clock',
         SchedulerStep, NotTwice', Waiting' \cap Cameras \subseteq Waiting,
         \A image \in InFlight' : image \in InFlight \/ image.key \in Requests
  PROVE  IInv'
<1>1. MonitorsTyped' /\ Registry' /\ EveryChangeTold' /\ Watched' = Watched
  BY DEF IInv, MonitorsTyped, Registry, EveryChangeTold, EventState, Watched
<1>2. MonitorHistory'
  <2>1. ASSUME NEW i \in Monitors, monitor[i] # Nil PROVE monitor[i].started <= clock'
    <3>1. monitor[i].started <= clock /\ monitor[i].started \in Nat /\ clock \in Nat
      BY <2>1 DEF IInv, MonitorHistory, HistoryOK, MonitorsTyped, MonitorState
    <3> QED  BY <3>1
  <2> QED  BY <2>1 DEF IInv, MonitorHistory, HistoryOK
<1>3. Flight'
  BY SchedulerAssumption DEF IInv, Flight, ImageOK, Fits
<1>4. LineWatched'
  BY <1>1 DEF IInv, LineWatched
<1> QED  BY <1>1, <1>2, <1>3, <1>4, Kept

LEMMA StepKept ==
  ASSUME IInv, [MonitorsNext]_monitorsVars
  PROVE  IInv'
<1>0. clock \in Nat
  BY DEF IInv, MonitorsTyped
<1>1. CASE ClockTick
  BY <1>0, <1>1, QuietScheduler, MonitorsQuiet DEF ClockTick, IInv, Flight
<1>2. CASE (Sleep \/ Take \/ \E r \in Requests : Request(r))
           /\ UNCHANGED <<monitor, registered, closing, told, readings>>
  <2>1. OtherStep /\ SchedulerStep /\ clock' = clock
    BY <1>2 DEF Request, OtherStep, SchedulerStep, Sleep, Take, Recognize, Return, TimeOut, ManualResult
  <2> QED  BY <1>0, <1>2, <2>1, OtherFlight, MonitorsQuiet DEF IInv, Flight
<1>3. CASE ServiceClose
  <2>1. OtherStep /\ SchedulerStep /\ clock' = clock /\ UNCHANGED <<monitor, registered, closing, told, readings>>
    BY <1>3 DEF ServiceClose, Close, OtherStep, SchedulerStep
  <2> QED  BY <1>0, <2>1, OtherFlight, MonitorsQuiet DEF IInv, Flight
<1>4. ASSUME NEW c \in Cameras, ReplaceBegin(c) PROVE IInv'
  BY <1>4, BeginKept DEF ReplaceBegin
<1>5. ASSUME NEW c \in Cameras, RemoveBegin(c) PROVE IInv'
  BY <1>5, BeginKept DEF RemoveBegin
<1>6. CASE UNCHANGED monitorsVars
  BY <1>0, <1>6, QuietScheduler, MonitorsQuiet DEF monitorsVars, IInv, Flight
<1> QED
  BY <1>1, <1>2, <1>3, <1>4, <1>5, <1>6, LookKept, CaptureStartKept, CaptureEndKept, FailureKept,
     CameraResultKept, RemoveEndKept, ReplaceEndKept, UpsertKept DEF MonitorsNext

LEMMA InitKept == MonitorsInit => IInv
<1> SUFFICES ASSUME MonitorsInit PROVE IInv
  OBVIOUS
<1>1. pending = <<>> /\ pending \in Seq(Images) /\ Waiting = {} /\ active = Nil /\ InFlight = {}
  BY DEF MonitorsInit, SchedulerInit, Waiting, InFlight
<1>2. QueueTyped
  BY <1>1 DEF MonitorsInit, SchedulerInit, QueueTyped, LineOK, Distinct
<1>3. SlotsAccounted
  <2>1. Cardinality(Waiting \cap Requests) = 0 /\ Cardinality(Waiting) = 0
    BY <1>1, FS_EmptySet
  <2>2. Cardinality(Waiting \cap Requests) + (IF active # Nil /\ active.key \in Requests THEN 1 ELSE 0) = 0
    BY <1>1, <2>1
  <2> QED  BY <1>1, <2>1, <2>2, SchedulerAssumption DEF MonitorsInit, SchedulerInit, SlotsAccounted
<1>4. LineFair
  BY <1>1 DEF MonitorsInit, SchedulerInit, LineFair
<1>5. MonitorsTyped
  BY DEF MonitorsInit, SchedulerInit, MonitorsTyped
<1>6. Watched = {} /\ LineWatched
  BY <1>1 DEF MonitorsInit, Watched, LineWatched
<1>7. Registry
  BY <1>6, FS_EmptySet, SchedulerAssumption DEF MonitorsInit, Registry
<1>8. MonitorHistory /\ EveryChangeTold
  BY FS_EmptySet DEF MonitorsInit, MonitorHistory, EveryChangeTold
<1>9. Flight
  BY <1>1 DEF Flight, NotTwice
<1> QED  BY <1>2, <1>3, <1>4, <1>5, <1>6, <1>7, <1>8, <1>9 DEF IInv

LEMMA Inductive == MonitorsSpec => []IInv
BY InitKept, StepKept, PTL DEF MonitorsSpec

-----------------------------------------------------------------------------
(* What becomes of an observation in a step.                               *)

\* An observation as it was, or none.
Unobserved(m, n) ==
    \/ n.observation = m.observation /\ n.plate = m.plate /\ n.status = m.status
    \/ n.observation = Nil /\ n.status # "confirmed"

LEMMA OthersUnobserved ==
  ASSUME IInv, MonitorsNext, ~ \E result \in Results : CameraResult(result),
         NEW i \in Monitors, monitor[i] # Nil
  PROVE  Unobserved(monitor[i], monitor'[i])
<1> DEFINE m == monitor[i]
<1>0. /\ \A j \in Monitors : monitor[j] # Nil => monitor[j] \in MonitorState
      /\ monitor \in [Monitors -> MonitorState \cup {Nil}]
      /\ \A c \in Cameras : registered[c] # Nil => registered[c] \in Monitors /\ monitor[registered[c]] # Nil
      /\ \A o \in closing : o.old \in Monitors /\ monitor[o.old] # Nil
  BY DEF IInv, MonitorsTyped, Registry
<1>1. CASE UNCHANGED monitor
  BY <1>1 DEF Unobserved
\* One monitor j becomes n.
<1>2. ASSUME NEW j \in Monitors, NEW n, monitor' = [monitor EXCEPT ![j] = n],
             monitor[j] # Nil => Unobserved(monitor[j], n)
      PROVE  Unobserved(m, monitor'[i])
  <2>1. CASE i = j
    BY <1>0, <1>2, <2>1
  <2>2. CASE i # j
    BY <1>0, <1>2, <2>2 DEF Unobserved
  <2> QED  BY <2>1, <2>2
<1>3. ASSUME NEW u \in MonitorState PROVE Unobserved(u, State(u))
  BY StateGives DEF Unobserved
<1>4. ASSUME NEW u \in MonitorState
      PROVE  Unobserved(u, Invalidate(u, "offline")) /\ Invalidate(u, "offline") \in MonitorState
             /\ Invalidate(u, "offline").observation = Nil /\ Invalidate(u, "offline").status = "offline"
  BY InvalidateGives DEF Unobserved, Status
<1>5. ASSUME NEW c \in Cameras, Look(c) PROVE Unobserved(m, monitor'[i])
  <2>1. /\ registered[c] \in Monitors /\ monitor[registered[c]] \in MonitorState
        /\ monitor' = [monitor EXCEPT ![registered[c]] = State(monitor[registered[c]])]
    BY <1>0, <1>5 DEF Look, Publish
  <2> QED  BY <1>2, <1>3, <2>1
<1>6. ASSUME NEW j \in Monitors, CaptureStart(j) PROVE Unobserved(m, monitor'[i])
  <2> DEFINE u == State(monitor[j])
             n == [u EXCEPT !.capturing = TRUE, !.started = clock]
  <2>1. monitor[j] \in MonitorState /\ monitor' = [monitor EXCEPT ![j] = n]
    BY <1>0, <1>6 DEF CaptureStart, Publish
  <2>2. Unobserved(monitor[j], u) /\ u \in MonitorState
    BY <1>3, <2>1, StateGives
  <2> HIDE DEF u
  <2>3. n.observation = u.observation /\ n.plate = u.plate /\ n.status = u.status
    BY <2>2 DEF MonitorState
  <2> HIDE DEF n
  <2>4. Unobserved(monitor[j], n)
    BY <2>2, <2>3 DEF Unobserved
  <2> QED  BY <1>2, <2>1, <2>4
<1>7. ASSUME NEW j \in Monitors, CaptureEnd(j) PROVE Unobserved(m, monitor'[i])
  <2> DEFINE n == [monitor[j] EXCEPT !.capturing = FALSE]
  <2>1. monitor[j] \in MonitorState /\ monitor' = [monitor EXCEPT ![j] = n]
    <3>1. monitor' = [monitor EXCEPT ![j].capturing = FALSE] /\ monitor[j] # Nil
      BY <1>7 DEF CaptureEnd, Capturing
    <3> QED  BY <1>0, <3>1
  <2>2. Unobserved(monitor[j], n)
    BY <2>1 DEF MonitorState, Unobserved
  <2> QED  BY <1>2, <2>1, <2>2
<1>8. ASSUME NEW j \in Monitors, CaptureFail(j) PROVE Unobserved(m, monitor'[i])
  <2> DEFINE u == Invalidate(monitor[j], "offline")
             n == [u EXCEPT !.epoch = @ + 1, !.failed = monitor[j].started, !.capturing = FALSE]
  <2>1. monitor[j] \in MonitorState /\ monitor' = [monitor EXCEPT ![j] = n]
    BY <1>0, <1>8 DEF CaptureFail, Capturing, Publish
  <2>2. u \in MonitorState /\ u.observation = Nil /\ u.status = "offline"
    BY <1>4, <2>1
  <2> HIDE DEF u
  <2>3. n.observation = Nil /\ n.status = "offline"
    BY <2>2 DEF MonitorState
  <2> HIDE DEF n
  <2>4. Unobserved(monitor[j], n)
    BY <2>3 DEF Unobserved
  <2> QED  BY <1>2, <2>1, <2>4
<1>9. ASSUME NEW j \in Monitors, monitor[j] # Nil, CloseBegin(j) PROVE Unobserved(m, monitor'[i])
  <2> DEFINE n == [monitor[j] EXCEPT !.closed = TRUE, !.capturing = FALSE]
  <2>1. monitor[j] \in MonitorState /\ monitor' = [monitor EXCEPT ![j] = n]
    <3>1. monitor' = [monitor EXCEPT ![j].closed = TRUE, ![j].capturing = FALSE]
      BY <1>9 DEF CloseBegin
    <3> QED  BY <1>0, <1>9, <3>1
  <2>2. Unobserved(monitor[j], n)
    BY <2>1 DEF MonitorState, Unobserved
  <2> QED  BY <1>2, <2>1, <2>2
<1>10. ASSUME NEW o \in closing, RemoveEnd(o) PROVE Unobserved(m, monitor'[i])
  BY <1>0, <1>2, <1>4, <1>10 DEF RemoveEnd, Publish
<1>11. ASSUME NEW c \in Cameras, Upsert(c) PROVE Unobserved(m, monitor'[i])
  <2>1. Fresh \in Monitors /\ monitor[Fresh] = Nil /\ monitor' = [monitor EXCEPT ![Fresh] = New(c)]
    BY <1>11, FreshMonitor DEF Upsert, Start
  <2> QED  BY <1>2, <2>1
<1>12. ASSUME NEW o \in closing, ReplaceEnd(o) PROVE Unobserved(m, monitor'[i])
  <2> DEFINE n == Invalidate(monitor[o.old], "offline")
  <2>1. /\ Fresh \in Monitors /\ monitor[Fresh] = Nil
        /\ monitor' = [monitor EXCEPT ![o.old] = n, ![Fresh] = New(o.camera)]
    BY <1>12, FreshMonitor DEF ReplaceEnd
  <2>2. o.old \in Monitors /\ Unobserved(monitor[o.old], n)
    BY <1>0, <1>4
  <2> HIDE DEF n
  <2>3. i # Fresh /\ monitor'[i] = IF i = o.old THEN n ELSE monitor[i]
    BY <1>0, <2>1, <2>2
  <2> QED  BY <2>2, <2>3 DEF Unobserved
<1>13. ASSUME NEW c \in Cameras, ReplaceBegin(c) \/ RemoveBegin(c) PROVE Unobserved(m, monitor'[i])
  BY <1>0, <1>9, <1>13 DEF ReplaceBegin, RemoveBegin
<1> QED
  BY <1>1, <1>5, <1>6, <1>7, <1>8, <1>10, <1>11, <1>12, <1>13 DEF MonitorsNext, ClockTick, ServiceClose

\* A result may end an observation, start one at its image, or go on with it;
\* what it confirms has the votes.
LEMMA ResultObserved ==
  ASSUME IInv, NEW result \in Results, CameraResult(result),
         NEW i \in Monitors, monitor[i] # Nil, NEW m, m = monitor[i], NEW n, n = monitor'[i]
  PROVE  /\ n # Nil
         /\ n.observation # Nil /\ n.observation = m.observation
            => n.plate = m.plate /\ (m.status = "confirmed" => n.status = "confirmed")
         /\ n.status = "confirmed" /\ (m.status # "confirmed" \/ n.observation # m.observation)
            => /\ \A v \in n.votes : v.at + Window >= n.lastSeen
               /\ Votes(n.votes, n.plate) >= ConfirmationReads
<1>1. active # Nil /\ active.key \in Cameras /\ Accept(active.from, active, result)
  BY DEF CameraResult
<1>2. active \in InFlight /\ active \in Images
  BY <1>1 DEF InFlight, IInv, QueueTyped
<1>3. /\ active.from \in Monitors /\ Fits(active, monitor[active.from]) /\ active.at \in Nat
      /\ monitor \in [Monitors -> MonitorState \cup {Nil}]
  BY <1>1, <1>2 DEF IInv, Flight, ImageOK, MonitorsTyped, Images
<1>4. CASE n = m
  BY <1>4
<1>5. CASE i = active.from /\ ~Rejected(m, active) /\ n = Accepted(m, active, result)
  <2>1. m \in MonitorState /\ IsFiniteSet(m.votes)
    <3>1. HistoryOK(m, readings[i])
      BY DEF IInv, MonitorHistory
    <3> QED  BY <1>3, <3>1, FS_Subset DEF HistoryOK
  <2>2. m.observation # Nil => m.observation # active.at
    <3>1. active.epoch = m.epoch /\ Fits(active, m)
      BY <1>3, <1>5 DEF Rejected
    <3>2. m.observation # Nil => m.observation < active.at /\ m.observation \in Nat
      BY <2>1, <3>1 DEF Fits, MonitorState
    <3> QED  BY <1>3, <3>2
  <2>3. /\ n \in MonitorState
        /\ \/ n.observation = Nil
           \/ n.observation = m.observation /\ n.plate = m.plate
              /\ (m.status = "confirmed" => n.status = "confirmed")
           \/ n.observation = active.at
        /\ n.status = "confirmed" /\ (m.status # "confirmed" \/ n.observation # m.observation)
           => /\ \A v \in n.votes : v.at + Window >= n.lastSeen
              /\ Votes(n.votes, n.plate) >= ConfirmationReads
    BY <1>3, <1>5, <2>1, AcceptedGives
  <2> QED  BY <2>2, <2>3, MonitorsAssumption
<1>6. n = m \/ (i = active.from /\ ~Rejected(m, active) /\ n = Accepted(m, active, result))
  BY <1>1, <1>3 DEF Accept, Publish
<1> QED  BY <1>4, <1>5, <1>6

-----------------------------------------------------------------------------
(* Theorems.                                                               *)

\* However results, timeouts and the shutdown race for them, no slot of a
\* manual request is freed twice or lost, and no key is in line twice.
THEOREM SlotsHold == MonitorsSpec => []SlotsAccounted
<1>1. IInv => SlotsAccounted
  BY DEF IInv
<1> QED  BY <1>1, Inductive, PTL

\* The line keeps within its capacity, and an image in it is overtaken by fewer
\* others than that, whoever replaces, submits and removes images meanwhile.
THEOREM AdmissionIsFair == MonitorsSpec => []FairAdmission
<1>1. ASSUME IInv PROVE FairAdmission
  <2>1. LineOK /\ pending \in Seq(Images) /\ Distinct(pending) /\ Waiting = KeysOf(pending)
    BY <1>1, WaitingKeys DEF IInv, QueueTyped, LineOK
  <2>2. Cardinality(KeysOf(pending) \cap Requests) <= MaxManual
    <3>1. Cardinality(Waiting \cap Requests) \in Nat
      BY <2>1, KeysCounted, FS_Intersection, FS_CardinalityType
    <3>2. /\ manualCount <= MaxManual
          /\ manualCount = Cardinality(Waiting \cap Requests)
                           + (IF active # Nil /\ active.key \in Requests THEN 1 ELSE 0)
      BY <1>1 DEF IInv, SlotsAccounted
    <3> QED  BY <2>1, <3>1, <3>2, SchedulerAssumption
  <2>3. Len(pending) <= Limit
    BY <1>1, <2>1, <2>2, LineWithinLimit DEF IInv, Registry, LineWatched
  <2>4. ASSUME NEW key \in Keys PROVE overtaken[key] < Limit
    <3>1. overtaken[key] \in Nat /\ Limit \in Nat \ {0}
      BY <1>1, SchedulerAssumption DEF IInv, QueueTyped, Limit
    <3>2. CASE key \in Waiting
      <4>1. PICK k \in 1 .. Len(pending) : pending[k].key = key
        BY <2>1, <3>2 DEF KeysOf
      <4>2. overtaken[key] + k <= Limit /\ k \in Nat /\ k >= 1
        BY <1>1, <2>1, <4>1 DEF IInv, LineFair
      <4> QED  BY <3>1, <4>2
    <3>3. CASE key \notin Waiting
      BY <1>1, <3>1, <3>3 DEF IInv, LineFair
    <3> QED  BY <3>2, <3>3
  <2> QED  BY <2>3, <2>4 DEF FairAdmission, Limit
<1> QED  BY <1>1, Inductive, PTL

\* The last event of a monitor carries its present state: whoever follows the
\* events misses none.
THEOREM ChangesAreTold == MonitorsSpec => []EveryChangeTold
<1>1. IInv => EveryChangeTold
  BY DEF IInv
<1> QED  BY <1>1, Inductive, PTL

\* Between the two steps of a replacement or a removal, and ever after, no
\* monitor but the registered one of its camera is open.
THEOREM OneIsLive == MonitorsSpec => []OneLiveMonitor
<1>1. IInv => OneLiveMonitor
  BY DEF IInv, Registry, Watched, OneLiveMonitor
<1> QED  BY <1>1, Inductive, PTL

\* While an observation lasts its plate stays the same and it stays confirmed,
\* whatever is read meanwhile.
THEOREM ObservationsAreStable == MonitorsSpec => ObservationStable
<1> DEFINE Stable ==
             \A i \in Monitors :
                LET m == monitor[i]
                    n == monitor'[i]
                IN  m # Nil /\ m.observation # Nil /\ n.observation = m.observation
                    => n.plate = m.plate /\ (m.status = "confirmed" => n.status = "confirmed")
<1>1. ASSUME IInv, [MonitorsNext]_monitorsVars PROVE Stable \/ UNCHANGED monitor
  <2>1. CASE UNCHANGED monitorsVars
    BY <2>1 DEF monitorsVars
  <2>2. ASSUME NEW result \in Results, CameraResult(result) PROVE Stable
    BY <1>1, <2>2, ResultObserved
  <2>3. CASE MonitorsNext /\ ~ \E result \in Results : CameraResult(result)
    BY <1>1, <2>3, OthersUnobserved DEF Unobserved
  <2> QED  BY <1>1, <2>1, <2>2, <2>3
<1>2. [Stable]_monitor <=> Stable \/ UNCHANGED monitor
  OBVIOUS
<1>3. ObservationStable <=> [][Stable]_monitor
  BY DEF ObservationStable
<1> HIDE DEF Stable
<1> QED  BY <1>1, <1>2, <1>3, Inductive, PTL DEF MonitorsSpec

\* Nothing is confirmed but by enough frames that showed the plate within the
\* window, captured by the monitor itself since its last failed capture: what
\* an old monitor, an old image or an expired vote says never counts.
THEOREM ConfirmationsAreRead == MonitorsSpec => ConfirmedByReadings
<1> DEFINE Confirms(i) == monitor[i] # Nil /\ monitor'[i].status = "confirmed"
                          /\ (monitor[i].status # "confirmed" \/ monitor[i].observation # monitor'[i].observation)
           Shown(i) == {r \in readings'[i] : r.plate = monitor'[i].plate
                                             /\ r.at + Window >= monitor'[i].lastSeen}
           AllRead ==
             \A i \in Monitors :
                LET m == monitor[i]
                    n == monitor'[i]
                IN  /\ m # Nil /\ n.status = "confirmed"
                    /\ m.status # "confirmed" \/ m.observation # n.observation
                    => Cardinality({r \in readings'[i] : r.plate = n.plate /\ r.at + Window >= n.lastSeen})
                          >= ConfirmationReads
<1>1. ASSUME IInv, [MonitorsNext]_monitorsVars, IInv' PROVE AllRead \/ UNCHANGED monitor
  <2>1. CASE UNCHANGED monitorsVars
    BY <2>1 DEF monitorsVars
  <2>2. ASSUME NEW result \in Results, CameraResult(result), NEW i \in Monitors, Confirms(i)
        PROVE  Cardinality(Shown(i)) >= ConfirmationReads
    <3> DEFINE n == monitor'[i]
               voted == {v \in n.votes : v.plate = n.plate}
    <3>1. /\ \A v \in n.votes : v.at + Window >= n.lastSeen
          /\ Votes(n.votes, n.plate) >= ConfirmationReads
      BY <1>1, <2>2, ResultObserved
    <3>2. monitor'[i] # Nil
      BY <1>1, <2>2, ResultObserved
    <3>3. n.votes \subseteq readings'[i] /\ IsFiniteSet(readings'[i])
      BY <1>1, <3>2 DEF IInv, MonitorHistory, HistoryOK
    <3>4. voted \subseteq Shown(i) /\ IsFiniteSet(Shown(i))
      BY <3>1, <3>3, FS_Subset
    <3>5. Cardinality(voted) <= Cardinality(Shown(i)) /\ IsFiniteSet(voted)
      BY <3>4, FS_Subset
    <3>6. Cardinality(voted) \in Nat /\ Cardinality(Shown(i)) \in Nat
      BY <3>4, <3>5, FS_CardinalityType
    <3> QED  BY <3>1, <3>5, <3>6, MonitorsAssumption DEF Votes
  <2>3. CASE MonitorsNext /\ ~ \E result \in Results : CameraResult(result)
    BY <1>1, <2>3, OthersUnobserved DEF Unobserved
  <2> QED  BY <1>1, <2>1, <2>2, <2>3
<1>2. [AllRead]_monitor <=> AllRead \/ UNCHANGED monitor
  OBVIOUS
<1>3. ConfirmedByReadings <=> [][AllRead]_monitor
  BY DEF ConfirmedByReadings
<1> HIDE DEF AllRead
<1> QED  BY <1>1, <1>2, <1>3, Inductive, PTL DEF MonitorsSpec
=============================================================================
