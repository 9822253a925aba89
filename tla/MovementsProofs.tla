--------------------------- MODULE MovementsProofs ---------------------------
(***************************************************************************)
(* Proofs about Movements, for every company: any number of requests,      *)
(* observations, plates, gates and rows.                                   *)
(***************************************************************************)
EXTENDS Movements, PairingProofs, TLAPS

-----------------------------------------------------------------------------
(* The inductive invariant.  ReviewMatchesVehicle and                      *)
(* OneMovementPerObservation are not inductive: a save writes whatever the *)
(* request remembers, so the invariant says what the entities in memory    *)
(* may be and how they relate to the rows they will overwrite.             *)

Reviewed(r) ==
    /\ r.status \in Confirmed <=> r.vehicle # None
    /\ r.status \in {"pending_review", "discarded"} => r.obs # None

\* A review decision and a vehicle go together, in the table and in memory.
ReviewInv ==
    /\ \A i \in Present : Reviewed(rows[i])
    /\ \A c \in Clients : \A i \in Drafted(c) :
          Reviewed(draft[c][i]) /\ (op[c] = "confirm" => draft[c][i].vehicle # None)

\* An id that has not been generated yet is unknown to everybody.
FreshInv ==
    \A i \in Ids : i >= nextId =>
        rows[i] = None /\ \A c \in Clients : draft[c][i] = None /\ i \notin want[c]

\* An id belongs to one observation, or to none, for ever.
Owner(f) ==
    /\ \A i \in Present : rows[i].obs = f[i]
    /\ \A c \in Clients : \A i \in Drafted(c) : draft[c][i].obs = f[i]
    /\ \A c \in Clients : op[c] = "remove" => \A i \in want[c] : f[i] = None

OwnerInv == \E f \in [Ids -> Observations \cup {None}] : Owner(f)

\* A request never saves two movements of one observation.
DraftsUnique ==
    \A c \in Clients : \A i, j \in Drafted(c) :
        draft[c][i].obs # None /\ draft[c][i].obs = draft[c][j].obs => i = j

\* The row under review stays locked and pending until the review commits.
UnderReview ==
    \A c \in Clients : op[c] = "same_plate" =>
        \A i \in Drafted(c) : i \in want[c] /\ rowLock[i] = c /\ Pending(i)

\* Only the request that inserts it remembers a movement without a vehicle.
SoleInsertion ==
    \A c \in Clients : \A i \in Drafted(c) : draft[c][i].status \notin Confirmed =>
        rows[i] = None /\ \A d \in Clients \ {c} : draft[d][i] = None

\* Outside a review, what is overwritten was already confirmed.
ConfirmedTargets ==
    \A c \in Clients : \A i \in Drafted(c) :
        op[c] # "same_plate" /\ rows[i] # None => rows[i].status \in Confirmed

\* Nothing to save is prepared while a request only waits for its rows.
NothingDrafted ==
    \A c \in Clients : op[c] \in {"idle", "remove", "discard", "recalculate"} =>
        \A i \in Ids : draft[c][i] = None

\* The movement of an observation is inserted by the one request that knows it.
SoleObserved ==
    \A c \in Clients : \A i \in Drafted(c) : rows[i] = None /\ draft[c][i].obs # None =>
        \A d \in Clients \ {c} : draft[d][i] = None

\* What ObservedContextImmutable says of two versions of a row.
SameContext(new, old) ==
    /\ new.point = old.point /\ new.type = old.type
    /\ old.vehicle # None => new.vehicle = old.vehicle

\* Whoever is about to overwrite an observed movement remembers its context.
ContextKept ==
    \A c \in Clients : \A i \in Drafted(c) : rows[i] # None /\ rows[i].obs # None =>
        SameContext(draft[c][i], rows[i])

IInv ==
    /\ TypeOK /\ ReviewInv /\ FreshInv /\ OwnerInv /\ DraftsUnique /\ UnderReview
    /\ NothingDrafted /\ SoleInsertion /\ ConfirmedTargets /\ OneMovementPerObservation
    /\ SoleObserved /\ ContextKept

-----------------------------------------------------------------------------
(* The entities the requests keep in memory.                               *)

LEMMA NoDraftType == NoDraft \in Draft
  BY DEF NoDraft, Draft

\* An insertion saves the new row and at most one closed entry.
LEMMA InsertDraftsType ==
  ASSUME TypeOK, NEW id \in Ids, NEW r \in Row, NEW d \in InsertDrafts(id, r)
  PROVE  d \in Draft
<1>1. r.status \in Status /\ Closed(r) \in Row
  BY DEF Row, Closed, Status
<1>2. \A e \in LatestOpenEntries(r) : e \in Ids /\ rows[e] \in Row /\ Closed(rows[e]) \in Row
  BY DEF LatestOpenEntries, OpenEntries, Present, TypeOK, Row, Closed, Status
<1>3. [NoDraft EXCEPT ![id] = r] \in Draft /\ [NoDraft EXCEPT ![id] = Closed(r)] \in Draft
  BY <1>1, NoDraftType DEF Draft
<1>4. \A e \in LatestOpenEntries(r) :
         [NoDraft EXCEPT ![id] = Closed(r), ![e] = Closed(rows[e])] \in Draft
  BY <1>1, <1>2, NoDraftType DEF Draft
<1> QED  BY <1>3, <1>4 DEF InsertDrafts

\* Reconciliation only restages confirmed rows, as open or closed.
LEMMA NewStatusConfirmed ==
  ASSUME NEW from, NEW to, NEW i \in Analyzed(from, to)
  PROVE  NewStatus(from, to, i) \in Confirmed
  BY DEF NewStatus, ReconciledStatus, Analyzed, Confirmed

LEMMA ReconcileDraftType ==
  ASSUME TypeOK, NEW from, NEW to
  PROVE  ReconcileDraft(from, to) \in Draft
<1> SUFFICES ASSUME NEW i \in Analyzed(from, to)
             PROVE  [rows[i] EXCEPT !.status = NewStatus(from, to, i)] \in Row
  BY DEF ReconcileDraft, Draft
<1>1. rows[i] \in Row
  BY DEF Analyzed, Present, TypeOK
<1>2. NewStatus(from, to, i) \in Status
  BY NewStatusConfirmed DEF Confirmed, Status
<1> QED  BY <1>1, <1>2 DEF Row

-----------------------------------------------------------------------------
(* The frame of a request preserves the types of what it touches.          *)

Ops == {"idle", "update", "remove", "confirm", "auto", "discard",
        "recalculate", "same_plate", "reconcile"}

RequestOK ==
    /\ op \in [Clients -> Ops]
    /\ want \in [Clients -> SUBSET Ids]
    /\ draft \in [Clients -> Draft]
    /\ arg \in [Clients -> Plates \cup Status \cup {None}]

LocksOK ==
    /\ rowLock \in [Ids -> Clients \cup {None}]
    /\ obsLock \in [Observations -> Clients \cup {None}]

LEMMA BeginType ==
  ASSUME RequestOK, NEW c \in Clients, NEW name \in Ops, NEW ids \in SUBSET Ids,
         NEW d \in Draft, NEW a \in Plates \cup Status \cup {None}, Begin(c, name, ids, d, a)
  PROVE  RequestOK'
  BY DEF RequestOK, Begin

LEMMA EndType ==
  ASSUME RequestOK, LocksOK, NEW c \in Clients, End(c)
  PROVE  RequestOK' /\ LocksOK'
  BY NoDraftType DEF RequestOK, LocksOK, End, Ops

LEMMA SaveDraftType ==
  ASSUME TypeOK, NEW c \in Clients, SaveDraft(c)
  PROVE  /\ rows' \in [Ids -> Row \cup {None}]
         /\ nextId' \in 1 .. MaxMovements + 1
         /\ live' \subseteq Observations
         /\ RequestOK' /\ LocksOK'
<1>1. RequestOK /\ LocksOK
  BY DEF TypeOK, RequestOK, LocksOK, Ops
<1>2. draft[c] \in [Ids -> Row \cup {None}]
  BY DEF TypeOK, Draft
<1> QED  BY <1>1, <1>2, EndType DEF SaveDraft, TypeOK

-----------------------------------------------------------------------------
(* The steps of the system, with the types of what they are given.         *)

Steps ==
    \/ \E v \in Plates : Register(v) \/ Unregister(v)
    \/ \E o \in Observations : Expire(o)
    \/ "create" \in Enabled /\ \E r \in Row : Create(r)
    \/ \E c \in Clients :
          \/ "update" \in Enabled /\ \E i \in Present, new \in Row : UpdateLoad(c, i, new)
          \/ "remove" \in Enabled /\ \E i \in Present : RemoveLoad(c, i)
          \/ \E o \in Observations, ty \in Type, t \in Times : ConfirmRead(c, o, ty, t)
          \/ \E o \in Observations, p \in Plates : AutoRead(c, o, p)
          \/ \E ids \in SUBSET Present : DiscardBegin(c, ids)
          \/ \E i \in Present, v \in Plates : RecalculateBegin(c, i, v)
          \/ \E from \in Times, to \in Times : ReconcileRead(c, from, to)
          \/ UpdateSave(c) \/ RemoveRow(c) \/ ConfirmCommit(c) \/ AutoCommit(c)
          \/ DiscardCommit(c) \/ RecalculateRead(c) \/ RecalculateCommit(c) \/ ReconcileSave(c)
          \/ Refuse(c) \/ DeadlockVictim(c) \/ Crash(c)
          \/ \E i \in Ids : Lock(c, i)

LEMMA NextSteps == ASSUME TypeOK, Next PROVE Steps
<1>1. CASE Environment
  <2>1. ASSUME NEW v \in Plates, NEW p \in Points \cup {None}, NEW ty \in Type,
               NEW t \in Times, NEW s \in Confirmed
        PROVE  [obs |-> None, point |-> p, vehicle |-> v, plate |-> None,
                type |-> ty, time |-> t, status |-> s] \in Row
    BY <2>1 DEF Row, Confirmed, Status
  <2> QED  BY <1>1, <2>1 DEF Environment, Steps
<1>2. ASSUME NEW c \in Clients, Start(c) PROVE Steps
  <2>1. ASSUME NEW i \in Present, NEW v \in Plates, NEW p \in Points \cup {None},
               NEW ty \in Type, NEW t \in Times, NEW s \in Status
        PROVE  [rows[i] EXCEPT !.vehicle = v, !.point = p, !.type = ty, !.time = t, !.status = s] \in Row
    <3>1. rows[i] \in Row
      BY DEF Present, TypeOK
    <3> QED  BY <3>1, <2>1 DEF Row
  <2> QED  BY <1>2, <2>1 DEF Start, Steps
<1>3. ASSUME NEW c \in Clients, Finish(c) \/ Crash(c) \/ \E i \in Ids : Lock(c, i) PROVE Steps
  BY <1>3 DEF Finish, Steps
<1> QED  BY <1>1, <1>2, <1>3 DEF Next

-----------------------------------------------------------------------------
(* Every variable keeps its type.                                          *)

LEMMA InitType == Init => TypeOK
  BY MovementsAssumption, NoDraftType DEF Init, TypeOK, MovementsAssumption

LEMMA PresentRow ==
  ASSUME TypeOK, NEW i \in Present
  PROVE  i \in Ids /\ rows[i] \in Row
  BY DEF Present, TypeOK

LEMMA DraftRow ==
  ASSUME TypeOK, NEW c \in Clients, NEW i \in Drafted(c)
  PROVE  i \in Ids /\ draft[c][i] \in Row
  BY DEF Drafted, TypeOK, Draft

LEMMA StepType == ASSUME TypeOK, ReviewInv, [Next]_vars PROVE TypeOK'
<1> USE MovementsAssumption
<1>a. RequestOK /\ LocksOK
  BY DEF TypeOK, RequestOK, LocksOK, Ops
<1>b. \A i \in Ids : rows[i] \in Row \cup {None}
  BY DEF TypeOK
<1>1. CASE UNCHANGED vars
  BY <1>1 DEF TypeOK, vars, table, request, locks
<1>2. ASSUME NEW v \in Plates, Register(v) \/ Unregister(v) PROVE TypeOK'
  BY <1>2 DEF TypeOK, Register, Unregister, request, locks
<1>3. ASSUME NEW o \in Observations, Expire(o) PROVE TypeOK'
  BY <1>3 DEF TypeOK, Expire, request, locks
<1>4. ASSUME NEW r \in Row, Create(r) PROVE TypeOK'
  BY <1>4 DEF TypeOK, Create, request, locks, Ids, MovementsAssumption
<1>5. ASSUME NEW c \in Clients, NEW i \in Present, NEW new \in Row, UpdateLoad(c, i, new)
      PROVE  TypeOK'
  <2>1. [NoDraft EXCEPT ![i] = new] \in Draft /\ {i} \in SUBSET Ids
    BY NoDraftType, PresentRow DEF Draft
  <2>2. new.status \in Status
    BY DEF Row
  <2>3. RequestOK'
    BY <1>a, <1>5, <2>1, <2>2, BeginType DEF UpdateLoad, Ops
  <2> QED  BY <1>5, <2>3 DEF RequestOK, LocksOK, Ops, UpdateLoad, table, locks, TypeOK
<1>6. ASSUME NEW c \in Clients, NEW i \in Present, RemoveLoad(c, i) PROVE TypeOK'
  <2>1. RequestOK'
    BY <1>a, <1>6, PresentRow, NoDraftType, BeginType DEF RemoveLoad, Ops
  <2> QED  BY <1>6, <2>1 DEF RequestOK, LocksOK, Ops, RemoveLoad, table, locks, TypeOK
<1>7. ASSUME NEW c \in Clients, NEW o \in Observations, NEW ty \in Type, NEW t \in Times,
             ConfirmRead(c, o, ty, t)
      PROVE  TypeOK'
  <2> DEFINE r == [obs |-> o, point |-> ObsPoint[o], vehicle |-> ObsPlate[o], plate |-> None,
                   type |-> ty, time |-> t, status |-> "open"]
  <2>1. r \in Row
    BY DEF Row, Status, MovementsAssumption
  <2>2. nextId \in Ids /\ nextId' \in 1 .. MaxMovements + 1
    BY <1>7 DEF ConfirmRead, NewId, Ids, TypeOK, MovementsAssumption
  <2>3. PICK d \in InsertDrafts(nextId, r) : Begin(c, "confirm", {nextId}, d, None)
    BY <1>7 DEF ConfirmRead
  <2>4. RequestOK'
    <3>1. d \in Draft
      BY <2>1, <2>2, InsertDraftsType
    <3> QED  BY <1>a, <2>2, <2>3, <3>1, BeginType DEF Ops
  <2> QED  BY <1>7, <2>2, <2>4 DEF RequestOK, LocksOK, Ops, ConfirmRead, TypeOK
<1>8. ASSUME NEW c \in Clients, NEW o \in Observations, NEW p \in Plates, AutoRead(c, o, p)
      PROVE  TypeOK'
  <2> DEFINE known == p \in vehicles
             r == [obs |-> o, point |-> ObsPoint[o], vehicle |-> IF known THEN p ELSE None, plate |-> p,
                   type |-> AutoType(ObsPoint[o]), time |-> ObsTime[o],
                   status |-> IF known THEN "open" ELSE "pending_review"]
  <2>1. r \in Row
    <3>1. AutoType(ObsPoint[o]) \in Type
      BY DEF AutoType, Type, MovementsAssumption
    <3> QED  BY <3>1 DEF Row, Status, MovementsAssumption
  <2>2. nextId \in Ids /\ nextId' \in 1 .. MaxMovements + 1
    BY <1>8 DEF AutoRead, NewId, Ids, TypeOK, MovementsAssumption
  <2>3. PICK d \in InsertDrafts(nextId, r) : Begin(c, "auto", {nextId}, d, None)
    BY <1>8 DEF AutoRead
  <2>4. RequestOK'
    <3>1. d \in Draft
      BY <2>1, <2>2, InsertDraftsType
    <3> QED  BY <1>a, <2>2, <2>3, <3>1, BeginType DEF Ops
  <2> QED  BY <1>8, <2>2, <2>4 DEF RequestOK, LocksOK, Ops, AutoRead, TypeOK, locks
<1>9. ASSUME NEW c \in Clients, NEW ids \in SUBSET Present, DiscardBegin(c, ids) PROVE TypeOK'
  <2>1. ids \in SUBSET Ids
    BY PresentRow
  <2>2. RequestOK'
    BY <1>a, <1>9, <2>1, NoDraftType, BeginType DEF DiscardBegin, Ops
  <2> QED  BY <1>9, <2>2 DEF RequestOK, LocksOK, Ops, DiscardBegin, table, locks, TypeOK
<1>10. ASSUME NEW c \in Clients, NEW i \in Present, NEW v \in Plates, RecalculateBegin(c, i, v)
       PROVE  TypeOK'
  <2>1. RequestOK'
    BY <1>a, <1>10, PresentRow, NoDraftType, BeginType DEF RecalculateBegin, Ops
  <2> QED  BY <1>10, <2>1 DEF RequestOK, LocksOK, Ops, RecalculateBegin, table, locks, TypeOK
<1>11. ASSUME NEW c \in Clients, NEW from \in Times, NEW to \in Times, ReconcileRead(c, from, to)
       PROVE  TypeOK'
  <2>1. RequestOK'
    BY <1>a, <1>11, ReconcileDraftType, BeginType DEF ReconcileRead, Ops
  <2> QED  BY <1>11, <2>1 DEF RequestOK, LocksOK, Ops, ReconcileRead, table, locks, TypeOK
<1>12. ASSUME NEW c \in Clients, UpdateSave(c) \/ AutoCommit(c) \/ ReconcileSave(c) PROVE TypeOK'
  <2>1. SaveDraft(c) /\ UNCHANGED vehicles
    BY <1>12 DEF UpdateSave, AutoCommit, ReconcileSave
  <2> QED  BY <2>1, SaveDraftType DEF RequestOK, LocksOK, Ops, TypeOK
<1>13. ASSUME NEW c \in Clients, ConfirmCommit(c) PROVE TypeOK'
  <2>1. vehicles' \subseteq Plates
    <3>1. \A i \in Drafted(c) : draft[c][i].vehicle \in Plates
      BY <1>13, DraftRow DEF ConfirmCommit, ReviewInv, Row
    <3> QED  BY <1>13, <3>1 DEF ConfirmCommit, TypeOK
  <2> QED  BY <1>13, <2>1, SaveDraftType DEF RequestOK, LocksOK, Ops, ConfirmCommit, TypeOK
<1>14. ASSUME NEW c \in Clients, RemoveRow(c) PROVE TypeOK'
  <2>1. RequestOK' /\ LocksOK'
    BY <1>a, <1>14, EndType DEF RemoveRow
  <2> QED  BY <1>14, <2>1, <1>b DEF RequestOK, LocksOK, Ops, RemoveRow, TypeOK
<1>15. ASSUME NEW c \in Clients, DiscardCommit(c) PROVE TypeOK'
  <2>1. RequestOK' /\ LocksOK'
    BY <1>a, <1>15, EndType DEF DiscardCommit
  <2>2. \A i \in want[c] : rows[i] \in Row
    BY <1>15, <1>b DEF DiscardCommit, Pending, TypeOK
  <2>3. \A i \in want[c] : [rows[i] EXCEPT !.status = "discarded"] \in Row
    BY <2>2 DEF Row, Status
  <2> QED  BY <1>15, <2>1, <2>3, <1>b DEF RequestOK, LocksOK, Ops, DiscardCommit, TypeOK
<1>16. ASSUME NEW c \in Clients, RecalculateRead(c) PROVE TypeOK'
  <2>1. PICK i \in want[c] :
          /\ Pending(i) /\ arg[c] \in vehicles
          /\ draft' = [draft EXCEPT ![c][i] =
                          [rows[i] EXCEPT !.vehicle = arg[c], !.status = "open", !.plate = None]]
          /\ want' = [want EXCEPT ![c] = {i} \cup SamePlate(i, arg[c])]
    BY <1>16 DEF RecalculateRead
  <2>2. i \in Ids /\ rows[i] \in Row /\ arg[c] \in Plates
    BY <2>1, <1>b DEF Pending, TypeOK
  <2>3. [rows[i] EXCEPT !.vehicle = arg[c], !.status = "open", !.plate = None] \in Row
    BY <2>2 DEF Row, Status
  <2>4. draft' \in [Clients -> Draft]
    BY <2>1, <2>2, <2>3 DEF TypeOK, Draft
  <2>5. want' \in [Clients -> SUBSET Ids]
    BY <2>1, <2>2 DEF TypeOK, SamePlate, Present
  <2> QED  BY <1>16, <2>4, <2>5 DEF RecalculateRead, TypeOK, table, locks
<1>17. ASSUME NEW c \in Clients, RecalculateCommit(c) PROVE TypeOK'
  <2>1. RequestOK' /\ LocksOK'
    BY <1>a, <1>17, EndType DEF RecalculateCommit
  <2>2. \A i \in Drafted(c) : draft[c][i] \in Row
    BY DraftRow
  <2>3. \A i \in Ids : Duplicate(c, i) => rows[i] \in Row
    BY <1>b DEF Duplicate, Pending
  <2>4. \A i \in Ids : Duplicate(c, i) => [rows[i] EXCEPT !.status = "discarded"] \in Row
    BY <2>3 DEF Row, Status
  <2> QED  BY <1>17, <2>1, <2>2, <2>4, <1>b DEF RequestOK, LocksOK, Ops, RecalculateCommit, TypeOK
<1>18. ASSUME NEW c \in Clients, Refuse(c) \/ DeadlockVictim(c) \/ Crash(c) PROVE TypeOK'
  <2>1. End(c) /\ UNCHANGED table
    BY <1>18 DEF Refuse, DeadlockVictim, Crash
  <2> QED  BY <1>a, <2>1, EndType DEF RequestOK, LocksOK, Ops, table, TypeOK
<1>19. ASSUME NEW c \in Clients, NEW i \in Ids, Lock(c, i) PROVE TypeOK'
  BY <1>19 DEF Lock, TypeOK, table, request
<1> QED
  <2>1. ASSUME Steps PROVE TypeOK'
    BY <2>1, <1>2, <1>3, <1>4, <1>5, <1>6, <1>7, <1>8, <1>9, <1>10, <1>11, <1>12, <1>13,
       <1>14, <1>15, <1>16, <1>17, <1>18, <1>19 DEF Steps
  <2> QED  BY <2>1, <1>1, NextSteps

-----------------------------------------------------------------------------
(* What the steps do to the entities in memory.                            *)

LEMMA EndEffect ==
  ASSUME TypeOK, NEW c \in Clients, End(c)
  PROVE  /\ \A d \in Clients, i \in Ids : draft'[d][i] = IF d = c THEN None ELSE draft[d][i]
         /\ \A d \in Clients : op'[d] = IF d = c THEN "idle" ELSE op[d]
         /\ \A d \in Clients : want'[d] = IF d = c THEN {} ELSE want[d]
         /\ \A i \in Ids : rowLock'[i] = IF rowLock[i] = c THEN None ELSE rowLock[i]
  BY DEF End, TypeOK, NoDraft

LEMMA BeginEffect ==
  ASSUME TypeOK, NEW c \in Clients, NEW name, NEW ids, NEW e, NEW a, Begin(c, name, ids, e, a)
  PROVE  /\ \A d \in Clients : draft'[d] = IF d = c THEN e ELSE draft[d]
         /\ \A d \in Clients : op'[d] = IF d = c THEN name ELSE op[d]
         /\ \A d \in Clients : want'[d] = IF d = c THEN ids ELSE want[d]
         /\ op[c] = "idle"
  BY DEF Begin, TypeOK

\* The entities an insertion saves: the new row r and an open entry of the
\* same vehicle.
LEMMA InsertDraftsRows ==
  ASSUME TypeOK, NEW id \in Ids, rows[id] = None, NEW r \in Row,
         NEW d \in InsertDrafts(id, r), NEW i \in Ids, d[i] # None
  PROVE  \/ /\ i = id
            /\ d[i] = r \/ (d[i] = Closed(r) /\ r.status = "open" /\ r.vehicle # None)
         \/ /\ i # id /\ i \in Present
            /\ rows[i].status = "open" /\ rows[i].vehicle = r.vehicle /\ r.vehicle # None
            /\ d[i] = Closed(rows[i])
<1>1. \A e \in LatestOpenEntries(r) :
         e \in Present /\ e # id /\ rows[e].status = "open" /\ rows[e].vehicle = r.vehicle
  BY DEF LatestOpenEntries, OpenEntries, Present, SameVisit
<1>2. ASSUME d = [NoDraft EXCEPT ![id] = r] PROVE i = id /\ d[i] = r
  BY <1>2 DEF NoDraft
<1>3. ASSUME d = [NoDraft EXCEPT ![id] = Closed(r)] PROVE i = id /\ d[i] = Closed(r)
  BY <1>3 DEF NoDraft
<1>4. ASSUME NEW e \in LatestOpenEntries(r), r.status = "open", r.vehicle # None,
             d = [NoDraft EXCEPT ![id] = Closed(r), ![e] = Closed(rows[e])]
      PROVE  \/ i = id /\ d[i] = Closed(r)
             \/ i # id /\ i = e /\ d[i] = Closed(rows[e])
  BY <1>4, <1>1 DEF NoDraft, Present
<1> QED  BY <1>1, <1>2, <1>3, <1>4 DEF InsertDrafts

\* The entities a reconciliation saves.
LEMMA ReconcileDraftRows ==
  ASSUME TypeOK, NEW from, NEW to, NEW i \in Ids, ReconcileDraft(from, to)[i] # None
  PROVE  /\ i \in Present /\ rows[i].status \in Confirmed /\ rows[i].vehicle # None
         /\ ReconcileDraft(from, to)[i] = [rows[i] EXCEPT !.status = NewStatus(from, to, i)]
         /\ NewStatus(from, to, i) \in Confirmed
<1>1. i \in Analyzed(from, to)
  BY DEF ReconcileDraft
<1> QED  BY <1>1, NewStatusConfirmed DEF ReconcileDraft, Analyzed

-----------------------------------------------------------------------------
(* A review decision and a vehicle go together.                            *)

LEMMA InitReview == Init => ReviewInv
  BY DEF Init, ReviewInv, Present, Drafted, NoDraft

\* An insertion of a reviewed row: the entry it closes has the same vehicle.
LEMMA InsertionReviewed ==
  ASSUME TypeOK, ReviewInv, NEW id \in Ids, rows[id] = None, NEW r \in Row, Reviewed(r),
         NEW d \in InsertDrafts(id, r), NEW i \in Ids, d[i] # None
  PROVE  Reviewed(d[i]) /\ d[i].vehicle = r.vehicle
<1>1. CASE d[i] = r
  BY <1>1
<1>2. CASE d[i] = Closed(r) /\ r.status = "open"
  <2>1. r.vehicle # None
    BY <1>2 DEF Reviewed, Confirmed
  <2> QED  BY <1>2, <2>1 DEF Reviewed, Closed, Confirmed, Row
<1>3. CASE i \in Present /\ rows[i].vehicle = r.vehicle /\ r.vehicle # None /\ d[i] = Closed(rows[i])
  <2>1. rows[i] \in Row
    BY <1>3, PresentRow
  <2> QED  BY <1>3, <2>1 DEF Reviewed, Closed, Confirmed, Row
<1> QED  BY <1>1, <1>2, <1>3, InsertDraftsRows

LEMMA StepReview == ASSUME TypeOK, ReviewInv, FreshInv, [Next]_vars PROVE ReviewInv'
<1> USE MovementsAssumption
<1> DEFINE Kept(d) == \A i \in Ids : draft'[d][i] # None =>
                         /\ Reviewed(draft'[d][i])
                         /\ op'[d] = "confirm" => draft'[d][i].vehicle # None
           RowKept(i) == rows'[i] # None => Reviewed(rows'[i])
<1>r. \A i \in Ids : rows[i] # None => Reviewed(rows[i])
  BY DEF ReviewInv, Present
<1>d. \A c \in Clients, i \in Ids : draft[c][i] # None =>
         Reviewed(draft[c][i]) /\ (op[c] = "confirm" => draft[c][i].vehicle # None)
  BY DEF ReviewInv, Drafted
<1>g. SUFFICES ASSUME Steps \/ UNCHANGED vars
               PROVE  (\A d \in Clients : Kept(d)) /\ \A i \in Ids : RowKept(i)
  BY NextSteps, <1>g DEF ReviewInv, Present, Drafted
\* A request in memory is left alone, begins without entities, or ends.
<1>q. ASSUME UNCHANGED <<rows, draft, op>>
      PROVE  (\A d \in Clients : Kept(d)) /\ \A i \in Ids : RowKept(i)
  BY <1>q, <1>r, <1>d
<1>e. ASSUME NEW c \in Clients, End(c) PROVE \A d \in Clients : Kept(d)
  BY <1>d, <1>e, EndEffect
<1>b. ASSUME NEW c \in Clients, NEW name, NEW ids, NEW e, NEW a, Begin(c, name, ids, e, a),
             UNCHANGED rows,
             \A i \in Ids : e[i] # None =>
                Reviewed(e[i]) /\ (name = "confirm" => e[i].vehicle # None)
      PROVE  (\A d \in Clients : Kept(d)) /\ \A i \in Ids : RowKept(i)
  BY <1>b, <1>r, <1>d, BeginEffect
<1>n. ASSUME NEW c \in Clients, NEW name, NEW ids, NEW a, Begin(c, name, ids, NoDraft, a),
             UNCHANGED rows
      PROVE  (\A d \in Clients : Kept(d)) /\ \A i \in Ids : RowKept(i)
  <2>1. \A i \in Ids : NoDraft[i] = None
    BY DEF NoDraft
  <2> QED  BY <1>n, <1>b, <2>1
<1>s. ASSUME NEW c \in Clients, SaveDraft(c)
      PROVE  (\A d \in Clients : Kept(d)) /\ \A i \in Ids : RowKept(i)
  BY <1>s, <1>e, <1>r, <1>d DEF SaveDraft, TypeOK
\* A discarded row was pending, hence one of an observation.
<1>p. \A i \in Ids : Pending(i) =>
         /\ rows[i].status = "pending_review"
         /\ Reviewed([rows[i] EXCEPT !.status = "discarded"])
  <2> SUFFICES ASSUME NEW i \in Ids, Pending(i)
               PROVE  Reviewed([rows[i] EXCEPT !.status = "discarded"])
    BY DEF Pending
  <2>1. rows[i] \in Row /\ rows[i].status = "pending_review" /\ Reviewed(rows[i])
    BY <1>r DEF Pending, TypeOK
  <2> QED  BY <2>1 DEF Reviewed, Row, Confirmed
<1>1. CASE UNCHANGED vars
  BY <1>1, <1>q DEF vars, table, request
<1>2. ASSUME NEW v \in Plates, Register(v) \/ Unregister(v)
      PROVE  (\A d \in Clients : Kept(d)) /\ \A i \in Ids : RowKept(i)
  BY <1>2, <1>q DEF Register, Unregister, request
<1>3. ASSUME NEW o \in Observations, Expire(o)
      PROVE  (\A d \in Clients : Kept(d)) /\ \A i \in Ids : RowKept(i)
  BY <1>3, <1>q DEF Expire, request
<1>4. ASSUME NEW r \in Row, Create(r)
      PROVE  (\A d \in Clients : Kept(d)) /\ \A i \in Ids : RowKept(i)
  <2>1. Reviewed(r)
    BY <1>4 DEF Create, ValidReferences, Reviewed, Confirmed, TypeOK
  <2>2. \A i \in Ids : rows'[i] = r \/ rows'[i] = rows[i]
    BY <1>4 DEF Create, TypeOK
  <2>3. UNCHANGED <<draft, op>>
    BY <1>4 DEF Create, request
  <2> QED  BY <2>1, <2>2, <2>3, <1>r, <1>d
<1>5. ASSUME NEW c \in Clients, NEW i \in Present, NEW new \in Row, UpdateLoad(c, i, new)
      PROVE  (\A d \in Clients : Kept(d)) /\ \A j \in Ids : RowKept(j)
  <2>1. Reviewed(rows[i]) /\ i \in Ids
    BY <1>r DEF Present
  <2>2. Updatable(rows[i], new) /\ new.vehicle # None
    BY <1>5 DEF UpdateLoad, ValidReferences, TypeOK
  <2>3. Reviewed(new)
    BY <2>1, <2>2 DEF Updatable, Reviewed, Confirmed, Row, Status
  <2> DEFINE e == [NoDraft EXCEPT ![i] = new]
  <2>4. \A j \in Ids : e[j] # None => Reviewed(e[j])
    BY <2>3 DEF NoDraft
  <2>5. PICK a : Begin(c, "update", {i}, e, a)
    BY <1>5 DEF UpdateLoad
  <2>6. UNCHANGED rows
    BY <1>5 DEF UpdateLoad, table
  <2> HIDE DEF e
  <2> QED  BY <1>b, <2>4, <2>5, <2>6
<1>6. ASSUME NEW c \in Clients, NEW i \in Present, RemoveLoad(c, i)
      PROVE  (\A d \in Clients : Kept(d)) /\ \A j \in Ids : RowKept(j)
  BY <1>6, <1>n DEF RemoveLoad, table
<1>7. ASSUME NEW c \in Clients, NEW o \in Observations, NEW ty \in Type, NEW t \in Times,
             ConfirmRead(c, o, ty, t)
      PROVE  (\A d \in Clients : Kept(d)) /\ \A i \in Ids : RowKept(i)
  <2> DEFINE r == [obs |-> o, point |-> ObsPoint[o], vehicle |-> ObsPlate[o], plate |-> None,
                   type |-> ty, time |-> t, status |-> "open"]
  <2>1. r \in Row /\ r.status = "open" /\ r.vehicle # None
    BY DEF Row, Status, MovementsAssumption
  <2>2. nextId \in Ids
    BY <1>7 DEF ConfirmRead, NewId, Ids, TypeOK, MovementsAssumption
  <2>3. PICK d \in InsertDrafts(nextId, r) : Begin(c, "confirm", {nextId}, d, None)
    BY <1>7 DEF ConfirmRead
  <2>f. rows[nextId] = None /\ Reviewed(r)
    BY <2>1, <2>2 DEF FreshInv, Reviewed, Confirmed, TypeOK, Ids
  <2>4. \A i \in Ids : d[i] # None => Reviewed(d[i]) /\ d[i].vehicle # None
    BY <2>1, <2>2, <2>f, InsertionReviewed
  <2> QED  BY <1>7, <1>b, <2>3, <2>4 DEF ConfirmRead
<1>8. ASSUME NEW c \in Clients, NEW o \in Observations, NEW p \in Plates, AutoRead(c, o, p)
      PROVE  (\A d \in Clients : Kept(d)) /\ \A i \in Ids : RowKept(i)
  <2> DEFINE known == p \in vehicles
             r == [obs |-> o, point |-> ObsPoint[o], vehicle |-> IF known THEN p ELSE None, plate |-> p,
                   type |-> AutoType(ObsPoint[o]), time |-> ObsTime[o],
                   status |-> IF known THEN "open" ELSE "pending_review"]
  <2>1. r \in Row /\ Reviewed(r)
    <3>1. AutoType(ObsPoint[o]) \in Type
      BY DEF AutoType, Type, MovementsAssumption
    <3>2. r \in Row
      BY <3>1 DEF Row, Status, MovementsAssumption
    <3> QED  BY <3>2 DEF Reviewed, Confirmed, MovementsAssumption
  <2>2. nextId \in Ids
    BY <1>8 DEF AutoRead, NewId, Ids, TypeOK, MovementsAssumption
  <2>3. PICK d \in InsertDrafts(nextId, r) : Begin(c, "auto", {nextId}, d, None)
    BY <1>8 DEF AutoRead
  <2>f. rows[nextId] = None
    BY <2>2 DEF FreshInv, TypeOK, Ids
  <2>4. \A i \in Ids : d[i] # None => Reviewed(d[i])
    BY <2>1, <2>2, <2>f, InsertionReviewed
  <2> QED  BY <1>8, <1>b, <2>3, <2>4 DEF AutoRead
<1>9. ASSUME NEW c \in Clients, NEW ids \in SUBSET Present, DiscardBegin(c, ids)
      PROVE  (\A d \in Clients : Kept(d)) /\ \A i \in Ids : RowKept(i)
  BY <1>9, <1>n DEF DiscardBegin, table
<1>10. ASSUME NEW c \in Clients, NEW i \in Present, NEW v \in Plates, RecalculateBegin(c, i, v)
       PROVE  (\A d \in Clients : Kept(d)) /\ \A j \in Ids : RowKept(j)
  BY <1>10, <1>n DEF RecalculateBegin, table
<1>11. ASSUME NEW c \in Clients, NEW from \in Times, NEW to \in Times, ReconcileRead(c, from, to)
       PROVE  (\A d \in Clients : Kept(d)) /\ \A i \in Ids : RowKept(i)
  <2>1. ASSUME NEW i \in Ids, ReconcileDraft(from, to)[i] # None
        PROVE  Reviewed(ReconcileDraft(from, to)[i])
    <3>0. /\ i \in Present /\ rows[i].status \in Confirmed /\ rows[i].vehicle # None
          /\ ReconcileDraft(from, to)[i] = [rows[i] EXCEPT !.status = NewStatus(from, to, i)]
          /\ NewStatus(from, to, i) \in Confirmed
      BY <2>1, ReconcileDraftRows
    <3>1. rows[i] \in Row
      BY <3>0, PresentRow
    <3>2. PICK s \in Confirmed : ReconcileDraft(from, to)[i] = [rows[i] EXCEPT !.status = s]
      BY <3>0
    <3>3. rows[i].vehicle # None
      BY <3>0
    <3>4. Reviewed([rows[i] EXCEPT !.status = s])
      BY <3>1, <3>3 DEF Reviewed, Confirmed, Row
    <3> QED  BY <3>2, <3>4
  <2> QED  BY <1>11, <1>b, <2>1 DEF ReconcileRead, table
<1>12. ASSUME NEW c \in Clients, UpdateSave(c) \/ AutoCommit(c) \/ ReconcileSave(c) \/ ConfirmCommit(c)
       PROVE  (\A d \in Clients : Kept(d)) /\ \A i \in Ids : RowKept(i)
  BY <1>12, <1>s DEF UpdateSave, AutoCommit, ReconcileSave, ConfirmCommit
<1>14. ASSUME NEW c \in Clients, RemoveRow(c)
       PROVE  (\A d \in Clients : Kept(d)) /\ \A i \in Ids : RowKept(i)
  BY <1>14, <1>e, <1>r DEF RemoveRow
<1>15. ASSUME NEW c \in Clients, DiscardCommit(c)
       PROVE  (\A d \in Clients : Kept(d)) /\ \A i \in Ids : RowKept(i)
  BY <1>15, <1>e, <1>r, <1>p DEF DiscardCommit, TypeOK
<1>16. ASSUME NEW c \in Clients, RecalculateRead(c)
       PROVE  (\A d \in Clients : Kept(d)) /\ \A i \in Ids : RowKept(i)
  <2>1. PICK i \in want[c] :
          /\ Pending(i) /\ arg[c] \in vehicles
          /\ draft' = [draft EXCEPT ![c][i] =
                          [rows[i] EXCEPT !.vehicle = arg[c], !.status = "open", !.plate = None]]
    BY <1>16 DEF RecalculateRead
  <2>2. i \in Ids /\ rows[i] \in Row /\ arg[c] \in Plates
    BY <2>1 DEF Pending, TypeOK
  <2> DEFINE r == [rows[i] EXCEPT !.vehicle = arg[c], !.status = "open", !.plate = None]
  <2>3. Reviewed(r) /\ r.vehicle # None
    BY <2>2 DEF Reviewed, Confirmed, Row, MovementsAssumption
  <2>4. \A d \in Clients, j \in Ids : draft'[d][j] = IF d = c /\ j = i THEN r ELSE draft[d][j]
    BY <2>1, <2>2 DEF TypeOK, Draft
  <2>5. \A d \in Clients : op'[d] = IF d = c THEN "same_plate" ELSE op[d]
    BY <1>16 DEF RecalculateRead, TypeOK
  <2>6. UNCHANGED rows
    BY <1>16 DEF RecalculateRead, table
  <2> HIDE DEF r
  <2> QED  BY <1>r, <1>d, <2>3, <2>4, <2>5, <2>6
<1>17. ASSUME NEW c \in Clients, RecalculateCommit(c)
       PROVE  (\A d \in Clients : Kept(d)) /\ \A i \in Ids : RowKept(i)
  BY <1>17, <1>e, <1>r, <1>d, <1>p DEF RecalculateCommit, Duplicate, Drafted, TypeOK
<1>18. ASSUME NEW c \in Clients, Refuse(c) \/ DeadlockVictim(c) \/ Crash(c)
       PROVE  (\A d \in Clients : Kept(d)) /\ \A i \in Ids : RowKept(i)
  BY <1>18, <1>e, <1>r DEF Refuse, DeadlockVictim, Crash, table
<1>19. ASSUME NEW c \in Clients, NEW i \in Ids, Lock(c, i)
       PROVE  (\A d \in Clients : Kept(d)) /\ \A j \in Ids : RowKept(j)
  BY <1>19, <1>q DEF Lock, table, request
<1> QED
  BY <1>g, <1>1, <1>2, <1>3, <1>4, <1>5, <1>6, <1>7, <1>8, <1>9, <1>10, <1>11, <1>12,
     <1>14, <1>15, <1>16, <1>17, <1>18, <1>19 DEF Steps
-----------------------------------------------------------------------------
(* What a step does to the rows and to the entities in memory: it leaves   *)
(* them alone, inserts a manual movement, begins a request, prepares a     *)
(* review, or ends a request and perhaps writes what it prepared.          *)

Quiet ==
    /\ UNCHANGED <<rows, nextId, draft, op, want>>
    /\ \A i \in Ids : rowLock[i] # None => rowLock'[i] = rowLock[i]

Inserts(r) ==
    /\ "create" \in Enabled /\ r.obs = None /\ r.status \in Confirmed /\ nextId \in Ids
    /\ \A i \in Ids : rows'[i] = IF i = nextId THEN r ELSE rows[i]
    /\ nextId' = nextId + 1
    /\ UNCHANGED <<draft, op, want, rowLock>>

\* An entry that was left: what ClosedEntryWasLeft asks of its exit.
LeftThrough(e, x) ==
    x.type = "exit" /\ x.status = "closed" /\ SameVisit(x, e) /\ e.time <= x.time

\* What insertions and reconciliations save: an exit that was confirmed is
\* closed, and a closed entry comes with its exit, or that is in the table.
Prepared(e) ==
    \A i \in Ids : e[i] # None =>
        /\ i \in Present => e[i].time = rows[i].time
        /\ i \notin Present => e[i].obs # None
        /\ e[i].type = "exit" /\ e[i].status \in Confirmed => e[i].status = "closed"
        /\ e[i].type = "entry" /\ e[i].status = "closed" =>
              \/ \E j \in Present : LeftThrough(e[i], rows[j])
              \/ \E j \in Ids : e[j] # None /\ LeftThrough(e[i], e[j])

\* The new entities are those of rows that exist, confirmed before and
\* after, or that of the next row.
Begins(c, name, ids, e) ==
    /\ op[c] = "idle" /\ name \notin {"idle", "same_plate"}
    /\ name \in {"update", "remove"} => name \in Enabled
    /\ name # "update" => Prepared(e)
    /\ \A d \in Clients : draft'[d] = IF d = c THEN e ELSE draft[d]
    /\ \A d \in Clients : op'[d] = IF d = c THEN name ELSE op[d]
    /\ \A d \in Clients : want'[d] = IF d = c THEN ids ELSE want[d]
    /\ UNCHANGED <<rows, rowLock>>
    /\ nextId' \in {nextId, nextId + 1}
    /\ \A i \in Ids : i \in ids \/ e[i] # None =>
          i \in Present \/ (i = nextId /\ nextId' = nextId + 1)
    /\ \A i \in Ids : e[i] # None /\ i \in Present =>
          /\ e[i].obs = rows[i].obs /\ e[i].status \in Confirmed /\ rows[i].status \in Confirmed
          /\ rows[i].obs # None => SameContext(e[i], rows[i])
    /\ \A i, j \in Ids : e[i] # None /\ e[j] # None /\ e[i].obs # None /\ e[i].obs = e[j].obs => i = j
    /\ name = "remove" => \A i \in ids : i \in Present /\ rows[i].obs = None
    /\ name \in {"remove", "discard", "recalculate"} => \A i \in Ids : e[i] = None

Saves(c, i) ==
    /\ i \in Drafted(c) /\ rowLock[i] \in {None, c} /\ rows'[i] = draft[c][i]
    /\ op[c] # "same_plate" => ObservationsUnique(c)

Discards(c, i) ==
    /\ Pending(i) /\ rowLock[i] = c
    /\ rows'[i] = [rows[i] EXCEPT !.status = "discarded"]

Removes(c, i) ==
    /\ op[c] = "remove" /\ i \in want[c] /\ rowLock[i] \in {None, c} /\ rows'[i] = None

Ends(c) ==
    /\ End(c) /\ UNCHANGED nextId
    /\ \A i \in Ids : rows'[i] = rows[i] \/ Saves(c, i) \/ Discards(c, i) \/ Removes(c, i)
    /\ \/ \A i \in Drafted(c) : rows'[i] = draft[c][i]
       \/ \A i \in Drafted(c) : rows'[i] = rows[i]

Kinds ==
    \/ Quiet
    \/ \E r \in Row : Inserts(r)
    \/ \E c \in Clients, name \in Ops, ids \in SUBSET Ids, e \in Draft : Begins(c, name, ids, e)
    \/ \E c \in Clients : RecalculateRead(c) \/ Ends(c)

\* A begin of a request that prepares nothing.
LEMMA BeginsEmpty ==
  ASSUME TypeOK, NEW c \in Clients, NEW name \in Ops, NEW ids \in SUBSET Present, NEW a,
         Begin(c, name, ids, NoDraft, a), UNCHANGED <<rows, nextId, rowLock>>,
         name \notin {"idle", "same_plate", "update"}, name = "remove" => name \in Enabled,
         name = "remove" => \A i \in ids : rows[i].obs = None
  PROVE  Kinds
<1>1. Begins(c, name, ids, NoDraft)
  <2>1. \A i \in Ids : NoDraft[i] = None
    BY DEF NoDraft
  <2> QED  BY <2>1, BeginEffect DEF Begins, Prepared
<1> QED  BY <1>1, NoDraftType, PresentRow DEF Kinds

\* An exit finishes the visit in the transaction that inserts it.
LEMMA InsertionPrepared ==
  ASSUME TypeOK, NEW id \in Ids, rows[id] = None, NEW r \in Row, NEW d \in InsertDrafts(id, r),
         r.obs # None, r.status \in {"open", "pending_review"}, r.status = "open" => r.vehicle # None
  PROVE  Prepared(d)
<1>r. /\ Closed(r) \in Row /\ Closed(r).obs # None /\ Closed(r).status = "closed" /\ Closed(r).type = r.type
      /\ Closed(r).time = r.time /\ Closed(r).vehicle = r.vehicle /\ Closed(r).point = r.point
  BY DEF Closed, Row, Status
<1>n. Closed(r) # None /\ r # None /\ id \notin Present
  BY <1>r, RowAssumption DEF Present
<1>1. CASE d = [NoDraft EXCEPT ![id] = r] /\ (r.type # "exit" \/ r.status # "open" \/ r.vehicle = None)
  <2>1. \A i \in Ids : d[i] # None => i = id /\ d[i] = r
    BY <1>1 DEF NoDraft
  <2>2. r.type = "exit" => r.status \notin Confirmed
    BY <1>1 DEF Confirmed
  <2>3. r.status # "closed"
    OBVIOUS
  <2> QED  BY <1>n, <2>1, <2>2, <2>3 DEF Prepared
<1>2. CASE d = [NoDraft EXCEPT ![id] = Closed(r)] /\ r.type = "exit"
  <2>1. \A i \in Ids : d[i] # None => i = id /\ d[i] = Closed(r)
    BY <1>2 DEF NoDraft
  <2> QED  BY <1>2, <1>n, <1>r, <2>1 DEF Prepared
<1>3. ASSUME NEW e \in LatestOpenEntries(r), r.type = "exit",
             d = [NoDraft EXCEPT ![id] = Closed(r), ![e] = Closed(rows[e])]
      PROVE  Prepared(d)
  <2>1. /\ e \in Ids /\ e # id /\ e \in Present /\ rows[e] \in Row
        /\ rows[e].type = "entry" /\ SameVisit(rows[e], r) /\ rows[e].time <= r.time
    BY PresentRow DEF LatestOpenEntries, OpenEntries, Present
  <2>2. \A i \in Ids : d[i] = IF i = id THEN Closed(r) ELSE IF i = e THEN Closed(rows[e]) ELSE None
    BY <1>3, <2>1 DEF NoDraft
  <2>3. /\ Closed(rows[e]).type = "entry" /\ Closed(rows[e]).time = rows[e].time
        /\ Closed(rows[e]).vehicle = rows[e].vehicle /\ Closed(rows[e]).point = rows[e].point
    BY <2>1 DEF Closed, Row
  <2>4. LeftThrough(Closed(rows[e]), Closed(r))
    BY <1>3, <1>r, <2>1, <2>3 DEF LeftThrough, SameVisit
  <2>5. ASSUME NEW i \in Ids, d[i] # None
        PROVE  /\ i \in Present => d[i].time = rows[i].time
               /\ i \notin Present => d[i].obs # None
               /\ d[i].type = "exit" /\ d[i].status \in Confirmed => d[i].status = "closed"
               /\ d[i].type = "entry" /\ d[i].status = "closed" =>
                     \E j \in Ids : d[j] # None /\ LeftThrough(d[i], d[j])
    <3>1. CASE i = id
      BY <1>3, <1>n, <1>r, <2>2, <3>1
    <3>2. CASE i = e
      BY <1>n, <2>1, <2>2, <2>3, <2>4, <3>2
    <3> QED  BY <2>2, <2>5, <3>1, <3>2
  <2> QED  BY <2>5 DEF Prepared
<1> QED  BY <1>1, <1>2, <1>3 DEF InsertDrafts

\* A begin of a request that inserts the next row, for an observation
\* without a movement.
LEMMA BeginsInsertion ==
  ASSUME TypeOK, FreshInv, OneMovementPerObservation,
         NEW c \in Clients, NEW name \in {"confirm", "auto"}, NEW r \in Row,
         NEW e \in InsertDrafts(nextId, r), NewId, Existing(r.obs) = {}, r.obs # None,
         r.status \in {"open", "pending_review"}, r.status = "open" => r.vehicle # None,
         Begin(c, name, {nextId}, e, None), UNCHANGED <<rows, rowLock>>
  PROVE  Kinds
<1>1. nextId \in Ids /\ rows[nextId] = None /\ nextId' = nextId + 1
  BY MovementsAssumption DEF NewId, TypeOK, FreshInv, Ids, MovementsAssumption
<1>2. e \in Draft
  BY <1>1, InsertDraftsType
<1>3. ASSUME NEW i \in Ids, e[i] # None
      PROVE  \/ i = nextId /\ e[i].obs = r.obs
             \/ /\ i \in Present /\ i # nextId
                /\ e[i].obs = rows[i].obs /\ e[i].status \in Confirmed /\ rows[i].status \in Confirmed
                /\ SameContext(e[i], rows[i])
  <2>1. CASE i = nextId /\ (e[i] = r \/ e[i] = Closed(r))
    BY <2>1 DEF Closed, Row
  <2>2. CASE i # nextId /\ i \in Present /\ rows[i].status = "open" /\ e[i] = Closed(rows[i])
    <3>1. rows[i] \in Row
      BY <2>2, PresentRow
    <3> QED  BY <2>2, <3>1 DEF Closed, Row, Confirmed, SameContext
  <2> QED  BY <1>1, <1>3, <2>1, <2>2, InsertDraftsRows
<1>4. \A i \in Present : rows[i].obs # r.obs
  BY DEF Existing
<1>5. \A i, j \in Ids : e[i] # None /\ e[j] # None /\ e[i].obs # None /\ e[i].obs = e[j].obs => i = j
  BY <1>3, <1>4 DEF OneMovementPerObservation
<1>6. nextId \notin Present
  BY <1>1 DEF Present
<1>8. Prepared(e)
  BY <1>1, InsertionPrepared
<1>7. Begins(c, name, {nextId}, e)
  BY <1>1, <1>3, <1>5, <1>6, <1>8, BeginEffect DEF Begins
<1> QED  BY <1>1, <1>2, <1>7 DEF Kinds, Ops

\* What a save writes.
LEMMA SaveEnds ==
  ASSUME TypeOK, NEW c \in Clients, SaveDraft(c), op[c] # "same_plate", ObservationsUnique(c)
  PROVE  Ends(c)
  BY DEF SaveDraft, Ends, Saves, Unlocked, Drafted, TypeOK

\* The passages that reconcile pairs are those of all that belong to the visit.
LEMMA VisitPassages ==
  ASSUME TypeOK, NEW from, NEW to, NEW i \in Analyzed(from, to)
  PROVE  /\ Passages(Visit(from, to, i)) /\ Passage(i) \in Visit(from, to, i)
         /\ \A j \in Analyzed(from, to) :
               SameVisit(rows[j], rows[i]) => Visit(from, to, j) = Visit(from, to, i)
<1> DEFINE K == {k \in Analyzed(from, to) : SameVisit(rows[k], rows[i])}
<1>0. MaxMovements \in Nat /\ MaxTime \in Nat
  BY MovementsAssumption DEF MovementsAssumption
<1>1. Analyzed(from, to) \subseteq Ids /\ \A k \in Analyzed(from, to) : rows[k] \in Row
  BY PresentRow DEF Analyzed, Present
<1>2. IsFiniteSet(K)
  BY <1>0, <1>1, FS_Interval, FS_Subset DEF Ids
<1>3. Visit(from, to, i) = {Passage(k) : k \in K}
  BY DEF Visit
<1>4. IsFiniteSet({Passage(k) : k \in K})
  <2> DEFINE f == [k \in K |-> Passage(k)]
  <2>1. f \in Surjection(K, {Passage(k) : k \in K})
    BY DEF Surjection
  <2> QED  BY <1>2, <2>1, FS_Surjection
<1>5. \A k \in K : Passage(k).id \in Nat /\ Passage(k).time \in Nat /\ Passage(k).type \in {"entry", "exit"}
  BY <1>0, <1>1 DEF Passage, Row, Type, Times, Ids
<1>6. \A k, l \in K : Passage(k).id = Passage(l).id => Passage(k) = Passage(l)
  BY DEF Passage
<1>7. SameVisit(rows[i], rows[i])
  BY DEF SameVisit, Analyzed
<1>8. ASSUME NEW j \in Analyzed(from, to), SameVisit(rows[j], rows[i])
      PROVE  Visit(from, to, j) = Visit(from, to, i)
  <2>1. \A k \in Analyzed(from, to) : SameVisit(rows[k], rows[j]) <=> SameVisit(rows[k], rows[i])
    BY <1>8 DEF SameVisit
  <2> QED  BY <2>1 DEF Visit
<1> HIDE DEF K
<1>9. Passages(Visit(from, to, i))
  BY <1>3, <1>4, <1>5, <1>6 DEF Passages
<1>10. Passage(i) \in Visit(from, to, i)
  BY <1>7 DEF Visit
<1> QED  BY <1>8, <1>9, <1>10

LEMMA ReconciliationPrepared ==
  ASSUME TypeOK, NEW from, NEW to
  PROVE  Prepared(ReconcileDraft(from, to))
<1> DEFINE e == ReconcileDraft(from, to)
<1>1. ASSUME NEW i \in Ids, e[i] # None
      PROVE  /\ i \in Present /\ i \in Analyzed(from, to) /\ rows[i] \in Row
             /\ e[i] = [rows[i] EXCEPT !.status = NewStatus(from, to, i)]
             /\ NewStatus(from, to, i) # rows[i].status
  BY <1>1, PresentRow DEF ReconcileDraft, Analyzed
<1>2. ASSUME NEW i \in Analyzed(from, to), NEW s
      PROVE  LET r == [rows[i] EXCEPT !.status = s]
             IN  /\ r.status = s /\ r.type = rows[i].type /\ r.time = rows[i].time
                 /\ r.vehicle = rows[i].vehicle /\ r.point = rows[i].point
  BY PresentRow DEF Analyzed, Row
<1>3. ASSUME NEW i \in Analyzed(from, to), rows[i].type = "entry", NewStatus(from, to, i) = "closed",
             e[i] # None, i \in Ids
      PROVE  \/ \E j \in Present : LeftThrough(e[i], rows[j])
             \/ \E j \in Ids : e[j] # None /\ LeftThrough(e[i], e[j])
  <2> DEFINE M == Visit(from, to, i)
  <2>1. Passages(M) /\ Passage(i) \in Of(M, "entry")
    BY <1>3, VisitPassages DEF Of, Passage
  <2>2. EntryPaired(M, Passage(i))
    BY <1>3 DEF NewStatus, ReconciledStatus, Paired, Passage
  <2>3. PICK x \in Of(M, "exit") : Before(Passage(i), x) /\ ExitPaired(M, x)
    BY <2>1, <2>2, PairedWithAnExit
  <2>4. PICK j \in Analyzed(from, to) : x = Passage(j) /\ SameVisit(rows[j], rows[i])
    BY DEF Of, Visit
  <2>5. rows[j].type = "exit" /\ rows[i].time <= rows[j].time /\ j \in Present /\ j \in Ids
    <3>1. rows[i].time \in Nat /\ rows[j].time \in Nat
      BY <2>4, PresentRow, MovementsAssumption DEF Analyzed, Row, Times, MovementsAssumption
    <3> QED  BY <2>3, <2>4, <3>1 DEF Of, Passage, Before, Analyzed, Present
  <2>6. NewStatus(from, to, j) = "closed"
    <3>1. Visit(from, to, j) = M
      BY <2>4, VisitPassages
    <3> QED  BY <2>3, <2>4, <2>5, <3>1 DEF NewStatus, ReconciledStatus, Paired, Passage
  <2>7. e[i] = [rows[i] EXCEPT !.status = NewStatus(from, to, i)]
    BY <1>1, <1>3
  <2>8. CASE rows[j].status = "closed"
    BY <1>2, <2>4, <2>5, <2>7, <2>8 DEF LeftThrough, SameVisit
  <2>9. CASE rows[j].status # "closed"
    <3>1. e[j] = [rows[j] EXCEPT !.status = "closed"]
      BY <2>4, <2>5, <2>6, <2>9 DEF ReconcileDraft
    <3>2. e[j] # None
      BY <2>5, <3>1, PresentRow, RowAssumption DEF Row, Status
    <3>3. LeftThrough(e[i], e[j])
      BY <1>2, <2>4, <2>5, <2>7, <3>1 DEF LeftThrough, SameVisit
    <3> QED  BY <2>5, <3>2, <3>3
  <2> QED  BY <2>8, <2>9
<1>4. ASSUME NEW i \in Analyzed(from, to), rows[i].type = "exit", NewStatus(from, to, i) # rows[i].status
      PROVE  NewStatus(from, to, i) = "closed"
  BY <1>4 DEF NewStatus, ReconciledStatus, Passage
<1> HIDE DEF e
<1>5. ASSUME NEW i \in Ids, e[i] # None
      PROVE  /\ i \in Present /\ e[i].time = rows[i].time
             /\ e[i].type = "exit" => e[i].status = "closed"
             /\ e[i].type = "entry" /\ e[i].status = "closed" =>
                   \/ \E j \in Present : LeftThrough(e[i], rows[j])
                   \/ \E j \in Ids : e[j] # None /\ LeftThrough(e[i], e[j])
  <2>1. /\ i \in Present /\ i \in Analyzed(from, to) /\ NewStatus(from, to, i) # rows[i].status
        /\ e[i].status = NewStatus(from, to, i) /\ e[i].type = rows[i].type /\ e[i].time = rows[i].time
    <3>1. /\ i \in Present /\ i \in Analyzed(from, to) /\ NewStatus(from, to, i) # rows[i].status
          /\ e[i] = [rows[i] EXCEPT !.status = NewStatus(from, to, i)]
      BY <1>1, <1>5
    <3> QED  BY <1>2, <3>1
  <2> QED  BY <1>3, <1>4, <1>5, <2>1
<1> QED  BY <1>5 DEF Prepared, e

LEMMA StepKinds == ASSUME IInv, [Next]_vars PROVE Kinds
<1> USE DEF IInv
<1>1. CASE UNCHANGED vars
  BY <1>1 DEF vars, table, request, locks, Kinds, Quiet
<1>2. ASSUME NEW v \in Plates, Register(v) \/ Unregister(v) PROVE Kinds
  BY <1>2 DEF Register, Unregister, request, locks, Kinds, Quiet
<1>3. ASSUME NEW o \in Observations, Expire(o) PROVE Kinds
  BY <1>3 DEF Expire, request, locks, Kinds, Quiet
<1>4. ASSUME "create" \in Enabled, NEW r \in Row, Create(r) PROVE Kinds
  <2>1. Inserts(r)
    BY <1>4, MovementsAssumption
       DEF Create, Inserts, request, locks, Ids, TypeOK, MovementsAssumption
  <2> QED  BY <2>1 DEF Kinds
<1>5. ASSUME "update" \in Enabled, NEW c \in Clients, NEW i \in Present, NEW new \in Row, UpdateLoad(c, i, new)
      PROVE  Kinds
  <2> DEFINE e == [NoDraft EXCEPT ![i] = new]
  <2>1. i \in Ids /\ rows[i] \in Row /\ Reviewed(rows[i])
    BY PresentRow DEF ReviewInv
  <2>2. Updatable(rows[i], new) /\ new.vehicle # None
    BY <1>5, MovementsAssumption DEF UpdateLoad, ValidReferences, TypeOK, MovementsAssumption
  <2>3. new.obs = rows[i].obs /\ rows[i].status \in Confirmed /\ new.status \in Confirmed
    BY <2>1, <2>2 DEF Updatable, Reviewed, Confirmed, Row, Status
  <2>9. rows[i].obs # None => SameContext(new, rows[i])
    BY <2>2 DEF Updatable, SameContext
  <2>4. e \in Draft /\ \A j \in Ids : e[j] = IF j = i THEN new ELSE None
    BY <2>1, NoDraftType DEF NoDraft, Draft
  <2>5. PICK a : Begin(c, "update", {i}, e, a)
    BY <1>5 DEF UpdateLoad
  <2>6. UNCHANGED <<rows, nextId, rowLock>>
    BY <1>5 DEF UpdateLoad, table, locks
  <2> HIDE DEF e
  <2>7. Begins(c, "update", {i}, e)
    BY <1>5, <2>3, <2>4, <2>5, <2>6, <2>9, BeginEffect DEF Begins
  <2> QED  BY <2>1, <2>4, <2>7 DEF Kinds, Ops
<1>6. ASSUME "remove" \in Enabled, NEW c \in Clients, NEW i \in Present, RemoveLoad(c, i) PROVE Kinds
  BY <1>6, BeginsEmpty DEF RemoveLoad, table, locks, Ops
<1>7. ASSUME NEW c \in Clients, NEW o \in Observations, NEW ty \in Type, NEW t \in Times,
             ConfirmRead(c, o, ty, t)
      PROVE  Kinds
  <2> DEFINE r == [obs |-> o, point |-> ObsPoint[o], vehicle |-> ObsPlate[o], plate |-> None,
                   type |-> ty, time |-> t, status |-> "open"]
  <2>1. r \in Row /\ r.obs = o /\ o # None /\ r.status = "open" /\ r.vehicle # None
    BY MovementsAssumption DEF Row, Status, MovementsAssumption
  <2>2. PICK e \in InsertDrafts(nextId, r) : Begin(c, "confirm", {nextId}, e, None)
    BY <1>7 DEF ConfirmRead
  <2>3. Existing(o) = {} /\ NewId /\ UNCHANGED <<rows, rowLock>>
    BY <1>7 DEF ConfirmRead
  <2> HIDE DEF r
  <2> QED  BY <2>1, <2>2, <2>3, BeginsInsertion
<1>8. ASSUME NEW c \in Clients, NEW o \in Observations, NEW p \in Plates, AutoRead(c, o, p)
      PROVE  Kinds
  <2> DEFINE known == p \in vehicles
             r == [obs |-> o, point |-> ObsPoint[o], vehicle |-> IF known THEN p ELSE None, plate |-> p,
                   type |-> AutoType(ObsPoint[o]), time |-> ObsTime[o],
                   status |-> IF known THEN "open" ELSE "pending_review"]
  <2>1. /\ r \in Row /\ r.obs = o /\ o # None /\ r.status \in {"open", "pending_review"}
        /\ r.status = "open" => r.vehicle # None
    <3>1. AutoType(ObsPoint[o]) \in Type
      BY MovementsAssumption DEF AutoType, Type, MovementsAssumption
    <3> QED  BY <3>1, MovementsAssumption DEF Row, Status, MovementsAssumption
  <2>2. PICK e \in InsertDrafts(nextId, r) : Begin(c, "auto", {nextId}, e, None)
    BY <1>8 DEF AutoRead
  <2>3. Existing(o) = {} /\ NewId /\ UNCHANGED <<rows, rowLock>>
    BY <1>8 DEF AutoRead, locks
  <2> HIDE DEF r
  <2> QED  BY <2>1, <2>2, <2>3, BeginsInsertion
<1>9. ASSUME NEW c \in Clients, NEW ids \in SUBSET Present, DiscardBegin(c, ids) PROVE Kinds
  BY <1>9, BeginsEmpty DEF DiscardBegin, table, locks, Ops
<1>10. ASSUME NEW c \in Clients, NEW i \in Present, NEW v \in Plates, RecalculateBegin(c, i, v)
       PROVE  Kinds
  BY <1>10, BeginsEmpty DEF RecalculateBegin, table, locks, Ops
<1>11. ASSUME NEW c \in Clients, NEW from \in Times, NEW to \in Times, ReconcileRead(c, from, to)
       PROVE  Kinds
  <2> DEFINE e == ReconcileDraft(from, to)
  <2>1. e \in Draft
    BY ReconcileDraftType
  <2>2. ASSUME NEW i \in Ids, e[i] # None
        PROVE  /\ i \in Present /\ e[i].obs = rows[i].obs
               /\ e[i].status \in Confirmed /\ rows[i].status \in Confirmed
               /\ SameContext(e[i], rows[i])
    <3>1. /\ i \in Present /\ rows[i].status \in Confirmed
          /\ e[i] = [rows[i] EXCEPT !.status = NewStatus(from, to, i)]
          /\ NewStatus(from, to, i) \in Confirmed
      BY <2>2, ReconcileDraftRows
    <3>2. rows[i] \in Row
      BY <3>1, PresentRow
    <3>3. PICK s \in Confirmed : e[i] = [rows[i] EXCEPT !.status = s]
      BY <3>1
    <3> QED  BY <3>1, <3>2, <3>3 DEF Row, SameContext
  <2>3. Begin(c, "reconcile", {}, e, None) /\ UNCHANGED <<rows, nextId, rowLock>>
    BY <1>11 DEF ReconcileRead, table, locks
  <2> HIDE DEF e
  <2>4. \A i, j \in Ids : e[i] # None /\ e[j] # None /\ e[i].obs # None /\ e[i].obs = e[j].obs => i = j
    BY <2>2 DEF OneMovementPerObservation
  <2>6. Prepared(e)
    BY ReconciliationPrepared DEF e
  <2>5. Begins(c, "reconcile", {}, e)
    BY <2>2, <2>3, <2>4, <2>6, BeginEffect DEF Begins
  <2> QED  BY <2>1, <2>5 DEF Kinds, Ops
<1>12. ASSUME NEW c \in Clients, UpdateSave(c) \/ AutoCommit(c) \/ ReconcileSave(c) \/ ConfirmCommit(c)
       PROVE  Kinds
  BY <1>12, SaveEnds DEF UpdateSave, AutoCommit, ReconcileSave, ConfirmCommit, KeysHold, Kinds
<1>14. ASSUME NEW c \in Clients, RemoveRow(c) PROVE Kinds
  BY <1>14 DEF RemoveRow, Ends, Removes, Unlocked, TypeOK, Kinds, NothingDrafted, Drafted
<1>15. ASSUME NEW c \in Clients, DiscardCommit(c) PROVE Kinds
  BY <1>15 DEF DiscardCommit, Ends, Discards, AllLocked, TypeOK, Kinds, NothingDrafted, Drafted
<1>16. ASSUME NEW c \in Clients, RecalculateRead(c) PROVE Kinds
  BY <1>16 DEF Kinds
<1>17. ASSUME NEW c \in Clients, RecalculateCommit(c) PROVE Kinds
  <2>1. \A i \in Drafted(c) : rowLock[i] = c
    BY <1>17 DEF RecalculateCommit, UnderReview
  <2>3. \A i \in Ids : rows'[i] = rows[i] \/ Saves(c, i) \/ Discards(c, i)
    BY <1>17, <2>1 DEF RecalculateCommit, Saves, Discards, Duplicate, AllLocked, TypeOK
  <2>4. \A i \in Drafted(c) : rows'[i] = draft[c][i]
    BY <1>17 DEF RecalculateCommit, Drafted
  <2>2. Ends(c)
    BY <1>17, <2>3, <2>4 DEF RecalculateCommit, Ends
  <2> QED  BY <2>2 DEF Kinds
<1>18. ASSUME NEW c \in Clients, Refuse(c) \/ DeadlockVictim(c) \/ Crash(c) PROVE Kinds
  BY <1>18 DEF Refuse, DeadlockVictim, Crash, table, Ends, Kinds
<1>19. ASSUME NEW c \in Clients, NEW i \in Ids, Lock(c, i) PROVE Kinds
  BY <1>19 DEF Lock, table, request, TypeOK, Kinds, Quiet
<1> QED
  <2>1. ASSUME Steps PROVE Kinds
    BY <2>1, <1>2, <1>3, <1>4, <1>5, <1>6, <1>7, <1>8, <1>9, <1>10, <1>11, <1>12,
       <1>14, <1>15, <1>16, <1>17, <1>18, <1>19 DEF Steps
  <2> QED  BY <2>1, <1>1, NextSteps

-----------------------------------------------------------------------------
(* Each part of the inductive invariant, kind by kind.                     *)

LEMMA InitInv == Init => IInv
<1> SUFFICES ASSUME Init PROVE IInv
  OBVIOUS
<1>1. /\ \A i \in Ids : rows[i] = None
      /\ \A c \in Clients : draft[c] = NoDraft /\ op[c] = "idle" /\ want[c] = {}
  BY DEF Init
<1>2. \A c \in Clients, i \in Ids : draft[c][i] = None
  BY <1>1 DEF NoDraft
<1>3. Present = {} /\ \A c \in Clients : Drafted(c) = {}
  BY <1>1, <1>2 DEF Present, Drafted
<1>4. OwnerInv
  <2>1. [i \in Ids |-> None] \in [Ids -> Observations \cup {None}]
    OBVIOUS
  <2>2. Owner([i \in Ids |-> None])
    BY <1>1, <1>3 DEF Owner
  <2> QED  BY <2>1, <2>2 DEF OwnerInv
<1>5. FreshInv /\ NothingDrafted
  BY <1>1, <1>2 DEF FreshInv, NothingDrafted
<1>6. DraftsUnique /\ UnderReview /\ SoleInsertion /\ ConfirmedTargets /\ OneMovementPerObservation
  BY <1>3 DEF DraftsUnique, UnderReview, SoleInsertion, ConfirmedTargets, OneMovementPerObservation
<1>7. SoleObserved /\ ContextKept
  BY <1>3 DEF SoleObserved, ContextKept
<1> QED  BY <1>4, <1>5, <1>6, <1>7, InitType, InitReview DEF IInv

\* Rows that exist have ids that were generated.
LEMMA FreshPresent ==
  ASSUME IInv
  PROVE  /\ \A i \in Present : i < nextId
         /\ \A c \in Clients, i \in Ids : draft[c][i] # None \/ i \in want[c] => i < nextId
         /\ nextId \in Nat /\ Ids \subseteq Nat
  BY MovementsAssumption DEF IInv, FreshInv, Present, TypeOK, Ids, MovementsAssumption

\* What the first step of a review prepares.
LEMMA ReviewEffect ==
  ASSUME IInv, NEW c \in Clients, RecalculateRead(c)
  PROVE  \E i \in Ids, r \in Row :
           /\ i \in want[c] /\ Pending(i) /\ rowLock[i] = c /\ i \in Present
           /\ r.obs = rows[i].obs /\ r.status \in Confirmed /\ SameContext(r, rows[i])
           /\ r.status = "open" /\ r.time = rows[i].time
           /\ \A d \in Clients, j \in Ids : draft'[d][j] = IF d = c /\ j = i THEN r ELSE draft[d][j]
           /\ \A d \in Clients : op'[d] = IF d = c THEN "same_plate" ELSE op[d]
           /\ \A d \in Clients : d # c => want'[d] = want[d]
           /\ i \in want'[c] /\ want'[c] \subseteq Present
           /\ op[c] = "recalculate" /\ UNCHANGED <<rows, nextId, rowLock>>
<1>1. PICK i \in want[c] :
        /\ Pending(i) /\ arg[c] \in vehicles
        /\ draft' = [draft EXCEPT ![c][i] =
                        [rows[i] EXCEPT !.vehicle = arg[c], !.status = "open", !.plate = None]]
        /\ want' = [want EXCEPT ![c] = {i} \cup SamePlate(i, arg[c])]
  BY DEF RecalculateRead
<1> DEFINE r == [rows[i] EXCEPT !.vehicle = arg[c], !.status = "open", !.plate = None]
<1>2. i \in Ids /\ rows[i] \in Row /\ arg[c] \in Plates /\ i \in Present /\ TypeOK
  BY <1>1 DEF Pending, Present, TypeOK, IInv
<1>3. /\ r \in Row /\ r.obs = rows[i].obs /\ r.status \in Confirmed /\ SameContext(r, rows[i])
      /\ r.status = "open" /\ r.time = rows[i].time
  <2>1. /\ r \in Row /\ r.obs = rows[i].obs /\ r.status \in Confirmed /\ r.point = rows[i].point /\ r.type = rows[i].type
        /\ r.status = "open" /\ r.time = rows[i].time
    BY <1>2 DEF Row, Status, Confirmed
  <2>2. rows[i].vehicle = None
    BY <1>1, <1>2 DEF IInv, ReviewInv, Reviewed, Pending, Confirmed
  <2> QED  BY <2>1, <2>2 DEF SameContext
<1>4. \A d \in Clients, j \in Ids : draft'[d][j] = IF d = c /\ j = i THEN r ELSE draft[d][j]
  BY <1>1, <1>2 DEF TypeOK, Draft
<1>5. /\ \A d \in Clients : op'[d] = IF d = c THEN "same_plate" ELSE op[d]
      /\ op[c] = "recalculate" /\ UNCHANGED <<rows, nextId, rowLock>> /\ rowLock[i] = c
  BY <1>2 DEF RecalculateRead, TypeOK, table, locks, AllLocked
<1>6. /\ \A d \in Clients : d # c => want'[d] = want[d]
      /\ i \in want'[c] /\ want'[c] \subseteq Present
  BY <1>1, <1>2 DEF TypeOK, SamePlate
<1> HIDE DEF r
<1> QED  BY <1>1, <1>2, <1>3, <1>4, <1>5, <1>6

LEMMA StepFresh == ASSUME IInv, Kinds PROVE FreshInv'
<1> USE FreshPresent
<1> SUFFICES ASSUME NEW i \in Ids, i >= nextId'
             PROVE  rows'[i] = None /\ \A d \in Clients : draft'[d][i] = None /\ i \notin want'[d]
  BY DEF FreshInv
<1>0. i >= nextId => rows[i] = None /\ \A d \in Clients : draft[d][i] = None /\ i \notin want[d]
  BY DEF IInv, FreshInv
<1>1. CASE Quiet
  BY <1>0, <1>1 DEF Quiet
<1>2. ASSUME NEW r \in Row, Inserts(r) PROVE rows'[i] = None /\ UNCHANGED <<draft, want>> /\ i >= nextId
  BY <1>0, <1>2 DEF Inserts
<1>3. ASSUME NEW c \in Clients, NEW name \in Ops, NEW ids \in SUBSET Ids, NEW e \in Draft,
             Begins(c, name, ids, e)
      PROVE  rows'[i] = None /\ \A d \in Clients : draft'[d][i] = None /\ i \notin want'[d]
  <2>1. i >= nextId /\ UNCHANGED rows
    BY <1>3 DEF Begins
  <2>2. e[i] = None /\ i \notin ids
    BY <1>3, <2>1 DEF Begins
  <2> QED  BY <1>0, <1>3, <2>1, <2>2 DEF Begins
<1>4. ASSUME NEW c \in Clients, RecalculateRead(c)
      PROVE  rows'[i] = None /\ \A d \in Clients : draft'[d][i] = None /\ i \notin want'[d]
  BY <1>0, <1>4, ReviewEffect
<1>5. ASSUME NEW c \in Clients, Ends(c)
      PROVE  rows'[i] = None /\ \A d \in Clients : draft'[d][i] = None /\ i \notin want'[d]
  <2>1. rows[i] = None /\ \A d \in Clients : draft[d][i] = None /\ i \notin want[d]
    BY <1>0, <1>5 DEF Ends
  <2>2. rows'[i] = None
    BY <1>5, <2>1 DEF Ends, Saves, Discards, Removes, Pending, Drafted
  <2> QED  BY <1>5, <2>1, <2>2, EndEffect DEF Ends, IInv
<1> QED
  <2>1. ASSUME NEW r \in Row, Inserts(r)
        PROVE  rows'[i] = None /\ \A d \in Clients : draft'[d][i] = None /\ i \notin want'[d]
    BY <1>0, <1>2, <2>1
  <2> QED  BY <1>1, <2>1, <1>3, <1>4, <1>5 DEF Kinds

LEMMA StepNothing == ASSUME IInv, Kinds PROVE NothingDrafted'
<1> SUFFICES ASSUME NEW d \in Clients, op'[d] \in {"idle", "remove", "discard", "recalculate"},
                    NEW i \in Ids
             PROVE  draft'[d][i] = None
  BY DEF NothingDrafted
<1>0. op[d] \in {"idle", "remove", "discard", "recalculate"} => draft[d][i] = None
  BY DEF IInv, NothingDrafted
<1>1. CASE Quiet \/ \E r \in Row : Inserts(r)
  BY <1>0, <1>1 DEF Quiet, Inserts
<1>3. ASSUME NEW c \in Clients, NEW name \in Ops, NEW ids \in SUBSET Ids, NEW e \in Draft,
             Begins(c, name, ids, e)
      PROVE  draft'[d][i] = None
  BY <1>0, <1>3 DEF Begins
<1>4. ASSUME NEW c \in Clients, RecalculateRead(c) PROVE draft'[d][i] = None
  BY <1>0, <1>4, ReviewEffect
<1>5. ASSUME NEW c \in Clients, Ends(c) PROVE draft'[d][i] = None
  BY <1>0, <1>5, EndEffect DEF Ends, IInv
<1> QED  BY <1>1, <1>3, <1>4, <1>5 DEF Kinds

\* The owner of an id is chosen when the id is generated.
LEMMA StepOwner == ASSUME IInv, Kinds PROVE OwnerInv'
<1> USE FreshPresent
<1>0. PICK f \in [Ids -> Observations \cup {None}] : Owner(f)
  BY DEF IInv, OwnerInv
<1>a. /\ \A i \in Ids : rows[i] # None => rows[i].obs = f[i]
      /\ \A c \in Clients, i \in Ids : draft[c][i] # None => draft[c][i].obs = f[i]
      /\ \A c \in Clients : op[c] = "remove" => \A i \in want[c] : f[i] = None
  BY <1>0 DEF Owner, Present, Drafted
<1>b. TypeOK /\ \A i \in Ids : rows[i] \in Row \cup {None}
  BY DEF IInv, TypeOK
<1> DEFINE Owned(g) ==
        /\ \A i \in Ids : rows'[i] # None => rows'[i].obs = g[i]
        /\ \A c \in Clients, i \in Ids : draft'[c][i] # None => draft'[c][i].obs = g[i]
        /\ \A c \in Clients : op'[c] = "remove" => \A i \in want'[c] : g[i] = None
<1>g. SUFFICES \E g \in [Ids -> Observations \cup {None}] : Owned(g)
  BY DEF OwnerInv, Owner, Present, Drafted
<1>1. CASE Quiet
  BY <1>1, <1>a DEF Quiet
<1>2. ASSUME NEW r \in Row, Inserts(r) PROVE \E g \in [Ids -> Observations \cup {None}] : Owned(g)
  <2> DEFINE g == [f EXCEPT ![nextId] = None]
  <2>1. \A i \in Ids : g[i] = IF i = nextId THEN None ELSE f[i]
    OBVIOUS
  <2>2. \A c \in Clients : draft[c][nextId] = None /\ nextId \notin want[c]
    BY <1>2 DEF Inserts, IInv, FreshInv
  <2>3. g \in [Ids -> Observations \cup {None}]
    OBVIOUS
  <2> HIDE DEF g
  <2>4. \A i \in Ids : rows'[i] # None => rows'[i].obs = g[i]
    BY <1>2, <1>a, <2>1 DEF Inserts
  <2>5. \A c \in Clients, i \in Ids : draft'[c][i] # None => draft'[c][i].obs = g[i]
    BY <1>2, <1>a, <2>1, <2>2 DEF Inserts
  <2>6. \A c \in Clients : op'[c] = "remove" => \A i \in want'[c] : g[i] = None
    <3>1. \A c \in Clients : want[c] \subseteq Ids
      BY <1>b DEF TypeOK
    <3> QED  BY <1>2, <1>a, <2>1, <2>2, <3>1 DEF Inserts
  <2> QED  BY <2>3, <2>4, <2>5, <2>6
<1>3. ASSUME NEW c \in Clients, NEW name \in Ops, NEW ids \in SUBSET Ids, NEW e \in Draft,
             Begins(c, name, ids, e)
      PROVE  \E g \in [Ids -> Observations \cup {None}] : Owned(g)
  <2> DEFINE g == [i \in Ids |-> IF i = nextId /\ e[i] # None THEN e[i].obs ELSE f[i]]
  <2>1. g \in [Ids -> Observations \cup {None}]
    BY DEF Draft, Row
  <2>2. \A i \in Ids : i # nextId => g[i] = f[i]
    OBVIOUS
  <2>3. \A i \in Ids : e[i] # None => e[i].obs = g[i]
    BY <1>3, <1>a DEF Begins, Present
  <2>4. /\ \A i \in Ids : rows[i] # None => i # nextId
        /\ \A d \in Clients, i \in Ids : draft[d][i] # None \/ i \in want[d] => i # nextId
    BY DEF Present
  <2>5. \A d \in Clients : want[d] \subseteq Ids
    BY <1>b DEF TypeOK
  <2> HIDE DEF g
  <2>6. \A i \in Ids : rows'[i] # None => rows'[i].obs = g[i]
    BY <1>3, <1>a, <2>2, <2>4 DEF Begins
  <2>7. \A d \in Clients, i \in Ids : draft'[d][i] # None => draft'[d][i].obs = g[i]
    BY <1>3, <1>a, <2>2, <2>3, <2>4 DEF Begins
  <2>8. \A d \in Clients : op'[d] = "remove" => \A i \in want'[d] : g[i] = None
    <3>1. CASE name = "remove"
      <4>1. \A i \in ids : g[i] = None
        BY <1>3, <1>a, <2>2, <2>4, <3>1 DEF Begins, Present
      <4> QED  BY <1>3, <1>a, <2>2, <2>4, <2>5, <4>1 DEF Begins
    <3>2. CASE name # "remove"
      BY <1>3, <1>a, <2>2, <2>4, <2>5, <3>2 DEF Begins
    <3> QED  BY <3>1, <3>2
  <2> QED  BY <2>1, <2>6, <2>7, <2>8
<1>4. ASSUME NEW c \in Clients, RecalculateRead(c) PROVE Owned(f)
  BY <1>4, <1>a, ReviewEffect DEF Present
<1>5. ASSUME NEW c \in Clients, Ends(c) PROVE Owned(f)
  <2>1. ASSUME NEW i \in Ids, rows'[i] # None PROVE rows'[i].obs = f[i]
    <3>1. CASE rows'[i] = rows[i] \/ Saves(c, i) \/ Removes(c, i)
      BY <1>a, <2>1, <3>1 DEF Saves, Removes, Drafted
    <3>2. CASE Discards(c, i)
      <4>1. rows[i] \in Row /\ rows[i].obs = f[i]
        BY <1>a, <1>b, <3>2 DEF Discards, Pending
      <4> QED  BY <3>2, <4>1 DEF Discards, Row
    <3> QED  BY <1>5, <3>1, <3>2 DEF Ends
  <2> QED  BY <1>5, <1>a, <1>b, <2>1, EndEffect DEF Ends
<1> QED  BY <1>1, <1>2, <1>3, <1>4, <1>5 DEF Kinds

\* The unique key, for the rows of all steps: a save of a review keeps the
\* observations of the rows, any other save checks the key.
LEMMA StepOneMovement == ASSUME IInv, Kinds PROVE OneMovementPerObservation'
<1>0. PICK f \in [Ids -> Observations \cup {None}] : Owner(f)
  BY DEF IInv, OwnerInv
<1>b. TypeOK /\ \A i \in Ids : rows[i] \in Row \cup {None}
  BY DEF IInv, TypeOK
<1>o. \A i, j \in Ids : rows[i] # None /\ rows[j] # None /\ rows[i].obs # None
                         /\ rows[i].obs = rows[j].obs => i = j
  BY DEF IInv, OneMovementPerObservation, Present
<1>g. SUFFICES ASSUME NEW i \in Ids, NEW j \in Ids, rows'[i] # None, rows'[j] # None,
                      rows'[i].obs # None, rows'[i].obs = rows'[j].obs
               PROVE  i = j
  BY DEF OneMovementPerObservation, Present
<1>1. CASE Quiet
  BY <1>1, <1>g, <1>o DEF Quiet
<1>2. ASSUME NEW r \in Row, Inserts(r) PROVE i = j
  BY <1>2, <1>g, <1>o DEF Inserts
<1>3. ASSUME NEW c \in Clients, NEW name \in Ops, NEW ids \in SUBSET Ids, NEW e \in Draft,
             Begins(c, name, ids, e)
      PROVE  i = j
  BY <1>3, <1>g, <1>o DEF Begins
<1>4. ASSUME NEW c \in Clients, RecalculateRead(c) PROVE i = j
  BY <1>4, <1>g, <1>o, ReviewEffect
<1>5. ASSUME NEW c \in Clients, Ends(c) PROVE i = j
  <2>1. ASSUME NEW k \in Ids, rows'[k] # None
        PROVE  \/ k \in Drafted(c) /\ rows'[k] = draft[c][k] /\ Saves(c, k)
               \/ rows[k] # None /\ rows'[k].obs = rows[k].obs
    BY <1>5, <1>b, <2>1 DEF Ends, Saves, Discards, Removes, Pending, Row
  <2>2. CASE op[c] = "same_plate"
    <3>1. ASSUME NEW k \in Ids, rows'[k] # None PROVE rows[k] # None /\ rows'[k].obs = rows[k].obs
      <4>1. CASE k \in Drafted(c) /\ rows'[k] = draft[c][k]
        <5>1. rows[k] # None
          BY <2>2, <4>1 DEF IInv, UnderReview, Pending
        <5> QED  BY <1>0, <4>1, <5>1 DEF Owner, Present
      <4> QED  BY <2>1, <3>1, <4>1
    <3> QED  BY <1>g, <1>o, <3>1
  <2>3. CASE op[c] # "same_plate"
    <3>1. \A k \in Drafted(c), l \in Ids :
             Saves(c, k) /\ draft[c][k].obs # None /\ rows[l] # None
                /\ rows[l].obs = draft[c][k].obs => l = k
      BY <2>3 DEF Saves, ObservationsUnique, Existing, Present
    <3>2. CASE i \in Drafted(c) /\ rows'[i] = draft[c][i] /\ j \in Drafted(c) /\ rows'[j] = draft[c][j]
      BY <1>g, <3>2 DEF IInv, DraftsUnique
    <3> QED  BY <1>g, <1>o, <2>1, <3>1, <3>2
  <2> QED  BY <2>2, <2>3
<1> QED  BY <1>1, <1>2, <1>3, <1>4, <1>5 DEF Kinds

LEMMA StepDraftsUnique == ASSUME IInv, Kinds PROVE DraftsUnique'
<1>0. \A c \in Clients, i, j \in Ids :
         draft[c][i] # None /\ draft[c][j] # None /\ draft[c][i].obs # None
           /\ draft[c][i].obs = draft[c][j].obs => i = j
  BY DEF IInv, DraftsUnique, Drafted
<1>g. SUFFICES ASSUME NEW d \in Clients, NEW i \in Ids, NEW j \in Ids,
                      draft'[d][i] # None, draft'[d][j] # None, draft'[d][i].obs # None,
                      draft'[d][i].obs = draft'[d][j].obs
               PROVE  i = j
  BY DEF DraftsUnique, Drafted
<1>1. CASE Quiet \/ \E r \in Row : Inserts(r)
  BY <1>0, <1>1, <1>g DEF Quiet, Inserts
<1>3. ASSUME NEW c \in Clients, NEW name \in Ops, NEW ids \in SUBSET Ids, NEW e \in Draft,
             Begins(c, name, ids, e)
      PROVE  i = j
  BY <1>0, <1>3, <1>g DEF Begins
<1>4. ASSUME NEW c \in Clients, RecalculateRead(c) PROVE i = j
  <2>1. \A k \in Ids : draft[c][k] = None
    BY <1>4, ReviewEffect DEF IInv, NothingDrafted
  <2> QED  BY <1>0, <1>4, <1>g, <2>1, ReviewEffect
<1>5. ASSUME NEW c \in Clients, Ends(c) PROVE i = j
  BY <1>0, <1>5, <1>g, EndEffect DEF Ends, IInv
<1> QED  BY <1>1, <1>3, <1>4, <1>5 DEF Kinds

LEMMA StepUnderReview == ASSUME IInv, Kinds PROVE UnderReview'
<1> USE FreshPresent
<1>n. None \notin Clients /\ TypeOK
  BY MovementsAssumption DEF MovementsAssumption, IInv
<1>0. \A d \in Clients, i \in Ids : op[d] = "same_plate" /\ draft[d][i] # None =>
         i \in want[d] /\ rowLock[i] = d /\ Pending(i)
  BY DEF IInv, UnderReview, Drafted
<1>g. SUFFICES ASSUME NEW d \in Clients, NEW i \in Ids, op'[d] = "same_plate", draft'[d][i] # None
               PROVE  i \in want'[d] /\ rowLock'[i] = d /\ Pending(i)'
  BY DEF UnderReview, Drafted
<1>1. CASE Quiet
  BY <1>0, <1>n, <1>1, <1>g DEF Quiet, Pending
<1>2. ASSUME NEW r \in Row, Inserts(r) PROVE i \in want'[d] /\ rowLock'[i] = d /\ Pending(i)'
  <2>1. i # nextId
    BY <1>2, <1>g DEF Inserts
  <2> QED  BY <1>0, <1>2, <1>g, <2>1 DEF Inserts, Pending
<1>3. ASSUME NEW c \in Clients, NEW name \in Ops, NEW ids \in SUBSET Ids, NEW e \in Draft,
             Begins(c, name, ids, e)
      PROVE  i \in want'[d] /\ rowLock'[i] = d /\ Pending(i)'
  BY <1>0, <1>3, <1>g DEF Begins, Pending
<1>4. ASSUME NEW c \in Clients, RecalculateRead(c)
      PROVE  i \in want'[d] /\ rowLock'[i] = d /\ Pending(i)'
  <2>1. \A k \in Ids : draft[c][k] = None
    BY <1>4, ReviewEffect DEF IInv, NothingDrafted
  <2> QED  BY <1>0, <1>4, <1>g, <2>1, ReviewEffect DEF Pending
<1>5. ASSUME NEW c \in Clients, Ends(c) PROVE i \in want'[d] /\ rowLock'[i] = d /\ Pending(i)'
  <2>1. /\ d # c /\ op[d] = "same_plate" /\ draft[d][i] # None /\ want'[d] = want[d]
        /\ rowLock'[i] = IF rowLock[i] = c THEN None ELSE rowLock[i]
    BY <1>5, <1>n, <1>g, EndEffect DEF Ends
  <2>2. i \in want[d] /\ rowLock[i] = d /\ Pending(i)
    BY <1>0, <2>1
  <2>3. rows'[i] = rows[i]
    BY <1>5, <1>n, <2>1, <2>2 DEF Ends, Saves, Discards, Removes
  <2> QED  BY <2>1, <2>2, <2>3 DEF Pending
<1> QED  BY <1>1, <1>2, <1>3, <1>4, <1>5 DEF Kinds

LEMMA StepSoleInsertion == ASSUME IInv, Kinds PROVE SoleInsertion'
<1> USE FreshPresent
<1>0. \A d \in Clients, i \in Ids : draft[d][i] # None /\ draft[d][i].status \notin Confirmed =>
         rows[i] = None /\ \A k \in Clients \ {d} : draft[k][i] = None
  BY DEF IInv, SoleInsertion, Drafted
<1>g. SUFFICES ASSUME NEW d \in Clients, NEW i \in Ids, draft'[d][i] # None,
                      draft'[d][i].status \notin Confirmed
               PROVE  rows'[i] = None /\ \A k \in Clients \ {d} : draft'[k][i] = None
  BY DEF SoleInsertion, Drafted
<1>1. CASE Quiet
  BY <1>0, <1>1, <1>g DEF Quiet
<1>2. ASSUME NEW r \in Row, Inserts(r)
      PROVE  rows'[i] = None /\ \A k \in Clients \ {d} : draft'[k][i] = None
  <2>1. i # nextId
    BY <1>2, <1>g DEF Inserts
  <2> QED  BY <1>0, <1>2, <1>g, <2>1 DEF Inserts
<1>3. ASSUME NEW c \in Clients, NEW name \in Ops, NEW ids \in SUBSET Ids, NEW e \in Draft,
             Begins(c, name, ids, e)
      PROVE  rows'[i] = None /\ \A k \in Clients \ {d} : draft'[k][i] = None
  <2>1. CASE d = c
    <3>1. i = nextId /\ i \notin Present
      BY <1>3, <1>g, <2>1 DEF Begins, Present
    <3>2. \A k \in Clients : draft[k][i] = None
      BY <3>1
    <3> QED  BY <1>3, <2>1, <3>1, <3>2 DEF Begins, Present
  <2>2. CASE d # c
    <3>1. rows[i] = None /\ \A k \in Clients \ {d} : draft[k][i] = None
      BY <1>0, <1>3, <1>g, <2>2 DEF Begins
    <3>2. i # nextId
      BY <1>3, <1>g, <2>2 DEF Begins
    <3>3. e[i] = None
      BY <1>3, <3>1, <3>2 DEF Begins, Present
    <3> QED  BY <1>3, <3>1, <3>3 DEF Begins
  <2> QED  BY <2>1, <2>2
<1>4. ASSUME NEW c \in Clients, RecalculateRead(c)
      PROVE  rows'[i] = None /\ \A k \in Clients \ {d} : draft'[k][i] = None
  BY <1>0, <1>4, <1>g, ReviewEffect DEF Pending
<1>5. ASSUME NEW c \in Clients, Ends(c)
      PROVE  rows'[i] = None /\ \A k \in Clients \ {d} : draft'[k][i] = None
  <2>1. \A k \in Clients, j \in Ids : draft'[k][j] = IF k = c THEN None ELSE draft[k][j]
    BY <1>5, EndEffect DEF Ends, IInv
  <2>2. d # c /\ rows[i] = None /\ \A k \in Clients \ {d} : draft[k][i] = None
    BY <1>0, <1>g, <2>1
  <2>3. rows'[i] = None
    BY <1>5, <2>2 DEF Ends, Saves, Discards, Removes, Pending, Drafted
  <2> QED  BY <2>1, <2>2, <2>3
<1> QED  BY <1>1, <1>2, <1>3, <1>4, <1>5 DEF Kinds

LEMMA StepConfirmedTargets == ASSUME IInv, Kinds PROVE ConfirmedTargets'
<1> USE FreshPresent
<1>0. \A d \in Clients, i \in Ids : op[d] # "same_plate" /\ draft[d][i] # None /\ rows[i] # None =>
         rows[i].status \in Confirmed
  BY DEF IInv, ConfirmedTargets, Drafted
<1>g. SUFFICES ASSUME NEW d \in Clients, NEW i \in Ids, op'[d] # "same_plate",
                      draft'[d][i] # None, rows'[i] # None
               PROVE  rows'[i].status \in Confirmed
  BY DEF ConfirmedTargets, Drafted
<1>1. CASE Quiet
  BY <1>0, <1>1, <1>g DEF Quiet
<1>2. ASSUME NEW r \in Row, Inserts(r) PROVE rows'[i].status \in Confirmed
  BY <1>0, <1>2, <1>g DEF Inserts
<1>3. ASSUME NEW c \in Clients, NEW name \in Ops, NEW ids \in SUBSET Ids, NEW e \in Draft,
             Begins(c, name, ids, e)
      PROVE  rows'[i].status \in Confirmed
  BY <1>0, <1>3, <1>g DEF Begins, Present
<1>4. ASSUME NEW c \in Clients, RecalculateRead(c) PROVE rows'[i].status \in Confirmed
  BY <1>0, <1>4, <1>g, ReviewEffect
<1>5. ASSUME NEW c \in Clients, Ends(c) PROVE rows'[i].status \in Confirmed
  <2>1. d # c /\ op[d] # "same_plate" /\ draft[d][i] # None
    BY <1>5, <1>g, EndEffect DEF Ends, IInv
  <2>2. CASE Saves(c, i)
    <3>1. draft[c][i].status \in Confirmed
      BY <2>1, <2>2 DEF IInv, SoleInsertion, Saves
    <3> QED  BY <2>2, <3>1 DEF Saves
  <2>3. ~Discards(c, i)
    BY <1>0, <2>1 DEF Discards, Pending, Confirmed
  <2> QED  BY <1>0, <1>5, <1>g, <2>1, <2>2, <2>3 DEF Ends, Removes
<1> QED  BY <1>1, <1>2, <1>3, <1>4, <1>5 DEF Kinds

LEMMA StepSoleObserved == ASSUME IInv, Kinds PROVE SoleObserved'
<1> USE FreshPresent
<1>b. TypeOK /\ \A i \in Ids : rows[i] \in Row \cup {None}
  BY DEF IInv, TypeOK
<1>0. \A d \in Clients, i \in Ids : draft[d][i] # None /\ rows[i] = None /\ draft[d][i].obs # None =>
         \A k \in Clients \ {d} : draft[k][i] = None
  BY DEF IInv, SoleObserved, Drafted
<1>g. SUFFICES ASSUME NEW d \in Clients, NEW i \in Ids, draft'[d][i] # None, rows'[i] = None,
                      draft'[d][i].obs # None, NEW k \in Clients \ {d}
               PROVE  draft'[k][i] = None
  BY DEF SoleObserved, Drafted
<1>1. CASE Quiet
  BY <1>0, <1>1, <1>g DEF Quiet
<1>2. ASSUME NEW r \in Row, Inserts(r) PROVE draft'[k][i] = None
  <2>1. i # nextId
    BY <1>2, <1>g DEF Inserts
  <2> QED  BY <1>0, <1>2, <1>g, <2>1 DEF Inserts
<1>3. ASSUME NEW c \in Clients, NEW name \in Ops, NEW ids \in SUBSET Ids, NEW e \in Draft,
             Begins(c, name, ids, e)
      PROVE  draft'[k][i] = None
  <2>1. rows[i] = None /\ i \notin Present
    BY <1>3, <1>g DEF Begins, Present
  <2>2. CASE e[i] # None
    <3>1. i = nextId
      BY <1>3, <2>1, <2>2 DEF Begins
    <3>2. d = c
      BY <1>3, <1>g, <3>1 DEF Begins
    <3> QED  BY <1>3, <3>1, <3>2 DEF Begins
  <2>3. CASE e[i] = None
    BY <1>0, <1>3, <1>g, <2>1, <2>3 DEF Begins
  <2> QED  BY <2>2, <2>3
<1>4. ASSUME NEW c \in Clients, RecalculateRead(c) PROVE draft'[k][i] = None
  BY <1>0, <1>4, <1>g, ReviewEffect DEF Present
<1>5. ASSUME NEW c \in Clients, Ends(c) PROVE draft'[k][i] = None
  <2>1. \A n \in Clients, j \in Ids : draft'[n][j] = IF n = c THEN None ELSE draft[n][j]
    BY <1>5, EndEffect DEF Ends, IInv
  <2>2. d # c /\ draft[d][i] # None /\ draft[d][i].obs # None
    BY <1>g, <2>1
  <2>3. CASE rows[i] = None
    BY <1>0, <2>1, <2>2, <2>3
  <2>4. ~Removes(c, i)
    BY <2>2 DEF IInv, OwnerInv, Owner, Removes, Drafted
  <2>5. Discards(c, i) => rows'[i] # None
    BY <1>b, RowAssumption DEF Discards, Pending, Row, Status
  <2>6. Saves(c, i) => rows'[i] # None
    BY DEF Saves, Drafted
  <2> QED  BY <1>5, <1>g, <2>3, <2>4, <2>5, <2>6 DEF Ends
<1> QED  BY <1>1, <1>2, <1>3, <1>4, <1>5 DEF Kinds

\* The end of a request leaves the context of an observed movement alone; the
\* vehicle is bound by a review, which no other request saves into.
LEMMA EndKeepsContext ==
  ASSUME IInv, NEW c \in Clients, Ends(c), NEW i \in Present, rows[i].obs # None
  PROVE  rows'[i] # None /\ rows'[i].obs = rows[i].obs /\ SameContext(rows'[i], rows[i])
<1>1. TypeOK /\ i \in Ids /\ rows[i] \in Row /\ rows[i] # None
  BY PresentRow DEF IInv, Present
<1>2. CASE rows'[i] = rows[i]
  BY <1>1, <1>2 DEF SameContext
<1>3. CASE Saves(c, i)
  <2>1. draft[c][i].obs = rows[i].obs
    BY <1>1, <1>3 DEF IInv, OwnerInv, Owner, Saves, Drafted, Present
  <2> QED  BY <1>1, <1>3, <2>1 DEF Saves, Drafted, IInv, ContextKept
<1>4. CASE Discards(c, i)
  <2>1. rows'[i] \in Row
    BY <1>1, <1>4 DEF Discards, Row, Status
  <2> QED  BY <1>1, <1>4, <2>1, RowAssumption DEF Discards, Row, SameContext
<1>5. ~Removes(c, i)
  BY <1>1 DEF IInv, OwnerInv, Owner, Removes, Present
<1> QED  BY <1>1, <1>2, <1>3, <1>4, <1>5 DEF Ends

LEMMA StepContextKept == ASSUME IInv, Kinds PROVE ContextKept'
<1> USE FreshPresent
<1>b. TypeOK /\ \A i \in Ids : rows[i] \in Row \cup {None}
  BY DEF IInv, TypeOK
<1>0. \A d \in Clients, i \in Ids : draft[d][i] # None /\ rows[i] # None /\ rows[i].obs # None =>
         SameContext(draft[d][i], rows[i])
  BY DEF IInv, ContextKept, Drafted
<1>g. SUFFICES ASSUME NEW d \in Clients, NEW i \in Ids, draft'[d][i] # None, rows'[i] # None,
                      rows'[i].obs # None
               PROVE  SameContext(draft'[d][i], rows'[i])
  BY DEF ContextKept, Drafted, SameContext
<1>1. CASE Quiet
  BY <1>0, <1>1, <1>g DEF Quiet
<1>2. ASSUME NEW r \in Row, Inserts(r) PROVE SameContext(draft'[d][i], rows'[i])
  BY <1>0, <1>2, <1>g DEF Inserts
<1>3. ASSUME NEW c \in Clients, NEW name \in Ops, NEW ids \in SUBSET Ids, NEW e \in Draft,
             Begins(c, name, ids, e)
      PROVE  SameContext(draft'[d][i], rows'[i])
  BY <1>0, <1>3, <1>g DEF Begins, Present
<1>4. ASSUME NEW c \in Clients, RecalculateRead(c) PROVE SameContext(draft'[d][i], rows'[i])
  BY <1>0, <1>4, <1>g, ReviewEffect
<1>5. ASSUME NEW c \in Clients, Ends(c) PROVE SameContext(draft'[d][i], rows'[i])
  <2>1. d # c /\ draft'[d][i] = draft[d][i] /\ draft[d][i] # None
    BY <1>5, <1>g, EndEffect DEF Ends, IInv
  <2>2. CASE rows[i] = None
    <3>1. Saves(c, i)
      BY <1>5, <1>g, <2>2 DEF Ends, Discards, Pending, Removes
    <3> QED  BY <1>g, <2>1, <2>2, <3>1 DEF Saves, Drafted, IInv, SoleObserved
  <2>3. CASE rows[i] # None
    <3>1. i \in Present /\ rows[i].obs # None
      <4>1. i \in Present
        BY <2>3 DEF Present
      <4>2. Saves(c, i) => draft[c][i].obs = rows[i].obs
        BY <4>1 DEF IInv, OwnerInv, Owner, Saves, Present
      <4>3. Discards(c, i) => rows'[i].obs = rows[i].obs
        BY <1>b, <2>3 DEF Discards, Row
      <4> QED  BY <1>5, <1>g, <4>1, <4>2, <4>3 DEF Ends, Saves, Removes
    <3>2. SameContext(rows'[i], rows[i]) /\ SameContext(draft[d][i], rows[i])
      BY <1>0, <1>5, <2>1, <2>3, <3>1, EndKeepsContext
    <3>3. CASE rows'[i].vehicle = None \/ rows[i].vehicle # None
      BY <2>1, <3>2, <3>3 DEF SameContext
    <3>4. CASE rows'[i].vehicle # None /\ rows[i].vehicle = None
      <4>1. ~Discards(c, i)
        BY <1>b, <2>3, <3>4 DEF Discards, Row
      <4>2. Saves(c, i)
        BY <1>5, <1>g, <3>4, <4>1 DEF Ends, Removes
      <4>3. rows[i].status \notin Confirmed
        BY <3>1, <3>4 DEF IInv, ReviewInv, Reviewed
      <4>4. op[c] = "same_plate" /\ op[d] = "same_plate" /\ i \in Drafted(c) /\ i \in Drafted(d)
        BY <2>1, <2>3, <4>2, <4>3 DEF IInv, ConfirmedTargets, Saves, Drafted
      <4>5. rowLock[i] = c /\ rowLock[i] = d
        BY <4>4 DEF IInv, UnderReview
      <4> QED  BY <2>1, <4>5
    <3> QED  BY <3>3, <3>4
  <2> QED  BY <2>2, <2>3
<1> QED  BY <1>1, <1>2, <1>3, <1>4, <1>5 DEF Kinds

LEMMA StepInv == ASSUME IInv, [Next]_vars PROVE IInv'
<1>1. TypeOK' /\ ReviewInv'
  BY StepType, StepReview DEF IInv
<1>2. Kinds
  BY StepKinds
<1> QED
  BY <1>1, <1>2, StepFresh, StepNothing, StepOwner, StepOneMovement, StepDraftsUnique,
     StepUnderReview, StepSoleInsertion, StepConfirmedTargets, StepSoleObserved,
     StepContextKept DEF IInv

\* What the memory of requests may hold, in every state.
THEOREM Invariance == Spec => []IInv
  BY InitInv, StepInv, PTL DEF Spec

-----------------------------------------------------------------------------
(* The results.                                                            *)

\* Every reachable state is well typed.
THEOREM TypeCorrect == Spec => []TypeOK
<1>1. IInv => TypeOK
  BY DEF IInv
<1> QED  BY <1>1, Invariance, PTL

\* However confirmations and automatic registrations interleave, an
\* observation never has two movements (the unique key and the check before).
THEOREM ObservationHasOneMovement == Spec => []OneMovementPerObservation
<1>1. IInv => OneMovementPerObservation
  BY DEF IInv
<1> QED  BY <1>1, Invariance, PTL

\* Pending and discarded movements have no vehicle and all others have one,
\* although every save overwrites the row with what the request remembers.
THEOREM ReviewDecidesVehicle == Spec => []ReviewMatchesVehicle
<1>1. IInv => ReviewMatchesVehicle
  BY DEF IInv, ReviewInv, Reviewed, ReviewMatchesVehicle
<1> QED  BY <1>1, Invariance, PTL

\* No step of any request takes back a review.
LEMMA StepReviewFinal ==
  ASSUME IInv, [Next]_vars, NEW i \in Present
  PROVE  /\ rows[i].status = "discarded" => rows'[i] = rows[i]
         /\ rows[i].status \in Confirmed /\ rows'[i] # None => rows'[i].status \in Confirmed
<1> USE FreshPresent
<1>0. Kinds /\ i \in Ids /\ rows[i] # None
  BY StepKinds DEF Present
<1>1. CASE Quiet
  BY <1>1 DEF Quiet
<1>2. ASSUME NEW r \in Row, Inserts(r) PROVE rows'[i] = rows[i]
  BY <1>0, <1>2 DEF Inserts
<1>3. ASSUME NEW c \in Clients, NEW name \in Ops, NEW ids \in SUBSET Ids, NEW e \in Draft,
             Begins(c, name, ids, e)
      PROVE  rows'[i] = rows[i]
  BY <1>3 DEF Begins
<1>4. ASSUME NEW c \in Clients, RecalculateRead(c) PROVE rows'[i] = rows[i]
  BY <1>4, ReviewEffect
<1>5. ASSUME NEW c \in Clients, Ends(c)
      PROVE  /\ rows[i].status = "discarded" => rows'[i] = rows[i]
             /\ rows[i].status \in Confirmed /\ rows'[i] # None => rows'[i].status \in Confirmed
  <2>1. CASE Saves(c, i)
    <3>1. rows[i].status \in Confirmed \cup {"pending_review"}
      BY <1>0, <2>1 DEF IInv, ConfirmedTargets, UnderReview, Pending, Saves
    <3>2. draft[c][i].status \in Confirmed
      BY <1>0, <2>1 DEF IInv, SoleInsertion, Saves
    <3> QED  BY <2>1, <3>1, <3>2 DEF Saves, Confirmed
  <2>2. CASE Discards(c, i)
    BY <2>2 DEF Discards, Pending, Confirmed
  <2>3. CASE Removes(c, i)
    <3>1. rows[i].obs = None
      BY <1>0, <2>3 DEF IInv, OwnerInv, Owner, Removes, Present
    <3>2. rows[i].status # "discarded"
      BY <1>0, <3>1 DEF IInv, ReviewInv, Reviewed
    <3> QED  BY <2>3, <3>2 DEF Removes
  <2> QED  BY <1>0, <1>5, <2>1, <2>2, <2>3 DEF Ends
<1> QED  BY <1>0, <1>1, <1>2, <1>3, <1>4, <1>5 DEF Kinds

\* A discarded movement stays discarded and a confirmed one is never pending
\* or discarded again, for every interleaving of reviews, updates, removals
\* and reconciliations.
THEOREM ReviewDecidesOnce == Spec => ReviewIsFinal
<1>1. ASSUME IInv, [Next]_vars
      PROVE  [\A i \in Present :
                /\ rows[i].status = "discarded" => rows'[i] = rows[i]
                /\ rows[i].status \in Confirmed /\ rows'[i] # None
                      => rows'[i].status \in Confirmed]_rows
  BY <1>1, StepReviewFinal
<1> QED  BY <1>1, Invariance, PTL DEF Spec, ReviewIsFinal

\* No step of any request changes where, which way and by whom.
LEMMA StepContextImmutable ==
  ASSUME IInv, [Next]_vars, NEW i \in Present, rows[i].obs # None
  PROVE  rows'[i] # None /\ rows'[i].obs = rows[i].obs /\ SameContext(rows'[i], rows[i])
<1> USE FreshPresent
<1>0. Kinds /\ i \in Ids /\ rows[i] # None
  BY StepKinds DEF Present
<1>1. CASE rows'[i] = rows[i]
  BY <1>0, <1>1 DEF SameContext
<1>2. ASSUME NEW r \in Row, Inserts(r) PROVE rows'[i] = rows[i]
  BY <1>0, <1>2 DEF Inserts
<1>3. Quiet => rows'[i] = rows[i]
  BY DEF Quiet
<1>4. ASSUME NEW c \in Clients, NEW name \in Ops, NEW ids \in SUBSET Ids, NEW e \in Draft,
             Begins(c, name, ids, e)
      PROVE  rows'[i] = rows[i]
  BY <1>4 DEF Begins
<1>5. ASSUME NEW c \in Clients, RecalculateRead(c) PROVE rows'[i] = rows[i]
  BY <1>5, ReviewEffect
<1> QED  BY <1>0, <1>1, <1>2, <1>3, <1>4, <1>5, EndKeepsContext DEF Kinds

\* The vehicle, gate and direction of an observed movement never change once
\* they are known, and it is never removed, although an update, a confirmation
\* and a reconciliation save entities they read before other requests committed.
THEOREM ContextStays == Spec => ObservedContextImmutable
<1> DEFINE Immutable ==
        \A i \in Present : rows[i].obs # None =>
          /\ rows'[i] # None
          /\ rows'[i].obs = rows[i].obs /\ rows'[i].point = rows[i].point /\ rows'[i].type = rows[i].type
          /\ rows[i].vehicle # None => rows'[i].vehicle = rows[i].vehicle
<1>1. IInv /\ [Next]_vars => [Immutable]_rows
  BY StepContextImmutable DEF SameContext
<1>2. ObservedContextImmutable <=> [][Immutable]_rows
  BY DEF ObservedContextImmutable
<1> HIDE DEF Immutable
<1> QED  BY <1>1, <1>2, Invariance, PTL DEF Spec

-----------------------------------------------------------------------------
(* Visits, in a company that edits nothing by hand.  Nobody checks, when a *)
(* reconciliation or a confirmation saves, that the visits it read are     *)
(* still there: the invariant says that what it read cannot have changed   *)
(* in a way that matters.                                                  *)

NobodyEdits == Enabled \cap {"create", "update", "remove"} = {}

\* Every movement is one of an observation.
OnlyObserved ==
    /\ \A c \in Clients : op[c] \notin {"update", "remove"}
    /\ \A i \in Present : rows[i].obs # None
    /\ \A c \in Clients : \A i \in Drafted(c) : draft[c][i].obs # None

TimesKept == \A c \in Clients : \A i \in Drafted(c) : rows[i] # None => draft[c][i].time = rows[i].time

\* Only a review leaves an exit open, and it closes nothing.
ExitsClosed ==
    \A c \in Clients : \A i \in Drafted(c) :
        IF op[c] = "same_plate" THEN draft[c][i].status = "open"
        ELSE draft[c][i].type = "exit" /\ draft[c][i].status \in Confirmed => draft[c][i].status = "closed"

\* An entry is closed together with its exit, or after it.
EntriesLeft ==
    \A c \in Clients : \A i \in Drafted(c) : draft[c][i].type = "entry" /\ draft[c][i].status = "closed" =>
        \/ \E j \in Present : LeftThrough(draft[c][i], rows[j])
        \/ \E j \in Drafted(c) : LeftThrough(draft[c][i], draft[c][j])

VisitInv == OnlyObserved /\ TimesKept /\ ExitsClosed /\ EntriesLeft /\ ClosedEntryWasLeft

LEMMA InitVisits == ASSUME Init PROVE VisitInv
<1>1. /\ \A i \in Ids : rows[i] = None
      /\ \A c \in Clients : draft[c] = NoDraft /\ op[c] = "idle"
  BY DEF Init
<1>2. Present = {} /\ \A c \in Clients : Drafted(c) = {}
  BY <1>1 DEF Present, Drafted, NoDraft
<1> QED  BY <1>1, <1>2 DEF VisitInv, OnlyObserved, TimesKept, ExitsClosed, EntriesLeft, ClosedEntryWasLeft

\* Nothing is inserted by hand, updated or removed.
LEMMA StepOnlyObserved == ASSUME IInv, VisitInv, NobodyEdits, [Next]_vars PROVE OnlyObserved'
<1>0. Kinds /\ OnlyObserved /\ TypeOK
  BY StepKinds DEF VisitInv, IInv
<1>n. \A i \in Ids : rows[i] # None => rows'[i] # None /\ rows'[i].obs # None
  BY <1>0, StepContextImmutable DEF OnlyObserved, Present
<1>1. CASE Quiet
  BY <1>0, <1>1 DEF Quiet, OnlyObserved, Present, Drafted
<1>2. ~ \E r \in Row : Inserts(r)
  BY DEF Inserts, NobodyEdits
<1>3. ASSUME NEW c \in Clients, NEW name \in Ops, NEW ids \in SUBSET Ids, NEW e \in Draft,
             Begins(c, name, ids, e)
      PROVE  OnlyObserved'
  <2>1. name \notin {"update", "remove"}
    BY <1>3 DEF Begins, NobodyEdits
  <2>2. \A i \in Ids : e[i] # None => e[i].obs # None
    BY <1>0, <1>3, <2>1 DEF Begins, Prepared, OnlyObserved
  <2> QED  BY <1>0, <1>3, <2>1, <2>2 DEF Begins, OnlyObserved, Present, Drafted
<1>4. ASSUME NEW c \in Clients, RecalculateRead(c) PROVE OnlyObserved'
  BY <1>0, <1>4, ReviewEffect DEF OnlyObserved, Present, Drafted
<1>5. ASSUME NEW c \in Clients, Ends(c) PROVE OnlyObserved'
  <2>1. \A i \in Ids : rows'[i] # None => rows'[i].obs # None
    <3>1. SUFFICES ASSUME NEW i \in Ids, rows'[i] # None, rows[i] = None PROVE rows'[i].obs # None
      BY <1>n
    <3>2. Saves(c, i)
      BY <1>5, <3>1 DEF Ends, Discards, Pending, Removes
    <3> QED  BY <1>0, <3>2 DEF Saves, OnlyObserved
  <2> QED  BY <1>0, <1>5, <2>1, EndEffect DEF Ends, OnlyObserved, Present, Drafted
<1> QED  BY <1>0, <1>1, <1>2, <1>3, <1>4, <1>5 DEF Kinds

\* Where and when somebody passed stays, and an exit stays closed.
LEMMA PassageStays ==
  ASSUME IInv, VisitInv, [Next]_vars, NEW i \in Present
  PROVE  /\ rows'[i] # None /\ rows'[i].time = rows[i].time /\ SameContext(rows'[i], rows[i])
         /\ rows[i].type = "exit" /\ rows[i].status = "closed" => rows'[i].status = "closed"
<1> USE FreshPresent
<1>0. /\ Kinds /\ OnlyObserved /\ TimesKept /\ ExitsClosed /\ TypeOK /\ i \in Ids
      /\ rows[i] # None /\ rows[i].obs # None /\ rows[i] \in Row
  BY StepKinds, PresentRow DEF VisitInv, IInv, OnlyObserved, Present
<1>1. rows'[i] # None /\ SameContext(rows'[i], rows[i])
  BY <1>0, StepContextImmutable
<1>2. CASE rows'[i] = rows[i]
  BY <1>1, <1>2
<1>3. ASSUME NEW r \in Row, Inserts(r) PROVE rows'[i] = rows[i]
  BY <1>0, <1>3 DEF Inserts
<1>4. Quiet => rows'[i] = rows[i]
  BY DEF Quiet
<1>5. ASSUME NEW c \in Clients, NEW name \in Ops, NEW ids \in SUBSET Ids, NEW e \in Draft,
             Begins(c, name, ids, e)
      PROVE  rows'[i] = rows[i]
  BY <1>5 DEF Begins
<1>6. ASSUME NEW c \in Clients, RecalculateRead(c) PROVE rows'[i] = rows[i]
  BY <1>6, ReviewEffect
<1>7. ASSUME NEW c \in Clients, Ends(c), rows'[i] # rows[i]
      PROVE  /\ rows'[i].time = rows[i].time
             /\ rows[i].type = "exit" /\ rows[i].status = "closed" => rows'[i].status = "closed"
  <2>1. CASE Discards(c, i)
    BY <1>0, <2>1 DEF Discards, Pending, Row
  <2>2. CASE Saves(c, i)
    <3>1. rows'[i].time = rows[i].time
      BY <1>0, <2>2 DEF Saves, TimesKept
    <3>2. ASSUME rows[i].type = "exit", rows[i].status = "closed" PROVE rows'[i].status = "closed"
      <4>1. op[c] # "same_plate"
        BY <2>2, <3>2 DEF IInv, UnderReview, Saves, Pending
      <4>2. draft[c][i].status \in Confirmed
        BY <1>0, <2>2 DEF IInv, SoleInsertion, Saves
      <4>3. draft[c][i].type = "exit"
        BY <1>1, <2>2, <3>2 DEF Saves, SameContext
      <4> QED  BY <1>0, <2>2, <4>1, <4>2, <4>3 DEF Saves, ExitsClosed
    <3> QED  BY <3>1, <3>2
  <2>3. ~Removes(c, i)
    BY <1>0 DEF OnlyObserved, Removes
  <2> QED  BY <1>0, <1>7, <2>1, <2>2, <2>3 DEF Ends
<1> QED  BY <1>0, <1>1, <1>2, <1>3, <1>4, <1>5, <1>6, <1>7 DEF Kinds

LEMMA StepTimesKept == ASSUME IInv, VisitInv, NobodyEdits, [Next]_vars PROVE TimesKept'
<1> USE FreshPresent
<1>0. Kinds /\ OnlyObserved /\ TimesKept /\ TypeOK
  BY StepKinds DEF VisitInv, IInv
<1>p. \A i \in Ids : rows[i] # None => rows'[i].time = rows[i].time
  BY PassageStays DEF Present
<1>g. SUFFICES ASSUME NEW d \in Clients, NEW i \in Ids, draft'[d][i] # None, rows'[i] # None
               PROVE  draft'[d][i].time = rows'[i].time
  BY DEF TimesKept, Drafted
<1>1. CASE draft'[d][i] = draft[d][i]
  <2>1. CASE rows[i] # None
    BY <1>0, <1>g, <1>p, <1>1, <2>1 DEF TimesKept, Drafted
  <2>2. CASE rows[i] = None
    <3>1. PICK c \in Clients : Ends(c)
      BY <1>0, <1>1, <1>g, <2>2, ReviewEffect DEF Kinds, Quiet, Inserts, Begins, FreshInv
    <3>2. d # c
      BY <1>0, <1>g, <3>1, EndEffect DEF Ends
    <3>3. Saves(c, i)
      BY <1>g, <2>2, <3>1 DEF Ends, Discards, Pending, Removes
    <3> QED  BY <1>0, <1>1, <1>g, <2>2, <3>2, <3>3 DEF Saves, Drafted, OnlyObserved, IInv, SoleObserved
  <2> QED  BY <2>1, <2>2
<1>2. ASSUME NEW c \in Clients, NEW name \in Ops, NEW ids \in SUBSET Ids, NEW e \in Draft,
             Begins(c, name, ids, e), d = c
      PROVE  draft'[d][i].time = rows'[i].time
  <2>1. name # "update"
    BY <1>2 DEF Begins, NobodyEdits
  <2> QED  BY <1>2, <1>g, <2>1 DEF Begins, Prepared, Present
<1>3. ASSUME NEW c \in Clients, RecalculateRead(c), draft'[d][i] # draft[d][i]
      PROVE  draft'[d][i].time = rows'[i].time
  BY <1>3, ReviewEffect
<1>4. ASSUME NEW c \in Clients, Ends(c) PROVE draft'[d][i] = draft[d][i]
  BY <1>0, <1>4, <1>g, EndEffect DEF Ends
<1> QED  BY <1>0, <1>1, <1>2, <1>3, <1>4 DEF Kinds, Quiet, Inserts, Begins

LEMMA StepExitsClosed == ASSUME IInv, VisitInv, NobodyEdits, [Next]_vars PROVE ExitsClosed'
<1>0. Kinds /\ ExitsClosed /\ TypeOK
  BY StepKinds DEF VisitInv, IInv
<1>1. CASE Quiet \/ \E r \in Row : Inserts(r)
  BY <1>0, <1>1 DEF Quiet, Inserts, ExitsClosed, Drafted
<1>2. ASSUME NEW c \in Clients, NEW name \in Ops, NEW ids \in SUBSET Ids, NEW e \in Draft,
             Begins(c, name, ids, e)
      PROVE  ExitsClosed'
  <2>1. name \notin {"update", "same_plate"}
    BY <1>2 DEF Begins, NobodyEdits
  <2>2. \A i \in Ids : e[i] # None /\ e[i].type = "exit" /\ e[i].status \in Confirmed => e[i].status = "closed"
    BY <1>2, <2>1 DEF Begins, Prepared
  <2> QED  BY <1>0, <1>2, <2>1, <2>2 DEF Begins, ExitsClosed, Drafted
<1>3. ASSUME NEW c \in Clients, RecalculateRead(c) PROVE ExitsClosed'
  <2>1. \A i \in Ids : draft[c][i] = None
    BY <1>3, ReviewEffect DEF IInv, NothingDrafted
  <2> QED  BY <1>0, <1>3, <2>1, ReviewEffect DEF ExitsClosed, Drafted
<1>4. ASSUME NEW c \in Clients, Ends(c) PROVE ExitsClosed'
  BY <1>0, <1>4, EndEffect DEF Ends, ExitsClosed, Drafted
<1> QED  BY <1>0, <1>1, <1>2, <1>3, <1>4 DEF Kinds

\* The exit that an entity of the next state relies on.
LEMMA ExitStays ==
  ASSUME IInv, VisitInv, [Next]_vars, NEW e, NEW i \in Present, LeftThrough(e, rows[i])
  PROVE  rows'[i] # None /\ LeftThrough(e, rows'[i])
<1>1. rows[i].vehicle # None
  BY DEF IInv, ReviewInv, Reviewed, LeftThrough, Confirmed
<1> QED  BY <1>1, PassageStays DEF LeftThrough, SameVisit, SameContext

LEMMA StepEntriesLeft == ASSUME IInv, VisitInv, NobodyEdits, [Next]_vars PROVE EntriesLeft'
<1>0. Kinds /\ EntriesLeft /\ TypeOK
  BY StepKinds DEF VisitInv, IInv
<1>p. \A e, i : i \in Present /\ LeftThrough(e, rows[i]) => i \in Present' /\ LeftThrough(e, rows'[i])
  BY ExitStays DEF Present
<1>g. SUFFICES ASSUME NEW d \in Clients, NEW i \in Ids, draft'[d][i] # None,
                      draft'[d][i].type = "entry", draft'[d][i].status = "closed"
               PROVE  \/ \E j \in Present' : LeftThrough(draft'[d][i], rows'[j])
                      \/ \E j \in Ids : draft'[d][j] # None /\ LeftThrough(draft'[d][i], draft'[d][j])
  BY DEF EntriesLeft, Drafted, LeftThrough, SameVisit
<1>1. CASE \A j \in Ids : draft'[d][j] = draft[d][j]
  <2>1. \/ \E j \in Present : LeftThrough(draft[d][i], rows[j])
        \/ \E j \in Ids : draft[d][j] # None /\ LeftThrough(draft[d][i], draft[d][j])
    BY <1>0, <1>1, <1>g DEF EntriesLeft, Drafted
  <2> QED  BY <1>p, <1>1, <2>1
<1>2. ASSUME NEW c \in Clients, NEW name \in Ops, NEW ids \in SUBSET Ids, NEW e \in Draft,
             Begins(c, name, ids, e), d = c
      PROVE  \/ \E j \in Present' : LeftThrough(draft'[d][i], rows'[j])
             \/ \E j \in Ids : draft'[d][j] # None /\ LeftThrough(draft'[d][i], draft'[d][j])
  <2>1. name # "update" /\ draft'[d] = e
    BY <1>2 DEF Begins, NobodyEdits
  <2>2. \/ \E j \in Present : LeftThrough(e[i], rows[j])
        \/ \E j \in Ids : e[j] # None /\ LeftThrough(e[i], e[j])
    BY <1>2, <1>g, <2>1 DEF Begins, Prepared
  <2> QED  BY <1>p, <2>1, <2>2
<1>3. ASSUME NEW c \in Clients, RecalculateRead(c) PROVE \A j \in Ids : draft'[d][j] = draft[d][j]
  <2>1. \A j \in Ids : draft[c][j] = None
    BY <1>3, ReviewEffect DEF IInv, NothingDrafted
  <2>2. PICK k \in Ids, r \in Row :
           /\ r.status = "open"
           /\ \A n \in Clients, j \in Ids : draft'[n][j] = IF n = c /\ j = k THEN r ELSE draft[n][j]
    BY <1>3, ReviewEffect
  <2>3. d # c
    BY <1>g, <2>1, <2>2
  <2> QED  BY <2>2, <2>3
<1>4. ASSUME NEW c \in Clients, Ends(c) PROVE \A j \in Ids : draft'[d][j] = draft[d][j]
  BY <1>0, <1>4, <1>g, EndEffect DEF Ends
<1>5. CASE Quiet \/ \E r \in Row : Inserts(r)
  BY <1>1, <1>5 DEF Quiet, Inserts
<1>6. ASSUME NEW c \in Clients, NEW name \in Ops, NEW ids \in SUBSET Ids, NEW e \in Draft,
             Begins(c, name, ids, e), d # c
      PROVE  \A j \in Ids : draft'[d][j] = draft[d][j]
  BY <1>6 DEF Begins
<1> QED  BY <1>0, <1>1, <1>2, <1>3, <1>4, <1>5, <1>6 DEF Kinds

\* Saving is atomic: an entry is not closed without its exit.
LEMMA StepEntryWasLeft == ASSUME IInv, VisitInv, NobodyEdits, [Next]_vars PROVE ClosedEntryWasLeft'
<1> USE FreshPresent
<1>0. Kinds /\ EntriesLeft /\ ClosedEntryWasLeft /\ TypeOK
  BY StepKinds DEF VisitInv, IInv
<1>p. \A e, i : i \in Present /\ LeftThrough(e, rows[i]) => i \in Present' /\ LeftThrough(e, rows'[i])
  BY ExitStays DEF Present
<1>g. SUFFICES ASSUME NEW i \in Ids, rows'[i] # None, rows'[i].type = "entry", rows'[i].status = "closed"
               PROVE  \E j \in Present' : LeftThrough(rows'[i], rows'[j])
  BY DEF ClosedEntryWasLeft, Present, LeftThrough, SameVisit
<1>1. CASE rows'[i] = rows[i]
  <2>1. \E j \in Present : LeftThrough(rows[i], rows[j])
    BY <1>0, <1>1, <1>g DEF ClosedEntryWasLeft, Present, LeftThrough
  <2> QED  BY <1>p, <1>1, <2>1
<1>2. ASSUME NEW c \in Clients, Ends(c), rows'[i] # rows[i] PROVE \E j \in Present' : LeftThrough(rows'[i], rows'[j])
  <2>1. Saves(c, i)
    <3>1. ~Discards(c, i)
      <4>1. Discards(c, i) => rows'[i].status = "discarded"
        BY <1>0 DEF Discards, Pending, Row
      <4> QED  BY <1>g, <4>1
    <3> QED  BY <1>2, <1>g, <3>1 DEF Ends, Removes
  <2>2. \A j \in Drafted(c) : rows'[j] = draft[c][j]
    BY <1>2, <2>1 DEF Ends, Saves
  <2>3. \/ \E j \in Present : LeftThrough(draft[c][i], rows[j])
        \/ \E j \in Drafted(c) : LeftThrough(draft[c][i], draft[c][j])
    BY <1>0, <1>g, <2>1 DEF Saves, EntriesLeft
  <2>4. rows'[i] = draft[c][i]
    BY <2>1 DEF Saves
  <2> QED  BY <1>p, <2>2, <2>3, <2>4 DEF Drafted, Present
<1>3. ASSUME NEW r \in Row, Inserts(r) PROVE FALSE
  BY <1>3 DEF Inserts, NobodyEdits
<1>4. ASSUME NEW c \in Clients, RecalculateRead(c) PROVE rows'[i] = rows[i]
  BY <1>4, ReviewEffect
<1> QED  BY <1>0, <1>1, <1>2, <1>3, <1>4 DEF Kinds, Quiet, Begins

\* A closed entry was left, as long as nobody creates, edits or removes
\* movements by hand: no interleaving of confirmations, automatic
\* registrations, reviews and reconciliations of overlapping periods closes an
\* entry without a closed exit of the same vehicle and unit, or takes that exit
\* away afterwards.
THEOREM ClosedEntriesWereLeft == NobodyEdits /\ Spec => []ClosedEntryWasLeft
<1>1. SUFFICES ASSUME NobodyEdits PROVE Spec => []ClosedEntryWasLeft
  OBVIOUS
<1>2. Init => VisitInv
  BY InitVisits
<1>3. IInv /\ VisitInv /\ [Next]_vars => VisitInv'
  BY <1>1, StepOnlyObserved, StepTimesKept, StepExitsClosed, StepEntriesLeft, StepEntryWasLeft DEF VisitInv
<1>4. VisitInv => ClosedEntryWasLeft
  BY DEF VisitInv
<1> QED  BY <1>2, <1>3, <1>4, Invariance, PTL DEF Spec
=============================================================================
