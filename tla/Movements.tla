------------------------------ MODULE Movements ------------------------------
(***************************************************************************)
(* The life cycle of the movements of one company: the table `movements`   *)
(* (src/src/movement), the requests that read and write it and the         *)
(* PostgreSQL behaviour they rely on.                                      *)
(*                                                                         *)
(* A request is a client of the API or a job of the auto-registration      *)
(* service.  It runs in steps: what it reads stays in its memory (the      *)
(* entities TypeORM returned) until it saves, and other requests may       *)
(* commit in between.  `Repository.save` writes the WHOLE entity as the    *)
(* request remembers it: it reads the row again, updates every column that *)
(* differs from the entity and inserts the entity when the row is gone.    *)
(* A transaction's writes become visible at once, when it commits.         *)
(*                                                                         *)
(* A vehicle is named by its plate, which is unique in a company.          *)
(***************************************************************************)
EXTENDS Naturals, FiniteSets, Pairing

CONSTANTS
    Clients,        \* requests that may run at the same time
    Observations,   \* persisted camera observations
    Plates,         \* licence plates, hence vehicles
    Points,         \* gates
    PointType,      \* [Points -> {"entry", "exit", "both"}]
    PointUnit,      \* administrative unit of each gate
    ObsPoint,       \* gate of the camera that produced an observation
    ObsPlate,       \* plate of an observation
    ObsTime,        \* capturedAt of an observation
    MaxTime,        \* bound: instants are 1 .. MaxTime
    Window,         \* SAME_PASSAGE_WINDOW_MS, in instants
    MaxMovements,   \* bound: number of rows ever inserted
    Enabled,        \* the operations the clients of an instance issue
    None            \* SQL null

Times == 1 .. MaxTime
Ids == 1 .. MaxMovements
Units == {PointUnit[p] : p \in Points}
Operations == {"register", "unregister", "create", "update", "remove",
               "confirm", "auto", "discard", "recalculate", "reconcile"}

ASSUME MovementsAssumption ==
    /\ MaxTime \in Nat
    /\ MaxMovements \in Nat
    /\ Window \in Nat
    /\ PointType \in [Points -> {"entry", "exit", "both"}]
    /\ PointUnit \in [Points -> Units]
    /\ ObsPoint \in [Observations -> Points]
    /\ ObsPlate \in [Observations -> Plates]
    /\ ObsTime \in [Observations -> Times]
    /\ Enabled \subseteq Operations
    /\ None \notin Clients \cup Observations \cup Plates \cup Points

VARIABLES
    rows,      \* [Ids -> Row or None], the committed table
    nextId,    \* ids are generated in insertion order and never reused
    vehicles,  \* registered vehicles
    live,      \* observations that can still be confirmed (fresh and current)
    rowLock,   \* locks on rows: [Ids -> Clients or None]
    obsLock,   \* locks on observation rows: [Observations -> Clients or None]
    op,        \* what each client is doing
    want,      \* the rows a client works on; a reviewer has to lock them
    draft,     \* the entities in a client's memory that it will save
    arg        \* the vehicle of a recalculation, the status an update sends

table == <<rows, nextId, vehicles, live>>
request == <<op, want, draft, arg>>
locks == <<rowLock, obsLock>>
vars == <<table, request, locks>>

-----------------------------------------------------------------------------
(* Rows and the operators the services share.                              *)

Status == {"open", "closed", "pending_review", "discarded"}
Confirmed == {"open", "closed"}
Type == {"entry", "exit"}

Row == [obs: Observations \cup {None}, point: Points \cup {None},
        vehicle: Plates \cup {None}, plate: Plates \cup {None},
        type: Type, time: Times, status: Status]

ASSUME RowAssumption == None \notin Row

Present == {i \in Ids : rows[i] # None}

\* resolveMovementType: a one-way gate fixes the direction.
Compatible(p, type) == PointType[p] \in {"both", type}

\* Mutant: the type of the gate is taken for a direction.
AutoTypeUnresolved(p) == PointType[p]

\* The direction of an automatic movement: a two-way gate counts as an entry.
AutoType(p) == IF PointType[p] = "both" THEN "entry" ELSE PointType[p]

\* The movement of an observation.
Existing(o) == {i \in Present : rows[i].obs = o}

SameVisit(r, s) ==
    /\ r.vehicle = s.vehicle
    /\ r.point # None /\ s.point # None
    /\ PointUnit[r.point] = PointUnit[s.point]

\* Mutant: without the condition on dateTime.
OpenEntriesAnyTime(exit) ==
    {i \in Present : /\ rows[i].type = "entry"
                     /\ rows[i].status = "open"
                     /\ SameVisit(rows[i], exit)}

OpenEntries(exit) ==
    {i \in Present : /\ rows[i].type = "entry"
                     /\ rows[i].status = "open"
                     /\ SameVisit(rows[i], exit)
                     /\ rows[i].time <= exit.time}

\* What closeUnitVisit may take: ORDER BY dateTime DESC LIMIT 1.
LatestOpenEntries(exit) ==
    {i \in OpenEntries(exit) : \A j \in OpenEntries(exit) : rows[j].time <= rows[i].time}

NoDraft == [i \in Ids |-> None]

Closed(r) == [r EXCEPT !.status = "closed"]

\* What an insertion saves: the new row and, when it is a confirmed exit,
\* the visit that it finishes (closeUnitVisit).
InsertDrafts(id, r) ==
    IF r.type # "exit" \/ r.status # "open" \/ r.vehicle = None
    THEN {[NoDraft EXCEPT ![id] = r]}
    ELSE IF LatestOpenEntries(r) = {}
    THEN {[NoDraft EXCEPT ![id] = Closed(r)]}
    ELSE {[NoDraft EXCEPT ![id] = Closed(r), ![e] = Closed(rows[e])] : e \in LatestOpenEntries(r)}

\* reconcile: the confirmed movements of the period, and what it restages.
Analyzed(from, to) ==
    {i \in Present : /\ rows[i].vehicle # None /\ rows[i].point # None
                     /\ rows[i].status \in Confirmed
                     /\ from <= rows[i].time /\ rows[i].time <= to}

Passage(i) == [id |-> i, type |-> rows[i].type, time |-> rows[i].time]

Visit(from, to, i) == {Passage(j) : j \in {k \in Analyzed(from, to) : SameVisit(rows[k], rows[i])}}

NewStatus(from, to, i) == ReconciledStatus(Visit(from, to, i), Passage(i), rows[i].status)

ReconcileDraft(from, to) ==
    [i \in Ids |-> IF i \in Analyzed(from, to) /\ NewStatus(from, to, i) # rows[i].status
                   THEN [rows[i] EXCEPT !.status = NewStatus(from, to, i)]
                   ELSE None]

\* isSamePassage
SamePassage(r, s) == r.point = s.point /\ r.time < s.time + Window /\ s.time < r.time + Window

\* The pending rows that carry the plate read for row i or the one of vehicle v.
SamePlate(i, v) ==
    {j \in Present : /\ rows[j].status = "pending_review"
                     /\ rows[j].plate # None
                     /\ rows[j].plate \in {rows[i].plate, v}}

-----------------------------------------------------------------------------
(* The frame of a request: it starts on an idle client; at its end the     *)
(* client forgets what it read and its locks are released.                 *)

Begin(c, name, ids, entities, a) ==
    /\ op[c] = "idle"
    /\ op' = [op EXCEPT ![c] = name]
    /\ want' = [want EXCEPT ![c] = ids]
    /\ draft' = [draft EXCEPT ![c] = entities]
    /\ arg' = [arg EXCEPT ![c] = a]

End(c) ==
    /\ op' = [op EXCEPT ![c] = "idle"]
    /\ want' = [want EXCEPT ![c] = {}]
    /\ draft' = [draft EXCEPT ![c] = NoDraft]
    /\ arg' = [arg EXCEPT ![c] = None]
    /\ rowLock' = [i \in Ids |-> IF rowLock[i] = c THEN None ELSE rowLock[i]]
    /\ obsLock' = [o \in Observations |-> IF obsLock[o] = c THEN None ELSE obsLock[o]]

Drafted(c) == {i \in Ids : draft[c][i] # None}

\* A write waits for the locks that other transactions hold on its rows.
Unlocked(c, ids) == \A i \in ids : rowLock[i] \in {None, c}

\* The foreign key to vehicles.
VehiclesExist(c) == \A i \in Drafted(c) : draft[c][i].vehicle \in vehicles \cup {None}

\* Mutant: the table without its unique index.
NoUniqueKey(c) == Drafted(c) \subseteq Ids

\* UQ_movements_observation.
ObservationsUnique(c) ==
    \A i \in Drafted(c) : draft[c][i].obs # None => Existing(draft[c][i].obs) \subseteq {i}

KeysHold(c) == VehiclesExist(c) /\ ObservationsUnique(c)

\* repository.save: each entity overwrites its row, or is inserted.
SaveDraft(c) ==
    /\ Unlocked(c, Drafted(c))
    /\ rows' = [i \in Ids |-> IF draft[c][i] # None THEN draft[c][i] ELSE rows[i]]
    /\ UNCHANGED <<nextId, live>>
    /\ End(c)

-----------------------------------------------------------------------------
(* Vehicles come and go; the foreign key refuses to delete one in use, also *)
(* by the insertion of a transaction that has not committed yet.           *)

Register(v) ==
    /\ vehicles' = vehicles \cup {v}
    /\ UNCHANGED <<rows, nextId, live, request, locks>>

Unregister(v) ==
    /\ \A i \in Present : rows[i].vehicle # v
    /\ \A c \in Clients : op[c] = "confirm" => \A i \in Drafted(c) : draft[c][i].vehicle # v
    /\ vehicles' = vehicles \ {v}
    /\ UNCHANGED <<rows, nextId, live, request, locks>>

\* The camera shows something else, or the observation is too old.
Expire(o) ==
    /\ live' = live \ {o}
    /\ UNCHANGED <<rows, nextId, vehicles, request, locks>>

-----------------------------------------------------------------------------
(* MovementService: manual movements, partial updates and removal.         *)

\* validateReferences: an active vehicle, and a gate that accepts the type.
ValidReferences(r) ==
    /\ r.vehicle \in vehicles
    /\ r.point # None => Compatible(r.point, r.type)

Create(r) ==
    /\ nextId <= MaxMovements
    /\ r.obs = None /\ r.plate = None /\ r.status \in Confirmed
    /\ ValidReferences(r)
    /\ rows' = [rows EXCEPT ![nextId] = r]
    /\ nextId' = nextId + 1
    /\ UNCHANGED <<vehicles, live, request, locks>>

\* Mutants: the context of an observed movement is not protected; any status
\* may be sent.
UpdatableContext(old, new) ==
    /\ new.obs = old.obs /\ new.plate = old.plate
    /\ new.status \in Confirmed \cup {old.status}

UpdatableToAnyStatus(old, new) ==
    /\ new.obs = old.obs /\ new.plate = old.plate
    /\ old.obs # None =>
          new.vehicle = old.vehicle /\ new.point = old.point /\ new.type = old.type

\* The fields an update may change; the context of a confirmed observation
\* (vehicle, gate, type) is immutable.
Updatable(old, new) ==
    /\ new.obs = old.obs /\ new.plate = old.plate
    /\ old.obs # None =>
          new.vehicle = old.vehicle /\ new.point = old.point /\ new.type = old.type
    /\ new.status \in Confirmed \cup {old.status}

\* PATCH reads the row, validates, and assigns the fields sent to the entity.
\* arg is the status when the request sends one that differs.
UpdateLoad(c, i, new) ==
    /\ i \in Present
    /\ Updatable(rows[i], new)
    /\ ValidReferences(new)
    /\ Begin(c, "update", {i}, [NoDraft EXCEPT ![i] = new],
             IF new.status = rows[i].status THEN None ELSE new.status)
    /\ UNCHANGED <<table, locks>>

UpdateSave(c) ==
    /\ op[c] = "update"
    /\ KeysHold(c)
    /\ SaveDraft(c)
    /\ UNCHANGED vehicles

\* Only a movement without an observation may be removed.
RemoveLoad(c, i) ==
    /\ i \in Present /\ rows[i].obs = None
    /\ Begin(c, "remove", {i}, NoDraft, None)
    /\ UNCHANGED <<table, locks>>

RemoveRow(c) ==
    /\ op[c] = "remove"
    /\ Unlocked(c, want[c])
    /\ rows' = [i \in Ids |-> IF i \in want[c] THEN None ELSE rows[i]]
    /\ UNCHANGED <<nextId, vehicles, live>>
    /\ End(c)

-----------------------------------------------------------------------------
(* MovementAutoService: a movement for an observation, confirmed by the    *)
(* gatekeeper or registered automatically.                                 *)

NewId == nextId <= MaxMovements /\ nextId' = nextId + 1

\* The observation row is locked; a known movement is returned as it is.
ConfirmRead(c, o, type, time) ==
    /\ obsLock[o] = None
    /\ Existing(o) = {} /\ o \in live
    /\ Compatible(ObsPoint[o], type)
    /\ NewId
    /\ LET r == [obs |-> o, point |-> ObsPoint[o], vehicle |-> ObsPlate[o], plate |-> None,
                 type |-> type, time |-> time, status |-> "open"]
       IN \E d \in InsertDrafts(nextId, r) : Begin(c, "confirm", {nextId}, d, None)
    /\ obsLock' = [obsLock EXCEPT ![o] = c]
    /\ UNCHANGED <<rows, vehicles, live, rowLock>>

\* The vehicle is found or created in the same transaction.
ConfirmCommit(c) ==
    /\ op[c] = "confirm"
    /\ ObservationsUnique(c)
    /\ vehicles' = vehicles \cup {draft[c][i].vehicle : i \in Drafted(c)}
    /\ SaveDraft(c)

\* The recognized plate p may differ from the observation's: the external
\* provider corrects it.  Without a vehicle the movement awaits review.
AutoRead(c, o, p) ==
    /\ Existing(o) = {}
    /\ NewId
    /\ LET known == p \in vehicles
           r == [obs |-> o, point |-> ObsPoint[o], vehicle |-> IF known THEN p ELSE None, plate |-> p,
                 type |-> AutoType(ObsPoint[o]), time |-> ObsTime[o],
                 status |-> IF known THEN "open" ELSE "pending_review"]
       IN \E d \in InsertDrafts(nextId, r) : Begin(c, "auto", {nextId}, d, None)
    /\ UNCHANGED <<rows, vehicles, live, locks>>

AutoCommit(c) ==
    /\ op[c] = "auto"
    /\ KeysHold(c)
    /\ SaveDraft(c)
    /\ UNCHANGED vehicles

-----------------------------------------------------------------------------
(* MovementReconciliationService: review of pending movements (under row   *)
(* locks) and reconciliation of a period (without any).                    *)

DiscardBegin(c, ids) ==
    /\ ids # {} /\ ids \subseteq Present
    /\ Begin(c, "discard", ids, NoDraft, None)
    /\ UNCHANGED <<table, locks>>

RecalculateBegin(c, i, v) ==
    /\ i \in Present
    /\ Begin(c, "recalculate", {i}, NoDraft, v)
    /\ UNCHANGED <<table, locks>>

Locking(c) == op[c] \in {"discard", "recalculate", "same_plate"}

\* SELECT ... FOR UPDATE locks its rows one after the other.
Lock(c, i) ==
    /\ Locking(c)
    /\ i \in want[c] /\ rowLock[i] = None
    /\ rowLock' = [rowLock EXCEPT ![i] = c]
    /\ UNCHANGED <<table, request, obsLock>>

\* Mutant: SELECT without FOR UPDATE.
UnlockedRead(c) == want[c] \subseteq Ids

AllLocked(c) == \A i \in want[c] : rowLock[i] = c

Pending(i) == rows[i] # None /\ rows[i].status = "pending_review"

DiscardCommit(c) ==
    /\ op[c] = "discard" /\ AllLocked(c)
    /\ \A i \in want[c] : Pending(i)
    /\ rows' = [i \in Ids |-> IF i \in want[c] THEN [rows[i] EXCEPT !.status = "discarded"] ELSE rows[i]]
    /\ UNCHANGED <<nextId, vehicles, live>>
    /\ End(c)

\* With the reviewed row locked: the entity to save, and the rows that share
\* a plate with it, to be locked next.
RecalculateRead(c) ==
    /\ op[c] = "recalculate" /\ AllLocked(c)
    /\ \E i \in want[c] :
          /\ Pending(i) /\ arg[c] \in vehicles
          /\ draft' = [draft EXCEPT ![c][i] =
                          [rows[i] EXCEPT !.vehicle = arg[c], !.status = "open", !.plate = None]]
          /\ want' = [want EXCEPT ![c] = {i} \cup SamePlate(i, arg[c])]
    /\ op' = [op EXCEPT ![c] = "same_plate"]
    /\ UNCHANGED <<table, locks, arg>>

\* Readings of the same passage are discarded; the others stay pending.
Duplicate(c, i) ==
    /\ i \in want[c] /\ Pending(i) /\ i \notin Drafted(c)
    /\ \E j \in Drafted(c) : SamePassage(rows[i], draft[c][j])

RecalculateCommit(c) ==
    /\ op[c] = "same_plate" /\ AllLocked(c)
    /\ arg[c] \in vehicles
    /\ rows' = [i \in Ids |-> IF i \in Drafted(c) THEN draft[c][i]
                              ELSE IF Duplicate(c, i) THEN [rows[i] EXCEPT !.status = "discarded"]
                              ELSE rows[i]]
    /\ UNCHANGED <<nextId, vehicles, live>>
    /\ End(c)

ReconcileRead(c, from, to) ==
    /\ from <= to
    /\ Begin(c, "reconcile", {}, ReconcileDraft(from, to), None)
    /\ UNCHANGED <<table, locks>>

ReconcileSave(c) ==
    /\ op[c] = "reconcile"
    /\ KeysHold(c)
    /\ SaveDraft(c)
    /\ UNCHANGED vehicles

-----------------------------------------------------------------------------
(* Requests that fail change nothing: their transaction is rolled back.    *)

\* Mutant: a reviewer waits for a movement to become pending again.
RefusedByDatabase(c) ==
    \/ op[c] \in {"update", "auto", "reconcile"} /\ ~KeysHold(c)
    \/ op[c] = "confirm" /\ ~ObservationsUnique(c)
    \/ op[c] \in {"recalculate", "same_plate"} /\ AllLocked(c) /\ arg[c] \notin vehicles

\* An error the code or the database reports once the request holds its locks.
Refused(c) ==
    \/ op[c] \in {"update", "auto", "reconcile"} /\ ~KeysHold(c)
    \/ op[c] = "confirm" /\ ~ObservationsUnique(c)
    \/ op[c] \in {"discard", "recalculate"} /\ AllLocked(c) /\ \E i \in want[c] : ~Pending(i)
    \/ op[c] \in {"recalculate", "same_plate"} /\ AllLocked(c) /\ arg[c] \notin vehicles

Refuse(c) ==
    /\ Refused(c)
    /\ UNCHANGED table
    /\ End(c)

\* Clients that wait for each other's rows.
Deadlocked(D) ==
    /\ D # {}
    /\ \A d \in D : Locking(d) /\ \E i \in want[d] : rowLock[i] \in D \ {d}

\* PostgreSQL aborts one of them.
DeadlockVictim(c) ==
    /\ \E D \in SUBSET Clients : c \in D /\ Deadlocked(D)
    /\ UNCHANGED table
    /\ End(c)

\* The process or its connection dies; the database rolls back.
Crash(c) ==
    /\ op[c] # "idle"
    /\ UNCHANGED table
    /\ End(c)

-----------------------------------------------------------------------------

Init ==
    /\ rows = [i \in Ids |-> None]
    /\ nextId = 1
    /\ vehicles = {}
    /\ live = Observations
    /\ rowLock = [i \in Ids |-> None]
    /\ obsLock = [o \in Observations |-> None]
    /\ op = [c \in Clients |-> "idle"]
    /\ want = [c \in Clients |-> {}]
    /\ draft = [c \in Clients |-> NoDraft]
    /\ arg = [c \in Clients |-> None]

Start(c) ==
    \/ /\ "update" \in Enabled
       /\ \E i \in Present, v \in Plates, p \in Points \cup {None}, ty \in Type, t \in Times, s \in Status :
             UpdateLoad(c, i, [rows[i] EXCEPT !.vehicle = v, !.point = p, !.type = ty,
                                              !.time = t, !.status = s])
    \/ "remove" \in Enabled /\ \E i \in Present : RemoveLoad(c, i)
    \/ "confirm" \in Enabled /\ \E o \in Observations, ty \in Type, t \in Times : ConfirmRead(c, o, ty, t)
    \/ "auto" \in Enabled /\ \E o \in Observations, p \in Plates : AutoRead(c, o, p)
    \/ "discard" \in Enabled /\ \E ids \in SUBSET Present : DiscardBegin(c, ids)
    \/ "recalculate" \in Enabled /\ \E i \in Present, v \in Plates : RecalculateBegin(c, i, v)
    \/ "reconcile" \in Enabled /\ \E from, to \in Times : ReconcileRead(c, from, to)

Finish(c) ==
    \/ UpdateSave(c) \/ RemoveRow(c) \/ ConfirmCommit(c) \/ AutoCommit(c)
    \/ DiscardCommit(c) \/ RecalculateRead(c) \/ RecalculateCommit(c) \/ ReconcileSave(c)
    \/ Refuse(c) \/ DeadlockVictim(c)

Environment ==
    \/ "register" \in Enabled /\ \E v \in Plates : Register(v)
    \/ "unregister" \in Enabled /\ \E v \in Plates : Unregister(v)
    \/ \E o \in Observations : Expire(o)
    \/ /\ "create" \in Enabled
       /\ \E v \in Plates, p \in Points \cup {None}, ty \in Type, t \in Times, s \in Confirmed :
             Create([obs |-> None, point |-> p, vehicle |-> v, plate |-> None,
                     type |-> ty, time |-> t, status |-> s])

Next ==
    \/ Environment
    \/ \E c \in Clients : Start(c) \/ Finish(c) \/ Crash(c) \/ \E i \in Ids : Lock(c, i)

Spec == Init /\ [][Next]_vars

\* A running request is carried on, and PostgreSQL grants row locks in the
\* order in which they were asked for.
Fairness ==
    \A c \in Clients : SF_vars(Finish(c)) /\ \A i \in Ids : SF_vars(Lock(c, i))

FairSpec == Spec /\ Fairness

-----------------------------------------------------------------------------
(* Properties.                                                             *)

Draft == [Ids -> Row \cup {None}]

TypeOK ==
    /\ rows \in [Ids -> Row \cup {None}]
    /\ nextId \in 1 .. MaxMovements + 1
    /\ vehicles \subseteq Plates
    /\ live \subseteq Observations
    /\ rowLock \in [Ids -> Clients \cup {None}]
    /\ obsLock \in [Observations -> Clients \cup {None}]
    /\ op \in [Clients -> {"idle", "update", "remove", "confirm", "auto", "discard",
                           "recalculate", "same_plate", "reconcile"}]
    /\ want \in [Clients -> SUBSET Ids]
    /\ draft \in [Clients -> Draft]
    /\ arg \in [Clients -> Plates \cup Status \cup {None}]

\* An observation has at most one movement, whichever requests confirm and
\* register it at the same time (movement.docs.ts, "Idempotência").
OneMovementPerObservation ==
    \A i, j \in Present : rows[i].obs # None /\ rows[i].obs = rows[j].obs => i = j

\* A movement awaits review exactly as long as no vehicle is bound to it, and
\* only a movement of an observation ever does; a discarded one has no vehicle.
ReviewMatchesVehicle ==
    \A i \in Present :
        /\ rows[i].status \in Confirmed <=> rows[i].vehicle # None
        /\ rows[i].status \in {"pending_review", "discarded"} => rows[i].obs # None

\* Review decides once: a discarded movement stays discarded, a confirmed one
\* is never pending or discarded again, whatever other requests remember.
ReviewIsFinal ==
    [][\A i \in Present :
          /\ rows[i].status = "discarded" => rows'[i] = rows[i]
          /\ rows[i].status \in Confirmed /\ rows'[i] # None => rows'[i].status \in Confirmed]_rows

\* The vehicle, gate and direction of an observed movement never change once
\* it is confirmed ("O contexto de um movimento confirmado é imutável").
ObservedContextImmutable ==
    [][\A i \in Present : rows[i].obs # None =>
          /\ rows'[i] # None
          /\ rows'[i].obs = rows[i].obs /\ rows'[i].point = rows[i].point /\ rows'[i].type = rows[i].type
          /\ rows[i].vehicle # None => rows'[i].vehicle = rows[i].vehicle]_rows

\* A closed entry was left: the same vehicle has a closed exit from the same
\* unit, not earlier.  Holds as long as nobody edits or removes movements.
ClosedEntryWasLeft ==
    \A i \in Present : rows[i].type = "entry" /\ rows[i].status = "closed" =>
        \E j \in Present : /\ rows[j].type = "exit" /\ rows[j].status = "closed"
                          /\ SameVisit(rows[j], rows[i]) /\ rows[i].time <= rows[j].time

\* Every request ends, reviewers that lock each other's rows included.
EveryRequestEnds == \A c \in Clients : op[c] # "idle" ~> op[c] = "idle"
=============================================================================
