----------------------------- MODULE VisitPairing -----------------------------
(***************************************************************************)
(* The three places that pair the entries and exits of one vehicle in one  *)
(* unit: closeUnitVisit, when a movement is confirmed; reconcile, which    *)
(* pairs a whole period again; and the report of dwell times               *)
(* (MovementTimeService).  The last two walk the movements in order and    *)
(* keep the entries without an exit on a stack.                            *)
(***************************************************************************)
EXTENDS Pairing, Sequences

CONSTANTS
    MaxMovements,   \* bound: movements of the group
    MaxTime         \* bound: instants are 1 .. MaxTime

ASSUME VisitAssumption == MaxMovements \in Nat /\ MaxTime \in Nat

Ids == 1 .. MaxMovements
Times == 1 .. MaxTime

VARIABLES
    movements,    \* the confirmed movements; ids follow the order of creation
    status,       \* [Ids -> status in the table]
    ordered,      \* history: every movement was observed, later than the ones before
    phase,        \* "arrivals", then the two walks, "reconcile" and "report"
    left,         \* movements the walk has not reached
    openEntries,  \* its stack
    staged,       \* the statuses of the entities in reconcile's memory
    pairs         \* the visits <<entry, exit>> each walk found

vars == <<movements, status, ordered, phase, left, openEntries, staged, pairs>>

Movement == [id: Ids, type: {"entry", "exit"}, time: Times]

-----------------------------------------------------------------------------
(* Movements are created.                                                  *)

OpenUntil(t) == {e \in Of(movements, "entry") : status[e.id] = "open" /\ e.time <= t}

\* Mutant: ORDER BY dateTime ASC.
EarliestOpen(t) == {e \in OpenUntil(t) : \A f \in OpenUntil(t) : e.time <= f.time}

\* ORDER BY dateTime DESC LIMIT 1: the database breaks ties.
LatestOpen(t) == {e \in OpenUntil(t) : \A f \in OpenUntil(t) : f.time <= e.time}

\* An exit is closed at once, together with the entry it finishes.
CloseUnitVisit(m) ==
    \/ m.type = "entry" /\ status' = [status EXCEPT ![m.id] = "open"]
    \/ /\ m.type = "exit" /\ OpenUntil(m.time) = {}
       /\ status' = [status EXCEPT ![m.id] = "closed"]
    \/ /\ m.type = "exit"
       /\ \E e \in LatestOpen(m.time) : status' = [status EXCEPT ![m.id] = "closed", ![e.id] = "closed"]

Arrive(m) ==
    /\ phase = "arrivals"
    /\ m.id = Cardinality(movements) + 1
    /\ movements' = movements \cup {m}
    /\ UNCHANGED <<phase, left, openEntries, staged, pairs>>

\* A confirmed observation.
Observed(m) ==
    /\ Arrive(m)
    /\ CloseUnitVisit(m)
    /\ ordered' = (ordered /\ \A x \in movements : x.time < m.time)

\* POST /movement takes the status from the request and closes nothing.
Manual(m, s) ==
    /\ Arrive(m)
    /\ status' = [status EXCEPT ![m.id] = s]
    /\ ordered' = FALSE

-----------------------------------------------------------------------------
(* The walks.                                                              *)

Start ==
    /\ phase = "arrivals"
    /\ phase' = "reconcile"
    /\ left' = movements
    /\ staged' = status
    /\ UNCHANGED <<movements, status, ordered, openEntries, pairs>>

\* reconcile breaks ties by createdAt, the report by the (random) id.
IsNext(m) ==
    \/ phase = "reconcile" /\ \A x \in left : m = x \/ Before(m, x)
    \/ phase = "report" /\ \A x \in left : m.time <= x.time

Take(m) ==
    /\ m \in left /\ IsNext(m)
    /\ left' = left \ {m}
    /\ UNCHANGED <<movements, status, ordered, phase>>

Push(m) ==
    /\ m.type = "entry" /\ Take(m)
    /\ openEntries' = Append(openEntries, m)
    /\ UNCHANGED <<staged, pairs>>

\* stageStatusChange, for the entities of both movements.
Stage(s, ids) ==
    staged' = IF phase = "reconcile"
              THEN [i \in Ids |-> IF i \in ids THEN s ELSE staged[i]]
              ELSE staged

\* Mutant: openEntries.shift().
PairFirst(m) ==
    /\ m.type = "exit" /\ Take(m)
    /\ openEntries # <<>>
    /\ openEntries' = Tail(openEntries)
    /\ pairs' = [pairs EXCEPT ![phase] = @ \cup {<<Head(openEntries), m>>}]
    /\ Stage("closed", {Head(openEntries).id, m.id})

Pair(m) ==
    /\ m.type = "exit" /\ Take(m)
    /\ openEntries # <<>>
    /\ openEntries' = SubSeq(openEntries, 1, Len(openEntries) - 1)
    /\ LET entry == openEntries[Len(openEntries)]
       IN /\ pairs' = [pairs EXCEPT ![phase] = @ \cup {<<entry, m>>}]
          /\ Stage("closed", {entry.id, m.id})

\* unmatchedExits: the exit is left as it is.
Unmatched(m) ==
    /\ m.type = "exit" /\ Take(m)
    /\ openEntries = <<>>
    /\ UNCHANGED <<openEntries, staged, pairs>>

\* Mutant: entries without an exit keep their status.
KeepOpenEntries == phase = "reconcile" /\ openEntries' = <<>> /\ UNCHANGED staged

\* The entries that are left on the stack are open again.
Reopen == openEntries' = <<>> /\ Stage("open", {openEntries[k].id : k \in 1 .. Len(openEntries)})

\* repository.save of what differs.
Save ==
    /\ phase = "reconcile" /\ left = {}
    /\ Reopen
    /\ status' = staged'
    /\ phase' = "report"
    /\ left' = movements
    /\ UNCHANGED <<movements, ordered, pairs>>

\* Further entries on the stack are reported as visits that go on.
Report ==
    /\ phase = "report" /\ left = {}
    /\ phase' = "done"
    /\ UNCHANGED <<movements, status, ordered, left, openEntries, staged, pairs>>

-----------------------------------------------------------------------------

Init ==
    /\ movements = {}
    /\ status = [i \in Ids |-> "open"]
    /\ ordered = TRUE
    /\ phase = "arrivals"
    /\ left = {} /\ openEntries = <<>>
    /\ staged = status
    /\ pairs = [walk \in {"reconcile", "report"} |-> {}]

Next ==
    \/ \E m \in Movement : Observed(m) \/ \E s \in {"open", "closed"} : Manual(m, s)
    \/ Start \/ Save \/ Report
    \/ \E m \in left : Push(m) \/ Pair(m) \/ Unmatched(m)

Spec == Init /\ [][Next]_vars

-----------------------------------------------------------------------------
(* Properties.                                                             *)

\* Visits nest: a movement belongs to one visit at most, and whatever happens
\* inside a visit belongs to a visit inside it ("uma saída fecha a entrada mais
\* recente ainda em aberto").
VisitsNest ==
    \A walk \in {"reconcile", "report"} : \A p \in pairs[walk] :
        /\ p[1].time <= p[2].time
        /\ \A q \in pairs[walk] : p # q => p[1] # q[1] /\ p[2] # q[2]
        /\ \A m \in movements : p[1].time < m.time /\ m.time < p[2].time =>
              \E q \in pairs[walk] : /\ m \in {q[1], q[2]}
                                    /\ p[1].time <= q[1].time /\ q[2].time <= p[2].time

\* The stack computes what Pairing states by counting (and what Movements uses).
ReconcileCountsVisits ==
    [][phase = "reconcile" /\ phase' # phase =>
          \A m \in movements : status'[m.id] = ReconciledStatus(movements, m, status[m.id])]_vars

\* Movements that were observed one after the other are already paired as
\* reconcile pairs them: closing visits as they end and pairing the whole period
\* agree, so reconcile changes nothing.
NothingToReconcile ==
    [][phase = "reconcile" /\ phase' # phase /\ ordered => status' = status]_vars
=============================================================================
