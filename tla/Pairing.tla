------------------------------- MODULE Pairing -------------------------------
(***************************************************************************)
(* Which passages of one vehicle through one unit pair up as visits.       *)
(* A passage is a record with at least the fields id, type and time.       *)
(* MovementReconciliationService.reconcile keeps the entries without an    *)
(* exit on a stack: an exit takes the latest of them, as a closing         *)
(* parenthesis takes the last one opened.  A passage is therefore paired   *)
(* exactly when the run up to some later (earlier) passage outweighs it,   *)
(* which is how it is stated here.  VisitPairing holds the stack itself.   *)
(***************************************************************************)
EXTENDS Naturals, FiniteSets

\* ORDER BY dateTime, createdAt: ids stand for the order of creation.
Before(a, b) == a.time < b.time \/ (a.time = b.time /\ a.id < b.id)

Of(M, type) == {m \in M : m.type = type}

\* The passages after a, up to and including b.
After(M, a, b) == {m \in M : Before(a, m) /\ ~Before(b, m)}

\* The passages from a on, before b.
Until(M, a, b) == {m \in M : ~Before(m, a) /\ Before(m, b)}

Outweighs(M, type, other) == Cardinality(Of(M, type)) > Cardinality(Of(M, other))

EntryPaired(M, e) ==
    \E x \in Of(M, "exit") : Before(e, x) /\ Outweighs(After(M, e, x), "exit", "entry")

\* The exit that ends the visit begun by e, when e is paired: the first one up
\* to which the exits outweigh the entries.
EndsVisit(M, e, x) ==
    /\ Before(e, x) /\ Outweighs(After(M, e, x), "exit", "entry")
    /\ \A y \in M : Before(e, y) /\ Before(y, x) => ~Outweighs(After(M, e, y), "exit", "entry")

VisitEnd(M, e) == CHOOSE x \in Of(M, "exit") : EndsVisit(M, e, x)

ExitPaired(M, x) ==
    \E e \in Of(M, "entry") : Before(e, x) /\ Outweighs(Until(M, e, x), "entry", "exit")

Paired(M, m) == IF m.type = "entry" THEN EntryPaired(M, m) ELSE ExitPaired(M, m)

\* The status reconcile gives a passage: an unmatched exit keeps its own.
ReconciledStatus(M, m, status) ==
    IF Paired(M, m) THEN "closed"
    ELSE IF m.type = "entry" THEN "open" ELSE status
=============================================================================
