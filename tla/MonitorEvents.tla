---------------------------- MODULE MonitorEvents ----------------------------
(***************************************************************************)
(* MonitorEvents (anpr-service/app/services/events.py): the wake-up feed   *)
(* of the ANPR service.  It lives in the process: a restart starts a new   *)
(* epoch.  An event only names a camera; whoever reads it fetches the      *)
(* camera's current state.                                                 *)
(***************************************************************************)
EXTENDS Naturals, Sequences

CONSTANTS
    Cameras,
    Capacity,   \* maxlen of the deque
    None        \* Python's None, TypeScript's undefined

ASSUME FeedAssumption == Capacity \in Nat \ {0} /\ None \notin Cameras

VARIABLES
    epoch,      \* uuid4 of the process
    sequence,   \* number of events published in this epoch
    entries     \* the cameras of the last events, at most Capacity

feed == <<epoch, sequence, entries>>

FeedInit ==
    /\ epoch = 0
    /\ sequence = 0
    /\ entries = <<>>

\* The sequence number of the k-th entry.
Number(k) == sequence - Len(entries) + k

\* deque(maxlen): the oldest entry makes room.
Publish(c) ==
    /\ sequence' = sequence + 1
    /\ entries' = IF Len(entries) < Capacity THEN Append(entries, c) ELSE Append(Tail(entries), c)
    /\ UNCHANGED epoch

FeedRestart ==
    /\ epoch' = epoch + 1
    /\ sequence' = 0
    /\ entries' = <<>>

\* Mutant: what the deque forgot is not noticed.
ResetOfAnotherEpoch(cursor) ==
    \/ cursor = None
    \/ cursor.epoch # epoch
    \/ cursor.position > sequence

\* Mutant: the epoch of the cursor is not compared.
ResetWithoutEpoch(cursor) ==
    \/ cursor = None
    \/ cursor.position + Len(entries) < sequence
    \/ cursor.position > sequence

\* A cursor is understood when no event after it has been forgotten.
Reset(cursor) ==
    \/ cursor = None
    \/ cursor.epoch # epoch
    \/ cursor.position + Len(entries) < sequence
    \/ cursor.position > sequence

\* The cameras an answer names: all monitored ones after a reset, otherwise
\* those of the events after the cursor.
Named(cursor, monitors) ==
    IF Reset(cursor) THEN monitors
    ELSE {entries[k] : k \in {j \in 1 .. Len(entries) : Number(j) > cursor.position}}

\* poll: what it answers, at once or when its wait is over.
Answer(cursor, monitors) ==
    [cursor |-> [epoch |-> epoch, position |-> sequence],
     reset  |-> Reset(cursor),
     events |-> Named(cursor, monitors)]

Batch == [cursor: [epoch: Nat, position: Nat], reset: BOOLEAN, events: SUBSET Cameras]

FeedTypeOK ==
    /\ epoch \in Nat
    /\ sequence \in Nat
    /\ entries \in Seq(Cameras)
    /\ Len(entries) <= Capacity /\ Len(entries) <= sequence
=============================================================================
