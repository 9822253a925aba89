----------------------------- MODULE MCMovements -----------------------------
(* Small companies for TLC: one unit with an entry gate "in", an exit gate  *)
(* "out" and, in some instances, a two-way gate "both".                     *)
EXTENDS MovementsClaims, TLC

ClientSymmetry == Permutations(Clients)

MCPointType == [p \in Points |-> IF p = "in" THEN "entry" ELSE IF p = "out" THEN "exit" ELSE "both"]
MCPointUnit == [p \in Points |-> "unit"]
MCObsPlate == [o \in Observations |-> "A"]

\* Every observation at the entry: readings of one passage.
AtEntry == [o \in Observations |-> "in"]
\* Every observation at a gate of both directions.
AtBoth == [o \in Observations |-> "both"]
AtOnce == [o \in Observations |-> 1]

\* "o1" entered, the other observations left later, through any exit gate.
InThenOut == [o \in Observations |-> IF o = "o1" THEN "in" ELSE "out"]
FirstThenLast == [o \in Observations |-> IF o = "o1" THEN 1 ELSE MaxTime]
=============================================================================
