------------------------------- MODULE MCVisits -------------------------------
(***************************************************************************)
(* The pairing of visits and the reports on them, in one run: a behaviour  *)
(* follows the movements of one unit through both walks (VisitPairing) or  *)
(* the movements of a vehicle through its reports (Reports).               *)
(***************************************************************************)
EXTENDS VisitPairing, Reports

CONSTANTS a, b

\* A journey during the first minute of a day, and one that crosses midnight.
MCRequests ==
    {[from |-> None, to |-> None, unit |-> None, journey |-> [start |-> 0, end |-> 0, days |-> {}]],
     [from |-> 1, to |-> 3, unit |-> None, journey |-> [start |-> 1, end |-> 0, days |-> {2}]]}
      \cup {[from |-> None, to |-> 2, unit |-> u, journey |-> [start |-> 1, end |-> None, days |-> {1}]] :
                u \in Units}

UnitSymmetry == Permutations(Units)

VisitsInit == Init /\ ReportInit

VisitsNext ==
    \/ passages = {} /\ report = None /\ Next /\ UNCHANGED reportVars
    \/ movements = {} /\ phase = "arrivals" /\ ReportNext /\ UNCHANGED vars

VisitsSpec == VisitsInit /\ [][VisitsNext]_<<vars, reportVars>>
=============================================================================
