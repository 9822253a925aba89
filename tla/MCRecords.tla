------------------------------ MODULE MCRecords ------------------------------
(***************************************************************************)
(* Small instances of three parts of the API that share nothing, checked   *)
(* in one run: a behaviour is one of the administration's requests, one of *)
(* the readings, jobs, reviews and purges of observations, or one of the   *)
(* job queue when it has room for one camera of three.                     *)
(***************************************************************************)
EXTENDS Administration, Evidence, EventPipeline, TLC

CONSTANTS client1, client2, seen1, seen2, reader1, camera1, camera2, camera3

VARIABLE part   \* the part of this behaviour

recordsVars == <<part, administrationVars, evidenceVars, vars>>

\* The parts share no model value, so that one exchange serves them all.
Exchange(x, y) == (x :> y) @@ (y :> x)
RecordsSymmetry ==
    {Exchange(client1, client2) @@ Exchange(seen1, seen2) @@ p : p \in Permutations(Cameras)}

\* A founded company "k" with its administrator, an operator, a unit and a
\* gate; company "l", and a user, unit, gate and camera, are still to come.
OneCompany ==
    ("k" :> CompanyRow("k")) @@ ("boss" :> UserRow("k", "admin")) @@ ("joe" :> UserRow("k", "user"))
      @@ ("yard" :> UnitRow("k")) @@ ("gate" :> PointRow("k", "yard"))

\* Both companies exist and have a gate each.
TwoCompanies ==
    OneCompany @@ ("l" :> CompanyRow("l")) @@ ("new" :> UserRow("l", "admin"))
      @@ ("dock" :> UnitRow("l")) @@ ("door" :> PointRow("l", "dock"))

MCFirstRows == {OneCompany, TwoCompanies}

OneGate == [camera \in Cameras |-> "gate"]

\* Bounds of the two parts about observations: "evidence" is about one that may
\* be seen twice, "photos" about two of which no answer is bought.
EvidenceBound ==
    /\ part = "evidence" => Cardinality({o \in Observations : seen[o] > 0}) <= 1
    /\ part = "photos" => /\ \A o \in Observations : seen[o] <= 1
                          /\ audit = <<>>

\* Two requests that overlap are enough when both companies exist.
TenantsBound == part = "tenants" => asked <= 2

RecordsInit ==
    /\ part \in {"administration", "tenants", "evidence", "photos", "queue"}
    /\ AdministrationInit /\ EvidenceInit /\ Init
    /\ part = "tenants" <=> "l" \in Present(rows)

RecordsNext ==
    /\ UNCHANGED part
    /\ \/ /\ part \in {"administration", "tenants"}
          /\ AdministrationNext /\ TenantsBound' /\ UNCHANGED <<evidenceVars, vars>>
       \/ /\ part \in {"evidence", "photos"}
          /\ EvidenceNext /\ EvidenceBound' /\ UNCHANGED <<administrationVars, vars>>
       \/ part = "queue" /\ Next /\ UNCHANGED <<administrationVars, evidenceVars>>

RecordsSpec == RecordsInit /\ [][RecordsNext]_recordsVars

\* The tables of the administration and of observations, and what requests,
\* the job, reviews and the purge remember, keep their types; settings, links
\* and tokens refer to what exists.
RecordsTypeOK == AdministrationTypeOK /\ EvidenceTypeOK
=============================================================================
