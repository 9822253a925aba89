-------------------------- MODULE VisitPairingClaims --------------------------
(***************************************************************************)
(* What the code says of its walks and does not keep.                      *)
(***************************************************************************)
EXTENDS VisitPairing

\* The report pairs entries and exits as reconcile does ("mesma regra do
\* reconcile", movement-time.service.ts:121).  It does not when movements happen
\* at one instant: reconcile orders them by createdAt, the report by their
\* random ids, so that one of them may see an exit before its entry.
ReportFollowsReconcile == phase = "done" => pairs["report"] = pairs["reconcile"]
=============================================================================
