-------------------------- MODULE RegistrationClaims --------------------------
(***************************************************************************)
(* What the documentation says of the cooldown of automatic registrations  *)
(* and the code does not keep.                                             *)
(***************************************************************************)
EXTENDS Registration

\* Automatic movements of one plate, the earlier first.
Repeats == {jk \in (1 .. Len(movements)) \X (1 .. Len(movements)) :
               /\ jk[1] < jk[2]
               /\ movements[jk[1]].plate = movements[jk[2]].plate
               /\ movements[jk[1]].plate # None}

\* company-config.docs.ts:35, "Intervalo mínimo em segundos entre registros
\* automáticos do mesmo veículo no mesmo ponto. Evita duplicidades.": whenever its
\* vehicle was registered, a plate that was captured and registered automatically
\* is not registered so again before the cooldown is over.  A vehicle registered
\* after the first movement is looked up by its identifier (movement-auto.service.ts:169),
\* which that movement does not have.
CooldownKeptForNewVehicle ==
    \A jk \in Repeats : movements[jk[1]].time + Cooldown <= movements[jk[2]].at
=============================================================================
