--------------------------- MODULE MovementsClaims ---------------------------
(***************************************************************************)
(* What the documentation and the comments of the repository say of        *)
(* movements and the code does not do.                                     *)
(***************************************************************************)
EXTENDS Movements

\* zod.util.ts:8, "garante que os updates só alterem os campos realmente
\* enviados": an update that does not send the status leaves it alone, and a
\* movement that was removed stays so.  The update saves the entity it read: it
\* undoes a status that was committed meanwhile and inserts a removed row again.
UpdateAltersOnlySentFields ==
    [][\A c \in Clients : op[c] = "update" /\ op'[c] = "idle" /\ arg[c] = None =>
          \A i \in want[c] : /\ rows[i] = None => rows'[i] = None
                             /\ rows[i] # None => rows'[i].status = rows[i].status]_rows
=============================================================================
