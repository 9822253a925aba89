---------------------------- MODULE RecordsProofs ----------------------------
(***************************************************************************)
(* Proofs about the records of the API: Administration, for any sets of    *)
(* ids, any number of clients and any coherent first rows, and Evidence,   *)
(* for any observations, readers and answers of the external service, and  *)
(* any number of failures and crashes.                                     *)
(***************************************************************************)
EXTENDS MCRecords, FiniteSetTheorems, SequenceTheorems, TLAPS

-----------------------------------------------------------------------------
(* Rows.                                                                   *)

AnyTable == [Ids -> RowShape \cup {Null}]

\* Everything but a user's role is given to a row once.
SameIdentity(x, y) ==
    x.table = y.table /\ x.company = y.company /\ x.unit = y.unit /\ x.point = y.point

LEMMA RowsAre ==
  ASSUME NEW id \in Ids, NEW x \in RowsOf(id)
  PROVE  /\ x \in RowShape /\ x # Null
         /\ id \in CompanyIds => x = CompanyRow(id) /\ x.company = id
         /\ id \in UserIds <=> x.table = "user"
         /\ id \notin UserIds => x.role = Null /\ x.company \in CompanyIds
         /\ id \in UserIds => x.role \in Roles
         /\ x.unit # Null => id \in PointIds \cup CameraIds /\ x.table \in {"point", "camera"}
         /\ x.point # Null => id \in CameraIds /\ x.table = "camera"
         /\ x.table \in {"company", "user"} <=> id \in CompanyIds \cup UserIds
         /\ x.table = "point" <=> id \in PointIds
         /\ x.table = "camera" <=> id \in CameraIds
<1>0. Null \notin Ids \cup Roles \cup RowShape /\ Ids = CompanyIds \cup UserIds \cup UnitIds \cup PointIds \cup CameraIds
  BY AdministrationAssumption DEF Ids
<1> USE AdministrationAssumption DEF Row, Roles
<1>1. CASE id \in CompanyIds
  BY <1>0, <1>1 DEF RowsOf, CompanyRow, RowShape
<1>2. CASE id \in UserIds
  <2>1. id \notin CompanyIds
    BY <1>2
  <2>2. PICK k \in CompanyIds \cup {Null}, r \in Roles : x = UserRow(k, r)
    BY <1>2, <2>1 DEF RowsOf
  <2>3. x = [table |-> "user", company |-> k, role |-> r, unit |-> Null, point |-> Null]
    BY <2>2 DEF UserRow
  <2> QED  BY <1>0, <1>2, <2>1, <2>2, <2>3 DEF RowShape
<1>3. CASE id \in UnitIds
  <2>1. id \notin CompanyIds /\ id \notin UserIds
    BY <1>3
  <2>2. PICK k \in CompanyIds : x = UnitRow(k)
    BY <1>3, <2>1 DEF RowsOf
  <2> QED  BY <1>0, <1>3, <2>1, <2>2 DEF UnitRow, RowShape
<1>4. CASE id \in PointIds
  <2>1. id \notin CompanyIds /\ id \notin UserIds /\ id \notin UnitIds
    BY <1>4
  <2>2. PICK k \in CompanyIds, n \in UnitIds : x = PointRow(k, n)
    BY <1>4, <2>1 DEF RowsOf
  <2>3. x = [table |-> "point", company |-> k, role |-> Null, unit |-> n, point |-> Null]
    BY <2>2 DEF PointRow
  <2> QED  BY <1>0, <1>4, <2>1, <2>2, <2>3 DEF RowShape
<1>5. CASE id \in CameraIds
  <2>1. id \notin CompanyIds /\ id \notin UserIds /\ id \notin UnitIds /\ id \notin PointIds
    BY <1>5
  <2>2. PICK k \in CompanyIds, n \in UnitIds, p \in PointIds : x = CameraRow(k, n, p)
    BY <1>5, <2>1 DEF RowsOf
  <2>3. x = [table |-> "camera", company |-> k, role |-> Null, unit |-> n, point |-> p]
    BY <2>2 DEF CameraRow
  <2> QED  BY <1>0, <1>5, <2>1, <2>2, <2>3 DEF RowShape
<1> QED  BY <1>1, <1>2, <1>3, <1>4, <1>5 DEF Ids

-----------------------------------------------------------------------------
(* The inductive invariant.                                                *)

Tokens == [user: UserIds, role: Roles, company: CompanyIds \cup {Null}]

RequestState ==
    [phase: {"idle", "asked", "checked"}, token: Tokens \cup {Null}, op: Ops \cup {Null},
     id: Ids \cup {Null}, entity: RowShape \cup {Null}, points: SUBSET PointIds]

Typed ==
    /\ rows \in AnyTable /\ \A id \in Present(rows) : rows[id] \in RowsOf(id) /\ id \in born
    /\ born \subseteq Ids
    /\ configs \subseteq Present(rows) \cap CompanyIds
    /\ links \subseteq (Present(rows) \cap UserIds) \X (Present(rows) \cap PointIds)
    /\ tokens \subseteq Tokens /\ \A t \in tokens : t.company \in born \cup {Null}
    /\ requests \in [Clients -> RequestState]
    /\ \A c \in Clients :
          \/ requests[c] = Idle
          \/ /\ requests[c].phase \in {"asked", "checked"} /\ requests[c].op \in Ops
             /\ requests[c].id \in born /\ requests[c].token \in tokens
             /\ requests[c].entity = Null <=> requests[c].op \in {"remove", "configure"}
             /\ requests[c].entity # Null => requests[c].entity \in RowsOf(requests[c].id)
             /\ requests[c].op = "configure" => requests[c].id \in CompanyIds
             /\ requests[c].op \in {"link", "unlink"} => requests[c].id \in UserIds
    /\ asked \in 0 .. MaxRequests

\* A client is about to write the row of an id.
Holds(c, id) == requests[c].phase # "idle" /\ requests[c].id = id

\* What the row of an id is, or may become by a save: a row that was removed
\* comes back when somebody saves the entity read before.
Version(x, id) ==
    x # Null /\ (x = rows[id] \/ \E c \in Clients : Holds(c, id) /\ requests[c].entity = x)

\* The same, without the entities of a create that is not checked yet.
Settled(x, id) ==
    /\ x # Null
    /\ \/ x = rows[id]
       \/ \E c \in Clients : /\ Holds(c, id) /\ requests[c].entity = x
                             /\ requests[c].op # "create" \/ requests[c].phase = "checked"

Identity ==
    \A id \in Ids, x, y \in RowShape : Version(x, id) /\ Version(y, id) => SameIdentity(x, y)

CompaniesBorn == \A id \in Ids, x \in RowShape : Version(x, id) => x.company \in born \cup {Null}

\* The id was given to rows of the company k only.
Belongs(id, k) == id \in born /\ \A x \in RowShape : Version(x, id) => x.company = k

ContextOf(x) ==
    /\ x.unit # Null => Belongs(x.unit, x.company)
    /\ x.point # Null =>
          /\ Belongs(x.point, x.company)
          /\ \A y \in RowShape : Version(y, x.point) => y.unit = x.unit

Context == \A id \in Ids, x \in RowShape : Settled(x, id) => ContextOf(x)

\* Whatever a request may overwrite belongs to the company of its token.
Scope ==
    \A c \in Clients : requests[c].phase # "idle" /\ requests[c].token.company # Null =>
       /\ Belongs(requests[c].id, requests[c].token.company)
       /\ requests[c].op = "link" /\ requests[c].phase = "checked" =>
             \A p \in requests[c].points : Belongs(p, requests[c].token.company)

\* A company keeps its administrator even while its own row is gone.
AdminInv == \A k \in CompanyIds \cap born : \E u \in UserIds : Admins(rows, k) = {u}

\* No request is about to remove or demote an administrator.
AdminKept ==
    \A c \in Clients, k \in CompanyIds :
       requests[c].phase # "idle" /\ requests[c].id \in Admins(rows, k) =>
          requests[c].op # "remove" /\ (requests[c].entity # Null => requests[c].entity.role = "admin")

IInv ==
    /\ Typed /\ ForeignKeysHold(rows)
    /\ Identity /\ CompaniesBorn /\ Context /\ Scope /\ AdminInv /\ AdminKept

-----------------------------------------------------------------------------
(* What a request may ask for.                                             *)

\* A new id.
AskNew(t, op, id, entity) ==
    /\ op = "create" /\ id \notin born /\ born' = born \cup {id}
    /\ entity \in RowsOf(id) /\ entity.company = t.company

\* A row within the scope, as it is but for a user's role.
AskOld(t, op, id, entity) ==
    /\ op \in {"update", "remove", "link", "unlink"} /\ UNCHANGED born
    /\ InScope(t, rows[id])
    /\ entity = Null <=> op = "remove"
    /\ entity # Null => entity \in RowsOf(id) /\ SameIdentity(entity, rows[id])
    /\ rows[id].role = "admin" => op # "remove" /\ entity.role = "admin"
    /\ op \in {"link", "unlink"} => id \in UserIds

\* The settings of a company.
AskSettings(t, op, id, entity) ==
    /\ op = "configure" /\ UNCHANGED born
    /\ id \in configs /\ (SeesAll(t) \/ t.company = id) /\ entity = Null

Asks(c, t, op, id, entity, points) ==
    /\ Hold(c, t, op, id, entity, points)
    /\ op \in Ops /\ id \in Ids /\ entity \in RowShape \cup {Null} /\ points \in SUBSET PointIds
    /\ AskNew(t, op, id, entity) \/ AskOld(t, op, id, entity) \/ AskSettings(t, op, id, entity)

LEMMA AskKinds ==
  ASSUME Typed, NEW c \in Clients, NEW t \in tokens, Ask(c, t)
  PROVE  \E op, id, entity, points : Asks(c, t, op, id, entity, points)
<1> DEFINE Goal == \E op, id, entity, points : Asks(c, t, op, id, entity, points)
<1>0. /\ t.company \in CompanyIds \cup {Null}
      /\ \A id \in Ids : rows[id] # Null => rows[id] \in RowsOf(id) /\ rows[id] \in RowShape
      /\ Null \notin Ids \cup Roles \cup RowShape
      /\ configs \subseteq Ids
  BY RowsAre, AdministrationAssumption DEF Typed, Tokens, Present, Ids
<1>1. ASSUME NEW id \in Ids, NEW entity \in RowsOf(id), entity.company = t.company, id \notin born,
             Hold(c, t, "create", id, entity, {}), born' = born \cup {id}
      PROVE  Goal
  <2>1. Asks(c, t, "create", id, entity, {})
    BY <1>1, RowsAre DEF Asks, AskNew, Ops
  <2> QED  BY <2>1
<1>2. ASSUME NEW id \in Ids, NEW op \in {"update", "link", "unlink"}, NEW entity \in RowsOf(id),
             NEW points \in SUBSET PointIds,
             Hold(c, t, op, id, entity, points), UNCHANGED born, InScope(t, rows[id]),
             SameIdentity(entity, rows[id]), rows[id].role = "admin" => entity.role = "admin",
             op \in {"link", "unlink"} => id \in UserIds
      PROVE  Goal
  <2>1. entity \in RowShape /\ entity # Null
    BY RowsAre
  <2>2. Asks(c, t, op, id, entity, points)
    BY <1>2, <2>1 DEF Asks, AskOld, Ops
  <2> QED  BY <2>2
<1>3. ASSUME NEW id \in Ids, Remove(c, t, id), rows[id].role # "admin" PROVE Goal
  <2>1. Asks(c, t, "remove", id, Null, {})
    BY <1>3 DEF Asks, AskOld, Ops, Remove
  <2> QED  BY <2>1
<1>4. ASSUME NEW id \in Ids, NEW entity \in RowsOf(id), Update(c, t, id, entity),
             SameIdentity(entity, rows[id]), rows[id].role = "admin" => entity.role = "admin"
      PROVE  Goal
  BY <1>2, <1>4 DEF Update
<1>5. ASSUME NEW id \in Ids, rows[id] # Null, id \notin UserIds PROVE rows[id].role # "admin"
  <2>1. rows[id].role = Null
    BY <1>0, <1>5, RowsAre
  <2> QED  BY <1>0, <2>1 DEF Roles
<1>6. ASSUME NEW u \in UserIds, AskUser(c, t, u) PROVE Goal
  <2>0. u \in Ids /\ u \notin CompanyIds /\ u \notin UnitIds /\ u \notin PointIds /\ u \notin CameraIds
    BY AdministrationAssumption DEF Ids
  <2>00. RowsOf(u) = {UserRow(k, r) : k \in CompanyIds \cup {Null}, r \in Roles}
    BY <2>0 DEF RowsOf
  <2>1. ASSUME NEW role \in Roles, AskCreateUser(c, t, u, role) PROVE Goal
    <3>1. UserRow(t.company, role) \in RowsOf(u)
      BY <1>0, <2>00
    <3>2. UserRow(t.company, role).company = t.company
      BY DEF UserRow, Row
    <3> QED  BY <1>1, <2>0, <2>1, <3>1, <3>2 DEF AskCreateUser, Fresh
  <2>2. ASSUME NEW role \in Roles \cup {Null}, AskUpdateUser(c, t, u, role) PROVE Goal
    <3> DEFINE entity == Assign(rows[u], "role", role)
    <3>1. rows[u] # Null /\ RoleMayChange(rows[u], role) /\ Update(c, t, u, entity)
      BY <2>2 DEF AskUpdateUser
    <3>2. PICK k \in CompanyIds \cup {Null}, r \in Roles : rows[u] = UserRow(k, r)
      BY <1>0, <2>0, <2>00, <3>1
    <3>3. entity = UserRow(k, IF role = Null THEN r ELSE role)
      BY <3>2 DEF Assign, UserRow, Row
    <3>4. entity \in RowsOf(u)
      BY <2>00, <3>3
    <3>5. SameIdentity(entity, rows[u])
      BY <3>2, <3>3 DEF UserRow, Row, SameIdentity
    <3>6. rows[u].role = r /\ entity.role = (IF role = Null THEN r ELSE role)
      BY <3>2, <3>3 DEF UserRow, Row
    <3>7. r = "admin" => entity.role = "admin"
      BY <3>1, <3>6 DEF RoleMayChange
    <3> HIDE DEF entity
    <3> QED  BY <1>4, <2>0, <3>1, <3>4, <3>5, <3>6, <3>7
  <2>3. ASSUME AskRemoveUser(c, t, u) PROVE Goal
    BY <1>3, <2>0, <2>3 DEF AskRemoveUser
  <2>4. ASSUME NEW points \in SUBSET PointIds \ {{}}, AskLink(c, t, u, points) \/ AskUnlink(c, t, u, points)
        PROVE  Goal
    <3>1. /\ InScope(t, rows[u]) /\ UNCHANGED born /\ rows[u] # Null
          /\ \E op \in {"link", "unlink"} : Hold(c, t, op, u, rows[u], points)
      BY <2>4 DEF AskLink, AskUnlink, InScope
    <3>2. rows[u] \in RowsOf(u) /\ SameIdentity(rows[u], rows[u])
      BY <1>0, <2>0, <3>1 DEF SameIdentity
    <3> QED  BY <1>2, <2>0, <3>1, <3>2
  <2> QED  BY <1>6, <2>1, <2>2, <2>3, <2>4 DEF AskUser
<1>7. ASSUME NEW k \in CompanyIds, AskCompany(c, t, k) PROVE Goal
  <2>0. k \in Ids /\ k \notin UserIds
    BY AdministrationAssumption DEF Ids
  <2>1. ASSUME AskUpdateCompany(c, t, k) PROVE Goal
    <3>1. rows[k] # Null /\ rows[k] \in RowsOf(k) /\ SameIdentity(rows[k], rows[k])
      BY <1>0, <2>0, <2>1 DEF AskUpdateCompany, Update, InScope, SameIdentity
    <3> QED  BY <1>4, <2>0, <2>1, <3>1 DEF AskUpdateCompany
  <2>2. ASSUME AskUpdateConfig(c, t, k) PROVE Goal
    <3>1. Asks(c, t, "configure", k, Null, {})
      BY <2>0, <2>2 DEF AskUpdateConfig, Asks, AskSettings, Ops
    <3> QED  BY <3>1
  <2>3. ASSUME AskRemoveCompany(c, t, k) PROVE Goal
    BY <1>3, <1>5, <2>0, <2>3 DEF AskRemoveCompany, Remove, InScope
  <2> QED  BY <1>7, <2>1, <2>2, <2>3 DEF AskCompany
<1>8. ASSUME NEW n \in UnitIds, AskUnit(c, t, n) PROVE Goal
  <2>0. n \in Ids /\ n \notin UserIds /\ n \notin CompanyIds /\ n \notin PointIds /\ n \notin CameraIds
    BY AdministrationAssumption DEF Ids
  <2>1. ASSUME AskCreateUnit(c, t, n) PROVE Goal
    <3>1. RowsOf(n) = {UnitRow(k) : k \in CompanyIds} /\ t.company \in CompanyIds
      BY <1>0, <2>0, <2>1 DEF AskCreateUnit, Create, SeesAll, RowsOf
    <3>2. UnitRow(t.company).company = t.company
      BY DEF UnitRow, Row
    <3> QED  BY <1>1, <2>0, <2>1, <3>1, <3>2 DEF AskCreateUnit, Create
  <2>2. ASSUME AskUpdateUnit(c, t, n) PROVE Goal
    <3>1. rows[n] # Null /\ rows[n] \in RowsOf(n) /\ SameIdentity(rows[n], rows[n])
      BY <1>0, <2>0, <2>2 DEF AskUpdateUnit, Update, InScope, SameIdentity
    <3> QED  BY <1>4, <2>0, <2>2, <3>1 DEF AskUpdateUnit
  <2>3. ASSUME AskRemoveUnit(c, t, n) PROVE Goal
    BY <1>3, <1>5, <2>0, <2>3 DEF AskRemoveUnit, Remove, InScope
  <2> QED  BY <1>8, <2>1, <2>2, <2>3 DEF AskUnit
\* A column that is sent must hold what it held: the entity is the row.
<1>9. ASSUME NEW row, NEW field, NEW value \in {Null, row[field]}, row = [row EXCEPT ![field] = row[field]]
      PROVE  Assign(row, field, value) = row
  BY <1>9 DEF Assign
<1>10. ASSUME NEW row \in RowShape
       PROVE  row = [row EXCEPT !["unit"] = row["unit"]] /\ row = [row EXCEPT !["point"] = row["point"]]
  BY DEF RowShape
<1>11. ASSUME NEW p \in PointIds, AskPoint(c, t, p) PROVE Goal
  <2>0. p \in Ids /\ p \notin UserIds /\ p \notin CompanyIds /\ p \notin UnitIds /\ p \notin CameraIds
    BY AdministrationAssumption DEF Ids
  <2>1. ASSUME NEW n \in UnitIds, AskCreatePoint(c, t, p, n) PROVE Goal
    <3>1. RowsOf(p) = {PointRow(k, x) : k \in CompanyIds, x \in UnitIds} /\ t.company \in CompanyIds
      BY <1>0, <2>0, <2>1 DEF AskCreatePoint, Create, SeesAll, RowsOf
    <3>2. PointRow(t.company, n).company = t.company
      BY DEF PointRow, Row
    <3> QED  BY <1>1, <2>0, <2>1, <3>1, <3>2 DEF AskCreatePoint, Create
  <2>2. ASSUME NEW n, AskUpdatePoint(c, t, p, n) PROVE Goal
    <3>1. rows[p] # Null /\ rows[p] \in RowsOf(p) /\ SameIdentity(rows[p], rows[p]) /\ rows[p] \in RowShape
      BY <1>0, <2>0, <2>2 DEF AskUpdatePoint, SameIdentity
    <3>2. rows[p]["unit"] = rows[p].unit
      OBVIOUS
    <3>3. Assign(rows[p], "unit", n) = rows[p]
      BY <1>9, <1>10, <2>2, <3>1, <3>2 DEF AskUpdatePoint
    <3>4. Update(c, t, p, rows[p])
      BY <2>2, <3>3 DEF AskUpdatePoint
    <3> QED  BY <1>4, <2>0, <3>1, <3>4
  <2>3. ASSUME AskRemovePoint(c, t, p) PROVE Goal
    BY <1>3, <1>5, <2>0, <2>3 DEF AskRemovePoint, Remove, InScope
  <2> QED  BY <1>11, <2>1, <2>2, <2>3 DEF AskPoint
<1>12. ASSUME NEW m \in CameraIds, AskCamera(c, t, m) PROVE Goal
  <2>0. m \in Ids /\ m \notin UserIds /\ m \notin CompanyIds /\ m \notin UnitIds /\ m \notin PointIds
    BY AdministrationAssumption DEF Ids
  <2>1. ASSUME NEW n \in UnitIds, NEW p \in PointIds, AskCreateCamera(c, t, m, n, p) PROVE Goal
    <3>1. /\ RowsOf(m) = {CameraRow(k, x, y) : k \in CompanyIds, x \in UnitIds, y \in PointIds}
          /\ t.company \in CompanyIds
      BY <1>0, <2>0, <2>1 DEF AskCreateCamera, Create, SeesAll, RowsOf
    <3>2. CameraRow(t.company, n, p).company = t.company
      BY DEF CameraRow, Row
    <3> QED  BY <1>1, <2>0, <2>1, <3>1, <3>2 DEF AskCreateCamera, Create
  <2>2. ASSUME NEW n, NEW p, AskUpdateCamera(c, t, m, n, p) PROVE Goal
    <3>1. rows[m] # Null /\ rows[m] \in RowsOf(m) /\ SameIdentity(rows[m], rows[m]) /\ rows[m] \in RowShape
      BY <1>0, <2>0, <2>2 DEF AskUpdateCamera, SameIdentity
    <3>2. rows[m]["unit"] = rows[m].unit /\ rows[m]["point"] = rows[m].point
      OBVIOUS
    <3>3. Assign(rows[m], "unit", n) = rows[m] /\ Assign(rows[m], "point", p) = rows[m]
      BY <1>9, <1>10, <2>2, <3>1, <3>2 DEF AskUpdateCamera
    <3>4. Update(c, t, m, rows[m])
      BY <2>2, <3>3 DEF AskUpdateCamera
    <3> QED  BY <1>4, <2>0, <3>1, <3>4
  <2>3. ASSUME AskRemoveCamera(c, t, m) PROVE Goal
    BY <1>3, <1>5, <2>0, <2>3 DEF AskRemoveCamera, Remove, InScope
  <2> QED  BY <1>12, <2>1, <2>2, <2>3 DEF AskCamera
<1> QED  BY <1>6, <1>7, <1>8, <1>11, <1>12 DEF Ask

-----------------------------------------------------------------------------
(* What a step may add to the versions of an id.                           *)

\* An old id gets the versions it had, but for the role; a new one gets one,
\* of a company that was born.
Grown ==
    /\ born \subseteq born'
    /\ \A id \in born, x \in RowShape : Version(x, id)' =>
          \E y \in RowShape : Version(y, id) /\ SameIdentity(x, y)
    /\ \A id \in Ids \ born, x \in RowShape : Version(x, id)' =>
          /\ x.company \in born' \cup {Null}
          /\ \A y \in RowShape : Version(y, id)' => x = y

LEMMA VersionsKept ==
  ASSUME Identity, CompaniesBorn, Grown, born \subseteq Ids
  PROVE  Identity' /\ CompaniesBorn'
<1>1. ASSUME NEW id \in Ids, NEW x \in RowShape, NEW y \in RowShape, Version(x, id)', Version(y, id)'
      PROVE  SameIdentity(x, y)
  <2>1. CASE id \in born
    <3>1. PICK v \in RowShape, w \in RowShape :
             Version(v, id) /\ SameIdentity(x, v) /\ Version(w, id) /\ SameIdentity(y, w)
      BY <1>1, <2>1 DEF Grown
    <3> QED  BY <3>1 DEF Identity, SameIdentity
  <2>2. CASE id \notin born
    BY <1>1, <2>2 DEF Grown, SameIdentity
  <2> QED  BY <2>1, <2>2
<1>2. ASSUME NEW id \in Ids, NEW x \in RowShape, Version(x, id)' PROVE x.company \in born' \cup {Null}
  <2>1. CASE id \in born
    <3>1. PICK v \in RowShape : Version(v, id) /\ SameIdentity(x, v)
      BY <1>2, <2>1 DEF Grown
    <3> QED  BY <3>1 DEF Grown, CompaniesBorn, SameIdentity
  <2>2. CASE id \notin born
    BY <1>2, <2>2 DEF Grown
  <2> QED  BY <2>1, <2>2
<1> QED  BY <1>1, <1>2 DEF Identity, CompaniesBorn

LEMMA BelongsKept ==
  ASSUME Grown, NEW id, NEW k, Belongs(id, k)
  PROVE  Belongs(id, k)'
<1>1. id \in born /\ id \in born'
  BY DEF Belongs, Grown
<1>2. ASSUME NEW x \in RowShape, Version(x, id)' PROVE x.company = k
  <2>1. PICK y \in RowShape : Version(y, id) /\ SameIdentity(x, y)
    BY <1>1, <1>2 DEF Grown
  <2> QED  BY <2>1 DEF Belongs, SameIdentity
<1> QED  BY <1>1, <1>2 DEF Belongs

LEMMA ContextOfKept ==
  ASSUME Grown, NEW x, ContextOf(x)
  PROVE  ContextOf(x)'
<1>1. x.unit # Null => Belongs(x.unit, x.company)'
  BY BelongsKept DEF ContextOf
<1>2. x.point # Null => Belongs(x.point, x.company)'
  BY BelongsKept DEF ContextOf
<1>3. ASSUME x.point # Null, NEW y \in RowShape, Version(y, x.point)' PROVE y.unit = x.unit
  <2>1. x.point \in born
    BY <1>3 DEF ContextOf, Belongs
  <2>2. PICK v \in RowShape : Version(v, x.point) /\ SameIdentity(y, v)
    BY <1>3, <2>1 DEF Grown
  <2> QED  BY <1>3, <2>2 DEF ContextOf, SameIdentity
<1> QED  BY <1>1, <1>2, <1>3 DEF ContextOf

LEMMA Carried ==
  ASSUME Identity, CompaniesBorn, Context, Grown, born \subseteq Ids,
         \A id \in Ids, x \in RowShape : Settled(x, id)' =>
            ContextOf(x) \/ \E y \in RowShape : Settled(y, id) /\ SameIdentity(x, y)
  PROVE  Identity' /\ CompaniesBorn' /\ Context'
<1>1. ASSUME NEW id \in Ids, NEW x \in RowShape, Settled(x, id)' PROVE ContextOf(x)'
  <2>1. CASE ContextOf(x)
    BY <2>1, ContextOfKept
  <2>2. ASSUME NEW y \in RowShape, Settled(y, id), SameIdentity(x, y) PROVE ContextOf(x)'
    <3>1. ContextOf(y)
      BY <2>2 DEF Context
    <3>2. ContextOf(x)
      BY <2>2, <3>1 DEF ContextOf, SameIdentity
    <3> QED  BY <3>2, ContextOfKept
  <2> QED  BY <1>1, <2>1, <2>2
<1> QED  BY <1>1, VersionsKept DEF Context

\* What nobody asked or wrote stays a version, and nothing else becomes one.
Fewer ==
    /\ UNCHANGED born
    /\ \A id \in Ids, x \in RowShape : Version(x, id)' => Version(x, id)

\* An id that was never given has no version.
LEMMA Unborn ==
  ASSUME Typed, NEW id \in Ids, id \notin born, NEW x
  PROVE  rows[id] = Null /\ ~Version(x, id)
<1>1. rows[id] = Null
  BY DEF Typed, Present
<1>2. \A c \in Clients : ~Holds(c, id)
  <2>1. SUFFICES ASSUME NEW c \in Clients, Holds(c, id) PROVE FALSE
    OBVIOUS
  <2>2. requests[c].phase # "idle" /\ requests[c].id = id
    BY <2>1 DEF Holds
  <2>3. requests[c].id \in born
    BY <2>2 DEF Typed, Idle
  <2> QED  BY <2>2, <2>3
<1> QED  BY <1>1, <1>2 DEF Version

LEMMA FewerGrown ==
  ASSUME Fewer, Typed
  PROVE  Grown
<1>1. ASSUME NEW id \in born, NEW x \in RowShape, Version(x, id)'
      PROVE  \E y \in RowShape : Version(y, id) /\ SameIdentity(x, y)
  BY <1>1 DEF Typed, Fewer, SameIdentity
<1>2. ASSUME NEW id \in Ids \ born, NEW x \in RowShape, Version(x, id)' PROVE FALSE
  BY <1>2, Unborn DEF Fewer
<1> QED  BY <1>1, <1>2 DEF Fewer, Grown

LEMMA Bearer ==
  ASSUME Typed, NEW c \in Clients, requests[c].phase # "idle"
  PROVE  /\ requests[c].phase \in {"asked", "checked"} /\ requests[c].op \in Ops
         /\ requests[c].id \in born /\ requests[c].id \in Ids /\ requests[c].token \in tokens
         /\ requests[c].entity = Null <=> requests[c].op \in {"remove", "configure"}
         /\ requests[c].entity # Null => /\ requests[c].entity \in RowsOf(requests[c].id)
                                         /\ requests[c].entity \in RowShape
         /\ requests[c].op = "configure" => requests[c].id \in CompanyIds
         /\ requests[c].op \in {"link", "unlink"} => requests[c].id \in UserIds
         /\ requests[c].points \in SUBSET PointIds
<1>1. /\ requests[c].phase \in {"asked", "checked"} /\ requests[c].op \in Ops
      /\ requests[c].id \in born /\ requests[c].token \in tokens
      /\ requests[c].entity = Null <=> requests[c].op \in {"remove", "configure"}
      /\ requests[c].entity # Null => requests[c].entity \in RowsOf(requests[c].id)
      /\ requests[c].op = "configure" => requests[c].id \in CompanyIds
      /\ requests[c].op \in {"link", "unlink"} => requests[c].id \in UserIds
  BY DEF Typed, Idle
<1>2. requests[c].id \in Ids /\ requests[c] \in RequestState
  BY <1>1 DEF Typed
<1>3. requests[c].points \in SUBSET PointIds
  BY <1>2 DEF RequestState
<1> QED  BY <1>1, <1>2, <1>3, RowsAre

-----------------------------------------------------------------------------
(* Login.                                                                  *)

LEMMA LoginKept ==
  ASSUME IInv, NEW u \in UserIds, Login(u)
  PROVE  IInv'
<1>0. Typed /\ UNCHANGED <<rows, born, configs, links, requests, asked>>
  BY DEF IInv, Login
<1>1. Token(u) \in Tokens /\ Token(u).company \in born \cup {Null}
  <2>1. u \in Ids /\ rows[u] # Null
    BY DEF Login, Ids
  <2>2. rows[u] \in RowsOf(u)
    BY <1>0, <2>1 DEF Typed, Present
  <2>3. rows[u] \in RowShape /\ rows[u].role \in Roles
    BY <2>1, <2>2, RowsAre
  <2>4. rows[u].company \in CompanyIds \cup {Null}
    BY <2>3 DEF RowShape
  <2>5. Version(rows[u], u)
    BY <2>1 DEF Version
  <2>6. rows[u].company \in born \cup {Null}
    BY <2>1, <2>3, <2>5 DEF IInv, CompaniesBorn
  <2> QED  BY <2>3, <2>4, <2>6 DEF Token, Tokens
<1>2. tokens' = tokens \cup {Token(u)}
  BY DEF Login
<1>3. Typed'
  BY <1>0, <1>1, <1>2 DEF Typed, Present
<1>4. Identity' /\ CompaniesBorn' /\ Context' /\ Scope'
  BY <1>0 DEF IInv, Identity, CompaniesBorn, Context, Scope, Version, Settled, Holds, ContextOf, Belongs
<1>5. ForeignKeysHold(rows)' /\ AdminInv' /\ AdminKept'
  BY <1>0 DEF IInv, ForeignKeysHold, Present, AdminInv, AdminKept, Admins
<1> QED  BY <1>3, <1>4, <1>5 DEF IInv

-----------------------------------------------------------------------------
(* Asking.                                                                 *)

LEMMA AskKept ==
  ASSUME IInv, NEW c \in Clients, requests[c].phase = "idle", asked < MaxRequests,
         NEW t \in tokens, Ask(c, t)
  PROVE  IInv'
<1>0. /\ Typed /\ Identity /\ CompaniesBorn /\ Context /\ Scope /\ AdminInv /\ AdminKept
      /\ born \subseteq Ids /\ t \in Tokens /\ t.company \in born \cup {Null}
      /\ requests \in [Clients -> RequestState] /\ requests[c] = Idle
  BY DEF IInv, Typed
<1>1. PICK op, id, entity, points : Asks(c, t, op, id, entity, points)
  BY <1>0, AskKinds
<1> DEFINE r == [phase |-> "asked", token |-> t, op |-> op, id |-> id, entity |-> entity, points |-> points]
<1>2. /\ requests' = [requests EXCEPT ![c] = r] /\ asked' = asked + 1
      /\ UNCHANGED <<rows, configs, links, tokens>>
      /\ op \in Ops /\ id \in Ids /\ entity \in RowShape \cup {Null} /\ points \in SUBSET PointIds
      /\ AskNew(t, op, id, entity) \/ AskOld(t, op, id, entity) \/ AskSettings(t, op, id, entity)
  BY <1>1 DEF Asks, Hold
<1>3. requests'[c] = r /\ \A d \in Clients : d # c => requests'[d] = requests[d]
  BY <1>0, <1>2
<1>4. r.phase = "asked" /\ r.token = t /\ r.op = op /\ r.id = id /\ r.entity = entity /\ r.points = points
  OBVIOUS
<1>5. r \in RequestState
  BY <1>0, <1>2 DEF RequestState
<1> HIDE DEF r
<1>6. /\ born \subseteq born' /\ born' \subseteq Ids /\ id \in born'
      /\ entity = Null <=> op \in {"remove", "configure"}
      /\ entity # Null => entity \in RowsOf(id) /\ entity \in RowShape
      /\ op = "configure" => id \in CompanyIds
      /\ op \in {"link", "unlink"} => id \in UserIds
  <2>1. CASE AskNew(t, op, id, entity)
    BY <1>0, <1>2, <2>1, RowsAre DEF AskNew
  <2>2. CASE AskOld(t, op, id, entity)
    <3>1. id \in born
      BY <1>0, <1>2, <2>2 DEF AskOld, InScope, Typed, Present
    <3> QED  BY <1>0, <1>2, <2>2, <3>1, RowsAre DEF AskOld
  <2>3. CASE AskSettings(t, op, id, entity)
    <3>1. id \in born /\ id \in CompanyIds
      BY <1>0, <1>2, <2>3 DEF AskSettings, Typed, Present
    <3> QED  BY <1>0, <1>2, <2>3, <3>1 DEF AskSettings
  <2> QED  BY <1>2, <2>1, <2>2, <2>3
<1>7. Typed'
  <2>1. requests' \in [Clients -> RequestState]
    BY <1>0, <1>2, <1>5
  <2>2. ASSUME NEW d \in Clients
        PROVE  \/ requests'[d] = Idle
               \/ /\ requests'[d].phase \in {"asked", "checked"} /\ requests'[d].op \in Ops
                  /\ requests'[d].id \in born' /\ requests'[d].token \in tokens'
                  /\ requests'[d].entity = Null <=> requests'[d].op \in {"remove", "configure"}
                  /\ requests'[d].entity # Null => requests'[d].entity \in RowsOf(requests'[d].id)
                  /\ requests'[d].op = "configure" => requests'[d].id \in CompanyIds
                  /\ requests'[d].op \in {"link", "unlink"} => requests'[d].id \in UserIds
    <3>1. CASE d = c
      BY <1>2, <1>3, <1>4, <1>6, <3>1
    <3>2. CASE d # c
      <4>1. requests'[d] = requests[d]
        BY <1>3, <3>2
      <4>2. CASE requests[d] = Idle
        BY <4>1, <4>2
      <4>3. CASE requests[d] # Idle
        <5>1. requests[d].phase # "idle"
          BY <1>0, <4>3 DEF Typed
        <5> QED  BY <1>0, <1>2, <1>6, <4>1, <5>1, Bearer
      <4> QED  BY <4>2, <4>3
    <3> QED  BY <3>1, <3>2
  <2>3. asked' \in 0 .. MaxRequests
    BY <1>0, <1>2, AdministrationAssumption DEF Typed
  <2>4. /\ rows' \in AnyTable /\ \A i \in Present(rows') : rows'[i] \in RowsOf(i) /\ i \in born'
        /\ configs' \subseteq Present(rows') \cap CompanyIds
        /\ links' \subseteq (Present(rows') \cap UserIds) \X (Present(rows') \cap PointIds)
        /\ tokens' \subseteq Tokens /\ \A x \in tokens' : x.company \in born' \cup {Null}
    BY <1>0, <1>2, <1>6 DEF Typed
  <2> QED  BY <1>6, <2>1, <2>2, <2>3, <2>4 DEF Typed
\* The versions are those there were and the entity asked for.
<1>8. ASSUME NEW i \in Ids, NEW x \in RowShape, Version(x, i)'
      PROVE  Version(x, i) \/ (i = id /\ x = entity)
  <2>1. CASE x = rows'[i]
    BY <1>2, <1>8, <2>1 DEF Version
  <2>2. ASSUME NEW d \in Clients, Holds(d, i)', requests'[d].entity = x
        PROVE  Version(x, i) \/ (i = id /\ x = entity)
    <3>1. CASE d = c
      BY <1>3, <1>4, <2>2, <3>1 DEF Holds
    <3>2. CASE d # c
      BY <1>3, <1>8, <2>2, <3>2 DEF Holds, Version
    <3> QED  BY <3>1, <3>2
  <2> QED  BY <1>8, <2>1, <2>2 DEF Version
<1>9. ASSUME NEW i \in Ids, NEW x \in RowShape, Settled(x, i)'
      PROVE  Settled(x, i) \/ (i = id /\ x = entity /\ op # "create")
  <2>1. CASE x = rows'[i]
    BY <1>2, <1>9, <2>1 DEF Settled
  <2>2. ASSUME NEW d \in Clients, Holds(d, i)', requests'[d].entity = x,
               requests'[d].op # "create" \/ requests'[d].phase = "checked"
        PROVE  Settled(x, i) \/ (i = id /\ x = entity /\ op # "create")
    <3>1. CASE d = c
      BY <1>3, <1>4, <2>2, <3>1 DEF Holds
    <3>2. CASE d # c
      BY <1>3, <1>9, <2>2, <3>2 DEF Holds, Settled
    <3> QED  BY <3>1, <3>2
  <2> QED  BY <1>9, <2>1, <2>2 DEF Settled
\* An entity that is not new is its row, but for the role.
<1>10. ASSUME op # "create", entity # Null
       PROVE  rows[id] \in RowShape /\ rows[id] # Null /\ SameIdentity(entity, rows[id]) /\ id \in born
  <2>1. AskOld(t, op, id, entity)
    BY <1>2, <1>10 DEF AskNew, AskSettings
  <2>2. rows[id] # Null /\ SameIdentity(entity, rows[id])
    BY <1>10, <2>1 DEF AskOld, InScope
  <2> QED  BY <1>0, <1>2, <2>2, RowsAre DEF Typed, Present
<1>11. id \notin born => AskNew(t, op, id, entity) /\ op = "create" /\ entity \in RowShape /\ entity # Null
  <2>1. ~AskOld(t, op, id, entity) \/ id \in born
    BY <1>0, <1>2 DEF AskOld, InScope, Typed, Present
  <2>2. ~AskSettings(t, op, id, entity) \/ id \in born
    BY <1>0, <1>2 DEF AskSettings, Typed, Present
  <2> QED  BY <1>2, <1>6, <2>1, <2>2 DEF AskNew
<1>12. op = "create" => AskNew(t, op, id, entity) /\ id \notin born
  BY <1>2 DEF AskNew, AskOld, AskSettings
<1>13. Grown
  <2>1. ASSUME NEW i \in born, NEW x \in RowShape, Version(x, i)'
        PROVE  \E y \in RowShape : Version(y, i) /\ SameIdentity(x, y)
    <3>1. CASE Version(x, i)
      BY <3>1 DEF SameIdentity
    <3>2. CASE i = id /\ x = entity
      <4>1. op # "create" /\ entity # Null
        BY <1>12, <2>1, <3>2 DEF Version
      <4> QED  BY <1>10, <3>2, <4>1 DEF Version
    <3> QED  BY <1>0, <1>8, <2>1, <3>1, <3>2
  <2>2. ASSUME NEW i \in Ids \ born, NEW x \in RowShape, Version(x, i)'
        PROVE  i = id /\ x = entity
    BY <1>0, <1>8, <2>2, Unborn
  <2>3. ASSUME NEW i \in Ids \ born, NEW x \in RowShape, Version(x, i)'
        PROVE  x.company \in born' \cup {Null}
    <3>1. i = id /\ x = entity
      BY <2>2, <2>3
    <3> QED  BY <1>0, <1>6, <1>11, <3>1 DEF AskNew
  <2> QED  BY <1>6, <2>1, <2>2, <2>3 DEF Grown
<1>14. Identity' /\ CompaniesBorn' /\ Context'
  <2>1. ASSUME NEW i \in Ids, NEW x \in RowShape, Settled(x, i)'
        PROVE  \E y \in RowShape : Settled(y, i) /\ SameIdentity(x, y)
    <3>1. CASE Settled(x, i)
      BY <3>1 DEF SameIdentity
    <3>2. CASE i = id /\ x = entity /\ op # "create"
      <4>1. entity # Null
        BY <2>1, <3>2 DEF Settled
      <4> QED  BY <1>10, <3>2, <4>1 DEF Settled
    <3> QED  BY <1>9, <2>1, <3>1, <3>2
  <2> QED  BY <1>0, <1>13, <2>1, Carried
\* What is asked for belongs to the company of the token.
<1>15. t.company # Null => Belongs(id, t.company)'
  <2>1. SUFFICES ASSUME t.company # Null PROVE Belongs(id, t.company)'
    OBVIOUS
  <2>2. CASE id \in born
    <3>1. rows[id] # Null /\ rows[id].company = t.company
      <4>1. CASE AskOld(t, op, id, entity)
        BY <2>1, <4>1 DEF AskOld, InScope, SeesAll
      <4>2. CASE AskSettings(t, op, id, entity)
        <5>1. t.company = id /\ id \in CompanyIds /\ rows[id] # Null
          BY <1>0, <2>1, <4>2 DEF AskSettings, SeesAll, Typed, Present
        <5>2. rows[id].company = id
          BY <1>0, <1>2, <5>1, RowsAre DEF Typed, Present
        <5> QED  BY <5>1, <5>2
      <4> QED  BY <1>2, <2>2, <4>1, <4>2 DEF AskNew
    <3>2. rows[id] \in RowShape /\ Version(rows[id], id)
      BY <1>0, <1>2, <3>1, RowsAre DEF Typed, Present, Version
    <3>3. Belongs(id, t.company)
      BY <1>0, <1>2, <2>2, <3>1, <3>2 DEF Belongs, Identity, SameIdentity
    <3> QED  BY <1>13, <3>3, BelongsKept
  <2>3. CASE id \notin born
    <3>1. entity.company = t.company
      BY <1>11, <2>3 DEF AskNew
    <3>2. \A x \in RowShape : Version(x, id)' => x = entity
      BY <1>0, <1>2, <1>8, <2>3, Unborn
    <3> QED  BY <1>6, <3>1, <3>2 DEF Belongs
  <2> QED  BY <2>2, <2>3
<1>16. Scope'
  <2>1. ASSUME NEW d \in Clients, NEW i, NEW k, requests'[d].phase # "idle",
               i = requests'[d].id, k = requests'[d].token.company, k # Null
        PROVE  /\ Belongs(i, k)'
               /\ requests'[d].op = "link" /\ requests'[d].phase = "checked" =>
                     \A p \in requests'[d].points : Belongs(p, k)'
    <3>1. CASE d = c
      BY <1>3, <1>4, <1>15, <2>1, <3>1
    <3>2. CASE d # c
      <4>1. /\ Belongs(i, k)
            /\ requests'[d].op = "link" /\ requests'[d].phase = "checked" =>
                     \A p \in requests'[d].points : Belongs(p, k)
        BY <1>0, <1>3, <2>1, <3>2 DEF Scope
      <4> QED  BY <1>13, <4>1, BelongsKept
    <3> QED  BY <3>1, <3>2
  <2> QED  BY <2>1 DEF Scope, Belongs
<1>17. AdminInv'
  <2>1. ASSUME NEW k \in CompanyIds \cap born' PROVE \E u \in UserIds : Admins(rows', k) = {u}
    <3>1. CASE k \in born
      BY <1>0, <1>2, <3>1 DEF AdminInv
    <3>2. CASE k \notin born
      <4>1. k = id /\ AskNew(t, op, id, entity)
        BY <1>2, <2>1, <3>2 DEF AskNew, AskOld, AskSettings
      <4>2. entity.company = k
        BY <1>2, <2>1, <4>1, RowsAre DEF AskNew
      <4>3. entity.company \in born \cup {Null}
        BY <1>0, <4>1 DEF AskNew
      <4> QED  BY <2>1, <3>2, <4>2, <4>3, AdministrationAssumption DEF Ids
    <3> QED  BY <3>1, <3>2
  <2> QED  BY <2>1 DEF AdminInv
<1>18. AdminKept'
  <2>1. ASSUME NEW d \in Clients, NEW k \in CompanyIds,
               requests'[d].phase # "idle", requests'[d].id \in Admins(rows', k)
        PROVE  /\ requests'[d].op # "remove"
               /\ requests'[d].entity # Null => requests'[d].entity.role = "admin"
    <3>1. Admins(rows', k) = Admins(rows, k)
      BY <1>2
    <3>2. CASE d = c
      <4>1. id \in UserIds /\ rows[id] # Null /\ rows[id].role = "admin"
        BY <1>3, <1>4, <2>1, <3>1, <3>2 DEF Admins
      <4>2. id \in born
        BY <1>0, <1>2, <4>1 DEF Typed, Present
      <4>3. id \notin CompanyIds
        BY <4>1, AdministrationAssumption
      <4>4. op # "remove" /\ (entity # Null => entity.role = "admin")
        BY <1>2, <1>6, <4>1, <4>2, <4>3 DEF AskNew, AskOld, AskSettings
      <4> QED  BY <1>3, <1>4, <3>2, <4>4
    <3>3. CASE d # c
      BY <1>0, <1>3, <2>1, <3>1, <3>3 DEF AdminKept
    <3> QED  BY <3>2, <3>3
  <2> QED  BY <2>1 DEF AdminKept
<1> QED  BY <1>0, <1>2, <1>7, <1>14, <1>16, <1>17, <1>18 DEF IInv

-----------------------------------------------------------------------------
(* Checking.                                                               *)

\* A request ends: the others stay as they are.
LEMMA Ended ==
  ASSUME requests \in [Clients -> RequestState], NEW c \in Clients, End(c)
  PROVE  /\ requests' \in [Clients -> RequestState] /\ requests'[c] = Idle
         /\ \A d \in Clients : d # c => requests'[d] = requests[d]
<1>1. Idle \in RequestState
  BY DEF Idle, RequestState
<1> QED  BY <1>1 DEF End

LEMMA CheckFound ==
  ASSUME IInv, NEW c \in Clients, requests[c].phase = "asked", requests[c].op = "create",
         requests[c].entity \in RowShape, Passes(requests[c])
  PROVE  ContextOf(requests[c].entity)
<1> DEFINE row == requests[c].entity
<1>0. Typed /\ Identity /\ requests[c].id \in Ids /\ row \in RowsOf(requests[c].id)
  BY Bearer, AdministrationAssumption DEF IInv
<1>1. ContextFound(row)
  BY DEF Passes
<1>2. row \in RowShape /\ row # Null
  BY <1>0, RowsAre
<1> HIDE DEF row
<1>3. ASSUME NEW id \in Ids, Found(id, row) PROVE Belongs(id, row.company) /\ Version(rows[id], id) /\ rows[id] \in RowShape
  <2>1. rows[id] # Null /\ rows[id].company = row.company
    BY <1>3 DEF Found
  <2>2. id \in born /\ rows[id] \in RowShape
    BY <1>0, <1>3, <2>1, RowsAre DEF Typed, Present
  <2>3. Version(rows[id], id)
    BY <2>1 DEF Version
  <2> QED  BY <1>0, <1>3, <2>1, <2>2, <2>3 DEF Belongs, Identity, SameIdentity
<1>4. ASSUME row.unit # Null PROVE Belongs(row.unit, row.company)
  <2>1. row.table \in {"point", "camera"} /\ row.unit \in Ids
    BY <1>0, <1>2, <1>4, RowsAre DEF RowShape, Ids
  <2> QED  BY <1>1, <1>3, <2>1 DEF ContextFound
<1>5. ASSUME row.point # Null
      PROVE  /\ Belongs(row.point, row.company)
             /\ \A y \in RowShape : Version(y, row.point) => y.unit = row.unit
  <2>1. row.table = "camera" /\ row.point \in Ids
    BY <1>0, <1>2, <1>5, RowsAre DEF RowShape, Ids
  <2>2. Found(row.point, row) /\ rows[row.point].unit = row.unit
    BY <1>1, <2>1 DEF ContextFound
  <2>3. Belongs(row.point, row.company) /\ Version(rows[row.point], row.point) /\ rows[row.point] \in RowShape
    BY <1>3, <2>1, <2>2
  <2> QED  BY <1>0, <2>1, <2>2, <2>3 DEF Identity, SameIdentity
<1>6. ContextOf(row)
  BY <1>4, <1>5 DEF ContextOf
<1> QED  BY <1>6 DEF row

LEMMA CheckKept ==
  ASSUME IInv, NEW c \in Clients, Check(c)
  PROVE  IInv'
<1> DEFINE r == requests[c]
           Checked == requests' = [requests EXCEPT ![c].phase = "checked"]
<1>0. /\ Typed /\ Identity /\ CompaniesBorn /\ Context /\ Scope /\ AdminInv /\ AdminKept /\ ForeignKeysHold(rows)
      /\ born \subseteq Ids /\ requests \in [Clients -> RequestState]
      /\ UNCHANGED <<rows, born, configs, links, tokens, asked>>
      /\ r.phase = "asked"
  BY DEF IInv, Typed, Check
<1>1. (Passes(r) /\ Checked) \/ End(c)
  BY DEF Check
<1>2. /\ \A d \in Clients : d # c => requests'[d] = requests[d]
      /\ requests' \in [Clients -> RequestState]
      /\ \/ requests'[c] = Idle
         \/ /\ Passes(r) /\ requests'[c].phase = "checked" /\ requests'[c].token = r.token
            /\ requests'[c].op = r.op /\ requests'[c].id = r.id /\ requests'[c].entity = r.entity
            /\ requests'[c].points = r.points
  <2>1. CASE End(c)
    BY <1>0, <2>1, Ended
  <2>2. CASE Passes(r) /\ Checked
    <3>1. r \in RequestState
      BY <1>0
    <3>2. requests'[c] = [r EXCEPT !.phase = "checked"]
      BY <1>0, <2>2
    <3>3. [r EXCEPT !.phase = "checked"] \in RequestState
      BY <3>1 DEF RequestState
    <3>4. requests' \in [Clients -> RequestState] /\ \A d \in Clients : d # c => requests'[d] = requests[d]
      BY <1>0, <2>2, <3>2, <3>3
    <3>5. /\ requests'[c].phase = "checked" /\ requests'[c].token = r.token
          /\ requests'[c].op = r.op /\ requests'[c].id = r.id /\ requests'[c].entity = r.entity
          /\ requests'[c].points = r.points
      BY <3>1, <3>2 DEF RequestState
    <3> QED  BY <2>2, <3>4, <3>5
  <2> QED  BY <1>1, <2>1, <2>2
<1>3. requests'[c] # Idle => requests'[c].phase = "checked"
  BY <1>2
<1>4. Idle.phase = "idle"
  BY DEF Idle
<1> HIDE DEF r, Checked
<1>5. /\ r.op \in Ops /\ r.id \in born /\ r.id \in Ids /\ r.token \in tokens
      /\ r.entity = Null <=> r.op \in {"remove", "configure"}
      /\ r.entity # Null => r.entity \in RowsOf(r.id) /\ r.entity \in RowShape
      /\ r.op = "configure" => r.id \in CompanyIds
      /\ r.op \in {"link", "unlink"} => r.id \in UserIds
      /\ r.points \in SUBSET PointIds
  BY <1>0, Bearer DEF r
<1>6. Typed'
  <2>1. ASSUME NEW d \in Clients
        PROVE  \/ requests'[d] = Idle
               \/ /\ requests'[d].phase \in {"asked", "checked"} /\ requests'[d].op \in Ops
                  /\ requests'[d].id \in born' /\ requests'[d].token \in tokens'
                  /\ requests'[d].entity = Null <=> requests'[d].op \in {"remove", "configure"}
                  /\ requests'[d].entity # Null => requests'[d].entity \in RowsOf(requests'[d].id)
                  /\ requests'[d].op = "configure" => requests'[d].id \in CompanyIds
                  /\ requests'[d].op \in {"link", "unlink"} => requests'[d].id \in UserIds
    <3>1. CASE d = c
      BY <1>0, <1>2, <1>5, <3>1
    <3>2. CASE d # c
      BY <1>0, <1>2, <3>2 DEF Typed
    <3> QED  BY <3>1, <3>2
  <2> QED  BY <1>0, <1>2, <2>1 DEF Typed
<1>7. ASSUME NEW i \in Ids, NEW x \in RowShape, Version(x, i)' PROVE Version(x, i)
  <2>1. CASE x = rows'[i]
    BY <1>0, <1>7, <2>1 DEF Version
  <2>2. ASSUME NEW d \in Clients, Holds(d, i)', requests'[d].entity = x PROVE Version(x, i)
    <3>1. CASE d = c
      BY <1>0, <1>2, <1>4, <1>7, <2>2, <3>1 DEF Holds, Version, r
    <3>2. CASE d # c
      BY <1>2, <1>7, <2>2, <3>2 DEF Holds, Version
    <3> QED  BY <3>1, <3>2
  <2> QED  BY <1>7, <2>1, <2>2 DEF Version
<1>8. Grown
  BY <1>0, <1>7, FewerGrown DEF Fewer
<1>9. ASSUME NEW i \in Ids, NEW x \in RowShape, Settled(x, i)'
      PROVE  ContextOf(x) \/ \E y \in RowShape : Settled(y, i) /\ SameIdentity(x, y)
  <2>1. CASE Settled(x, i)
    BY <2>1 DEF SameIdentity
  <2>2. CASE x = rows'[i]
    BY <1>0, <1>9, <2>1, <2>2 DEF Settled
  <2>3. ASSUME NEW d \in Clients, Holds(d, i)', requests'[d].entity = x,
               requests'[d].op # "create" \/ requests'[d].phase = "checked"
        PROVE  ContextOf(x) \/ Settled(x, i)
    <3>1. CASE d = c
      <4>1. Passes(r) /\ r.id = i /\ r.entity = x
        BY <1>2, <1>4, <2>3, <3>1 DEF Holds
      <4>2. CASE r.op = "create"
        BY <1>0, <4>1, <4>2, CheckFound DEF r
      <4>3. CASE r.op # "create"
        BY <1>0, <1>9, <4>1, <4>3 DEF Settled, Holds, r
      <4> QED  BY <4>2, <4>3
    <3>2. CASE d # c
      BY <1>2, <1>9, <2>3, <3>2 DEF Holds, Settled
    <3> QED  BY <3>1, <3>2
  <2> QED  BY <1>9, <2>1, <2>2, <2>3 DEF Settled
<1>10. Identity' /\ CompaniesBorn' /\ Context'
  BY <1>0, <1>8, <1>9, Carried
\* The points that are found belong to the company of the token.
<1>11. ASSUME r.op = "link", Passes(r), r.token.company # Null, NEW p \in r.points
       PROVE  Belongs(p, r.token.company)
  <2>1. p \in Ids /\ rows[p] # Null /\ rows[p].company = r.token.company
    BY <1>5, <1>11 DEF Passes, PointsFound, SeesAll, Ids
  <2>2. p \in born /\ rows[p] \in RowShape
    BY <1>0, <2>1, RowsAre DEF Typed, Present
  <2> QED  BY <1>0, <2>1, <2>2 DEF Belongs, Version, Identity, SameIdentity
<1>12. Scope'
  <2>1. ASSUME NEW d \in Clients, NEW i, NEW k, requests'[d].phase # "idle",
               i = requests'[d].id, k = requests'[d].token.company, k # Null
        PROVE  /\ Belongs(i, k)'
               /\ requests'[d].op = "link" /\ requests'[d].phase = "checked" =>
                     \A p \in requests'[d].points : Belongs(p, k)'
    <3>1. CASE d = c
      <4>1. i = r.id /\ k = r.token.company /\ requests'[d].op = r.op /\ requests'[d].points = r.points /\ Passes(r)
        BY <1>2, <1>4, <2>1, <3>1
      <4>2. Belongs(i, k)
        BY <1>0, <2>1, <4>1 DEF Scope, r
      <4> QED  BY <1>8, <1>11, <2>1, <4>1, <4>2, BelongsKept
    <3>2. CASE d # c
      <4>1. /\ Belongs(i, k)
            /\ requests'[d].op = "link" /\ requests'[d].phase = "checked" =>
                     \A p \in requests'[d].points : Belongs(p, k)
        BY <1>0, <1>2, <2>1, <3>2 DEF Scope
      <4> QED  BY <1>8, <4>1, BelongsKept
    <3> QED  BY <3>1, <3>2
  <2> QED  BY <2>1 DEF Scope, Belongs
<1>13. ForeignKeysHold(rows)' /\ AdminInv'
  BY <1>0 DEF ForeignKeysHold, Present, AdminInv, Admins
<1>14. AdminKept'
  <2>1. ASSUME NEW d \in Clients, NEW k \in CompanyIds,
               requests'[d].phase # "idle", requests'[d].id \in Admins(rows', k)
        PROVE  /\ requests'[d].op # "remove"
               /\ requests'[d].entity # Null => requests'[d].entity.role = "admin"
    <3>1. Admins(rows', k) = Admins(rows, k)
      BY <1>0
    <3>2. CASE d = c
      BY <1>0, <1>2, <1>4, <2>1, <3>1, <3>2 DEF AdminKept, r
    <3>3. CASE d # c
      BY <1>0, <1>2, <2>1, <3>1, <3>3 DEF AdminKept
    <3> QED  BY <3>2, <3>3
  <2> QED  BY <2>1 DEF AdminKept
<1> QED  BY <1>6, <1>10, <1>12, <1>13, <1>14 DEF IInv

-----------------------------------------------------------------------------
(* Writing.                                                                *)

\* What a write does to the tables.
Nothing(r) == UNCHANGED <<rows, links>> /\ configs' \subseteq configs \cup ({r.id} \cap Present(rows) \cap CompanyIds)

Committed(r) ==
    /\ Allowed(rows') /\ configs' = configs \cap Present(rows')
    /\ \A l \in links' \ links : r.op = "link" /\ l[1] = r.id /\ l[2] \in r.points
    /\ links' \subseteq (Present(rows') \cap UserIds) \X (Present(rows') \cap PointIds)
    /\ \/ r.op = "remove" /\ rows' = [rows EXCEPT ![r.id] = Null]
       \/ r.entity # Null /\ rows' = [rows EXCEPT ![r.id] = r.entity]

LEMMA WriteKinds ==
  ASSUME Typed, NEW c \in Clients, Write(c)
  PROVE  /\ requests[c].phase = "checked" /\ End(c) /\ UNCHANGED <<born, tokens, asked>>
         /\ Nothing(requests[c]) \/ Committed(requests[c])
<1> DEFINE r == requests[c]
<1>0. r.phase = "checked" /\ End(c) /\ UNCHANGED <<born, tokens, asked>>
  BY DEF Write
<1>1. /\ r.op \in Ops /\ r.id \in Ids
      /\ r.entity = Null <=> r.op \in {"remove", "configure"}
      /\ r.op = "configure" => r.id \in CompanyIds
      /\ r.op \in {"link", "unlink"} => r.id \in UserIds
      /\ r.points \in SUBSET PointIds
  BY <1>0, Bearer
<1>2. links \subseteq UserIds \X PointIds
  BY DEF Typed
<1>3. ASSUME NEW table, NEW newLinks, Commit(table, newLinks), newLinks \subseteq UserIds \X PointIds,
             \A l \in newLinks \ links : r.op = "link" /\ l[1] = r.id /\ l[2] \in r.points,
             \/ r.op = "remove" /\ table = [rows EXCEPT ![r.id] = Null]
             \/ r.entity # Null /\ table = [rows EXCEPT ![r.id] = r.entity]
      PROVE  Nothing(r) \/ Committed(r)
  <2>1. CASE Allowed(table) /\ \A l \in newLinks \ links : l[2] \in Present(table)
    <3>1. /\ rows' = table /\ configs' = configs \cap Present(table)
          /\ links' = {l \in newLinks : {l[1], l[2]} \subseteq Present(table)}
      BY <1>3, <2>1 DEF Commit
    <3>2. links' \subseteq (Present(table) \cap UserIds) \X (Present(table) \cap PointIds)
      BY <1>3, <3>1
    <3>3. Present(rows') = Present(table) /\ Allowed(rows')
      BY <2>1, <3>1
    <3>4. \A l \in links' \ links : r.op = "link" /\ l[1] = r.id /\ l[2] \in r.points
      BY <1>3, <3>1
    <3> QED  BY <1>3, <3>1, <3>2, <3>3, <3>4 DEF Committed
  <2>2. CASE ~(Allowed(table) /\ \A l \in newLinks \ links : l[2] \in Present(table))
    <3>1. UNCHANGED <<rows, links, configs>>
      BY <1>3, <2>2 DEF Commit
    <3> QED  BY <3>1 DEF Nothing
  <2> QED  BY <2>1, <2>2
<1>4. \/ r.op \in {"create", "update"} /\ Commit(Save(r), links)
      \/ r.op = "remove" /\ Commit([rows EXCEPT ![r.id] = Null], links)
      \/ r.op = "link" /\ Commit(Save(r), LinksOf(r.id, PointsOf(r.id) \cup r.points))
      \/ /\ r.op = "unlink"
         /\ IF PointsOf(r.id) = {} THEN UNCHANGED <<rows, links, configs>>
            ELSE Commit(Save(r), LinksOf(r.id, PointsOf(r.id) \ r.points))
      \/ /\ r.op = "configure"
         /\ configs' = IF rows[r.id] # Null THEN configs \cup {r.id} ELSE configs
         /\ UNCHANGED <<rows, links>>
  BY DEF Write
<1>5. Save(r) = [rows EXCEPT ![r.id] = r.entity]
  BY DEF Save
<1> HIDE DEF r
<1>6. Nothing(r) \/ Committed(r)
  <2>1. CASE r.op \in {"create", "update"} /\ Commit(Save(r), links)
    BY <1>1, <1>2, <1>3, <1>5, <2>1 DEF Commit
  <2>2. CASE r.op = "remove" /\ Commit([rows EXCEPT ![r.id] = Null], links)
    BY <1>2, <1>3, <2>2 DEF Commit
  <2>3. CASE r.op = "link" /\ Commit(Save(r), LinksOf(r.id, PointsOf(r.id) \cup r.points))
    <3> DEFINE new == LinksOf(r.id, PointsOf(r.id) \cup r.points)
    <3>1. new = {l \in links : l[1] # r.id} \cup {<<r.id, p>> : p \in r.points}
      BY DEF LinksOf, PointsOf
    <3>2. new \subseteq UserIds \X PointIds
      <4>1. r.id \in UserIds /\ r.points \subseteq PointIds
        BY <1>1, <2>3
      <4>2. \A p \in r.points : <<r.id, p>> \in UserIds \X PointIds
        BY <4>1
      <4> QED  BY <1>2, <3>1, <4>2
    <3>3. \A l \in new \ links : l[1] = r.id /\ l[2] \in r.points
      BY <3>1
    <3>4. Commit(Save(r), new)
      BY <2>3
    <3> HIDE DEF new
    <3> QED  BY <1>1, <1>3, <1>5, <2>3, <3>2, <3>3, <3>4 DEF Commit
  <2>4. CASE r.op = "unlink" /\ UNCHANGED <<rows, links, configs>>
    BY <2>4 DEF Nothing
  <2>5. CASE /\ r.op = "configure"
             /\ configs' = IF rows[r.id] # Null THEN configs \cup {r.id} ELSE configs
             /\ UNCHANGED <<rows, links>>
    BY <1>1, <2>5 DEF Nothing, Present
  <2> QED  BY <1>4, <2>1, <2>2, <2>3, <2>4, <2>5 DEF PointsOf
<1> QED  BY <1>0, <1>6 DEF r

\* An entity that is written has the identity of what else the id was, and a
\* company's administrator stays the one it has.
LEMMA AdminsKept ==
  ASSUME IInv, NEW c \in Clients, requests[c].phase = "checked", Committed(requests[c]),
         NEW k \in CompanyIds
  PROVE  Admins(rows', k) = Admins(rows, k)
<1> DEFINE r == requests[c]
<1>0. /\ Typed /\ Identity /\ CompaniesBorn /\ AdminInv /\ AdminKept /\ rows \in AnyTable
      /\ r.id \in Ids /\ (r.entity # Null => r.entity \in RowShape)
      /\ (r.entity # Null => Version(r.entity, r.id))
      /\ UserIds \subseteq Ids
  <2>1. r.entity # Null => Version(r.entity, r.id)
    BY DEF Version, Holds
  <2> QED  BY <2>1, Bearer DEF IInv, Typed, Ids
<1>1. /\ Allowed(rows')
      /\ \/ r.op = "remove" /\ rows' = [rows EXCEPT ![r.id] = Null]
         \/ r.entity # Null /\ rows' = [rows EXCEPT ![r.id] = r.entity]
  BY DEF Committed
<1>2. \A u \in UserIds : u # r.id => rows'[u] = rows[u]
  BY <1>0, <1>1 DEF AnyTable
<1>3. r.id \in Admins(rows, k) => r.op # "remove" /\ (r.entity # Null => r.entity.role = "admin")
  BY <1>0 DEF AdminKept
<1>4. rows'[r.id] = Null \/ (r.entity # Null /\ rows'[r.id] = r.entity)
  BY <1>0, <1>1 DEF AnyTable
<1> HIDE DEF r
<1>5. Admins(rows, k) \subseteq Admins(rows', k)
  <2>1. SUFFICES ASSUME NEW u \in Admins(rows, k) PROVE u \in Admins(rows', k)
    OBVIOUS
  <2>2. u \in UserIds /\ rows[u] # Null /\ rows[u].role = "admin" /\ rows[u].company = k
    BY DEF Admins
  <2>3. CASE u # r.id
    BY <1>2, <2>2, <2>3 DEF Admins
  <2>4. CASE u = r.id
    <3>1. r.entity # Null /\ rows' = [rows EXCEPT ![r.id] = r.entity] /\ r.entity.role = "admin"
      BY <1>1, <1>3, <2>4
    <3>2. rows[u] \in RowShape /\ Version(rows[u], u)
      BY <1>0, <2>2, RowsAre DEF Typed, Present, Version
    <3>3. r.entity.company = k
      BY <1>0, <2>2, <2>4, <3>1, <3>2 DEF Identity, SameIdentity
    <3>4. rows'[u] = r.entity
      BY <1>0, <2>4, <3>1 DEF AnyTable
    <3> QED  BY <2>2, <3>1, <3>3, <3>4 DEF Admins
  <2> QED  BY <2>3, <2>4
<1>6. Admins(rows', k) \subseteq Admins(rows, k)
  <2>1. SUFFICES ASSUME NEW v \in Admins(rows', k), v \notin Admins(rows, k) PROVE FALSE
    OBVIOUS
  <2>2. v \in UserIds /\ rows'[v] # Null /\ rows'[v].role = "admin" /\ rows'[v].company = k
    BY DEF Admins
  <2>3. v = r.id
    BY <1>2, <2>1, <2>2 DEF Admins
  <2>4. r.entity # Null /\ r.entity.company = k
    BY <1>4, <2>2, <2>3
  <2>5. k \in born
    BY <1>0, <2>4, AdministrationAssumption DEF CompaniesBorn, Ids
  <2>6. PICK u \in UserIds : Admins(rows, k) = {u}
    BY <1>0, <2>5 DEF AdminInv
  <2>7. u \in Admins(rows', k) /\ u # v
    BY <1>5, <2>1, <2>6
  <2>8. IsFiniteSet(Admins(rows', k))
    <3>1. Admins(rows', k) \subseteq Ids
      BY <1>0 DEF Admins
    <3> QED  BY <3>1, FS_Subset, AdministrationAssumption
  <2>9. Cardinality(Admins(rows', k)) <= 1
    BY <1>1 DEF Allowed, UniqueAdmins
  <2>10. {u, v} \subseteq Admins(rows', k) /\ Cardinality({u, v}) = 2
    <3>1. IsFiniteSet({u}) /\ Cardinality({u}) = 1
      BY FS_Singleton
    <3>2. Cardinality({u} \cup {v}) = 2
      <4>1. v \notin {u}
        BY <2>7
      <4>2. Cardinality({u} \cup {v}) = Cardinality({u}) + 1
        BY <3>1, <4>1, FS_AddElement
      <4> QED  BY <3>1, <4>2
    <3>3. {u} \cup {v} = {u, v}
      OBVIOUS
    <3> QED  BY <2>7, <3>2, <3>3
  <2> QED  BY <2>8, <2>9, <2>10, FS_Subset, FS_CardinalityType
<1> QED  BY <1>5, <1>6

LEMMA WriteKept ==
  ASSUME IInv, NEW c \in Clients, Write(c)
  PROVE  IInv'
<1> DEFINE r == requests[c]
<1>0. /\ Typed /\ Identity /\ CompaniesBorn /\ Context /\ Scope /\ AdminInv /\ AdminKept /\ ForeignKeysHold(rows)
      /\ born \subseteq Ids /\ requests \in [Clients -> RequestState] /\ rows \in AnyTable
      /\ r.phase = "checked" /\ End(c) /\ UNCHANGED <<born, tokens, asked>>
      /\ Nothing(r) \/ Committed(r)
  BY WriteKinds DEF IInv, Typed
<1>1. /\ requests' \in [Clients -> RequestState] /\ requests'[c] = Idle /\ Idle.phase = "idle"
      /\ \A d \in Clients : d # c => requests'[d] = requests[d]
  BY <1>0, Ended DEF Idle
<1>2. /\ r.op \in Ops /\ r.id \in born /\ r.id \in Ids
      /\ r.entity = Null <=> r.op \in {"remove", "configure"}
      /\ r.entity # Null => r.entity \in RowsOf(r.id) /\ r.entity \in RowShape
  BY <1>0, Bearer
\* What a row becomes is the entity of the request, which it could become before.
<1>3. /\ rows' \in AnyTable
      /\ \A i \in Ids : rows'[i] # rows[i] => i = r.id /\ (rows'[i] # Null => rows'[i] = r.entity)
  <2>1. CASE rows' = rows
    BY <1>0, <2>1
  <2>2. CASE r.op = "remove" /\ rows' = [rows EXCEPT ![r.id] = Null]
    BY <1>0, <1>2, <2>2 DEF AnyTable
  <2>3. CASE r.entity # Null /\ rows' = [rows EXCEPT ![r.id] = r.entity]
    BY <1>0, <1>2, <2>3 DEF AnyTable
  <2> QED  BY <1>0, <2>1, <2>2, <2>3 DEF Nothing, Committed
<1>4. ASSUME NEW i \in Ids, NEW x \in RowShape, Version(x, i)' PROVE Version(x, i)
  <2>1. CASE x = rows'[i]
    BY <1>0, <1>3, <1>4, <2>1 DEF Version, Holds
  <2>2. ASSUME NEW d \in Clients, Holds(d, i)', requests'[d].entity = x PROVE Version(x, i)
    BY <1>1, <1>4, <2>2 DEF Holds, Version
  <2> QED  BY <1>4, <2>1, <2>2 DEF Version
<1>5. ASSUME NEW i \in Ids, NEW x \in RowShape, Settled(x, i)' PROVE Settled(x, i)
  <2>1. CASE x = rows'[i]
    BY <1>0, <1>3, <1>5, <2>1 DEF Settled, Holds
  <2>2. ASSUME NEW d \in Clients, Holds(d, i)', requests'[d].entity = x,
               requests'[d].op # "create" \/ requests'[d].phase = "checked"
        PROVE  Settled(x, i)
    BY <1>1, <1>5, <2>2 DEF Holds, Settled
  <2> QED  BY <1>5, <2>1, <2>2 DEF Settled
<1>6. Grown
  BY <1>0, <1>4, FewerGrown DEF Fewer
<1>7. Identity' /\ CompaniesBorn' /\ Context'
  <2>1. \A i \in Ids, x \in RowShape : Settled(x, i)' =>
           ContextOf(x) \/ \E y \in RowShape : Settled(y, i) /\ SameIdentity(x, y)
    BY <1>5 DEF SameIdentity
  <2> QED  BY <1>0, <1>6, <2>1, Carried
<1>8. Scope'
  <2>1. ASSUME NEW d \in Clients, NEW i, NEW k, requests'[d].phase # "idle",
               i = requests'[d].id, k = requests'[d].token.company, k # Null
        PROVE  /\ Belongs(i, k)'
               /\ requests'[d].op = "link" /\ requests'[d].phase = "checked" =>
                     \A p \in requests'[d].points : Belongs(p, k)'
    <3>1. /\ Belongs(i, k)
          /\ requests'[d].op = "link" /\ requests'[d].phase = "checked" =>
                   \A p \in requests'[d].points : Belongs(p, k)
      BY <1>0, <1>1, <2>1 DEF Scope
    <3> QED  BY <1>6, <3>1, BelongsKept
  <2> QED  BY <2>1 DEF Scope, Belongs
<1>9. Typed'
  <2>1. ASSUME NEW i \in Present(rows') PROVE rows'[i] \in RowsOf(i) /\ i \in born'
    <3>1. CASE rows'[i] = rows[i]
      BY <1>0, <2>1, <3>1 DEF Typed, Present
    <3>2. CASE rows'[i] # rows[i]
      BY <1>0, <1>2, <1>3, <2>1, <3>2 DEF Present
    <3> QED  BY <3>1, <3>2
  <2>2. configs' \subseteq Present(rows') \cap CompanyIds
    BY <1>0 DEF Typed, Nothing, Committed
  <2>3. links' \subseteq (Present(rows') \cap UserIds) \X (Present(rows') \cap PointIds)
    <3>1. CASE Nothing(r)
      BY <1>0, <3>1 DEF Typed, Nothing
    <3>2. CASE Committed(r)
      BY <3>2 DEF Committed
    <3> QED  BY <1>0, <3>1, <3>2
  <2>4. ASSUME NEW d \in Clients
        PROVE  \/ requests'[d] = Idle
               \/ /\ requests'[d].phase \in {"asked", "checked"} /\ requests'[d].op \in Ops
                  /\ requests'[d].id \in born' /\ requests'[d].token \in tokens'
                  /\ requests'[d].entity = Null <=> requests'[d].op \in {"remove", "configure"}
                  /\ requests'[d].entity # Null => requests'[d].entity \in RowsOf(requests'[d].id)
                  /\ requests'[d].op = "configure" => requests'[d].id \in CompanyIds
                  /\ requests'[d].op \in {"link", "unlink"} => requests'[d].id \in UserIds
    <3>1. CASE d = c
      BY <1>1, <3>1
    <3>2. CASE d # c
      BY <1>0, <1>1, <3>2 DEF Typed
    <3> QED  BY <3>1, <3>2
  <2> QED  BY <1>0, <1>1, <1>3, <2>1, <2>2, <2>3, <2>4 DEF Typed
<1>10. ForeignKeysHold(rows)'
  <2>1. CASE Nothing(r)
    BY <1>0, <2>1 DEF Nothing, ForeignKeysHold, Present
  <2>2. CASE Committed(r)
    BY <2>2 DEF Committed, Allowed
  <2> QED  BY <1>0, <2>1, <2>2
<1>11. ASSUME NEW k \in CompanyIds PROVE Admins(rows', k) = Admins(rows, k)
  <2>1. CASE Nothing(r)
    BY <2>1 DEF Nothing
  <2>2. CASE Committed(r)
    BY <1>0, <2>2, AdminsKept
  <2> QED  BY <1>0, <2>1, <2>2
<1>12. AdminInv'
  BY <1>0, <1>11 DEF AdminInv
<1>13. AdminKept'
  BY <1>0, <1>1, <1>11 DEF AdminKept
<1> QED  BY <1>7, <1>8, <1>9, <1>10, <1>12, <1>13 DEF IInv

-----------------------------------------------------------------------------
(* A company and its administrator.                                        *)

LEMMA CreateCompanyKept ==
  ASSUME IInv, NEW t \in tokens, NEW k \in CompanyIds, NEW u \in UserIds, CreateCompany(t, k, u)
  PROVE  IInv'
<1>0. /\ Typed /\ Identity /\ CompaniesBorn /\ Context /\ Scope /\ AdminInv /\ AdminKept /\ ForeignKeysHold(rows)
      /\ born \subseteq Ids /\ rows \in AnyTable
      /\ asked < MaxRequests /\ k \notin born /\ u \notin born /\ k \in Ids /\ u \in Ids /\ k # u
      /\ rows' = [rows EXCEPT ![k] = CompanyRow(k), ![u] = UserRow(k, "admin")]
      /\ configs' = configs \cup {k} /\ born' = born \cup {k, u} /\ asked' = asked + 1
      /\ UNCHANGED <<links, tokens, requests>>
  <2>1. k \in Ids /\ u \in Ids /\ k # u
    BY AdministrationAssumption DEF Ids
  <2> QED  BY <2>1 DEF IInv, Typed, CreateCompany, Fresh
<1>1. /\ CompanyRow(k) \in RowsOf(k) /\ UserRow(k, "admin") \in RowsOf(u)
      /\ CompanyRow(k).company = k /\ CompanyRow(k).unit = Null /\ CompanyRow(k).point = Null
      /\ CompanyRow(k).table = "company" /\ CompanyRow(k).role = Null
      /\ UserRow(k, "admin").company = k /\ UserRow(k, "admin").unit = Null /\ UserRow(k, "admin").point = Null
      /\ UserRow(k, "admin").role = "admin" /\ UserRow(k, "admin").table = "user"
  <2>1. k \notin UserIds /\ k \notin UnitIds /\ k \notin PointIds /\ k \notin CameraIds
    BY AdministrationAssumption
  <2>2. u \notin CompanyIds /\ u \notin UnitIds /\ u \notin PointIds /\ u \notin CameraIds
    BY AdministrationAssumption
  <2>3. CompanyRow(k) \in RowsOf(k)
    BY <2>1 DEF RowsOf
  <2>4. RowsOf(u) = {UserRow(x, y) : x \in CompanyIds \cup {Null}, y \in Roles}
    BY <2>2 DEF RowsOf
  <2>5. UserRow(k, "admin") \in RowsOf(u)
    BY <2>4 DEF Roles
  <2> QED  BY <2>3, <2>5 DEF CompanyRow, UserRow, Row
<1> DEFINE founded == CompanyRow(k)
           boss == UserRow(k, "admin")
<1>2. founded \in RowShape /\ founded # Null /\ boss \in RowShape /\ boss # Null
  BY <1>0, <1>1, RowsAre
<1>3. /\ rows'[k] = founded /\ rows'[u] = boss
      /\ \A i \in Ids : i # k /\ i # u => rows'[i] = rows[i]
      /\ rows' \in AnyTable
  BY <1>0, <1>2 DEF AnyTable
<1> HIDE DEF founded, boss
<1>4. rows[k] = Null /\ rows[u] = Null
  BY <1>0, Unborn
<1>5. Present(rows') = Present(rows) \cup {k, u}
  BY <1>0, <1>2, <1>3 DEF Present
<1>6. ASSUME NEW i \in Ids, NEW x \in RowShape, Version(x, i)'
      PROVE  Version(x, i) \/ (i = k /\ x = founded) \/ (i = u /\ x = boss)
  <2>1. Version(x, i) <=> x # Null /\ (x = rows[i] \/ \E c \in Clients : Holds(c, i) /\ requests[c].entity = x)
    BY DEF Version
  <2>2. x # Null /\ (x = rows'[i] \/ \E c \in Clients : Holds(c, i) /\ requests[c].entity = x)
    BY <1>0, <1>6 DEF Version, Holds
  <2> QED  BY <1>3, <2>1, <2>2
<1>7. ASSUME NEW i \in Ids, NEW x \in RowShape, Settled(x, i)'
      PROVE  Settled(x, i) \/ x \in {founded, boss}
  <2>1. /\ x # Null
        /\ \/ x = rows'[i]
           \/ \E c \in Clients : /\ Holds(c, i) /\ requests[c].entity = x
                                 /\ requests[c].op # "create" \/ requests[c].phase = "checked"
    BY <1>0, <1>7 DEF Settled, Holds
  <2> QED  BY <1>3, <2>1 DEF Settled
<1>8. founded.company = k /\ boss.company = k /\ ContextOf(founded) /\ ContextOf(boss)
  BY <1>1 DEF ContextOf, founded, boss
<1>9. Grown
  <2>1. ASSUME NEW i \in born, NEW x \in RowShape, Version(x, i)'
        PROVE  \E y \in RowShape : Version(y, i) /\ SameIdentity(x, y)
    BY <1>0, <1>6, <2>1 DEF SameIdentity
  <2>2. ASSUME NEW i \in Ids \ born, NEW x \in RowShape, Version(x, i)'
        PROVE  (i = k /\ x = founded) \/ (i = u /\ x = boss)
    BY <1>0, <1>6, <2>2, Unborn
  <2>3. ASSUME NEW i \in Ids \ born, NEW x \in RowShape, Version(x, i)'
        PROVE  x.company \in born' \cup {Null} /\ \A y \in RowShape : Version(y, i)' => x = y
    BY <1>0, <1>8, <2>2, <2>3
  <2> QED  BY <1>0, <2>1, <2>3 DEF Grown
<1>10. Identity' /\ CompaniesBorn' /\ Context'
  <2>1. \A i \in Ids, x \in RowShape : Settled(x, i)' =>
           ContextOf(x) \/ \E y \in RowShape : Settled(y, i) /\ SameIdentity(x, y)
    BY <1>7, <1>8 DEF SameIdentity
  <2> QED  BY <1>0, <1>9, <2>1, Carried
<1>11. Scope'
  <2>1. ASSUME NEW d \in Clients, NEW i, NEW x, requests'[d].phase # "idle",
               i = requests'[d].id, x = requests'[d].token.company, x # Null
        PROVE  /\ Belongs(i, x)'
               /\ requests'[d].op = "link" /\ requests'[d].phase = "checked" =>
                     \A p \in requests'[d].points : Belongs(p, x)'
    <3>1. /\ Belongs(i, x)
          /\ requests'[d].op = "link" /\ requests'[d].phase = "checked" =>
                   \A p \in requests'[d].points : Belongs(p, x)
      BY <1>0, <2>1 DEF Scope
    <3> QED  BY <1>9, <3>1, BelongsKept
  <2> QED  BY <2>1 DEF Scope, Belongs
<1>12. Typed'
  <2>1. \A i \in Present(rows') : rows'[i] \in RowsOf(i) /\ i \in born'
    BY <1>0, <1>1, <1>3, <1>5 DEF Typed, Present, founded, boss
  <2>2. asked' \in 0 .. MaxRequests
    BY <1>0, AdministrationAssumption DEF Typed
  <2>3. /\ born' \subseteq Ids /\ configs' \subseteq Present(rows') \cap CompanyIds
        /\ links' \subseteq (Present(rows') \cap UserIds) \X (Present(rows') \cap PointIds)
        /\ tokens' \subseteq Tokens /\ \A x \in tokens' : x.company \in born' \cup {Null}
    BY <1>0, <1>5 DEF Typed
  <2> QED  BY <1>0, <1>3, <2>1, <2>2, <2>3 DEF Typed
<1>13. ForeignKeysHold(rows)'
  <2>1. ASSUME NEW i \in Present(rows') PROVE References(rows'[i]) \subseteq Present(rows')
    <3>1. CASE i \in {k, u}
      BY <1>1, <1>3, <3>1 DEF References, founded, boss
    <3>2. CASE i \notin {k, u}
      BY <1>0, <1>3, <1>5, <2>1, <3>2 DEF ForeignKeysHold, Present
    <3> QED  BY <3>1, <3>2
  <2> QED  BY <2>1 DEF ForeignKeysHold
<1>14. ASSUME NEW x \in CompanyIds PROVE Admins(rows', x) = IF x = k THEN {u} ELSE Admins(rows, x)
  <2>1. CASE x = k
    <3>1. \A v \in UserIds : rows[v] # Null => rows[v].company # k
      <4>1. SUFFICES ASSUME NEW v \in UserIds, rows[v] # Null, rows[v].company = k PROVE FALSE
        OBVIOUS
      <4>2. v \in Ids
        BY DEF Ids
      <4>3. rows[v] \in RowShape /\ Version(rows[v], v)
        BY <1>0, <4>1, <4>2, RowsAre DEF Typed, Present, Version
      <4> QED  BY <1>0, <4>1, <4>2, <4>3, AdministrationAssumption DEF CompaniesBorn
    <3>2. k \notin UserIds
      BY AdministrationAssumption
    <3> QED  BY <1>1, <1>2, <1>3, <2>1, <3>1, <3>2 DEF Admins, boss, Ids
  <2>2. CASE x # k
    <3>1. k \notin UserIds /\ UserIds \subseteq Ids
      BY AdministrationAssumption DEF Ids
    <3>2. \A v \in UserIds : v # u => rows'[v] = rows[v]
      BY <1>3, <3>1
    <3> QED  BY <1>3, <1>4, <1>8, <2>2, <3>2 DEF Admins
  <2> QED  BY <2>1, <2>2
<1>15. AdminInv'
  BY <1>0, <1>14, AdministrationAssumption DEF AdminInv
<1>16. AdminKept'
  <2>1. ASSUME NEW c \in Clients, requests[c].phase # "idle" PROVE requests[c].id \in born
    BY <1>0, <2>1, Bearer
  <2>2. \A c \in Clients : requests[c].phase # "idle" => requests[c].id # u
    BY <1>0, <2>1
  <2> QED  BY <1>0, <1>14, <2>2 DEF AdminKept
<1> QED  BY <1>10, <1>11, <1>12, <1>13, <1>15, <1>16 DEF IInv

-----------------------------------------------------------------------------
(* The specification.                                                      *)

LEMMA InitKept ==
  ASSUME AdministrationInit
  PROVE  IInv
<1>0. /\ \E first \in FirstRows : rows = FirstTable(first)
      /\ born = Present(rows) /\ configs = CompanyIds \cap born /\ links = {} /\ tokens = {}
      /\ requests = [c \in Clients |-> Idle] /\ asked = 0 /\ Idle.phase = "idle"
  BY DEF AdministrationInit, Idle
<1>1. /\ \A i \in Present(rows) : rows[i] \in RowsOf(i) /\ rows[i].company \in Present(rows) \cup {Null}
      /\ ForeignKeysHold(rows) /\ Coherent(rows)
      /\ \A k \in CompanyIds \cap Present(rows) : \E u \in UserIds : Admins(rows, k) = {u}
  BY <1>0, FirstRowsAssumption
<1>2. \A i \in Ids : rows[i] # Null => rows[i] \in RowShape
  BY <1>1, RowsAre DEF Present
<1>3. \A c \in Clients : \A i : ~Holds(c, i)
  BY <1>0 DEF Holds
<1>4. \A x, i : (Version(x, i) \/ Settled(x, i)) => x = rows[i] /\ x # Null
  BY <1>3 DEF Version, Settled
<1>5. Typed
  <2>1. rows \in AnyTable
    <3>1. rows = [i \in Ids |-> rows[i]]
      BY <1>0 DEF FirstTable
    <3> QED  BY <1>2, <3>1 DEF AnyTable
  <2>2. requests \in [Clients -> RequestState]
    <3>1. Idle \in RequestState
      BY DEF Idle, RequestState
    <3> QED  BY <1>0, <3>1
  <2>3. asked \in 0 .. MaxRequests
    BY <1>0, AdministrationAssumption
  <2> QED  BY <1>0, <1>1, <2>1, <2>2, <2>3 DEF Typed, Present
<1>6. Identity /\ CompaniesBorn
  BY <1>0, <1>1, <1>4 DEF Identity, CompaniesBorn, SameIdentity, Present
<1>7. Context
  <2>1. ASSUME NEW i \in Ids, NEW x \in RowShape, Settled(x, i) PROVE ContextOf(x)
    <3>1. x = rows[i] /\ x # Null /\ i \in Present(rows)
      BY <1>4, <2>1 DEF Present
    <3>2. x.unit # Null => rows[x.unit] # Null /\ rows[x.unit].company = x.company /\ x.unit \in Ids
      BY <1>1, <3>1 DEF Coherent, RowShape, Ids
    <3>3. x.point # Null => /\ rows[x.point] # Null /\ rows[x.point].company = x.company
                            /\ rows[x.point].unit = x.unit /\ x.point \in Ids
      BY <1>1, <3>1 DEF Coherent, RowShape, Ids
    <3> QED  BY <1>0, <1>4, <3>2, <3>3 DEF ContextOf, Belongs, Present
  <2> QED  BY <2>1 DEF Context
<1>8. Scope /\ AdminKept
  BY <1>0 DEF Scope, AdminKept
<1>9. AdminInv
  BY <1>0, <1>1 DEF AdminInv
<1> QED  BY <1>1, <1>5, <1>6, <1>7, <1>8, <1>9 DEF IInv

LEMMA StepKept ==
  ASSUME IInv, [AdministrationNext]_administrationVars
  PROVE  IInv'
<1>1. CASE UNCHANGED administrationVars
  <2>1. UNCHANGED <<rows, born, configs, links, tokens, requests, asked>>
    BY <1>1 DEF administrationVars
  <2>2. Typed' /\ ForeignKeysHold(rows)' /\ AdminInv' /\ AdminKept'
    BY <2>1 DEF IInv, Typed, Present, ForeignKeysHold, AdminInv, Admins, AdminKept
  <2>3. Identity' /\ CompaniesBorn' /\ Context' /\ Scope'
    BY <2>1 DEF IInv, Identity, CompaniesBorn, Context, Scope, Version, Settled, Holds, ContextOf, Belongs
  <2> QED  BY <2>2, <2>3 DEF IInv
<1>2. ASSUME NEW u \in UserIds, Login(u) PROVE IInv'
  BY <1>2, LoginKept
<1>3. ASSUME NEW c \in Clients, requests[c].phase = "idle", asked < MaxRequests, NEW t \in tokens, Ask(c, t)
      PROVE  IInv'
  BY <1>3, AskKept
<1>4. ASSUME NEW c \in Clients, Check(c) \/ Write(c) PROVE IInv'
  BY <1>4, CheckKept, WriteKept
<1>5. ASSUME NEW t \in tokens, NEW k \in CompanyIds, NEW u \in UserIds, CreateCompany(t, k, u) PROVE IInv'
  BY <1>5, CreateCompanyKept
<1> QED  BY <1>1, <1>2, <1>3, <1>4, <1>5 DEF AdministrationNext

LEMMA IInvHolds == AdministrationSpec => []IInv
<1>1. AdministrationInit => IInv
  BY InitKept
<1>2. IInv /\ [AdministrationNext]_administrationVars => IInv'
  BY StepKept
<1> QED  BY <1>1, <1>2, PTL DEF AdministrationSpec

\* Tables, settings, links, tokens and the memory of requests keep their
\* types, and settings and links refer to rows that exist, whatever requests
\* overlap.
THEOREM AdministrationTypes == AdministrationSpec => []AdministrationTypeOK
<1>1. IInv => AdministrationTypeOK
  <2>1. SUFFICES ASSUME IInv PROVE AdministrationTypeOK
    OBVIOUS
  <2>2. Typed
    BY <2>1 DEF IInv
  <2>3. DOMAIN rows = Ids
    BY <2>2 DEF Typed, AnyTable
  <2>4. ASSUME NEW c \in Clients
        PROVE  /\ requests[c].phase \in {"idle", "asked", "checked"}
               /\ requests[c].phase # "idle" =>
                     requests[c].op \in Ops /\ requests[c].id \in born /\ requests[c].token \in tokens
               /\ requests[c].entity # Null => requests[c].entity \in RowsOf(requests[c].id)
    BY <2>2, <2>4 DEF Typed, Idle
  <2> QED  BY <2>2, <2>3, <2>4 DEF AdministrationTypeOK, Typed, Tokens
<1> QED  BY <1>1, IInvHolds, PTL

\* A company keeps exactly one administrator: assertSingleCompanyAdmin, the
\* unique index and the guards of update and remove suffice together, also for
\* entities that are saved stale.
THEOREM AdministratorStays == AdministrationSpec => []OneAdministrator
<1>1. IInv => OneAdministrator
  <2>1. SUFFICES ASSUME IInv, NEW k \in CompanyIds, rows[k] # Null PROVE Cardinality(Admins(rows, k)) = 1
    BY DEF OneAdministrator
  <2>2. k \in CompanyIds \cap born
    BY <2>1 DEF IInv, Typed, Present, Ids
  <2>3. PICK u \in UserIds : Admins(rows, k) = {u}
    BY <2>1, <2>2 DEF IInv, AdminInv
  <2> QED  BY <2>3, FS_Singleton
<1> QED  BY <1>1, IInvHolds, PTL

\* The context that observations and movements copy from a camera is that of
\* its point and unit, in every state, although a row that was removed can come
\* back between validateContext and the save.
THEOREM ContextsStay == AdministrationSpec => []ContextsAgree
<1>1. IInv => ContextsAgree
  <2>1. SUFFICES ASSUME IInv, NEW i \in Present(rows)
        PROVE  /\ rows[i].unit # Null =>
                     rows[rows[i].unit] # Null /\ rows[rows[i].unit].company = rows[i].company
               /\ rows[i].point # Null => /\ rows[rows[i].point] # Null
                                          /\ rows[rows[i].point].company = rows[i].company
                                          /\ rows[rows[i].point].unit = rows[i].unit
    BY DEF ContextsAgree, Coherent
  <2> DEFINE row == rows[i]
  <2>2. i \in Ids /\ row \in RowShape /\ row # Null /\ References(row) \subseteq Present(rows)
    BY <2>1, RowsAre DEF IInv, Typed, Present, ForeignKeysHold
  <2>3. Settled(row, i)
    BY <2>2 DEF Settled
  <2>4. ContextOf(row)
    BY <2>1, <2>2, <2>3 DEF IInv, Context
  <2>5. ASSUME NEW x, x \in References(row)
        PROVE  rows[x] # Null /\ rows[x] \in RowShape /\ Version(rows[x], x)
    BY <2>1, <2>2, <2>5, RowsAre DEF IInv, Typed, Present, Version
  <2> HIDE DEF row
  <2>6. ASSUME row.unit # Null PROVE rows[row.unit] # Null /\ rows[row.unit].company = row.company
    <3>1. row.unit \in References(row)
      BY <2>6 DEF References
    <3> QED  BY <2>4, <2>5, <2>6, <3>1 DEF ContextOf, Belongs
  <2>7. ASSUME row.point # Null
        PROVE  /\ rows[row.point] # Null /\ rows[row.point].company = row.company
               /\ rows[row.point].unit = row.unit
    <3>1. row.point \in References(row)
      BY <2>7 DEF References
    <3> QED  BY <2>4, <2>5, <2>7, <3>1 DEF ContextOf, Belongs
  <2> QED  BY <2>6, <2>7 DEF row
<1> QED  BY <1>1, IInvHolds, PTL

-----------------------------------------------------------------------------
(* Tenants.                                                                *)

\* Only a write ends a request that was checked.
LEMMA EndsByWrite ==
  ASSUME IInv, AdministrationNext, NEW c \in Clients, requests[c].phase = "checked", requests'[c] = Idle
  PROVE  Write(c)
<1>0. requests \in [Clients -> RequestState] /\ Idle.phase = "idle" /\ requests'[c] # requests[c]
  BY DEF IInv, Typed, Idle
<1>1. ASSUME NEW d \in Clients, End(d) PROVE c = d
  BY <1>0, <1>1 DEF End
<1>2. ASSUME NEW u \in UserIds, Login(u) PROVE FALSE
  BY <1>0, <1>2 DEF Login
<1>3. ASSUME NEW d \in Clients, requests[d].phase = "idle", NEW t \in tokens, Ask(d, t) PROVE FALSE
  <2>1. PICK op, id, entity, points : Asks(d, t, op, id, entity, points)
    BY <1>3, AskKinds DEF IInv
  <2>2. c # d
    BY <1>3
  <2> QED  BY <1>0, <2>1, <2>2 DEF Asks, Hold
<1>4. ASSUME NEW d \in Clients, Check(d) PROVE FALSE
  <2>1. requests[d].phase = "asked" /\ c # d
    BY <1>4 DEF Check
  <2>2. \/ requests' = [requests EXCEPT ![d].phase = "checked"]
        \/ End(d)
    BY <1>4 DEF Check
  <2> QED  BY <1>0, <1>1, <2>1, <2>2
<1>5. ASSUME NEW t \in tokens, NEW k \in CompanyIds, NEW u \in UserIds, CreateCompany(t, k, u) PROVE FALSE
  BY <1>0, <1>5 DEF CreateCompany
<1>6. ASSUME NEW d \in Clients, Write(d) PROVE Write(c)
  <2>1. End(d)
    BY <1>6 DEF Write
  <2>2. c = d
    BY <1>1, <2>1
  <2> QED  BY <1>6, <2>2
<1> QED  BY <1>2, <1>3, <1>4, <1>5, <1>6 DEF AdministrationNext

\* What a write touches was, or becomes, a row of the company of the token.
LEMMA TouchesOwn ==
  ASSUME IInv, NEW c \in Clients, Write(c), requests[c].token.company # Null,
         NEW i \in {id \in Ids : rows'[id] # rows[id]} \cup UNION {{l[1], l[2]} : l \in links' \ links}
  PROVE  requests[c].token.company \in {table[i].company : table \in {g \in {rows, rows'} : g[i] # Null}}
<1> DEFINE r == requests[c]
           k == r.token.company
<1>0. /\ Typed /\ Scope /\ rows \in AnyTable /\ r.phase = "checked" /\ r.id \in Ids /\ k # Null
      /\ (r.entity # Null => r.entity \in RowShape)
      /\ Nothing(r) \/ Committed(r)
  BY Bearer, WriteKinds DEF IInv, Typed
<1>1. Belongs(r.id, k) /\ (r.op = "link" => \A p \in r.points : Belongs(p, k))
  BY <1>0 DEF Scope
<1>2. r.entity # Null => Version(r.entity, r.id)
  BY <1>0 DEF Version, Holds
<1>3. IInv'
  BY WriteKept
<1>4. CASE Nothing(r)
  BY <1>4 DEF Nothing
<1>5. CASE Committed(r)
  <2>1. \/ r.op = "remove" /\ rows' = [rows EXCEPT ![r.id] = Null]
        \/ r.entity # Null /\ rows' = [rows EXCEPT ![r.id] = r.entity]
    BY <1>5 DEF Committed
  <2> HIDE DEF r
  \* A row of k before the step.
  <2>2. ASSUME NEW j \in Ids, Belongs(j, k), rows[j] # Null PROVE rows[j].company = k
    <3>1. rows[j] \in RowShape /\ Version(rows[j], j)
      BY <1>0, <2>2, RowsAre DEF Typed, Present, Version
    <3> QED  BY <2>2, <3>1 DEF Belongs
  \* A row of k after the step.
  <2>3. ASSUME NEW j \in Ids, Belongs(j, k), rows'[j] # Null PROVE rows'[j].company = k
    <3>1. CASE rows'[j] = rows[j]
      BY <2>2, <2>3, <3>1
    <3>2. CASE rows'[j] # rows[j]
      <4>1. j = r.id /\ r.entity # Null /\ rows'[j] = r.entity
        BY <1>0, <2>1, <2>3, <3>2 DEF AnyTable
      <4> QED  BY <1>0, <1>1, <1>2, <4>1 DEF Belongs
    <3> QED  BY <3>1, <3>2
  <2>4. Belongs(i, k) /\ i \in Ids /\ (rows[i] # Null \/ rows'[i] # Null)
    <3>1. CASE i \in Ids /\ rows'[i] # rows[i]
      <4>1. i = r.id
        BY <1>0, <2>1, <3>1 DEF AnyTable
      <4> QED  BY <1>1, <3>1, <4>1
    <3>2. CASE i \in UNION {{l[1], l[2]} : l \in links' \ links}
      <4>1. PICK l \in links' \ links : i \in {l[1], l[2]}
        BY <3>2
      <4>2. r.op = "link" /\ l[1] = r.id /\ l[2] \in r.points
        BY <1>5, <4>1 DEF Committed
      <4>3. l \in Present(rows') \X Present(rows')
        BY <1>5, <4>1 DEF Committed
      <4>4. i \in Present(rows')
        BY <4>1, <4>3
      <4> QED  BY <1>1, <4>1, <4>2, <4>4 DEF Present
    <3> QED  BY <3>1, <3>2
  <2>5. \E table \in {rows, rows'} : table[i] # Null /\ table[i].company = k
    BY <2>2, <2>3, <2>4
  <2> QED  BY <2>5 DEF r
<1> QED  BY <1>0, <1>4, <1>5

\* A request with a token of a company writes rows and links of that company
\* only: the scope is examined when the request starts, and no row can change
\* its company between that and the write.
THEOREM TenantsApart == AdministrationSpec => TenantsKeptApart
<1> DEFINE Apart ==
      \A c \in Clients :
          LET k == requests[c].token.company
              Touched == {id \in Ids : rows'[id] # rows[id]}
                           \cup UNION {{l[1], l[2]} : l \in links' \ links}
          IN requests[c].phase = "checked" /\ requests'[c] = Idle /\ k # Null =>
                 \A id \in Touched : k \in {table[id].company : table \in {g \in {rows, rows'} : g[id] # Null}}
<1>1. IInv /\ [AdministrationNext]_administrationVars => [Apart]_administrationVars
  <2>1. SUFFICES ASSUME IInv, AdministrationNext PROVE Apart
    OBVIOUS
  <2>2. SUFFICES ASSUME NEW c \in Clients, requests[c].phase = "checked", requests'[c] = Idle,
                        requests[c].token.company # Null
                 PROVE  \A id \in {i \in Ids : rows'[i] # rows[i]} \cup UNION {{l[1], l[2]} : l \in links' \ links} :
                           requests[c].token.company
                              \in {table[id].company : table \in {g \in {rows, rows'} : g[id] # Null}}
    OBVIOUS
  <2>3. Write(c)
    BY <2>1, <2>2, EndsByWrite
  <2> QED  BY <2>1, <2>2, <2>3, TouchesOwn
<1>2. TenantsKeptApart <=> [][Apart]_administrationVars
  BY DEF TenantsKeptApart
<1> HIDE DEF Apart
<1> QED  BY <1>1, <1>2, IInvHolds, PTL DEF AdministrationSpec

-----------------------------------------------------------------------------
(***************************************************************************)
(* Evidence.                                                               *)
(***************************************************************************)

-----------------------------------------------------------------------------
(* The inductive invariant.                                                *)

JobRecord ==
    [pc: {"persist", "decide", "mark", "mark and drop", "commit", "put", "save", "create", "attach"},
     obs: Observations, row: ObservationRow, registered: BOOLEAN, call: Nat]

ReadRecord == [pc: {"store"}, obs: Observations, seen: 1 .. MaxSeen]

Interactions == [obs: Observations, outcome: Outcomes, source: {"external", "local_fallback", "none"}, movement: BOOLEAN]

Tables ==
    /\ seen \in [Observations -> 0 .. MaxSeen]
    /\ DOMAIN stored \subseteq Observations /\ stored \in [DOMAIN stored -> ObservationRow]
    /\ decision \in [Observations -> AnyDecision \cup {"none"}]
    /\ \A o \in Observations : decision[o] # "none" => o \in DOMAIN stored
    /\ photos \cup marked \cup processed \subseteq DOMAIN stored
    /\ audit \in Seq(Interactions)
    /\ \A k \in 1 .. Len(audit) : audit[k].source = "external" => audit[k].outcome = "success"
    /\ reads \in [Readers -> ReadRecord \cup {NoRead}]
    /\ mishaps \in 0 .. MaxMishaps

JobTyped ==
    job = NoJob \/ /\ job \in JobRecord /\ job.call <= Len(audit)
                   /\ job.pc # "persist" => job.obs \in DOMAIN stored

\* A decision is made once: neither comes back to be reviewed.
Decided == {o \in Observations : decision[o] \in {"open", "discarded"}}

ReviewTyped ==
    \/ review = NoReview
    \/ review.pc = "find" /\ review = [pc |-> "find", ids |-> review.ids] /\ review.ids \subseteq Decided
    \/ /\ review.pc \in {"remove", "save"} /\ review = [pc |-> review.pc, entities |-> review.entities]
       /\ DOMAIN review.entities \subseteq Decided
       /\ review.entities \in [DOMAIN review.entities -> ObservationRow]

PurgeTyped ==
    /\ purge \in [pc: {"idle", "remove", "clear"}, listed: SUBSET Observations, batch: SUBSET Observations]
    /\ purge.listed \subseteq Decided /\ purge.batch \subseteq Decided

UnderReview ==
    IF review.pc = "find" THEN review.ids
    ELSE IF review.pc \in {"remove", "save"} THEN DOMAIN review.entities ELSE {}

\* The row of the job was read when the observation was persisted.
RowRead == job.pc \notin {"idle", "persist"}

\* Photos are removed after the decision only.
PhotosKept ==
    /\ \A o \in DOMAIN stored \ Decided : stored[o].photo => o \in photos
    /\ RowRead /\ job.row.photo /\ job.obs \notin Decided => job.obs \in photos

\* Until it creates the movement, the job is the only one that decides, but
\* for a gatekeeper's confirmation: no review holds its row.
JobAlone ==
    RowRead /\ job.pc # "attach" => decision[job.obs] \in {"none", "open"} /\ job.obs \notin UnderReview

\* Whoever holds a row that was marked knows the mark.
MarksKnown ==
    /\ \A o \in marked : stored[o].checked
    /\ RowRead /\ job.obs \in marked => job.row.checked
    /\ job.pc \in {"mark", "mark and drop"} => job.row.checked
    /\ review.pc \in {"remove", "save"} => \A o \in DOMAIN review.entities : o \in marked => review.entities[o].checked

\* Without failures, every call is stored before the next.
CallsStored ==
    mishaps = 0 =>
       /\ \A k \in 1 .. Len(audit) :
             audit[k].obs \in marked \/ (job.pc \in {"mark", "mark and drop"} /\ job.obs = audit[k].obs)
       /\ \A j, k \in 1 .. Len(audit) : audit[j].obs = audit[k].obs => j = k

EInv ==
    /\ Tables /\ JobTyped /\ ReviewTyped /\ PurgeTyped
    /\ PhotosKept /\ JobAlone /\ MarksKnown /\ CallsStored

-----------------------------------------------------------------------------
(* Rows and records.                                                       *)

LEMMA Persisted ==
  ASSUME Tables, NEW o \in Observations, NEW instant \in 1 .. MaxSeen
  PROVE  /\ DOMAIN InsertOrIgnore(o, instant) = DOMAIN stored \cup {o}
         /\ \A x \in DOMAIN stored : InsertOrIgnore(o, instant)[x] = stored[x]
         /\ o \notin DOMAIN stored => InsertOrIgnore(o, instant)[o] = NewRow(instant)
         /\ NewRow(instant) \in ObservationRow
         /\ NewRow(instant).photo = FALSE /\ NewRow(instant).checked = FALSE
<1>1. NewRow(instant) \in ObservationRow /\ NewRow(instant).photo = FALSE /\ NewRow(instant).checked = FALSE
  BY DEF NewRow, ObservationRow
<1>2. CASE o \in DOMAIN stored
  BY <1>1, <1>2 DEF InsertOrIgnore
<1>3. CASE o \notin DOMAIN stored
  BY <1>1, <1>3 DEF InsertOrIgnore
<1> QED  BY <1>2, <1>3

LEMMA JobFields ==
  ASSUME job \in JobRecord
  PROVE  /\ job.obs \in Observations /\ job.row \in ObservationRow /\ job.call \in Nat /\ job.registered \in BOOLEAN
         /\ job.pc \in {"persist", "decide", "mark", "mark and drop", "commit", "put", "save", "create", "attach"}
         /\ job # NoJob
<1>1. job.pc # "idle"
  BY DEF JobRecord
<1>2. job # NoJob
  BY <1>1 DEF NoJob
<1> QED  BY <1>2 DEF JobRecord

LEMMA JobIs ==
  ASSUME JobTyped, job.pc # "idle"
  PROVE  job \in JobRecord /\ job.call <= Len(audit) /\ (job.pc # "persist" => job.obs \in DOMAIN stored)
BY DEF JobTyped, NoJob

LEMMA NoMishapsYet ==
  ASSUME Tables, mishaps' \in 0 .. MaxMishaps, mishaps' >= mishaps, mishaps' = 0
  PROVE  mishaps = 0
BY EvidenceAssumption DEF Tables

LEMMA NoJobIs == NoJob.pc = "idle" /\ NoReview.pc = "idle" /\ NoRead.pc = "idle"
BY DEF NoJob, NoReview, NoRead

-----------------------------------------------------------------------------
(* A step of the job that leaves the tables and the others alone.          *)

\* What the job remembers of its row stays; a mark of its own may be added.
SameRow ==
    /\ job'.obs = job.obs /\ job'.row.photo = job.row.photo
    /\ job.row.checked => job'.row.checked

LEMMA JobMoves ==
  ASSUME EInv, UNCHANGED <<seen, stored, decision, photos, audit, marked, reads, review, purge>>,
         mishaps' \in 0 .. MaxMishaps, mishaps' >= mishaps, processed' \subseteq DOMAIN stored,
         JobTyped',
         \/ job' = NoJob
         \/ job.pc = "idle" /\ job'.pc = "persist"
         \/ job.pc \notin {"idle", "persist"} /\ job'.pc \notin {"idle", "persist", "attach"} /\ SameRow /\ job.pc # "attach",
         mishaps' = 0 => job.pc \notin {"mark", "mark and drop"},
         job'.pc \in {"mark", "mark and drop"} => job'.row.checked
  PROVE  EInv'
<1>0. /\ Tables /\ JobTyped /\ ReviewTyped /\ PurgeTyped /\ PhotosKept /\ JobAlone /\ MarksKnown /\ CallsStored
      /\ NoJob.pc = "idle"
  BY NoJobIs DEF EInv
<1>1. Tables'
  BY <1>0 DEF Tables
<1>2. ReviewTyped' /\ PurgeTyped' /\ Decided' = Decided /\ UnderReview' = UnderReview
  BY <1>0 DEF ReviewTyped, PurgeTyped, Decided, UnderReview
<1>3. RowRead' => RowRead /\ SameRow /\ job.pc # "attach" /\ job'.pc # "attach"
  BY <1>0 DEF RowRead
<1>4. PhotosKept'
  BY <1>0, <1>2, <1>3 DEF PhotosKept, SameRow
<1>5. JobAlone'
  BY <1>0, <1>2, <1>3 DEF JobAlone, SameRow
<1>6. MarksKnown'
  BY <1>0, <1>3 DEF MarksKnown, SameRow
<1>7. CallsStored'
  <2>1. mishaps' = 0 => mishaps = 0
    BY <1>0, NoMishapsYet
  <2> QED  BY <1>0, <2>1 DEF CallsStored
<1> QED  BY <1>0, <1>1, <1>2, <1>4, <1>5, <1>6, <1>7 DEF EInv

\* The count of failures only grows.
LEMMA Failing ==
  ASSUME Tables, NEW failure \in BOOLEAN, Fails(failure)
  PROVE  mishaps' \in 0 .. MaxMishaps /\ mishaps' >= mishaps /\ (mishaps' = 0 => mishaps = 0 /\ ~failure)
<1>1. MaxMishaps \in Nat /\ mishaps \in 0 .. MaxMishaps
  BY EvidenceAssumption DEF Tables
<1>2. CASE failure
  BY <1>1, <1>2 DEF Fails, Mishap
<1>3. CASE ~failure
  BY <1>1, <1>3 DEF Fails
<1> QED  BY <1>2, <1>3

LEMMA Mishaps ==
  ASSUME Tables, Mishap
  PROVE  mishaps' \in 0 .. MaxMishaps /\ mishaps' >= mishaps /\ mishaps' # 0
BY EvidenceAssumption DEF Tables, Mishap

LEMMA Proceeds ==
  ASSUME job \in JobRecord, NEW pc \in {"persist", "decide", "mark", "mark and drop", "commit", "put", "save", "create", "attach"},
         Proceed(pc)
  PROVE  job' \in JobRecord /\ job'.pc = pc /\ job'.obs = job.obs /\ job'.row = job.row /\ job'.call = job.call
BY DEF JobRecord, Proceed

LEMMA JobFetchKept ==
  ASSUME EInv, NEW o \in Observations, JobFetch(o)
  PROVE  EInv'
<1>0. Tables /\ JobTyped /\ mishaps \in 0 .. MaxMishaps /\ mishaps >= 0
  BY EvidenceAssumption DEF EInv, Tables
<1>1. /\ job = NoJob /\ seen[o] \in 1 .. MaxSeen
      /\ job' = [pc |-> "persist", obs |-> o, row |-> NewRow(seen[o]), registered |-> FALSE, call |-> 0]
      /\ UNCHANGED <<seen, stored, decision, photos, audit, marked, processed, reads, review, purge, mishaps>>
  BY <1>0, EvidenceAssumption DEF JobFetch, outsideJob, Tables
<1>2. NewRow(seen[o]) \in ObservationRow
  BY <1>0, <1>1, Persisted
<1>3. job' \in JobRecord /\ job'.pc = "persist" /\ job'.call = 0
  BY <1>1, <1>2 DEF JobRecord
<1>4. 0 <= Len(audit)
  BY <1>0, LenProperties DEF Tables
<1>5. JobTyped'
  BY <1>1, <1>3, <1>4 DEF JobTyped
<1>6. processed' \subseteq DOMAIN stored /\ job.pc = "idle"
  BY <1>0, <1>1, NoJobIs DEF Tables
<1>7. mishaps' \in 0 .. MaxMishaps /\ mishaps' >= mishaps
  BY <1>0, <1>1
<1> QED  BY <1>1, <1>3, <1>5, <1>6, <1>7, JobMoves

LEMMA JobDropKept ==
  ASSUME EInv, JobDrop
  PROVE  EInv'
<1>0. Tables /\ JobTyped /\ mishaps \in 0 .. MaxMishaps /\ mishaps >= 0
  BY EvidenceAssumption DEF EInv, Tables
<1>1. /\ job.pc \in {"decide", "commit"} /\ job' = NoJob /\ processed' = processed \cup {job.obs}
      /\ UNCHANGED <<seen, stored, decision, photos, audit, marked, reads, review, purge, mishaps>>
  BY DEF JobDrop, Finish, outsideJob
<1>2. job.obs \in DOMAIN stored
  BY <1>0, <1>1, JobIs
<1>3. processed' \subseteq DOMAIN stored /\ NoJob.pc = "idle"
  BY <1>0, <1>1, <1>2, NoJobIs DEF Tables
<1>4. JobTyped'
  BY <1>1 DEF JobTyped
<1>5. mishaps' \in 0 .. MaxMishaps /\ mishaps' >= mishaps
  BY <1>0, <1>1
<1> QED  BY <1>1, <1>3, <1>4, <1>5, JobMoves

LEMMA JobNoCallKept ==
  ASSUME EInv, JobNoCall
  PROVE  EInv'
<1>0. Tables /\ JobTyped /\ mishaps \in 0 .. MaxMishaps /\ mishaps >= 0
  BY EvidenceAssumption DEF EInv, Tables
<1>1. /\ job.pc = "decide" /\ Proceed("commit") /\ UNCHANGED processed
      /\ UNCHANGED <<seen, stored, decision, photos, audit, marked, reads, review, purge, mishaps>>
  BY DEF JobNoCall, Proceed, outsideJob
<1>2. job \in JobRecord /\ job.call <= Len(audit) /\ job.obs \in DOMAIN stored
  BY <1>0, <1>1, JobIs
<1>3. job' \in JobRecord /\ job'.pc = "commit" /\ job'.obs = job.obs /\ job'.row = job.row /\ job'.call = job.call
  BY <1>1, <1>2, Proceeds
<1>4. JobTyped' /\ SameRow
  BY <1>1, <1>2, <1>3 DEF JobTyped, SameRow
<1>5. processed' \subseteq DOMAIN stored /\ mishaps' \in 0 .. MaxMishaps /\ mishaps' >= mishaps
  BY <1>0, <1>1 DEF Tables
<1> QED  BY <1>1, <1>3, <1>4, <1>5, JobMoves

LEMMA JobNoImageKept ==
  ASSUME EInv, JobNoImage
  PROVE  EInv'
<1>0. Tables /\ JobTyped
  BY DEF EInv
<1>1. /\ job.pc = "decide" /\ Mishap /\ UNCHANGED processed
      /\ UNCHANGED <<seen, stored, decision, photos, audit, marked, reads, review, purge>>
  BY DEF JobNoImage, outsideJob
<1>2. PICK pc \in {"mark", "mark and drop"} : job' = [job EXCEPT !.pc = pc, !.row.checked = TRUE]
  BY DEF JobNoImage
<1>3. job \in JobRecord /\ job.call <= Len(audit) /\ job.obs \in DOMAIN stored
  BY <1>0, <1>1, JobIs
<1> DEFINE row == [job.row EXCEPT !.checked = TRUE]
<1>rec. job' = [job EXCEPT !.pc = pc, !.row = row]
  BY <1>2, <1>3 DEF JobRecord
<1> HIDE DEF row
<1>4. /\ job'.pc = pc /\ job'.obs = job.obs /\ job'.row = row
      /\ job'.call = job.call /\ job'.registered = job.registered
  BY <1>rec, <1>3 DEF JobRecord
<1>5. job.row \in ObservationRow
  BY <1>3, JobFields
<1>6. job'.row \in ObservationRow /\ job'.row.photo = job.row.photo /\ job'.row.checked = TRUE
  BY <1>4, <1>5 DEF row, ObservationRow
<1>7. job' \in JobRecord
  BY <1>rec, <1>3, <1>4, <1>6 DEF JobRecord
<1>8. JobTyped' /\ SameRow
  BY <1>1, <1>3, <1>4, <1>6, <1>7 DEF JobTyped, SameRow
<1>9. processed' \subseteq DOMAIN stored /\ mishaps' \in 0 .. MaxMishaps /\ mishaps' >= mishaps /\ mishaps' # 0
  BY <1>0, <1>1, Mishaps DEF Tables
<1> QED  BY <1>1, <1>4, <1>6, <1>8, <1>9, JobMoves

LEMMA JobCommitKept ==
  ASSUME EInv, JobCommit
  PROVE  EInv'
<1>0. Tables /\ JobTyped /\ mishaps \in 0 .. MaxMishaps /\ mishaps >= 0
  BY EvidenceAssumption DEF EInv, Tables
<1>1. /\ job.pc = "commit"
      /\ UNCHANGED <<seen, stored, decision, photos, audit, marked, processed, reads, review, purge, mishaps>>
      /\ \/ job' = [job EXCEPT !.pc = "create", !.registered = TRUE]
         \/ \E pc \in {"put", "create"} : job' = [job EXCEPT !.pc = pc]
  BY DEF JobCommit, outsideJob
<1>2. job \in JobRecord /\ job.call <= Len(audit) /\ job.obs \in DOMAIN stored
  BY <1>0, <1>1, JobIs
<1>3. /\ job' \in JobRecord /\ job'.pc \in {"put", "create"} /\ job'.obs = job.obs
      /\ job'.row = job.row /\ job'.call = job.call
  BY <1>1, <1>2 DEF JobRecord
<1>4. JobTyped' /\ SameRow
  BY <1>1, <1>2, <1>3 DEF JobTyped, SameRow
<1>5. processed' \subseteq DOMAIN stored /\ mishaps' \in 0 .. MaxMishaps /\ mishaps' >= mishaps
  BY <1>0, <1>1 DEF Tables
<1> QED  BY <1>1, <1>3, <1>4, <1>5, JobMoves

LEMMA JobAbortKept ==
  ASSUME EInv, JobAbort
  PROVE  EInv'
<1>0. Tables /\ JobTyped
  BY DEF EInv
<1>1. /\ Mishap /\ job' = NoJob
      /\ UNCHANGED <<seen, stored, decision, photos, audit, marked, processed, reads, review, purge>>
  BY DEF JobAbort, outsideJob
<1>2. processed' \subseteq DOMAIN stored /\ mishaps' \in 0 .. MaxMishaps /\ mishaps' >= mishaps /\ mishaps' # 0
  BY <1>0, <1>1, Mishaps DEF Tables
<1>3. JobTyped' /\ NoJob.pc = "idle"
  BY <1>1, NoJobIs DEF JobTyped
<1> QED  BY <1>1, <1>2, <1>3, JobMoves

-----------------------------------------------------------------------------
(* A step that writes the table of observations.                           *)

\* A photo that an undecided observation claims is there, and a mark is kept.
RowsKept ==
    /\ DOMAIN stored \subseteq DOMAIN stored' /\ DOMAIN stored' \subseteq Observations
    /\ stored' \in [DOMAIN stored' -> ObservationRow]
    /\ \A o \in DOMAIN stored' \ Decided : stored'[o].photo => o \in photos
    /\ \A o \in marked' : o \in DOMAIN stored /\ stored'[o].checked

LEMMA StoreWritten ==
  ASSUME EInv, RowsKept, UNCHANGED <<seen, decision, photos, audit, purge>>,
         mishaps' \in 0 .. MaxMishaps, mishaps' >= mishaps,
         processed' \subseteq DOMAIN stored',
         reads' \in [Readers -> ReadRecord \cup {NoRead}]
  PROVE  Tables' /\ PurgeTyped' /\ Decided' = Decided
<1>0. Tables /\ PurgeTyped
  BY DEF EInv
<1>1. Decided' = Decided
  BY DEF Decided
<1>2. photos' \cup marked' \cup processed' \subseteq DOMAIN stored'
  BY <1>0 DEF Tables, RowsKept
<1>3. \A o \in Observations : decision'[o] # "none" => o \in DOMAIN stored'
  BY <1>0 DEF Tables, RowsKept
<1>4. Tables'
  BY <1>0, <1>2, <1>3 DEF Tables, RowsKept
<1> QED  BY <1>0, <1>1, <1>4 DEF PurgeTyped

LEMMA JobPersistKept ==
  ASSUME EInv, JobPersist
  PROVE  EInv'
<1> DEFINE o == job.obs
<1>0. /\ Tables /\ JobTyped /\ ReviewTyped /\ PurgeTyped /\ PhotosKept /\ JobAlone /\ MarksKnown /\ CallsStored
      /\ NoJob.pc = "idle" /\ mishaps \in 0 .. MaxMishaps /\ mishaps >= 0
  BY NoJobIs, EvidenceAssumption DEF EInv, Tables
<1>1. /\ job.pc = "persist" /\ stored' = InsertOrIgnore(o, job.row.seen)
      /\ UNCHANGED <<seen, decision, photos, audit, marked, reads, review, purge, mishaps>>
      /\ IF decision[o] # "none" THEN Finish
         ELSE /\ job' = [job EXCEPT !.pc = "decide", !.row = stored'[o]]
              /\ UNCHANGED processed
  BY DEF JobPersist, outsideJob
<1>2. job \in JobRecord /\ job.call <= Len(audit) /\ o \in Observations /\ job.row.seen \in 1 .. MaxSeen
  <2>1. job \in JobRecord /\ job.call <= Len(audit)
    BY <1>0, <1>1, JobIs
  <2> QED  BY <2>1, JobFields DEF ObservationRow
<1>3. /\ DOMAIN stored' = DOMAIN stored \cup {o} /\ \A x \in DOMAIN stored : stored'[x] = stored[x]
      /\ o \notin DOMAIN stored =>
            stored'[o] \in ObservationRow /\ stored'[o].photo = FALSE /\ stored'[o].checked = FALSE
  BY <1>0, <1>1, <1>2, Persisted
<1>4. RowsKept
  <2>1. stored' = [x \in DOMAIN stored' |-> stored'[x]]
    BY <1>0, <1>1 DEF InsertOrIgnore, Tables
  <2>2. \A x \in DOMAIN stored' : stored'[x] \in ObservationRow
    BY <1>0, <1>3 DEF Tables
  <2>3. stored' \in [DOMAIN stored' -> ObservationRow]
    BY <2>1, <2>2
  <2>4. \A x \in DOMAIN stored' \ Decided : stored'[x].photo => x \in photos
    BY <1>0, <1>3 DEF PhotosKept
  <2>5. \A x \in marked' : x \in DOMAIN stored /\ stored'[x].checked
    BY <1>0, <1>1, <1>3 DEF MarksKnown, Tables
  <2> QED  BY <1>0, <1>2, <1>3, <2>3, <2>4, <2>5 DEF Tables, RowsKept
<1>5. /\ processed' \subseteq DOMAIN stored'
      /\ \/ job' = NoJob
         \/ /\ decision[o] = "none" /\ job' \in JobRecord /\ job'.pc = "decide" /\ job'.obs = o
            /\ job'.row = stored'[o] /\ job'.call = job.call
  <2>1. stored'[o] \in ObservationRow
    BY <1>2, <1>3, <1>4 DEF RowsKept
  <2>2. CASE decision[o] # "none"
    BY <1>0, <1>1, <1>3, <2>2 DEF Finish, Tables
  <2>3. CASE decision[o] = "none"
    BY <1>0, <1>1, <1>2, <1>3, <2>1, <2>3 DEF Tables, JobRecord
  <2> QED  BY <2>2, <2>3
<1>6. Tables' /\ PurgeTyped' /\ Decided' = Decided
  BY <1>0, <1>1, <1>4, <1>5, StoreWritten DEF Tables
<1>7. ReviewTyped' /\ UnderReview' = UnderReview
  BY <1>0, <1>1, <1>6 DEF ReviewTyped, UnderReview
<1>8. JobTyped'
  BY <1>1, <1>2, <1>3, <1>5 DEF JobTyped
<1>9. RowRead' => job'.pc = "decide" /\ decision[o] = "none" /\ job'.obs = o /\ job'.row = stored'[o]
  BY <1>0, <1>5 DEF RowRead
<1>10. PhotosKept'
  BY <1>1, <1>3, <1>4, <1>6, <1>9 DEF PhotosKept, RowsKept
<1>11. o \notin Decided \/ decision[o] # "none"
  BY DEF Decided
<1>12. UnderReview \subseteq Decided
  BY <1>0, NoJobIs DEF UnderReview, ReviewTyped
<1>13. JobAlone'
  BY <1>1, <1>2, <1>7, <1>9, <1>11, <1>12 DEF JobAlone, Decided
<1>14. MarksKnown'
  BY <1>0, <1>1, <1>4, <1>5, <1>9 DEF MarksKnown, RowsKept
<1>15. CallsStored'
  BY <1>0, <1>1, <1>5 DEF CallsStored
<1> QED  BY <1>6, <1>7, <1>8, <1>10, <1>13, <1>14, <1>15 DEF EInv

\* What a save of the job's row leaves.
LEMMA SavedRow ==
  ASSUME EInv, RowRead, job.pc \notin {"attach"}, SaveRow(job.obs, job.row),
         marked' \subseteq marked \cup {job.obs}, job.obs \in marked' => job.row.checked
  PROVE  RowsKept /\ DOMAIN stored' = DOMAIN stored /\ job.obs \in DOMAIN stored
<1> DEFINE o == job.obs
           row == job.row
<1>0. Tables /\ JobTyped /\ PhotosKept /\ MarksKnown
  BY DEF EInv
<1>1. job \in JobRecord /\ o \in DOMAIN stored /\ row \in ObservationRow
  BY <1>0, JobIs, JobFields DEF RowRead
<1>2. stored' = [x \in DOMAIN stored |-> IF x = o THEN row ELSE stored[x]]
  BY DEF SaveRow, SaveRows
<1>3. row.photo /\ o \notin Decided => o \in photos
  BY <1>0 DEF PhotosKept
<1> HIDE DEF o, row
<1>4. DOMAIN stored' = DOMAIN stored /\ stored'[o] = row /\ \A x \in DOMAIN stored : x # o => stored'[x] = stored[x]
  BY <1>1, <1>2
<1>5. stored' \in [DOMAIN stored' -> ObservationRow]
  BY <1>0, <1>1, <1>2, <1>4 DEF Tables
<1>6. \A x \in DOMAIN stored' \ Decided : stored'[x].photo => x \in photos
  BY <1>0, <1>3, <1>4 DEF PhotosKept
<1>7. \A x \in marked' : x \in DOMAIN stored /\ stored'[x].checked
  <2>1. ASSUME NEW x \in marked' PROVE x \in DOMAIN stored /\ stored'[x].checked
    <3>1. CASE x = o
      BY <1>1, <1>4, <2>1, <3>1 DEF o, row
    <3>2. CASE x # o
      BY <1>0, <1>4, <2>1, <3>2 DEF o, MarksKnown, Tables
    <3> QED  BY <3>1, <3>2
  <2> QED  BY <2>1
<1>8. RowsKept
  BY <1>0, <1>4, <1>5, <1>6, <1>7 DEF RowsKept, Tables
<1> QED  BY <1>1, <1>4, <1>8 DEF o

LEMMA JobMarkKept ==
  ASSUME EInv, JobMark
  PROVE  EInv'
<1> DEFINE o == job.obs
<1>0. /\ Tables /\ JobTyped /\ ReviewTyped /\ PurgeTyped /\ PhotosKept /\ JobAlone /\ MarksKnown /\ CallsStored
      /\ NoJob.pc = "idle"
  BY NoJobIs DEF EInv
<1>1. /\ job.pc \in {"mark", "mark and drop"}
      /\ UNCHANGED <<seen, decision, photos, audit, reads, review, purge>>
      /\ IF job.pc = "mark" THEN Proceed("commit") ELSE Finish
  BY DEF JobMark, outsideJob
<1>2. PICK failure \in BOOLEAN :
         /\ Fails(failure)
         /\ IF failure THEN UNCHANGED <<stored, marked>>
            ELSE SaveRow(job.obs, job.row) /\ marked' = marked \cup {job.obs}
  BY DEF JobMark
<1>3. job \in JobRecord /\ job.call <= Len(audit) /\ o \in DOMAIN stored /\ RowRead /\ job.row.checked
  BY <1>0, <1>1, JobIs DEF RowRead, MarksKnown
<1>4. mishaps' \in 0 .. MaxMishaps /\ mishaps' >= mishaps /\ (mishaps' = 0 => mishaps = 0 /\ ~failure)
  BY <1>0, <1>2, Failing
<1>5. RowsKept /\ DOMAIN stored' = DOMAIN stored /\ marked \subseteq marked' /\ marked' \subseteq marked \cup {o}
      /\ (failure \/ o \in marked')
  <2>1. CASE failure
    BY <1>0, <1>2, <2>1 DEF RowsKept, Tables, PhotosKept, MarksKnown
  <2>2. CASE ~failure
    BY <1>1, <1>2, <1>3, <2>2, SavedRow
  <2> QED  BY <2>1, <2>2
<1>6. /\ processed' \subseteq DOMAIN stored'
      /\ \/ job' = NoJob
         \/ job' \in JobRecord /\ job'.pc = "commit" /\ job'.obs = o /\ job'.row = job.row /\ job'.call = job.call
  <2>1. CASE job.pc = "mark"
    BY <1>0, <1>1, <1>3, <1>5, <2>1, Proceeds DEF Tables, Proceed
  <2>2. CASE job.pc # "mark"
    BY <1>0, <1>1, <1>3, <1>5, <2>2 DEF Tables, Finish
  <2> QED  BY <2>1, <2>2
<1>7. Tables' /\ PurgeTyped' /\ Decided' = Decided
  BY <1>0, <1>1, <1>4, <1>5, <1>6, StoreWritten DEF Tables
<1>8. ReviewTyped' /\ UnderReview' = UnderReview
  BY <1>0, <1>1, <1>7 DEF ReviewTyped, UnderReview
<1>9. JobTyped'
  BY <1>1, <1>3, <1>5, <1>6 DEF JobTyped
<1>10. RowRead' => job'.pc = "commit" /\ job'.obs = o /\ job'.row = job.row
  BY <1>0, <1>6 DEF RowRead
<1>11. PhotosKept'
  BY <1>0, <1>1, <1>3, <1>5, <1>7, <1>10 DEF PhotosKept, RowsKept
<1>12. JobAlone'
  BY <1>0, <1>1, <1>3, <1>8, <1>10 DEF JobAlone
<1>13. MarksKnown'
  <2>1. \A x \in marked' : stored'[x].checked
    BY <1>5 DEF RowsKept
  <2>2. RowRead' /\ job'.obs \in marked' => job'.row.checked
    BY <1>3, <1>10
  <2>3. job'.pc \notin {"mark", "mark and drop"}
    BY <1>0, <1>6
  <2>4. o \notin UnderReview
    BY <1>0, <1>1, <1>3 DEF JobAlone
  <2>5. review'.pc \in {"remove", "save"} =>
           \A x \in DOMAIN review'.entities : x \in marked' => review'.entities[x].checked
    BY <1>0, <1>1, <1>5, <2>4 DEF MarksKnown, UnderReview
  <2> QED  BY <2>1, <2>2, <2>3, <2>5 DEF MarksKnown
<1>14. CallsStored'
  BY <1>0, <1>1, <1>4, <1>5 DEF CallsStored
<1> QED  BY <1>7, <1>8, <1>9, <1>11, <1>12, <1>13, <1>14 DEF EInv

LEMMA JobSavePhotoKept ==
  ASSUME EInv, JobSavePhoto
  PROVE  EInv'
<1> DEFINE o == job.obs
<1>0. /\ Tables /\ JobTyped /\ ReviewTyped /\ PurgeTyped /\ PhotosKept /\ JobAlone /\ MarksKnown /\ CallsStored
  BY DEF EInv
<1>1. /\ job.pc = "save" /\ Proceed("create")
      /\ UNCHANGED <<seen, decision, photos, audit, marked, processed, reads, review, purge>>
  BY DEF JobSavePhoto, outsideJob, Proceed
<1>2. PICK failure \in BOOLEAN :
         Fails(failure) /\ IF failure THEN UNCHANGED stored ELSE SaveRow(job.obs, job.row)
  BY DEF JobSavePhoto
<1>3. job \in JobRecord /\ job.call <= Len(audit) /\ o \in DOMAIN stored /\ RowRead
  BY <1>0, <1>1, JobIs DEF RowRead
<1>4. mishaps' \in 0 .. MaxMishaps /\ mishaps' >= mishaps /\ (mishaps' = 0 => mishaps = 0 /\ ~failure)
  BY <1>0, <1>2, Failing
<1>5. RowsKept /\ DOMAIN stored' = DOMAIN stored
  <2>1. CASE failure
    BY <1>0, <1>1, <1>2, <2>1 DEF RowsKept, Tables, PhotosKept, MarksKnown
  <2>2. CASE ~failure
    BY <1>0, <1>1, <1>2, <1>3, <2>2, SavedRow DEF MarksKnown
  <2> QED  BY <2>1, <2>2
<1>6. job' \in JobRecord /\ job'.pc = "create" /\ job'.obs = o /\ job'.row = job.row /\ job'.call = job.call
  BY <1>1, <1>3, Proceeds
<1>7. Tables' /\ PurgeTyped' /\ Decided' = Decided
  BY <1>0, <1>1, <1>4, <1>5, StoreWritten DEF Tables
<1>8. ReviewTyped' /\ UnderReview' = UnderReview
  BY <1>0, <1>1, <1>7 DEF ReviewTyped, UnderReview
<1>9. JobTyped'
  BY <1>1, <1>3, <1>5, <1>6 DEF JobTyped
<1>10. PhotosKept'
  BY <1>0, <1>1, <1>3, <1>5, <1>6, <1>7 DEF PhotosKept, RowsKept
<1>11. JobAlone'
  BY <1>0, <1>1, <1>3, <1>6, <1>8 DEF JobAlone
<1>12. MarksKnown'
  BY <1>0, <1>1, <1>3, <1>5, <1>6 DEF MarksKnown, RowsKept
<1>13. CallsStored'
  BY <1>0, <1>1, <1>4 DEF CallsStored
<1> QED  BY <1>7, <1>8, <1>9, <1>10, <1>11, <1>12, <1>13 DEF EInv

-----------------------------------------------------------------------------
(* The other steps of the job.                                             *)

LEMMA JobCallKept ==
  ASSUME EInv, JobCall
  PROVE  EInv'
<1> DEFINE o == job.obs
<1>0. /\ Tables /\ JobTyped /\ ReviewTyped /\ PurgeTyped /\ PhotosKept /\ JobAlone /\ MarksKnown /\ CallsStored
  BY DEF EInv
<1>1. /\ job.pc = "decide" /\ ~job.row.checked
      /\ UNCHANGED <<seen, stored, decision, photos, marked, processed, reads, review, purge>>
  BY DEF JobCall, outsideJob
<1>21. PICK outcome \in Answers, lost \in BOOLEAN : \E source \in FinalSources(outcome) :
         /\ Fails(lost)
         /\ audit' = IF lost THEN audit ELSE Append(audit, Interaction(o, outcome, source))
         /\ job' = [job EXCEPT !.pc = IF source = "none" THEN "mark and drop" ELSE "mark",
                               !.row.checked = TRUE,
                               !.call = IF lost THEN 0 ELSE Len(audit) + 1]
  BY DEF JobCall
<1>2. PICK source \in FinalSources(outcome) :
         /\ Fails(lost)
         /\ audit' = IF lost THEN audit ELSE Append(audit, Interaction(o, outcome, source))
         /\ job' = [job EXCEPT !.pc = IF source = "none" THEN "mark and drop" ELSE "mark",
                               !.row.checked = TRUE,
                               !.call = IF lost THEN 0 ELSE Len(audit) + 1]
  BY <1>21
<1>3. job \in JobRecord /\ job.call <= Len(audit) /\ o \in DOMAIN stored /\ RowRead
      /\ o \in Observations /\ job.row \in ObservationRow
  BY <1>0, <1>1, JobIs, JobFields DEF RowRead
<1>4. mishaps' \in 0 .. MaxMishaps /\ mishaps' >= mishaps /\ (mishaps' = 0 => mishaps = 0 /\ ~lost)
  BY <1>0, <1>2, Failing
<1>5. o \notin marked
  BY <1>0, <1>1, <1>3 DEF MarksKnown
<1> DEFINE entry == Interaction(o, outcome, source)
<1>6. /\ entry \in Interactions /\ entry.obs = o
      /\ entry.source = "external" => entry.outcome = "success"
  BY <1>2, <1>3, EvidenceAssumption DEF Interaction, Interactions, FinalSources
<1> HIDE DEF entry
<1>7. audit \in Seq(Interactions) /\ Len(audit) \in Nat
  BY <1>0, LenProperties DEF Tables
<1>8. /\ audit' \in Seq(Interactions) /\ Len(audit') \in Nat /\ Len(audit) <= Len(audit')
      /\ \A k \in 1 .. Len(audit) : audit'[k] = audit[k]
      /\ Len(audit') = IF lost THEN Len(audit) ELSE Len(audit) + 1
      /\ ~lost => audit'[Len(audit) + 1] = entry
  BY <1>2, <1>6, <1>7, AppendProperties, LenProperties DEF entry
<1>9. \A k \in 1 .. Len(audit') : k \in 1 .. Len(audit) \/ (k = Len(audit) + 1 /\ audit'[k] = entry)
  BY <1>7, <1>8
<1> DEFINE new == [job.row EXCEPT !.checked = TRUE]
           call == IF lost THEN 0 ELSE Len(audit) + 1
<1>10. new \in ObservationRow /\ new.photo = job.row.photo /\ new.checked = TRUE
  BY <1>3 DEF ObservationRow
<1>11. job' = [job EXCEPT !.pc = IF source = "none" THEN "mark and drop" ELSE "mark", !.row = new, !.call = call]
  BY <1>2, <1>3 DEF JobRecord
<1>12. call \in Nat /\ call <= Len(audit')
  BY <1>7, <1>8
<1> HIDE DEF new, call
<1>13. /\ job' \in JobRecord /\ job'.pc \in {"mark", "mark and drop"} /\ job'.obs = o
       /\ job'.row = new /\ job'.call = call
  BY <1>3, <1>10, <1>11, <1>12 DEF JobRecord
<1>14. Tables'
  <2>1. \A k \in 1 .. Len(audit') : audit'[k].source = "external" => audit'[k].outcome = "success"
    BY <1>0, <1>6, <1>8, <1>9 DEF Tables
  <2> QED  BY <1>0, <1>1, <1>4, <1>8, <2>1 DEF Tables
<1>15. JobTyped'
  BY <1>1, <1>3, <1>12, <1>13 DEF JobTyped
<1>16. ReviewTyped' /\ PurgeTyped' /\ Decided' = Decided /\ UnderReview' = UnderReview
  BY <1>0, <1>1 DEF ReviewTyped, PurgeTyped, Decided, UnderReview
<1>17. PhotosKept'
  BY <1>0, <1>1, <1>3, <1>10, <1>13, <1>16 DEF PhotosKept
<1>18. JobAlone'
  BY <1>0, <1>1, <1>3, <1>13, <1>16 DEF JobAlone
<1>19. MarksKnown'
  BY <1>0, <1>1, <1>10, <1>13 DEF MarksKnown
<1>20. CallsStored'
  <2>1. SUFFICES ASSUME mishaps' = 0
                 PROVE  /\ \A k \in 1 .. Len(audit') : audit'[k].obs \in marked \/ audit'[k].obs = o
                        /\ \A j, k \in 1 .. Len(audit') : audit'[j].obs = audit'[k].obs => j = k
    BY <1>1, <1>13 DEF CallsStored
  <2>2. \A k \in 1 .. Len(audit) : audit[k].obs \in marked
    BY <1>0, <1>1, <1>4, <2>1 DEF CallsStored
  <2>3. \A j, k \in 1 .. Len(audit) : audit[j].obs = audit[k].obs => j = k
    BY <1>0, <1>4, <2>1 DEF CallsStored
  <2>4. \A k \in 1 .. Len(audit') : audit'[k].obs \in marked \/ audit'[k].obs = o
    BY <1>6, <1>8, <1>9, <2>2
  <2>5. ASSUME NEW j \in 1 .. Len(audit'), NEW k \in 1 .. Len(audit'), audit'[j].obs = audit'[k].obs
        PROVE  j = k
    BY <1>5, <1>6, <1>8, <1>9, <2>2, <2>3, <2>5
  <2> QED  BY <2>4, <2>5
<1> QED  BY <1>14, <1>15, <1>16, <1>17, <1>18, <1>19, <1>20 DEF EInv

LEMMA JobPutPhotoKept ==
  ASSUME EInv, JobPutPhoto
  PROVE  EInv'
<1> DEFINE o == job.obs
<1>0. /\ Tables /\ JobTyped /\ ReviewTyped /\ PurgeTyped /\ PhotosKept /\ JobAlone /\ MarksKnown /\ CallsStored
  BY DEF EInv
<1>1. /\ job.pc = "put"
      /\ UNCHANGED <<seen, stored, decision, audit, marked, reads, review, purge>>
  BY DEF JobPutPhoto, outsideJob
<1>2. PICK failure \in BOOLEAN :
         /\ Fails(failure)
         /\ photos' = IF failure THEN photos ELSE photos \cup {o}
         /\ IF failure THEN Proceed("create")
            ELSE job' = [job EXCEPT !.pc = "save", !.row.photo = TRUE] /\ UNCHANGED processed
  BY DEF JobPutPhoto
<1>3. job \in JobRecord /\ job.call <= Len(audit) /\ o \in DOMAIN stored /\ RowRead /\ job.row \in ObservationRow
  BY <1>0, <1>1, JobIs, JobFields DEF RowRead
<1>4. mishaps' \in 0 .. MaxMishaps /\ mishaps' >= mishaps /\ (mishaps' = 0 => mishaps = 0 /\ ~failure)
  BY <1>0, <1>2, Failing
<1>5. /\ processed' = processed /\ photos \subseteq photos' /\ photos' \subseteq photos \cup {o}
      /\ job' \in JobRecord /\ job'.pc \in {"save", "create"} /\ job'.obs = o /\ job'.call = job.call
      /\ job'.row.checked = job.row.checked /\ (job'.row.photo => job.row.photo \/ o \in photos')
  <2>1. CASE failure
    BY <1>2, <1>3, <2>1, Proceeds DEF Proceed
  <2>2. CASE ~failure
    <3> DEFINE new == [job.row EXCEPT !.photo = TRUE]
    <3>1. new \in ObservationRow /\ new.checked = job.row.checked
      BY <1>3 DEF ObservationRow
    <3>2. job' = [job EXCEPT !.pc = "save", !.row = new]
      BY <1>2, <1>3, <2>2 DEF JobRecord
    <3> HIDE DEF new
    <3>3. job' \in JobRecord /\ job'.pc = "save" /\ job'.obs = o /\ job'.call = job.call /\ job'.row = new
      BY <1>3, <3>1, <3>2 DEF JobRecord
    <3> QED  BY <1>2, <2>2, <3>1, <3>3
  <2> QED  BY <2>1, <2>2
<1>6. Tables'
  BY <1>0, <1>1, <1>3, <1>4, <1>5 DEF Tables
<1>7. JobTyped'
  BY <1>1, <1>3, <1>5 DEF JobTyped
<1>8. ReviewTyped' /\ PurgeTyped' /\ Decided' = Decided /\ UnderReview' = UnderReview
  BY <1>0, <1>1 DEF ReviewTyped, PurgeTyped, Decided, UnderReview
<1>9. PhotosKept'
  BY <1>0, <1>1, <1>3, <1>5, <1>8 DEF PhotosKept
<1>10. JobAlone'
  BY <1>0, <1>1, <1>3, <1>5, <1>8 DEF JobAlone
<1>11. MarksKnown'
  BY <1>0, <1>1, <1>3, <1>5 DEF MarksKnown
<1>12. CallsStored'
  BY <1>0, <1>1, <1>4 DEF CallsStored
<1> QED  BY <1>6, <1>7, <1>8, <1>9, <1>10, <1>11, <1>12 DEF EInv

LEMMA JobCreateKept ==
  ASSUME EInv, JobCreate
  PROVE  EInv'
<1> DEFINE o == job.obs
<1>0. /\ Tables /\ JobTyped /\ ReviewTyped /\ PurgeTyped /\ PhotosKept /\ JobAlone /\ MarksKnown /\ CallsStored
      /\ NoJob.pc = "idle" /\ mishaps \in 0 .. MaxMishaps /\ mishaps >= 0
  BY NoJobIs, EvidenceAssumption DEF EInv, Tables
<1>1. /\ job.pc = "create"
      /\ decision' = IF decision[o] # "none" THEN decision
                     ELSE [decision EXCEPT ![o] = IF job.registered THEN "open" ELSE "pending_review"]
      /\ IF job.call = 0 THEN Finish ELSE Proceed("attach")
      /\ UNCHANGED <<seen, stored, photos, audit, marked, reads, review, purge, mishaps>>
  BY DEF JobCreate, outsideJob
<1>2. job \in JobRecord /\ job.call <= Len(audit) /\ o \in DOMAIN stored /\ RowRead /\ o \in Observations
  BY <1>0, <1>1, JobIs, JobFields DEF RowRead
<1>3. /\ decision' \in [Observations -> AnyDecision \cup {"none"}]
      /\ \A x \in Observations : decision'[x] = decision[x] \/ (x = o /\ decision[x] = "none")
  BY <1>0, <1>1, <1>2 DEF Tables, AnyDecision
<1>4. /\ processed' \subseteq DOMAIN stored
      /\ \/ job' = NoJob
         \/ job' \in JobRecord /\ job'.pc = "attach" /\ job'.obs = o /\ job'.row = job.row /\ job'.call = job.call
  <2>1. CASE job.call = 0
    BY <1>0, <1>1, <1>2, <2>1 DEF Finish, Tables
  <2>2. CASE job.call # 0
    BY <1>0, <1>1, <1>2, <2>2, Proceeds DEF Tables, Proceed
  <2> QED  BY <2>1, <2>2
<1>5. Tables'
  BY <1>0, <1>1, <1>2, <1>3, <1>4 DEF Tables
<1>6. JobTyped'
  BY <1>1, <1>2, <1>4 DEF JobTyped
<1>7. Decided \subseteq Decided'
  BY <1>3 DEF Decided
<1>8. ReviewTyped' /\ PurgeTyped' /\ UnderReview' = UnderReview
  BY <1>0, <1>1, <1>7 DEF ReviewTyped, PurgeTyped, UnderReview
<1>9. RowRead' => job'.pc = "attach" /\ job'.obs = o /\ job'.row = job.row
  BY <1>0, <1>4 DEF RowRead
<1>10. PhotosKept'
  BY <1>0, <1>1, <1>2, <1>7, <1>9 DEF PhotosKept
<1>11. JobAlone'
  BY <1>9 DEF JobAlone
<1>12. MarksKnown'
  BY <1>0, <1>1, <1>2, <1>4, <1>9 DEF MarksKnown
<1>13. CallsStored'
  BY <1>0, <1>1 DEF CallsStored
<1> QED  BY <1>5, <1>6, <1>8, <1>10, <1>11, <1>12, <1>13 DEF EInv

LEMMA JobAttachKept ==
  ASSUME EInv, JobAttach
  PROVE  EInv'
<1>0. /\ Tables /\ JobTyped /\ ReviewTyped /\ PurgeTyped /\ PhotosKept /\ JobAlone /\ MarksKnown /\ CallsStored
      /\ NoJob.pc = "idle"
  BY NoJobIs DEF EInv
<1>1. /\ job.pc = "attach" /\ job' = NoJob /\ processed' = processed \cup {job.obs}
      /\ UNCHANGED <<seen, stored, decision, photos, marked, reads, review, purge>>
  BY DEF JobAttach, outsideJob, Finish
<1>2. PICK failure \in BOOLEAN :
         /\ Fails(failure)
         /\ audit' = IF failure THEN audit ELSE [audit EXCEPT ![job.call].movement = TRUE]
  BY DEF JobAttach
<1>3. job.obs \in DOMAIN stored
  BY <1>0, <1>1, JobIs
<1>4. mishaps' \in 0 .. MaxMishaps /\ mishaps' >= mishaps /\ (mishaps' = 0 => mishaps = 0 /\ ~failure)
  BY <1>0, <1>2, Failing
<1>5. /\ audit' \in Seq(Interactions) /\ Len(audit') = Len(audit)
      /\ \A k \in 1 .. Len(audit) : /\ audit'[k].obs = audit[k].obs /\ audit'[k].source = audit[k].source
                                    /\ audit'[k].outcome = audit[k].outcome
  <2>0. audit \in Seq(Interactions) /\ Len(audit) \in Nat /\ DOMAIN audit = 1 .. Len(audit)
    BY <1>0, LenProperties DEF Tables
  <2>1. CASE failure
    BY <1>2, <2>0, <2>1
  <2>2. CASE ~failure
    <3> DEFINE n == job.call
               new == [audit[n] EXCEPT !.movement = TRUE]
    <3>1. audit' = [audit EXCEPT ![n] = new]
      BY <1>2, <2>2
    <3>2. \A k \in 1 .. Len(audit) : audit[k] \in Interactions
      BY <2>0, ElementOfSeq
    <3>3. n \in 1 .. Len(audit) =>
             /\ new \in Interactions /\ new.obs = audit[n].obs /\ new.source = audit[n].source
             /\ new.outcome = audit[n].outcome
      BY <3>2 DEF Interactions
    <3> HIDE DEF n, new
    <3>4. DOMAIN audit' = 1 .. Len(audit) /\ \A k \in 1 .. Len(audit) : audit'[k] = IF k = n THEN new ELSE audit[k]
      BY <2>0, <3>1
    <3>5. \A k \in 1 .. Len(audit) : audit'[k] \in Interactions
      BY <3>2, <3>3, <3>4
    <3>6. audit' = [k \in 1 .. Len(audit) |-> audit'[k]]
      BY <2>0, <3>1, <3>4
    <3>7. audit' \in Seq(Interactions)
      BY <2>0, <3>5, <3>6
    <3>8. Len(audit') = Len(audit)
      BY <2>0, <3>4, <3>7, LenProperties
    <3> QED  BY <3>3, <3>4, <3>7, <3>8
  <2> QED  BY <2>1, <2>2
<1>6. Tables'
  BY <1>0, <1>1, <1>3, <1>4, <1>5 DEF Tables
<1>7. JobTyped' /\ ~RowRead'
  BY <1>0, <1>1 DEF JobTyped, RowRead
<1>8. ReviewTyped' /\ PurgeTyped' /\ Decided' = Decided /\ UnderReview' = UnderReview
  BY <1>0, <1>1 DEF ReviewTyped, PurgeTyped, Decided, UnderReview
<1>9. PhotosKept' /\ JobAlone'
  BY <1>0, <1>1, <1>7, <1>8 DEF PhotosKept, JobAlone
<1>10. MarksKnown'
  BY <1>0, <1>1, <1>7 DEF MarksKnown
<1>11. CallsStored'
  BY <1>0, <1>1, <1>4, <1>5 DEF CallsStored
<1> QED  BY <1>6, <1>7, <1>8, <1>9, <1>10, <1>11 DEF EInv

-----------------------------------------------------------------------------
(* Steps that leave the job, the audit and the marks alone.                *)

\* Decisions stay, reviews and purges hold decided observations, and no review
\* takes the row of the job.
LEMMA OthersKept ==
  ASSUME EInv, RowsKept, UNCHANGED <<audit, marked, processed, job>>,
         seen' \in [Observations -> 0 .. MaxSeen], reads' \in [Readers -> ReadRecord \cup {NoRead}],
         mishaps' \in 0 .. MaxMishaps, mishaps' >= mishaps,
         decision' \in [Observations -> AnyDecision \cup {"none"}],
         \A o \in Observations :
            /\ decision'[o] # "none" => o \in DOMAIN stored'
            /\ o \in Decided => decision'[o] = decision[o]
            /\ decision'[o] # decision[o] =>
                  decision'[o] \in {"open", "discarded"} /\ (decision[o] = "none" => decision'[o] = "open"),
         ReviewTyped', PurgeTyped',
         UnderReview' \subseteq UnderReview
            \/ UnderReview' \subseteq {o \in Observations : decision[o] = "pending_review"},
         photos' \subseteq photos, photos \ photos' \subseteq Decided,
         review'.pc \in {"remove", "save"} =>
            \A o \in DOMAIN review'.entities : o \in marked => review'.entities[o].checked
  PROVE  EInv'
<1>0. Tables /\ JobTyped /\ PhotosKept /\ JobAlone /\ MarksKnown /\ CallsStored
  BY DEF EInv
<1>1. Decided \subseteq Decided'
  BY DEF Decided
<1>2. Tables'
  BY <1>0 DEF Tables, RowsKept
<1>3. JobTyped'
  BY <1>0 DEF JobTyped, RowsKept
<1>4. PhotosKept'
  <2>1. \A o \in DOMAIN stored' \ Decided' : stored'[o].photo => o \in photos'
    BY <1>1 DEF RowsKept
  <2>2. RowRead' /\ job'.row.photo /\ job'.obs \notin Decided' => job'.obs \in photos'
    BY <1>0, <1>1 DEF PhotosKept, RowRead
  <2> QED  BY <2>1, <2>2 DEF PhotosKept
<1>5. JobAlone'
  <2>1. SUFFICES ASSUME RowRead, job.pc # "attach"
                 PROVE  decision'[job.obs] \in {"none", "open"} /\ job.obs \notin UnderReview'
    BY DEF JobAlone, RowRead
  <2>2. decision[job.obs] \in {"none", "open"} /\ job.obs \notin UnderReview /\ job.obs \in Observations
    BY <1>0, <2>1, JobIs, JobFields DEF JobAlone, RowRead
  <2>3. decision'[job.obs] \in {"none", "open"}
    <3>1. CASE decision[job.obs] = "open"
      BY <2>2, <3>1 DEF Decided
    <3>2. CASE decision[job.obs] = "none"
      BY <2>2, <3>2
    <3> QED  BY <2>2, <3>1, <3>2
  <2>4. job.obs \notin UnderReview'
    BY <2>2
  <2> QED  BY <2>3, <2>4
<1>6. MarksKnown'
  BY <1>0 DEF MarksKnown, RowsKept, RowRead
<1>7. mishaps' = 0 => mishaps = 0
  BY <1>0, NoMishapsYet
<1>8. CallsStored'
  BY <1>0, <1>7 DEF CallsStored
<1> QED  BY <1>2, <1>3, <1>4, <1>5, <1>6, <1>8 DEF EInv

\* Where the invariant is when nothing of it is touched.
LEMMA AtRest ==
  ASSUME EInv
  PROVE  /\ UNCHANGED stored /\ UNCHANGED marked => RowsKept
         /\ mishaps \in 0 .. MaxMishaps /\ mishaps >= 0
         /\ UNCHANGED decision =>
               /\ decision' \in [Observations -> AnyDecision \cup {"none"}]
               /\ Decided' = Decided
         /\ \A o \in Observations : decision[o] # "none" => o \in DOMAIN stored
         /\ UNCHANGED review => UnderReview' = UnderReview
<1>0. Tables /\ PhotosKept /\ MarksKnown
  BY DEF EInv
<1>1. UNCHANGED stored /\ UNCHANGED marked => RowsKept
  BY <1>0 DEF RowsKept, Tables, PhotosKept, MarksKnown
<1>2. UNCHANGED decision => decision' \in [Observations -> AnyDecision \cup {"none"}] /\ Decided' = Decided
  BY <1>0 DEF Tables, Decided
<1>3. UNCHANGED review => UnderReview' = UnderReview
  BY DEF UnderReview
<1>4. mishaps \in 0 .. MaxMishaps /\ mishaps >= 0
  BY <1>0, EvidenceAssumption DEF Tables
<1>5. \A o \in Observations : decision[o] # "none" => o \in DOMAIN stored
  BY <1>0 DEF Tables
<1> QED  BY <1>1, <1>2, <1>3, <1>4, <1>5

\* Those that change no decision, photo, review or purge.
LEMMA BystandersKept ==
  ASSUME EInv, RowsKept,
         UNCHANGED <<audit, marked, processed, job, decision, photos, review, purge, mishaps>>,
         seen' \in [Observations -> 0 .. MaxSeen], reads' \in [Readers -> ReadRecord \cup {NoRead}]
  PROVE  EInv'
<1>0. ReviewTyped /\ PurgeTyped /\ MarksKnown
  BY DEF EInv
<1>1. Decided' = Decided /\ UnderReview' = UnderReview
  BY AtRest
<1>2. ReviewTyped' /\ PurgeTyped'
  BY <1>0, <1>1 DEF ReviewTyped, PurgeTyped
<1>3. \A o \in Observations : decision'[o] # "none" => o \in DOMAIN stored'
  BY AtRest DEF RowsKept
<1>4. review'.pc \in {"remove", "save"} =>
          \A o \in DOMAIN review'.entities : o \in marked => review'.entities[o].checked
  BY <1>0 DEF MarksKnown
<1>5. mishaps' \in 0 .. MaxMishaps /\ mishaps' >= mishaps /\ decision' \in [Observations -> AnyDecision \cup {"none"}]
  BY AtRest
<1> QED  BY <1>1, <1>2, <1>3, <1>4, <1>5, OthersKept

LEMMA SeeKept ==
  ASSUME EInv, NEW o \in Observations, See(o)
  PROVE  EInv'
<1>0. Tables
  BY DEF EInv
<1>1. /\ UNCHANGED <<stored, decision, photos, audit, marked, processed, job, reads, review, purge, mishaps>>
      /\ seen[o] < MaxSeen /\ seen' = [seen EXCEPT ![o] = @ + 1]
  BY DEF See
<1>2. seen' \in [Observations -> 0 .. MaxSeen]
  BY <1>0, <1>1, EvidenceAssumption DEF Tables
<1>3. reads' \in [Readers -> ReadRecord \cup {NoRead}]
  BY <1>0, <1>1 DEF Tables
<1> QED  BY <1>1, <1>2, <1>3, AtRest, BystandersKept

LEMMA ReadStateKept ==
  ASSUME EInv, NEW r \in Readers, NEW o \in Observations, ReadState(r, o)
  PROVE  EInv'
<1>0. Tables
  BY DEF EInv
<1>1. /\ seen[o] > 0 /\ reads' = [reads EXCEPT ![r] = [pc |-> "store", obs |-> o, seen |-> seen[o]]]
      /\ UNCHANGED <<seen, stored, decision, photos, audit, marked, processed, job, review, purge, mishaps>>
  BY DEF ReadState, SetRead
<1>2. seen[o] \in 1 .. MaxSeen
  BY <1>0, <1>1, EvidenceAssumption DEF Tables
<1>3. [pc |-> "store", obs |-> o, seen |-> seen[o]] \in ReadRecord
  BY <1>2 DEF ReadRecord
<1>4. reads' \in [Readers -> ReadRecord \cup {NoRead}] /\ seen' \in [Observations -> 0 .. MaxSeen]
  BY <1>0, <1>1, <1>3 DEF Tables
<1> QED  BY <1>1, <1>4, AtRest, BystandersKept

LEMMA ReadStoreKept ==
  ASSUME EInv, NEW r \in Readers, ReadStore(r)
  PROVE  EInv'
<1> DEFINE o == reads[r].obs
           instant == reads[r].seen
           old == InsertOrIgnore(o, instant)
           last == IF old[o].seen < instant THEN instant ELSE old[o].seen
<1>0. Tables /\ PhotosKept /\ MarksKnown
  BY DEF EInv
<1>1. /\ reads[r].pc = "store" /\ reads' = [reads EXCEPT ![r] = NoRead]
      /\ UNCHANGED <<seen, decision, photos, audit, marked, processed, job, review, purge, mishaps>>
      /\ stored' = [old EXCEPT ![o].seen = IF @ < instant THEN instant ELSE @]
  BY DEF ReadStore, SetRead
<1>2. o \in Observations /\ instant \in 1 .. MaxSeen
  BY <1>0, <1>1, NoJobIs DEF Tables, ReadRecord
<1> HIDE DEF o, instant
<1>3. /\ DOMAIN old = DOMAIN stored \cup {o} /\ \A x \in DOMAIN stored : old[x] = stored[x]
      /\ o \notin DOMAIN stored =>
            old[o] \in ObservationRow /\ old[o].photo = FALSE /\ old[o].checked = FALSE
  BY <1>0, <1>2, Persisted
<1>4. old[o] \in ObservationRow
  BY <1>0, <1>3 DEF Tables
<1>5. stored' = [old EXCEPT ![o] = [old[o] EXCEPT !.seen = last]]
  BY <1>1
<1>6. last \in 1 .. MaxSeen
  BY <1>2, <1>4 DEF ObservationRow
<1>old. old = [x \in DOMAIN old |-> old[x]]
  BY <1>0 DEF InsertOrIgnore, Tables
<1> HIDE DEF old, last
<1> DEFINE new == [old[o] EXCEPT !.seen = last]
<1>7. new \in ObservationRow /\ new.photo = old[o].photo /\ new.checked = old[o].checked
  BY <1>4, <1>6 DEF ObservationRow
<1> HIDE DEF new
<1>8. DOMAIN stored' = DOMAIN stored \cup {o} /\ stored'[o] = new /\ \A x \in DOMAIN stored : x # o => stored'[x] = stored[x]
  BY <1>3, <1>5, <1>old DEF new
<1>9. RowsKept
  <2>1. stored' = [x \in DOMAIN stored' |-> stored'[x]]
    BY <1>5, <1>old, <1>8 DEF new
  <2>2. \A x \in DOMAIN stored' : stored'[x] \in ObservationRow
    BY <1>0, <1>7, <1>8 DEF Tables
  <2>3. stored' \in [DOMAIN stored' -> ObservationRow]
    BY <2>1, <2>2
  <2>4. ASSUME NEW x \in DOMAIN stored' \ Decided, stored'[x].photo PROVE x \in photos
    <3>1. CASE x = o
      <4>1. o \in DOMAIN stored /\ stored[o].photo
        BY <1>3, <1>7, <1>8, <2>4, <3>1
      <4> QED  BY <1>0, <2>4, <3>1, <4>1 DEF PhotosKept
    <3>2. CASE x # o
      BY <1>0, <1>8, <2>4, <3>2 DEF PhotosKept
    <3> QED  BY <3>1, <3>2
  <2>5. ASSUME NEW x \in marked' PROVE x \in DOMAIN stored /\ stored'[x].checked
    <3>1. x \in DOMAIN stored /\ stored[x].checked
      BY <1>0, <1>1, <2>5 DEF Tables, MarksKnown
    <3> QED  BY <1>3, <1>7, <1>8, <3>1
  <2> QED  BY <1>0, <1>2, <1>8, <2>3, <2>4, <2>5 DEF RowsKept, Tables
<1>10. reads' \in [Readers -> ReadRecord \cup {NoRead}] /\ seen' \in [Observations -> 0 .. MaxSeen]
  BY <1>0, <1>1 DEF Tables
<1> QED  BY <1>1, <1>9, <1>10, BystandersKept

LEMMA ConfirmKept ==
  ASSUME EInv, NEW o \in Observations, ConfirmObservation(o)
  PROVE  EInv'
<1>0. Tables /\ ReviewTyped /\ PurgeTyped /\ MarksKnown
  BY DEF EInv
<1>1. /\ o \in DOMAIN stored /\ decision[o] = "none" /\ decision' = [decision EXCEPT ![o] = "open"]
      /\ UNCHANGED <<seen, stored, photos, audit, marked, processed, job, reads, review, purge, mishaps>>
  BY DEF ConfirmObservation
<1>2. /\ decision' \in [Observations -> AnyDecision \cup {"none"}]
      /\ \A x \in Observations : decision'[x] = IF x = o THEN "open" ELSE decision[x]
  BY <1>0, <1>1 DEF Tables, AnyDecision
<1>3. \A x \in Observations :
          /\ decision'[x] # "none" => x \in DOMAIN stored'
          /\ x \in Decided => decision'[x] = decision[x]
          /\ decision'[x] # decision[x] =>
                decision'[x] \in {"open", "discarded"} /\ (decision[x] = "none" => decision'[x] = "open")
  BY <1>0, <1>1, <1>2 DEF Tables, Decided
<1>4. Decided \subseteq Decided'
  BY <1>2 DEF Decided
<1>5. ReviewTyped' /\ PurgeTyped'
  BY <1>0, <1>1, <1>4 DEF ReviewTyped, PurgeTyped
<1>6. review'.pc \in {"remove", "save"} =>
          \A x \in DOMAIN review'.entities : x \in marked => review'.entities[x].checked
  BY <1>0, <1>1 DEF MarksKnown
<1>7. seen' \in [Observations -> 0 .. MaxSeen] /\ reads' \in [Readers -> ReadRecord \cup {NoRead}]
  BY <1>0, <1>1 DEF Tables
<1> QED  BY <1>1, <1>2, <1>3, <1>5, <1>6, <1>7, AtRest, OthersKept

-----------------------------------------------------------------------------
(* Reviews.                                                                *)

LEMMA ReviewKept ==
  ASSUME EInv, NEW set \in SUBSET Observations, Review(set)
  PROVE  EInv'
<1>0. Tables /\ PurgeTyped
  BY DEF EInv
<1>1. /\ \A o \in set : decision[o] = "pending_review"
      /\ review' = [pc |-> "find", ids |-> set]
      /\ UNCHANGED <<seen, stored, photos, audit, marked, processed, job, reads, purge, mishaps>>
  BY DEF Review, SetReview
<1>2. PICK opened \in SUBSET set :
         decision' = [o \in Observations |->
                         IF o \in opened THEN "open" ELSE IF o \in set THEN "discarded" ELSE decision[o]]
  BY DEF Review
<1>3. \A o \in Observations :
          /\ o \in set => decision[o] = "pending_review" /\ decision'[o] \in {"open", "discarded"}
          /\ o \notin set => decision'[o] = decision[o]
  BY <1>1, <1>2
<1>4. decision' \in [Observations -> AnyDecision \cup {"none"}]
  BY <1>0, <1>2 DEF Tables, AnyDecision
<1>5. \A o \in Observations :
          /\ decision'[o] # "none" => o \in DOMAIN stored'
          /\ o \in Decided => decision'[o] = decision[o]
          /\ decision'[o] # decision[o] =>
                decision'[o] \in {"open", "discarded"} /\ (decision[o] = "none" => decision'[o] = "open")
  BY <1>0, <1>1, <1>3 DEF Tables, Decided
<1>6. Decided \subseteq Decided' /\ set \subseteq Decided'
  BY <1>3, <1>5 DEF Decided
<1>7. review'.pc = "find" /\ review'.ids = set
  BY <1>1
<1>8. ReviewTyped'
  BY <1>1, <1>6, <1>7 DEF ReviewTyped
<1>9. PurgeTyped'
  BY <1>0, <1>1, <1>6 DEF PurgeTyped
<1>10. UnderReview' \subseteq {o \in Observations : decision[o] = "pending_review"}
  BY <1>1, <1>7 DEF UnderReview
<1>11. seen' \in [Observations -> 0 .. MaxSeen] /\ reads' \in [Readers -> ReadRecord \cup {NoRead}]
  BY <1>0, <1>1 DEF Tables
<1>12. review'.pc \in {"remove", "save"} =>
          \A o \in DOMAIN review'.entities : o \in marked => review'.entities[o].checked
  BY <1>7
<1> QED  BY <1>1, <1>4, <1>5, <1>8, <1>9, <1>10, <1>11, <1>12, AtRest, OthersKept

\* The steps of a review after its transaction, and those of the script.
LEMMA CleanersKept ==
  ASSUME EInv, RowsKept, UNCHANGED <<seen, decision, audit, marked, processed, job, reads>>,
         mishaps' \in 0 .. MaxMishaps, mishaps' >= mishaps,
         ReviewTyped', PurgeTyped', UnderReview' \subseteq UnderReview,
         photos' \subseteq photos, photos \ photos' \subseteq Decided,
         review'.pc \in {"remove", "save"} =>
            \A o \in DOMAIN review'.entities : o \in marked => review'.entities[o].checked
  PROVE  EInv'
<1>0. Tables
  BY DEF EInv
<1>1. \A o \in Observations : decision'[o] # "none" => o \in DOMAIN stored'
  BY AtRest DEF RowsKept
<1>2. decision' \in [Observations -> AnyDecision \cup {"none"}]
  BY AtRest
<1>3. seen' \in [Observations -> 0 .. MaxSeen] /\ reads' \in [Readers -> ReadRecord \cup {NoRead}]
  BY <1>0 DEF Tables
<1> QED  BY <1>1, <1>2, <1>3, OthersKept

LEMMA ReviewFindKept ==
  ASSUME EInv, ReviewFind
  PROVE  EInv'
<1> DEFINE withPhoto == {o \in review.ids : stored[o].photo}
<1>0. Tables /\ ReviewTyped /\ PurgeTyped /\ MarksKnown
  BY DEF EInv
<1>1. /\ review.pc = "find"
      /\ review' = IF withPhoto = {} THEN NoReview
                   ELSE [pc |-> "remove", entities |-> [o \in withPhoto |-> stored[o]]]
      /\ UNCHANGED <<seen, stored, decision, photos, audit, marked, processed, job, reads, purge, mishaps>>
  BY DEF ReviewFind, SetReview
<1>2. review.ids \subseteq Decided /\ NoReview.pc = "idle"
  BY <1>0, <1>1, NoJobIs DEF ReviewTyped
<1>3. review.ids \subseteq DOMAIN stored
  BY <1>0, <1>2 DEF Tables, Decided
<1> HIDE DEF withPhoto
<1>4. withPhoto \subseteq review.ids
  BY DEF withPhoto
<1>5. Decided' = Decided
  BY <1>1 DEF Decided
<1>6. CASE withPhoto = {}
  <2>1. review' = NoReview
    BY <1>1, <1>6
  <2>2. ReviewTyped' /\ UnderReview' = {}
    BY <1>2, <2>1 DEF ReviewTyped, UnderReview
  <2> QED  BY <1>0, <1>1, <1>2, <1>5, <2>1, <2>2, AtRest, CleanersKept DEF PurgeTyped
<1>7. CASE withPhoto # {}
  <2>1. /\ review' = [pc |-> "remove", entities |-> review'.entities] /\ review'.pc = "remove"
        /\ review'.entities = [o \in withPhoto |-> stored[o]]
    BY <1>1, <1>7
  <2>2. DOMAIN review'.entities = withPhoto /\ \A o \in withPhoto : review'.entities[o] = stored[o]
    BY <2>1
  <2>3. review'.entities \in [DOMAIN review'.entities -> ObservationRow]
    BY <1>0, <1>3, <1>4, <2>1, <2>2 DEF Tables
  <2>4. ReviewTyped'
    BY <1>2, <1>4, <1>5, <2>1, <2>2, <2>3 DEF ReviewTyped
  <2>5. UnderReview' \subseteq UnderReview
    BY <1>1, <1>4, <2>1, <2>2 DEF UnderReview
  <2>6. \A o \in DOMAIN review'.entities : o \in marked => review'.entities[o].checked
    BY <1>0, <2>2 DEF MarksKnown
  <2>7. PurgeTyped'
    BY <1>0, <1>1, <1>5 DEF PurgeTyped
  <2> QED  BY <1>1, <2>4, <2>5, <2>6, <2>7, AtRest, CleanersKept
<1> QED  BY <1>6, <1>7

LEMMA ReviewRemoveKept ==
  ASSUME EInv, ReviewRemove
  PROVE  EInv'
<1>0. Tables /\ ReviewTyped /\ PurgeTyped /\ MarksKnown
  BY DEF EInv
<1>1. /\ review.pc = "remove" /\ review' = [review EXCEPT !.pc = "save"]
      /\ UNCHANGED <<seen, stored, decision, audit, marked, processed, job, reads, purge>>
  BY DEF ReviewRemove, SetReview
<1>2. PICK removed \in SUBSET DOMAIN review.entities :
         Fails(removed # DOMAIN review.entities) /\ photos' = photos \ removed
  BY DEF ReviewRemove
<1>3. /\ review = [pc |-> review.pc, entities |-> review.entities] /\ DOMAIN review.entities \subseteq Decided
      /\ review.entities \in [DOMAIN review.entities -> ObservationRow]
  BY <1>0, <1>1, NoJobIs DEF ReviewTyped
<1>4. review' = [pc |-> "save", entities |-> review.entities]
  BY <1>1, <1>3
<1>5. review'.pc = "save" /\ review'.entities = review.entities
  BY <1>4
<1>6. Decided' = Decided
  BY <1>1 DEF Decided
<1>7. ReviewTyped' /\ PurgeTyped' /\ UnderReview' = UnderReview
  BY <1>0, <1>1, <1>3, <1>4, <1>5, <1>6 DEF ReviewTyped, PurgeTyped, UnderReview
<1>8. mishaps' \in 0 .. MaxMishaps /\ mishaps' >= mishaps
  <2>1. (removed # DOMAIN review.entities) \in BOOLEAN
    OBVIOUS
  <2> QED  BY <1>0, <1>2, <2>1, Failing
<1>9. photos' \subseteq photos /\ photos \ photos' \subseteq Decided
  BY <1>2, <1>3
<1>10. \A o \in DOMAIN review'.entities : o \in marked => review'.entities[o].checked
  BY <1>0, <1>1, <1>5 DEF MarksKnown
<1> QED  BY <1>1, <1>7, <1>8, <1>9, <1>10, AtRest, CleanersKept

LEMMA ReviewSaveKept ==
  ASSUME EInv, ReviewSave
  PROVE  EInv'
<1> DEFINE entities == [o \in DOMAIN review.entities |-> [review.entities[o] EXCEPT !.photo = FALSE]]
<1>0. Tables /\ ReviewTyped /\ PurgeTyped /\ MarksKnown /\ PhotosKept
  BY DEF EInv
<1>1. /\ review.pc = "save" /\ review' = NoReview
      /\ UNCHANGED <<seen, decision, photos, audit, marked, processed, job, reads, purge>>
  BY DEF ReviewSave, SetReview
<1>2. PICK failure \in BOOLEAN : Fails(failure) /\ IF failure THEN UNCHANGED stored ELSE SaveRows(entities)
  BY DEF ReviewSave
<1>3. /\ DOMAIN review.entities \subseteq Decided
      /\ review.entities \in [DOMAIN review.entities -> ObservationRow]
  BY <1>0, <1>1, NoJobIs DEF ReviewTyped
<1>4. \A o \in DOMAIN review.entities :
         entities[o] \in ObservationRow /\ entities[o].photo = FALSE /\ entities[o].checked = review.entities[o].checked
  <2>1. ASSUME NEW o \in DOMAIN review.entities
        PROVE  entities[o] \in ObservationRow /\ entities[o].photo = FALSE /\ entities[o].checked = review.entities[o].checked
    <3>1. review.entities[o] \in ObservationRow /\ entities[o] = [review.entities[o] EXCEPT !.photo = FALSE]
      BY <1>3
    <3> QED  BY <3>1 DEF ObservationRow
  <2> QED  BY <2>1
<1>5. DOMAIN entities = DOMAIN review.entities
  OBVIOUS
<1> HIDE DEF entities
<1>6. RowsKept
  <2>1. CASE failure
    BY <1>1, <1>2, <2>1, AtRest
  <2>2. CASE ~failure
    <3>1. stored' = [o \in DOMAIN stored |-> IF o \in DOMAIN entities THEN entities[o] ELSE stored[o]]
      BY <1>2, <2>2 DEF SaveRows
    <3>2. /\ DOMAIN stored' = DOMAIN stored
          /\ \A o \in DOMAIN stored : stored'[o] = IF o \in DOMAIN entities THEN entities[o] ELSE stored[o]
      BY <3>1
    <3>3. stored' \in [DOMAIN stored' -> ObservationRow]
      BY <1>0, <1>4, <1>5, <3>1, <3>2 DEF Tables
    <3>4. \A o \in DOMAIN stored' \ Decided : stored'[o].photo => o \in photos
      BY <1>0, <1>3, <1>5, <3>2 DEF PhotosKept
    <3>5. \A o \in marked' : o \in DOMAIN stored /\ stored'[o].checked
      BY <1>0, <1>1, <1>4, <1>5, <3>2 DEF Tables, MarksKnown
    <3> QED  BY <1>0, <3>2, <3>3, <3>4, <3>5 DEF RowsKept, Tables
  <2> QED  BY <2>1, <2>2
<1>7. Decided' = Decided
  BY <1>1 DEF Decided
<1>8. ReviewTyped' /\ PurgeTyped' /\ UnderReview' = {} /\ review'.pc = "idle"
  BY <1>0, <1>1, <1>7, NoJobIs DEF ReviewTyped, PurgeTyped, UnderReview
<1>9. mishaps' \in 0 .. MaxMishaps /\ mishaps' >= mishaps
  BY <1>0, <1>2, Failing
<1> QED  BY <1>1, <1>6, <1>8, <1>9, CleanersKept

-----------------------------------------------------------------------------
(* The purge script.                                                       *)

LEMMA PurgeFindKept ==
  ASSUME EInv, PurgeFind
  PROVE  EInv'
<1> DEFINE listed == {o \in DOMAIN stored : stored[o].photo /\ decision[o] \in Statuses}
<1>0. Tables /\ ReviewTyped /\ PurgeTyped /\ MarksKnown
  BY DEF EInv
<1>1. /\ purge' = [pc |-> "remove", listed |-> listed, batch |-> {}]
      /\ UNCHANGED <<seen, stored, decision, photos, audit, marked, processed, job, reads, review, mishaps>>
  BY DEF PurgeFind, SetPurge
<1>2. listed \subseteq Decided
  BY <1>0 DEF Tables, Decided, Statuses
<1> HIDE DEF listed
<1>3. Decided' = Decided /\ UnderReview' = UnderReview /\ Decided \subseteq Observations
  BY <1>1 DEF Decided, UnderReview
<1>4. PurgeTyped' /\ ReviewTyped'
  BY <1>0, <1>1, <1>2, <1>3 DEF PurgeTyped, ReviewTyped
<1>5. review'.pc \in {"remove", "save"} =>
            \A o \in DOMAIN review'.entities : o \in marked => review'.entities[o].checked
  BY <1>0, <1>1 DEF MarksKnown
<1> QED  BY <1>1, <1>3, <1>4, <1>5, AtRest, CleanersKept

LEMMA PurgeRemoveKept ==
  ASSUME EInv, PurgeRemove
  PROVE  EInv'
<1>0. Tables /\ ReviewTyped /\ PurgeTyped /\ MarksKnown
  BY DEF EInv
<1>1. UNCHANGED <<seen, stored, decision, audit, marked, processed, job, reads, review>>
  BY DEF PurgeRemove, SetPurge
<1>9. PICK batch \in SUBSET purge.listed \ {{}} :
         \E removed \in SUBSET batch :
            /\ Fails(removed # batch)
            /\ photos' = photos \ removed
            /\ purge' = [pc |-> "clear", listed |-> purge.listed \ batch, batch |-> removed]
  BY DEF PurgeRemove, SetPurge
<1>2. PICK removed \in SUBSET batch :
         /\ Fails(removed # batch)
         /\ photos' = photos \ removed
         /\ purge' = [pc |-> "clear", listed |-> purge.listed \ batch, batch |-> removed]
  BY <1>9
<1>3. purge.listed \subseteq Decided
  BY <1>0 DEF PurgeTyped
<1>4. Decided' = Decided /\ UnderReview' = UnderReview /\ Decided \subseteq Observations
  BY <1>1 DEF Decided, UnderReview
<1>5. PurgeTyped' /\ ReviewTyped'
  BY <1>0, <1>1, <1>2, <1>3, <1>4 DEF PurgeTyped, ReviewTyped
<1>6. mishaps' \in 0 .. MaxMishaps /\ mishaps' >= mishaps
  <2>1. (removed # batch) \in BOOLEAN
    OBVIOUS
  <2> QED  BY <1>0, <1>2, <2>1, Failing
<1>7. photos' \subseteq photos /\ photos \ photos' \subseteq Decided
  BY <1>2, <1>3
<1>8. review'.pc \in {"remove", "save"} =>
            \A o \in DOMAIN review'.entities : o \in marked => review'.entities[o].checked
  BY <1>0, <1>1 DEF MarksKnown
<1> QED  BY <1>1, <1>4, <1>5, <1>6, <1>7, <1>8, AtRest, CleanersKept

LEMMA PurgeClearKept ==
  ASSUME EInv, PurgeClear
  PROVE  EInv'
<1>0. Tables /\ ReviewTyped /\ PurgeTyped /\ MarksKnown /\ PhotosKept
  BY DEF EInv
<1>1. /\ stored' = [o \in DOMAIN stored |->
                       IF o \in purge.batch THEN [stored[o] EXCEPT !.photo = FALSE] ELSE stored[o]]
      /\ purge' = IF purge.listed = {} THEN NoPurge ELSE [purge EXCEPT !.pc = "remove", !.batch = {}]
      /\ UNCHANGED <<seen, decision, photos, audit, marked, processed, job, reads, review, mishaps>>
  BY DEF PurgeClear, SetPurge
<1>2. ASSUME NEW o \in DOMAIN stored
      PROVE  /\ stored'[o] \in ObservationRow /\ (stored'[o].photo => stored[o].photo)
             /\ stored'[o].checked = stored[o].checked
  <2>1. stored[o] \in ObservationRow
    BY <1>0, <1>2 DEF Tables
  <2>2. CASE o \in purge.batch
    <3>1. stored'[o] = [stored[o] EXCEPT !.photo = FALSE]
      BY <1>1, <1>2, <2>2
    <3> QED  BY <2>1, <3>1 DEF ObservationRow
  <2>3. CASE o \notin purge.batch
    BY <1>1, <1>2, <2>1, <2>3
  <2> QED  BY <2>2, <2>3
<1>3. DOMAIN stored' = DOMAIN stored /\ stored' = [o \in DOMAIN stored |-> stored'[o]]
  BY <1>1
<1>4. RowsKept
  <2>1. stored' \in [DOMAIN stored' -> ObservationRow]
    BY <1>2, <1>3
  <2>2. \A o \in DOMAIN stored' \ Decided : stored'[o].photo => o \in photos
    BY <1>0, <1>2, <1>3 DEF PhotosKept
  <2>3. \A o \in marked' : o \in DOMAIN stored /\ stored'[o].checked
    BY <1>0, <1>1, <1>2 DEF Tables, MarksKnown
  <2> QED  BY <1>0, <1>3, <2>1, <2>2, <2>3 DEF RowsKept, Tables
<1>5. Decided' = Decided /\ UnderReview' = UnderReview
  BY <1>1 DEF Decided, UnderReview
<1>6. PurgeTyped' /\ ReviewTyped'
  BY <1>0, <1>1, <1>5 DEF PurgeTyped, ReviewTyped, NoPurge
<1>7. review'.pc \in {"remove", "save"} =>
            \A o \in DOMAIN review'.entities : o \in marked => review'.entities[o].checked
  BY <1>0, <1>1 DEF MarksKnown
<1>8. mishaps' \in 0 .. MaxMishaps /\ mishaps' >= mishaps
  BY <1>1, AtRest
<1> QED  BY <1>1, <1>4, <1>5, <1>6, <1>7, <1>8, CleanersKept

LEMMA PurgeStopKept ==
  ASSUME EInv, PurgeStop
  PROVE  EInv'
<1>0. Tables /\ ReviewTyped /\ PurgeTyped /\ MarksKnown
  BY DEF EInv
<1>1. /\ purge' = NoPurge /\ Mishap
      /\ UNCHANGED <<seen, stored, decision, photos, audit, marked, processed, job, reads, review>>
  BY DEF PurgeStop, SetPurge
<1>2. Decided' = Decided /\ UnderReview' = UnderReview
  BY <1>1 DEF Decided, UnderReview
<1>3. PurgeTyped' /\ ReviewTyped'
  BY <1>0, <1>1, <1>2 DEF PurgeTyped, ReviewTyped, NoPurge
<1>4. review'.pc \in {"remove", "save"} =>
            \A o \in DOMAIN review'.entities : o \in marked => review'.entities[o].checked
  BY <1>0, <1>1 DEF MarksKnown
<1>5. mishaps' \in 0 .. MaxMishaps /\ mishaps' >= mishaps
  BY <1>0, <1>1, Mishaps
<1> QED  BY <1>1, <1>2, <1>3, <1>4, <1>5, AtRest, CleanersKept

LEMMA CrashApiKept ==
  ASSUME EInv, CrashApi
  PROVE  EInv'
<1>0. /\ Tables /\ PurgeTyped /\ PhotosKept /\ MarksKnown
      /\ NoJob.pc = "idle" /\ NoReview.pc = "idle"
  BY NoJobIs DEF EInv
<1>1. /\ Mishap /\ job' = NoJob /\ processed' = {} /\ review' = NoReview
      /\ reads' = [r \in Readers |-> NoRead]
      /\ UNCHANGED <<seen, stored, decision, photos, audit, marked, purge>>
  BY DEF CrashApi
<1>2. mishaps' \in 0 .. MaxMishaps /\ mishaps' # 0
  BY <1>0, <1>1, Mishaps
<1>3. Tables'
  BY <1>0, <1>1, <1>2 DEF Tables
<1>4. Decided' = Decided /\ ~RowRead'
  BY <1>0, <1>1 DEF Decided, RowRead
<1>5. JobTyped' /\ ReviewTyped' /\ PurgeTyped'
  BY <1>0, <1>1, <1>4 DEF JobTyped, ReviewTyped, PurgeTyped
<1>6. PhotosKept' /\ JobAlone'
  BY <1>0, <1>1, <1>4 DEF PhotosKept, JobAlone
<1>7. MarksKnown' /\ CallsStored'
  BY <1>0, <1>1, <1>2, <1>4 DEF MarksKnown, CallsStored
<1> QED  BY <1>3, <1>5, <1>6, <1>7 DEF EInv

-----------------------------------------------------------------------------
(* The specification.                                                      *)

LEMMA EvidenceInitKept ==
  ASSUME EvidenceInit
  PROVE  EInv
<1>0. /\ seen = [o \in Observations |-> 0] /\ DOMAIN stored = {} /\ stored \in [{} -> ObservationRow]
      /\ decision = [o \in Observations |-> "none"]
      /\ photos = {} /\ audit = <<>> /\ marked = {} /\ processed = {} /\ job = NoJob
      /\ reads = [r \in Readers |-> NoRead] /\ review = NoReview /\ purge = NoPurge /\ mishaps = 0
      /\ NoJob.pc = "idle" /\ NoReview.pc = "idle"
  BY NoJobIs DEF EvidenceInit
<1>1. audit \in Seq(Interactions) /\ Len(audit) = 0
  BY <1>0
<1>2. Tables
  BY <1>0, <1>1, EvidenceAssumption DEF Tables
<1>3. JobTyped /\ ReviewTyped /\ PurgeTyped
  BY <1>0 DEF JobTyped, ReviewTyped, PurgeTyped, NoPurge
<1>4. PhotosKept /\ JobAlone /\ MarksKnown /\ CallsStored
  BY <1>0, <1>1 DEF PhotosKept, JobAlone, MarksKnown, CallsStored, RowRead
<1> QED  BY <1>2, <1>3, <1>4 DEF EInv

LEMMA EvidenceStepKept ==
  ASSUME EInv, [EvidenceNext]_evidenceVars
  PROVE  EInv'
<1>1. CASE UNCHANGED evidenceVars
  BY <1>1 DEF evidenceVars, EInv, Tables, JobTyped, ReviewTyped, PurgeTyped, PhotosKept, JobAlone, MarksKnown,
              CallsStored, Decided, UnderReview, RowRead
<1>2. ASSUME JobNext PROVE EInv'
  BY <1>2, JobPersistKept, JobDropKept, JobNoCallKept, JobCallKept, JobNoImageKept, JobMarkKept, JobCommitKept,
     JobPutPhotoKept, JobSavePhotoKept, JobCreateKept, JobAttachKept, JobAbortKept DEF JobNext
<1>3. ASSUME NEW o \in Observations, See(o) \/ JobFetch(o) \/ ConfirmObservation(o) PROVE EInv'
  BY <1>3, SeeKept, JobFetchKept, ConfirmKept
<1>4. ASSUME NEW r \in Readers, ReadStore(r) \/ \E o \in Observations : ReadState(r, o) PROVE EInv'
  BY <1>4, ReadStoreKept, ReadStateKept
<1>5. ASSUME NEW set \in SUBSET Observations, Review(set) PROVE EInv'
  BY <1>5, ReviewKept
<1>6. ASSUME ReviewFind \/ ReviewRemove \/ ReviewSave PROVE EInv'
  BY <1>6, ReviewFindKept, ReviewRemoveKept, ReviewSaveKept
<1>7. ASSUME PurgeFind \/ PurgeRemove \/ PurgeClear \/ PurgeStop PROVE EInv'
  BY <1>7, PurgeFindKept, PurgeRemoveKept, PurgeClearKept, PurgeStopKept
<1>8. ASSUME CrashApi PROVE EInv'
  BY <1>8, CrashApiKept
<1> QED  BY <1>1, <1>2, <1>3, <1>4, <1>5, <1>6, <1>7, <1>8 DEF EvidenceNext

LEMMA EInvHolds == EvidenceSpec => []EInv
<1>1. EvidenceInit => EInv
  BY EvidenceInitKept
<1>2. EInv /\ [EvidenceNext]_evidenceVars => EInv'
  BY EvidenceStepKept
<1> QED  BY <1>1, <1>2, PTL DEF EvidenceSpec

\* Tables, the job, reviews and the script keep their types, and what they name
\* is stored.
THEOREM EvidenceTypes == EvidenceSpec => []EvidenceTypeOK
<1>1. EInv => EvidenceTypeOK
  <2>1. SUFFICES ASSUME EInv PROVE EvidenceTypeOK
    OBVIOUS
  <2>2. Tables /\ JobTyped /\ PurgeTyped
    BY <2>1 DEF EInv
  <2>3. \A k \in 1 .. Len(audit) : audit[k].obs \in Observations /\ audit[k].outcome \in Outcomes
    <3>1. ASSUME NEW k \in 1 .. Len(audit) PROVE audit[k] \in Interactions
      BY <2>2, <3>1, ElementOfSeq DEF Tables
    <3> QED  BY <3>1 DEF Interactions
  <2>4. job # NoJob => job.row \in ObservationRow /\ job.call \in 0 .. Len(audit)
    <3>1. Len(audit) \in Nat
      BY <2>2, LenProperties DEF Tables
    <3>2. SUFFICES ASSUME job # NoJob PROVE job.row \in ObservationRow /\ job.call \in 0 .. Len(audit)
      OBVIOUS
    <3>3. job \in JobRecord /\ job.call <= Len(audit)
      BY <2>2, <3>2 DEF JobTyped
    <3>4. job.row \in ObservationRow /\ job.call \in Nat
      BY <3>3, JobFields
    <3> QED  BY <3>1, <3>3, <3>4
  <2>5. purge.listed \cup purge.batch \cup processed \cup marked \cup photos \subseteq DOMAIN stored
    BY <2>2 DEF Tables, PurgeTyped, Decided
  <2> QED  BY <2>2, <2>3, <2>4, <2>5 DEF EvidenceTypeOK, Tables
<1> QED  BY <1>1, EInvHolds, PTL

\* The photo of an observation that waits for its review can be loaded,
\* whatever the job, other reviews and the script do meanwhile, and wherever
\* they fail.
THEOREM PendingPhotosStay == EvidenceSpec => []PendingPhotoLoadable
<1>1. EInv => PendingPhotoLoadable
  BY DEF EInv, PhotosKept, PendingPhotoLoadable, Loadable, Decided
<1> QED  BY <1>1, EInvHolds, PTL

-----------------------------------------------------------------------------
(* The usage of the external service adds up.                              *)

LEMMA ListedCalls ==
  ASSUME Tables, NEW filter
  PROVE  /\ Listed(filter) \subseteq 1 .. Len(audit) /\ IsFiniteSet(Listed(filter))
         /\ \A k \in Listed(filter) : audit[k] \in Interactions
<1>1. Len(audit) \in Nat
  BY LenProperties DEF Tables
<1>2. IsFiniteSet(1 .. Len(audit))
  BY <1>1, FS_Interval
<1>3. Listed(filter) \subseteq 1 .. Len(audit)
  BY DEF Listed
<1>4. \A k \in 1 .. Len(audit) : audit[k] \in Interactions
  BY ElementOfSeq DEF Tables
<1> QED  BY <1>2, <1>3, <1>4, FS_Subset

LEMMA DisjointSizes ==
  ASSUME NEW A, NEW B, IsFiniteSet(A), IsFiniteSet(B), A \cap B = {}
  PROVE  IsFiniteSet(A \cup B) /\ Cardinality(A \cup B) = Cardinality(A) + Cardinality(B)
<1>1. Cardinality(A \cap B) = 0
  BY FS_EmptySet
<1>2. /\ IsFiniteSet(A \cup B)
      /\ Cardinality(A \cup B) = Cardinality(A) + Cardinality(B) - Cardinality(A \cap B)
  BY FS_Union
<1>3. Cardinality(A) \in Nat /\ Cardinality(B) \in Nat
  BY FS_CardinalityType
<1> QED  BY <1>1, <1>2, <1>3

\* Every outcome is in one class, and the plates that were used were found.
LEMMA UsageAddsUp ==
  ASSUME Tables, NEW filter
  PROVE  LET usage == Summarize(Listed(filter))
         IN  /\ usage.calls = usage.success + usage.noPlate + usage.failures
             /\ usage.externalUsed <= usage.success
<1> DEFINE listed == Listed(filter)
           Class(outcomes) == {k \in listed : audit[k].outcome \in outcomes}
           found == Class({"success"})
           missed == Class({"no_plate", "low_confidence"})
           broken == Class({"timeout", "error", "rate_limited"})
           used == {k \in listed : audit[k].source = "external"}
<1>1. /\ listed \subseteq 1 .. Len(audit) /\ IsFiniteSet(listed)
      /\ \A k \in listed : audit[k] \in Interactions
  BY ListedCalls
<1>2. /\ IsFiniteSet(found) /\ IsFiniteSet(missed) /\ IsFiniteSet(broken) /\ IsFiniteSet(found \cup missed)
  BY <1>1, FS_Subset
<1>3. found \cap missed = {} /\ (found \cup missed) \cap broken = {}
  OBVIOUS
<1>4. listed = (found \cup missed) \cup broken
  BY <1>1 DEF Interactions, Outcomes
<1>5. used \subseteq found
  BY <1>1 DEF Tables
<1>6. Summarize(listed) = [calls |-> Cardinality(listed), success |-> Cardinality(found),
                           noPlate |-> Cardinality(missed), failures |-> Cardinality(broken),
                           externalUsed |-> Cardinality(used)]
  BY DEF Summarize, Count
<1> HIDE DEF listed, found, missed, broken, used
<1>7. Cardinality(listed) = Cardinality(found) + Cardinality(missed) + Cardinality(broken)
  BY <1>2, <1>3, <1>4, DisjointSizes
<1>8. Cardinality(used) <= Cardinality(found)
  BY <1>2, <1>5, FS_Subset
<1> QED  BY <1>6, <1>7, <1>8 DEF listed

LEMMA OneCallEach ==
  ASSUME Tables, CallsStored, NEW o \in Observations
  PROVE  Summarize(Listed(o)).calls <= 1 \/ mishaps > 0
<1>1. SUFFICES ASSUME mishaps = 0 PROVE Cardinality(Listed(o)) <= 1
  BY EvidenceAssumption DEF Tables, Summarize
<1>2. \A k \in Listed(o) : k \in 1 .. Len(audit) /\ audit[k].obs = o
  BY EvidenceAssumption DEF Listed
<1>3. \A j, k \in Listed(o) : j = k
  BY <1>1, <1>2 DEF CallsStored
<1>4. CASE Listed(o) = {}
  BY <1>4, FS_EmptySet
<1>5. CASE Listed(o) # {}
  <2>1. PICK k \in Listed(o) : TRUE
    BY <1>5
  <2>2. Listed(o) = {k}
    BY <1>3, <2>1
  <2>3. Cardinality({k}) = 1
    BY FS_Singleton
  <2> QED  BY <2>2, <2>3
<1> QED  BY <1>4, <1>5

\* What was paid for is kept: the mark of an observation outlives every save,
\* each call is counted once, and an observation is not asked about twice
\* unless something failed.
THEOREM PaidCallsStay == EvidenceSpec => []PaidCallKept
<1>1. EInv => PaidCallKept
  <2>1. SUFFICES ASSUME EInv PROVE PaidCallKept
    OBVIOUS
  <2>2. Tables /\ MarksKnown /\ CallsStored
    BY <2>1 DEF EInv
  <2> QED  BY <2>2, UsageAddsUp, OneCallEach DEF PaidCallKept, MarksKnown
<1> QED  BY <1>1, EInvHolds, PTL

-----------------------------------------------------------------------------
(* Both parts together, as the run takes them: a behaviour is one of them  *)
(* while the other waits in its first state.                               *)

LEMMA PartsBehave == RecordsSpec => AdministrationSpec /\ EvidenceSpec
<1>1. RecordsInit => AdministrationInit /\ EvidenceInit
  BY DEF RecordsInit
<1>2. [RecordsNext]_recordsVars => [AdministrationNext]_administrationVars /\ [EvidenceNext]_evidenceVars
  BY DEF RecordsNext, recordsVars
<1> QED  BY <1>1, <1>2, PTL DEF RecordsSpec, AdministrationSpec, EvidenceSpec

\* The tables and what every request, job, review and purge remembers keep
\* their types in the composition that is checked.
THEOREM RecordsTypes == RecordsSpec => []RecordsTypeOK
<1>1. RecordsTypeOK <=> AdministrationTypeOK /\ EvidenceTypeOK
  BY DEF RecordsTypeOK
<1> QED  BY <1>1, PartsBehave, AdministrationTypes, EvidenceTypes, PTL
=============================================================================
