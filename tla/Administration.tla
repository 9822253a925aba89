---------------------------- MODULE Administration ----------------------------
(***************************************************************************)
(* Companies, users, units, points and cameras as the administration API   *)
(* keeps them (user, company, company-config, admin-unity, point and       *)
(* camera services), and the scope that a token gives its bearer           *)
(* (auth/company-scope.ts).                                                *)
(*                                                                         *)
(* A request reads the row it names (Ask), reads the rows it depends on    *)
(* (Check) and writes (Write); others may commit in between.  save writes  *)
(* every column of the entity read and inserts it again when its row is    *)
(* gone.  The tables are one function from ids to rows.  Movements,        *)
(* vehicles and observations restrict removals further; a refused removal  *)
(* changes nothing, so they are left out.                                  *)
(***************************************************************************)
EXTENDS Naturals, FiniteSets

CONSTANTS
    CompanyIds, UserIds, UnitIds, PointIds, CameraIds,   \* the ids a row may get
    Root,          \* the user of the seed, who belongs to no company
    FirstRows,     \* what may be there at the start: rows with their ids
    Clients,
    MaxRequests,   \* bound: requests in all
    Null

Ids == CompanyIds \cup UserIds \cup UnitIds \cup PointIds \cup CameraIds

Roles == {"user", "supervisor", "admin"}

\* What the columns of any row may hold.
RowShape ==
    [table: {"company", "user", "unit", "point", "camera"}, company: CompanyIds \cup {Null},
     role: Roles \cup {Null}, unit: UnitIds \cup {Null}, point: PointIds \cup {Null}]

ASSUME AdministrationAssumption ==
    /\ Root \in UserIds
    /\ CompanyIds \cap UserIds = {} /\ UnitIds \cap PointIds = {}
    /\ (CompanyIds \cup UserIds) \cap (UnitIds \cup PointIds) = {}
    /\ CameraIds \cap (CompanyIds \cup UserIds \cup UnitIds \cup PointIds) = {}
    /\ Null \notin Ids \cup Roles \cup RowShape
    /\ MaxRequests \in Nat
    /\ IsFiniteSet(Ids)
    /\ \A first \in FirstRows : DOMAIN first \subseteq Ids

VARIABLES
    rows,      \* the row of each id, Null when there is none
    born,      \* the ids that were ever given to a row
    configs,   \* company_configs: the companies that have settings
    links,     \* user_points
    tokens,    \* the tokens that were issued; none is ever taken back
    requests,  \* what each client's request remembers
    asked      \* number of requests so far (for the bound)

administrationVars == <<rows, born, configs, links, tokens, requests, asked>>

-----------------------------------------------------------------------------
(* Rows.                                                                   *)

Row(table, company) == [table |-> table, company |-> company, role |-> Null, unit |-> Null, point |-> Null]

CompanyRow(k) == Row("company", k)

UserRow(company, role) == [Row("user", company) EXCEPT !.role = role]

UnitRow(k) == Row("unit", k)

PointRow(k, unit) == [Row("point", k) EXCEPT !.unit = unit]

CameraRow(k, unit, point) == [Row("camera", k) EXCEPT !.unit = unit, !.point = point]

RowsOf(id) ==
    CASE id \in CompanyIds -> {CompanyRow(id)}
      [] id \in UserIds -> {UserRow(k, r) : k \in CompanyIds \cup {Null}, r \in Roles}
      [] id \in UnitIds -> {UnitRow(k) : k \in CompanyIds}
      [] id \in PointIds -> {PointRow(k, n) : k \in CompanyIds, n \in UnitIds}
      [] id \in CameraIds -> {CameraRow(k, n, p) : k \in CompanyIds, n \in UnitIds, p \in PointIds}

Present(table) == {id \in Ids : table[id] # Null}

\* The foreign keys, all RESTRICT.  A user's company is not one of them.
References(row) ==
    {row.unit, row.point, IF row.table \in {"company", "user"} THEN Null ELSE row.company} \ {Null}

ForeignKeysHold(table) ==
    \A id \in Present(table) : References(table[id]) \subseteq Present(table)

Admins(table, k) ==
    {u \in UserIds : table[u] # Null /\ table[u].role = "admin" /\ table[u].company = k}

\* UQ_users_company_admin
UniqueAdmins(table) == \A k \in CompanyIds : Cardinality(Admins(table, k)) <= 1

Allowed(table) == ForeignKeysHold(table) /\ UniqueAdmins(table)

\* The context of a camera is that of its point, and a point's unit is its company's.
Coherent(table) ==
    \A id \in Present(table) :
       LET row == table[id] IN
       /\ row.unit # Null => table[row.unit] # Null /\ table[row.unit].company = row.company
       /\ row.point # Null => /\ table[row.point] # Null
                              /\ table[row.point].company = row.company
                              /\ table[row.point].unit = row.unit

FirstTable(first) ==
    [id \in Ids |-> IF id = Root THEN UserRow(Null, "admin")
                   ELSE IF id \in DOMAIN first THEN first[id] ELSE Null]

\* What was there at the start was founded and filled like the rest.
ASSUME FirstRowsAssumption ==
    \A first \in FirstRows :
        LET table == FirstTable(first)
        IN  /\ \A id \in Present(table) :
                  /\ table[id] \in RowsOf(id)
                  /\ table[id].company \in Present(table) \cup {Null}
            /\ ForeignKeysHold(table) /\ Coherent(table)
            /\ \A k \in CompanyIds \cap Present(table) : \E u \in UserIds : Admins(table, k) = {u}

-----------------------------------------------------------------------------
(* Tokens and their scope.                                                 *)

Token(u) == [user |-> u, role |-> rows[u].role, company |-> rows[u].company]

\* A token without a company reaches every company.
SeesAll(token) == token.company = Null

\* Mutant: the filter on the company is lost.
InAnyScope(token, row) == row # Null

InScope(token, row) == row # Null /\ (SeesAll(token) \/ row.company = token.company)

\* login: what the token says stays what the row was.
Login(u) ==
    /\ rows[u] # Null /\ Token(u) \notin tokens
    /\ tokens' = tokens \cup {Token(u)}
    /\ UNCHANGED <<rows, born, configs, links, requests, asked>>

-----------------------------------------------------------------------------
(* Requests.                                                               *)

Idle == [phase |-> "idle", token |-> Null, op |-> Null, id |-> Null, entity |-> Null, points |-> {}]

Ops == {"create", "update", "remove", "link", "unlink", "configure"}

\* The request of c passed its first guards and holds the entity to write.
Hold(c, t, op, id, entity, points) ==
    /\ requests' = [requests EXCEPT ![c] =
                       [phase |-> "asked", token |-> t, op |-> op, id |-> id, entity |-> entity,
                        points |-> points]]
    /\ asked' = asked + 1
    /\ UNCHANGED <<rows, configs, links, tokens>>

Fresh(ids) == ids \ born

AskCreateUser(c, t, u, role) ==
    /\ u \in Fresh(UserIds)
    /\ Hold(c, t, "create", u, UserRow(t.company, role), {})
    /\ born' = born \cup {u}

\* requireCompanyId; the row gets the company of the token.
Create(c, t, id, row) ==
    /\ id \notin born /\ ~SeesAll(t)
    /\ Hold(c, t, "create", id, row, {})
    /\ born' = born \cup {id}

AskCreateUnit(c, t, n) == Create(c, t, n, UnitRow(t.company))

AskCreatePoint(c, t, p, n) == Create(c, t, p, PointRow(t.company, n))

AskCreateCamera(c, t, m, n, p) == Create(c, t, m, CameraRow(t.company, n, p))

\* Mutant: the administrator's role is not protected.
RoleChangesFreely(row, role) == TRUE

RoleMayChange(row, role) == row.role = "admin" => role \in {Null, "admin"}

\* A partial update carries no defaults: what was not sent stays.
Assign(row, field, value) == IF value = Null THEN row ELSE [row EXCEPT ![field] = value]

Update(c, t, id, entity) ==
    /\ InScope(t, rows[id])
    /\ Hold(c, t, "update", id, entity, {})
    /\ UNCHANGED born

AskUpdateUser(c, t, u, role) ==
    /\ rows[u] # Null /\ RoleMayChange(rows[u], role)
    /\ Update(c, t, u, Assign(rows[u], "role", role))

\* Companies and units: every column that may change is data.
AskUpdateCompany(c, t, k) == Update(c, t, k, rows[k])

AskUpdateUnit(c, t, n) == Update(c, t, n, rows[n])

AskUpdatePoint(c, t, p, unit) ==
    /\ rows[p] # Null /\ unit \in {Null, rows[p].unit}
    /\ Update(c, t, p, Assign(rows[p], "unit", unit))

AskUpdateCamera(c, t, m, unit, point) ==
    /\ rows[m] # Null /\ unit \in {Null, rows[m].unit} /\ point \in {Null, rows[m].point}
    /\ Update(c, t, m, Assign(Assign(rows[m], "unit", unit), "point", point))

AskUpdateConfig(c, t, k) ==
    /\ k \in configs /\ (SeesAll(t) \/ t.company = k)
    /\ Hold(c, t, "configure", k, Null, {})
    /\ UNCHANGED born

Remove(c, t, id) ==
    /\ InScope(t, rows[id])
    /\ Hold(c, t, "remove", id, Null, {})
    /\ UNCHANGED born

AskRemoveUser(c, t, u) == rows[u] # Null /\ rows[u].role # "admin" /\ Remove(c, t, u)

AskRemoveCompany(c, t, k) == Remove(c, t, k)

AskRemoveUnit(c, t, n) == Remove(c, t, n)

AskRemovePoint(c, t, p) == Remove(c, t, p)

AskRemoveCamera(c, t, m) == Remove(c, t, m)

AskLink(c, t, u, points) ==
    /\ t.role # "user" /\ InScope(t, rows[u]) /\ rows[u].role = "user"
    /\ Hold(c, t, "link", u, rows[u], points)
    /\ UNCHANGED born

AskUnlink(c, t, u, points) ==
    /\ t.role # "user" /\ InScope(t, rows[u])
    /\ Hold(c, t, "unlink", u, rows[u], points)
    /\ UNCHANGED born

-----------------------------------------------------------------------------

End(c) == requests' = [requests EXCEPT ![c] = Idle]

\* Mutant: the unit of a point may belong to another company.
FoundAnywhere(id, row) == rows[id] # Null

\* findOneBy({ id, companyId })
Found(id, row) == rows[id] # Null /\ rows[id].company = row.company

\* assertSingleCompanyAdmin, and the same question of update.
NoOtherAdmin(u, row) ==
    row.role = "admin" /\ row.company # Null => Admins(rows, row.company) \ {u} = {}

\* validateUnity of points, validateContext of cameras.
ContextFound(row) ==
    /\ row.table \in {"point", "camera"} => Found(row.unit, row)
    /\ row.table = "camera" => Found(row.point, row) /\ rows[row.point].unit = row.unit

\* Mutant: a point is linked whosever it is.
AnyPoints(r) == \A p \in r.points : rows[p] # Null

\* The points named by linkPoints.
PointsFound(r) ==
    \A p \in r.points : rows[p] # Null /\ (SeesAll(r.token) \/ rows[p].company = r.token.company)

Passes(r) ==
    CASE r.op \in {"create", "update"} -> NoOtherAdmin(r.id, r.entity) /\ ContextFound(r.entity)
      [] r.op = "link" -> PointsFound(r)
      [] OTHER -> TRUE

Check(c) ==
    /\ requests[c].phase = "asked"
    /\ IF Passes(requests[c])
       THEN requests' = [requests EXCEPT ![c].phase = "checked"]
       ELSE End(c)
    /\ UNCHANGED <<rows, born, configs, links, tokens, asked>>

-----------------------------------------------------------------------------
(* Writes.                                                                 *)

\* findOneBy loads no relation: the entity of a user has no points.
PointsOf(u) == {}

\* Mutant: the settings and links of a removed row stay.
CommitWithoutCascade(table, newLinks) ==
    IF Allowed(table) /\ \A l \in newLinks \ links : l[2] \in Present(table)
    THEN rows' = table /\ links' = newLinks /\ UNCHANGED configs
    ELSE UNCHANGED <<rows, links, configs>>

\* What the database does with the new table: the transaction fails, or the
\* links and the settings of the rows that went go with them.
Commit(table, newLinks) ==
    IF Allowed(table) /\ \A l \in newLinks \ links : l[2] \in Present(table)
    THEN /\ rows' = table
         /\ links' = {l \in newLinks : {l[1], l[2]} \subseteq Present(table)}
         /\ configs' = configs \cap Present(table)
    ELSE UNCHANGED <<rows, links, configs>>

Save(r) == [rows EXCEPT ![r.id] = r.entity]

\* The list of points assigned to the entity replaces the links of the user.
LinksOf(u, points) == {l \in links : l[1] # u} \cup {<<u, p>> : p \in points}

Write(c) ==
    LET r == requests[c] IN
    /\ r.phase = "checked"
    /\ \/ r.op \in {"create", "update"} /\ Commit(Save(r), links)
       \/ r.op = "remove" /\ Commit([rows EXCEPT ![r.id] = Null], links)
       \/ r.op = "link" /\ Commit(Save(r), LinksOf(r.id, PointsOf(r.id) \cup r.points))
       \/ /\ r.op = "unlink"
          /\ IF PointsOf(r.id) = {} THEN UNCHANGED <<rows, links, configs>>
             ELSE Commit(Save(r), LinksOf(r.id, PointsOf(r.id) \ r.points))
       \/ /\ r.op = "configure"
          /\ configs' = IF rows[r.id] # Null THEN configs \cup {r.id} ELSE configs
          /\ UNCHANGED <<rows, links>>
    /\ End(c)
    /\ UNCHANGED <<born, tokens, asked>>

\* CompanyService.create: one transaction, for tokens without a company.
CreateCompany(t, k, u) ==
    /\ asked < MaxRequests
    /\ SeesAll(t)
    /\ k \in Fresh(CompanyIds) /\ u \in Fresh(UserIds)
    /\ rows' = [rows EXCEPT ![k] = CompanyRow(k), ![u] = UserRow(k, "admin")]
    /\ configs' = configs \cup {k}
    /\ born' = born \cup {k, u}
    /\ asked' = asked + 1
    /\ UNCHANGED <<links, tokens, requests>>

-----------------------------------------------------------------------------

AdministrationInit ==
    /\ \E first \in FirstRows : rows = FirstTable(first)
    /\ born = Present(rows)
    /\ configs = CompanyIds \cap born
    /\ links = {}
    /\ tokens = {}
    /\ requests = [c \in Clients |-> Idle]
    /\ asked = 0

AskUser(c, t, u) ==
    \/ \E role \in Roles : AskCreateUser(c, t, u, role)
    \/ \E role \in Roles \cup {Null} : AskUpdateUser(c, t, u, role)
    \/ AskRemoveUser(c, t, u)
    \/ \E points \in SUBSET PointIds \ {{}} : AskLink(c, t, u, points) \/ AskUnlink(c, t, u, points)

AskCompany(c, t, k) == AskUpdateCompany(c, t, k) \/ AskUpdateConfig(c, t, k) \/ AskRemoveCompany(c, t, k)

AskUnit(c, t, n) == AskCreateUnit(c, t, n) \/ AskUpdateUnit(c, t, n) \/ AskRemoveUnit(c, t, n)

AskPoint(c, t, p) ==
    \/ \E n \in UnitIds : AskCreatePoint(c, t, p, n) \/ AskUpdatePoint(c, t, p, n)
    \/ AskUpdatePoint(c, t, p, Null) \/ AskRemovePoint(c, t, p)

AskCamera(c, t, m) ==
    \/ \E n \in UnitIds, p \in PointIds : AskCreateCamera(c, t, m, n, p)
    \/ \E n \in UnitIds \cup {Null}, p \in PointIds \cup {Null} : AskUpdateCamera(c, t, m, n, p)
    \/ AskRemoveCamera(c, t, m)

Ask(c, t) ==
    \/ \E u \in UserIds : AskUser(c, t, u)
    \/ \E k \in CompanyIds : AskCompany(c, t, k)
    \/ \E n \in UnitIds : AskUnit(c, t, n)
    \/ \E p \in PointIds : AskPoint(c, t, p)
    \/ \E m \in CameraIds : AskCamera(c, t, m)

AdministrationNext ==
    \/ \E u \in UserIds : Login(u)
    \/ \E c \in Clients : /\ requests[c].phase = "idle" /\ asked < MaxRequests
                          /\ \E t \in tokens : Ask(c, t)
    \/ \E c \in Clients : Check(c) \/ Write(c)
    \/ \E t \in tokens, k \in CompanyIds, u \in UserIds : CreateCompany(t, k, u)

AdministrationSpec == AdministrationInit /\ [][AdministrationNext]_administrationVars

-----------------------------------------------------------------------------
(* Properties.                                                             *)

\* Tables, settings, links, tokens and the memory of requests keep their
\* types; settings and links refer to rows that exist.
AdministrationTypeOK ==
    /\ DOMAIN rows = Ids
    /\ \A id \in Present(rows) : rows[id] \in RowsOf(id) /\ id \in born
    /\ configs \subseteq Present(rows) \cap CompanyIds
    /\ links \subseteq (Present(rows) \cap UserIds) \X (Present(rows) \cap PointIds)
    /\ tokens \subseteq [user: UserIds, role: Roles, company: CompanyIds \cup {Null}]
    /\ \A c \in Clients :
          LET r == requests[c] IN
          /\ r.phase \in {"idle", "asked", "checked"}
          /\ r.phase # "idle" => r.op \in Ops /\ r.id \in born /\ r.token \in tokens
          /\ r.entity # Null => r.entity \in RowsOf(r.id)
    /\ asked \in 0 .. MaxRequests

\* A company has exactly one administrator, the one it was founded with, through
\* promotions, demotions and removals that overlap and entities saved stale.
OneAdministrator ==
    \A k \in CompanyIds : rows[k] # Null => Cardinality(Admins(rows, k)) = 1

\* A camera's unit and company are those of its point, and the unit of a point
\* belongs to its company: the context that every observation and movement
\* copies, although rows are removed and inserted again between a check and a
\* save.
ContextsAgree == Coherent(rows)

\* The rows and links that a step writes belong to the company of the token
\* whose request writes them, unless the token belongs to no company.
TenantsKeptApart ==
    [][\A c \in Clients :
          LET k == requests[c].token.company
              Touched == {id \in Ids : rows'[id] # rows[id]}
                           \cup UNION {{l[1], l[2]} : l \in links' \ links}
          IN requests[c].phase = "checked" /\ requests'[c] = Idle /\ k # Null =>
                 \A id \in Touched : k \in {table[id].company : table \in {g \in {rows, rows'} : g[id] # Null}}
      ]_administrationVars
=============================================================================
