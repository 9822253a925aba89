-------------------------- MODULE NotificationsProofs --------------------------
(***************************************************************************)
(* Proofs about Notifications, for any users, events, filters and former   *)
(* settings, any number of dispatches and of requests, and any number of   *)
(* failures and crashes.                                                   *)
(***************************************************************************)
EXTENDS Notifications, FiniteSetTheorems, TLAPS

-----------------------------------------------------------------------------
(* The catalog and the resolution of a preference.                         *)

LEMMA Definitions ==
  ASSUME NEW type \in EventType
  PROVE  /\ Definition(type).defaultEnabled = TRUE
         /\ Definition(type).dedupeWindow \in 0 .. 6
         /\ ValidFilters(type, Definition(type).defaultFilters)
<1>1. \A k \in DOMAIN Catalog : k \in {"movement", "external", "camera", "system"}
  BY DEF Catalog
<1>2. /\ Catalog["movement"].type = "movement.registered"
      /\ Catalog["external"].type = "external_api.usage"
      /\ Catalog["camera"].type = "camera.error"
      /\ Catalog["system"].type = "system.error"
  BY DEF Catalog
<1>3. CASE type = "movement.registered"
  <2>1. Definition(type) = Catalog["movement"]
    BY <1>1, <1>2, <1>3 DEF Definition, Catalog
  <2>2. QED
    BY <2>1, <1>3 DEF Catalog, ValidFilters, FilterValues, MovementStatus
<1>4. CASE type = "external_api.usage"
  <2>1. Definition(type) = Catalog["external"]
    BY <1>1, <1>2, <1>4 DEF Definition, Catalog
  <2>2. QED
    BY <2>1, <1>4 DEF Catalog, ValidFilters, FilterValues, Outcome
<1>5. CASE type = "camera.error"
  <2>1. Definition(type) = Catalog["camera"]
    BY <1>1, <1>2, <1>5 DEF Definition, Catalog
  <2>2. QED
    BY <2>1, <1>5 DEF Catalog, ValidFilters, FilterValues, NoFilters
<1>6. CASE type = "system.error"
  <2>1. Definition(type) = Catalog["system"]
    BY <1>1, <1>2, <1>6 DEF Definition, Catalog
  <2>2. QED
    BY <2>1, <1>6 DEF Catalog, ValidFilters, FilterValues, NoFilters
<1>7. QED
  BY <1>3, <1>4, <1>5, <1>6 DEF EventType

\* What a filter asks of an event.
Passes(e, k, value) ==
    IF k = "autoRegistered" THEN Subject(e, k) = value ELSE value = {} \/ Subject(e, k) \in value

LEMMA OneFilter ==
  ASSUME NEW e, NEW filters, NEW k
  PROVE  MatchesFilters(e, [x \in {k} |-> filters[x]]) <=> Passes(e, k, filters[k])
BY DEF MatchesFilters, Passes

LEMMA AllFilters ==
  ASSUME NEW e, NEW filters
  PROVE  MatchesFilters(e, filters) <=> \A k \in DOMAIN filters : Passes(e, k, filters[k])
BY DEF MatchesFilters, Passes

\* What is merged keeps to the schema when every level does.
LEMMA MergedIsValid ==
  ASSUME NEW type, NEW catalog, NEW company, NEW user,
         ValidFilters(type, catalog),
         company # None => ValidFilters(type, company),
         user # None => ValidFilters(type, user)
  PROVE  ValidFilters(type, MergeFilters(catalog, company, user))
BY DEF ValidFilters, MergeFilters, NoFilters

\* A key that several levels have is that of the most specific one.
LEMMA MergedFrom ==
  ASSUME NEW catalog, NEW company, NEW user, NEW k
  PROVE  LET merged == MergeFilters(catalog, company, user)
             ofUser == user # None /\ k \in DOMAIN user
             ofCompany == company # None /\ k \in DOMAIN company
         IN /\ k \in DOMAIN merged <=> ofUser \/ ofCompany \/ k \in DOMAIN catalog
            /\ ofUser => merged[k] = user[k]
            /\ ~ofUser /\ ofCompany => merged[k] = company[k]
            /\ ~ofUser /\ ~ofCompany /\ k \in DOMAIN catalog => merged[k] = catalog[k]
BY DEF MergeFilters, NoFilters

\* What a user is told by the resolution is what the levels say, one by one.
LEMMA ResolutionObeysLevels ==
  ASSUME NEW e, NEW u, e.type \in Types, e.type \in EventType,
         settings[e.type] \in Setting(e.type) \cup {None},
         preferences[u][e.type] \in Preference(e.type) \cup {None}
  PROVE  LET shown == GetPreference(u, e.type)
         IN Wants(u, e) <=> shown.enabled /\ MatchesFilters(e, shown.filters)
<1> DEFINE type == e.type
           company == IF CompanyOf[u] = None THEN None ELSE settings[type]
           own == IF company # None /\ ~company.allowUserOverride THEN None ELSE preferences[u][type]
           heard == IF company = None \/ company.allowUserOverride THEN preferences[u][type] ELSE None
           catalog == Definition(type).defaultFilters
           f1 == IF own = None THEN None ELSE own.filters
           f2 == IF company = None THEN None ELSE company.filters
           merged == MergeFilters(catalog, f2, f1)
           shown == GetPreference(u, type)
           levels == Levels(u, type)
           Says(i) == IF levels[i] = None THEN None ELSE levels[i].enabled
           Has(i, k) == levels[i] # None /\ levels[i].filters # None /\ k \in DOMAIN levels[i].filters
           Value(i, k) == levels[i].filters[k]
<1>1. own = heard /\ company \in Setting(type) \cup {None} /\ own \in Preference(type) \cup {None}
  <2>1. company # None => company.allowUserOverride \in BOOLEAN
    BY DEF Setting
  <2>2. QED
    BY <2>1
<1>2. /\ levels[1] = own /\ levels[2] = company
      /\ levels[3] = [enabled |-> TRUE, filters |-> catalog]
  BY DEF Levels
<1>3. levels[3] # None /\ levels[3].filters = catalog /\ levels[3].enabled = TRUE /\ catalog # None
  <2>1. [enabled |-> TRUE, filters |-> catalog] \in Preference(type)
    BY DEF Preference, Filters
  <2>2. None \notin Preference(type) /\ catalog # None
    BY RowsAssumption
  <2> HIDE DEF levels, catalog
  <2>3. levels[3] # None
    BY <1>2, <2>1, <2>2
  <2>4. levels[3].filters = catalog
    BY <1>2
  <2>5. levels[3].enabled = TRUE
    BY <1>2
  <2>6. QED
    BY <2>2, <2>3, <2>4, <2>5
<1>4. PICK enabled : enabled = IF heard # None /\ heard.enabled # None THEN heard.enabled
                               ELSE IF company # None THEN company.enabled ELSE Definition(type).defaultEnabled
  OBVIOUS
<1>5. shown.enabled = enabled /\ shown.filters = SafeParse(type, merged, SafeParse(type, catalog, NoFilters))
  BY <1>1, <1>4 DEF GetPreference, ResolvePreference
<1>6. /\ f1 # None => ValidFilters(type, f1)
      /\ f2 # None => ValidFilters(type, f2)
  <2>1. f1 # None => ValidFilters(type, f1)
    BY <1>1, Definitions DEF Preference, Filters
  <2>2. f2 # None => ValidFilters(type, f2)
    BY <1>1, Definitions DEF Setting, Filters
  <2>3. QED
    BY <2>1, <2>2
<1>7. ValidFilters(type, merged)
  <2> HIDE DEF f1, f2
  <2>1. QED
    BY <1>6, Definitions, MergedIsValid
<1>8. shown.filters = merged
  BY <1>5, <1>7 DEF SafeParse
<1>9. shown.enabled <=> \E i \in 1 .. 3 : Says(i) = TRUE /\ \A j \in 1 .. i - 1 : Says(j) = None
  <2>1. /\ Says(1) = IF own = None THEN None ELSE own.enabled
        /\ Says(2) = IF company = None THEN None ELSE company.enabled
        /\ Says(3) = TRUE
    BY <1>2, <1>3
  <2>2. /\ own # None => own.enabled \in BOOLEAN \cup {None}
        /\ company # None => company.enabled \in BOOLEAN
        /\ None \notin BOOLEAN
    BY <1>1, RowsAssumption DEF Preference, Setting
  <2>3. Definition(type).defaultEnabled = TRUE
    BY Definitions
  <2> HIDE DEF Says, own, company, heard, shown
  <2>4. /\ \A j \in 1 .. 1 - 1 : Says(j) = None
        /\ (\A j \in 1 .. 2 - 1 : Says(j) = None) <=> Says(1) = None
        /\ (\A j \in 1 .. 3 - 1 : Says(j) = None) <=> Says(1) = None /\ Says(2) = None
    OBVIOUS
  <2>5. (\E i \in 1 .. 3 : Says(i) = TRUE /\ \A j \in 1 .. i - 1 : Says(j) = None) <=>
           \/ Says(1) = TRUE
           \/ Says(2) = TRUE /\ Says(1) = None
           \/ Says(3) = TRUE /\ Says(1) = None /\ Says(2) = None
    <3>1. 1 .. 3 = {1, 2, 3}
      OBVIOUS
    <3>2. QED
      BY <2>4, <3>1
  <2>6. QED
    BY <1>1, <1>4, <1>5, <2>1, <2>2, <2>3, <2>5
<1>10. MatchesFilters(e, merged) <=>
        \A k \in DOMAIN FilterValues(type) : \A i \in 1 .. 3 :
           Has(i, k) /\ (\A j \in 1 .. i - 1 : ~Has(j, k)) => Passes(e, k, Value(i, k))
  <2>1. DOMAIN merged \subseteq DOMAIN FilterValues(type)
    BY <1>7 DEF ValidFilters
  <2>2. /\ \A k : Has(1, k) <=> f1 # None /\ k \in DOMAIN f1
        /\ \A k : Has(2, k) <=> f2 # None /\ k \in DOMAIN f2
        /\ \A k : Has(3, k) <=> k \in DOMAIN catalog
        /\ \A k : Has(1, k) => Value(1, k) = f1[k]
        /\ \A k : Has(2, k) => Value(2, k) = f2[k]
        /\ \A k : Value(3, k) = catalog[k]
    <3> HIDE DEF own, company, catalog, levels
    <3>1. QED
      BY <1>2, <1>3
  <2>3. DOMAIN catalog \subseteq DOMAIN FilterValues(type) /\ type \in EventType
    BY Definitions DEF ValidFilters
  <2>4. /\ f1 # None => DOMAIN f1 \subseteq DOMAIN FilterValues(type)
        /\ f2 # None => DOMAIN f2 \subseteq DOMAIN FilterValues(type)
    BY <1>6 DEF ValidFilters
  <2> HIDE DEF Has, Value, f1, f2, catalog, merged
  <2>5. ASSUME NEW k
        PROVE  (k \in DOMAIN merged => Passes(e, k, merged[k])) <=>
                 (k \in DOMAIN FilterValues(type) => \A i \in 1 .. 3 :
                    Has(i, k) /\ (\A j \in 1 .. i - 1 : ~Has(j, k)) => Passes(e, k, Value(i, k)))
    <3>1. (\A i \in 1 .. 3 : Has(i, k) /\ (\A j \in 1 .. i - 1 : ~Has(j, k)) => Passes(e, k, Value(i, k))) <=>
             /\ Has(1, k) => Passes(e, k, Value(1, k))
             /\ Has(2, k) /\ ~Has(1, k) => Passes(e, k, Value(2, k))
             /\ Has(3, k) /\ ~Has(1, k) /\ ~Has(2, k) => Passes(e, k, Value(3, k))
      <4>1. /\ \A j \in 1 .. 1 - 1 : ~Has(j, k)
            /\ (\A j \in 1 .. 2 - 1 : ~Has(j, k)) <=> ~Has(1, k)
            /\ (\A j \in 1 .. 3 - 1 : ~Has(j, k)) <=> ~Has(1, k) /\ ~Has(2, k)
        OBVIOUS
      <4>2. 1 .. 3 = {1, 2, 3}
        OBVIOUS
      <4>3. QED
        BY <4>1, <4>2
    <3>2. LET ofUser == f1 # None /\ k \in DOMAIN f1
              ofCompany == f2 # None /\ k \in DOMAIN f2
          IN /\ k \in DOMAIN merged <=> ofUser \/ ofCompany \/ k \in DOMAIN catalog
             /\ ofUser => merged[k] = f1[k]
             /\ ~ofUser /\ ofCompany => merged[k] = f2[k]
             /\ ~ofUser /\ ~ofCompany /\ k \in DOMAIN catalog => merged[k] = catalog[k]
      BY MergedFrom DEF merged
    <3>3. QED
      BY <2>1, <2>2, <2>3, <2>4, <3>1, <3>2
  <2>6. QED
    BY <2>5, AllFilters
<1>11. QED
  <2>1. Wants(u, e) <=>
          /\ \E i \in 1 .. 3 : Says(i) = TRUE /\ \A j \in 1 .. i - 1 : Says(j) = None
          /\ \A k \in DOMAIN FilterValues(type) : \A i \in 1 .. 3 :
                Has(i, k) /\ (\A j \in 1 .. i - 1 : ~Has(j, k)) =>
                   MatchesFilters(e, [x \in {k} |-> levels[i].filters[x]])
    BY DEF Wants
  <2>2. \A k, i : MatchesFilters(e, [x \in {k} |-> levels[i].filters[x]]) <=> Passes(e, k, Value(i, k))
    BY OneFilter
  <2> HIDE DEF levels
  <2>3. QED
    BY <1>8, <1>9, <1>10, <2>1, <2>2

-----------------------------------------------------------------------------
(* The inductive invariant.                                                *)

Phases == {"idle", "recipients", "operators", "setting", "preferences", "save"}

\* Who an event may be addressed to.
Addressed(e) ==
    {u \in Users : CompanyOf[u] = e.companyId \/ (e.type = "system.error" /\ CompanyOf[u] = None)}

Tables ==
    /\ users \subseteq Users /\ cameras \subseteq Cameras
    /\ settings = [t \in Types |-> settings[t]]
    /\ \A t \in Types : settings[t] \in Setting(t) \cup {None}
    /\ preferences = [u \in Users |-> preferences[u]]
    /\ \A u \in Users : /\ preferences[u] = [t \in Types |-> preferences[u][t]]
                        /\ \A t \in Types : preferences[u][t] \in Preference(t) \cup {None}
    /\ dedupe \in [Keys -> 0 .. 6]

RowsTyped ==
    /\ nextId \in 1 .. MaxRows + 1
    /\ rows = [i \in Ids |-> rows[i]]
    /\ \A i \in Ids : IF i < nextId THEN rows[i] \in Notification ELSE rows[i] = None

DispatchTyped(r) ==
    /\ DOMAIN r = {"phase", "event", "recipients", "setting", "to"}
    /\ r.phase \in Phases
    /\ r.phase # "idle" => r.event \in Events /\ r.recipients \subseteq Addressed(r.event)
    /\ r.phase = "operators" => r.event.type = "system.error"
    /\ r.recipients \subseteq Users /\ r.to \subseteq Users

DispatchesTyped ==
    /\ dispatch = [d \in Dispatches |-> dispatch[d]]
    /\ \A d \in Dispatches : DispatchTyped(dispatch[d])
    /\ steady \in [Dispatches -> SUBSET Users]

EditTyped(r) ==
    \/ r.op = "idle"
    \/ r.op = "read" /\ r.entity \in Ids /\ r.entity < nextId
    \/ r.op = "preference" /\ r.owner \in Users /\ r.type \in Types /\ r.entity \in Preference(r.type)
    \/ r.op = "setting" /\ r.type \in Types /\ r.entity \in Setting(r.type)

EditsTyped ==
    /\ edit = [c \in Editors |-> edit[c]]
    /\ \A c \in Editors : EditTyped(edit[c])

\* What a dispatch has read is still so for everyone whose settings are steady.
ReadStaysTrue ==
    \A d \in Dispatches :
       dispatch[d].phase = "preferences" =>
          \A u \in steady[d] \cap dispatch[d].recipients :
             CompanyOf[u] # None => dispatch[d].setting = settings[dispatch[d].event.type]

IInv == Tables /\ RowsTyped /\ DispatchesTyped /\ EditsTyped /\ ReadStaysTrue

LEMMA TablesKept ==
  ASSUME Tables, UNCHANGED <<tables, dedupe>>
  PROVE  Tables'
BY DEF Tables, tables

\* A row that exists stays one; nothing else is written but by Save.
LEMMA RowsKept ==
  ASSUME RowsTyped, rows' = [i \in Ids |-> rows'[i]], nextId' = nextId,
         \A i \in Ids : rows'[i] # rows[i] => i < nextId /\ rows'[i] \in Notification
  PROVE  RowsTyped'
BY DEF RowsTyped

LEMMA RowsSame ==
  ASSUME RowsTyped, UNCHANGED <<rows, nextId>>
  PROVE  RowsTyped'
BY DEF RowsTyped

LEMMA IdleTyped ==
  DispatchTyped(Idle) /\ Idle.phase = "idle" /\ Idle.event = None /\ Idle.to = {}
BY DEF DispatchTyped, Idle, Phases

LEMMA DispatchSet ==
  ASSUME DispatchesTyped, NEW d \in Dispatches, NEW r, DispatchTyped(r), NEW us \in SUBSET Users,
         dispatch' = [dispatch EXCEPT ![d] = r],
         steady' = steady \/ steady' = [steady EXCEPT ![d] = us]
  PROVE  DispatchesTyped'
BY DEF DispatchesTyped

LEMMA DispatchesSame ==
  ASSUME DispatchesTyped, UNCHANGED <<dispatch, steady>>
  PROVE  DispatchesTyped'
BY DEF DispatchesTyped

LEMMA EditSet ==
  ASSUME EditsTyped, NEW c \in Editors, NEW r, EditTyped(r), nextId' = nextId,
         edit' = [edit EXCEPT ![c] = r]
  PROVE  EditsTyped'
BY DEF EditsTyped, EditTyped

LEMMA EditsSame ==
  ASSUME EditsTyped, RowsTyped, MaxRows \in Nat, UNCHANGED edit, nextId' \in Nat, nextId <= nextId'
  PROVE  EditsTyped'
<1>1. nextId \in Nat
  BY DEF RowsTyped
<1>2. ASSUME NEW c \in Editors, EditTyped(edit[c])
      PROVE  EditTyped(edit[c])'
  BY <1>1, <1>2 DEF EditTyped, Ids
<1>3. QED
  BY <1>2 DEF EditsTyped

LEMMA NoEditTyped ==
  EditTyped(NoEdit)
BY DEF EditTyped, NoEdit

LEMMA ReadSame ==
  ASSUME ReadStaysTrue, UNCHANGED <<dispatch, steady, settings>>
  PROVE  ReadStaysTrue'
BY DEF ReadStaysTrue

\* A dispatch that is not about to read preferences has nothing to keep.
LEMMA ReadSet ==
  ASSUME ReadStaysTrue, DispatchesTyped, NEW d \in Dispatches, NEW r,
         r.phase = "preferences" =>
            \A u \in steady[d] \cap r.recipients : CompanyOf[u] # None => r.setting = settings[r.event.type],
         dispatch' = [dispatch EXCEPT ![d] = r], settings' = settings,
         \/ steady' = steady
         \/ r.phase # "preferences" /\ \E us : steady' = [steady EXCEPT ![d] = us]
  PROVE  ReadStaysTrue'
<1>1. \A x \in Dispatches \ {d} : dispatch'[x] = dispatch[x] /\ steady'[x] = steady[x]
  BY DEF DispatchesTyped
<1>2. dispatch'[d] = r /\ (r.phase = "preferences" => steady'[d] = steady[d])
  BY DEF DispatchesTyped
<1>3. QED
  BY <1>1, <1>2 DEF ReadStaysTrue

-----------------------------------------------------------------------------
(* Every step preserves it.                                                *)

LEMMA Windows ==
  ASSUME NEW e \in Events
  PROVE  Window(e) \in 0 .. 6 /\ DedupeKey(e) \in Keys
<1>1. e.type \in EventType /\ e.dedupeWindow \in {0, None}
  BY NotificationsAssumption
<1>2. Definition(e.type).dedupeWindow \in 0 .. 6
  BY <1>1, Definitions
<1>3. Window(e) \in 0 .. 6
  BY <1>1, <1>2 DEF Window
<1>4. DedupeKey(e) \in Keys
  BY DEF Keys
<1>5. QED
  BY <1>3, <1>4

LEMMA PublishStep ==
  ASSUME IInv, NEW e \in Events, Publish(e)
  PROVE  IInv'
<1> USE DEF IInv, RowsTyped
<1>1. UNCHANGED <<tables, rows, nextId, edit>>
  BY DEF Publish
<1>2. RowsTyped' /\ EditsTyped'
  BY <1>1, RowsSame, EditsSame, NotificationsAssumption
<1>3. CASE IsDuplicate(e)
  <2>1. UNCHANGED <<dedupe, dispatch, steady>>
    BY <1>3 DEF Publish
  <2>2. UNCHANGED settings
    BY <1>1 DEF tables
  <2>3. QED
    BY <1>1, <1>2, <2>1, <2>2, TablesKept, DispatchesSame, ReadSame
<1>4. CASE ~IsDuplicate(e)
  <2>1. PICK d \in Dispatches :
           /\ dispatch[d].phase = "idle"
           /\ dispatch' = [dispatch EXCEPT ![d] = [Idle EXCEPT !.phase = "recipients", !.event = e]]
           /\ steady' = [steady EXCEPT ![d] = users]
    BY <1>4 DEF Publish
  <2>2. dedupe' = IF Window(e) = 0 THEN dedupe ELSE [dedupe EXCEPT ![DedupeKey(e)] = Window(e)]
    BY <1>4 DEF Publish
  <2>3. Tables'
    <3>1. dedupe' \in [Keys -> 0 .. 6]
      BY <2>2, Windows DEF Tables
    <3>2. QED
      BY <1>1, <3>1 DEF Tables, tables
  <2> DEFINE r == [Idle EXCEPT !.phase = "recipients", !.event = e]
  <2>4. DispatchTyped(r) /\ r.phase = "recipients"
    <3>1. /\ DOMAIN r = {"phase", "event", "recipients", "setting", "to"}
          /\ r.phase = "recipients" /\ r.event = e /\ r.recipients = {} /\ r.to = {}
      BY DEF Idle
    <3> HIDE DEF r
    <3>2. QED
      BY <3>1 DEF DispatchTyped, Phases
  <2>5. users \in SUBSET Users /\ settings' = settings
    BY <1>1 DEF Tables, tables
  <2> HIDE DEF r
  <2>6. dispatch' = [dispatch EXCEPT ![d] = r]
    BY <2>1 DEF r
  <2>7. DispatchesTyped'
    BY <2>1, <2>4, <2>5, <2>6, DispatchSet
  <2>8. ReadStaysTrue'
    BY <2>1, <2>4, <2>5, <2>6, ReadSet
  <2>9. QED
    BY <1>2, <2>3, <2>7, <2>8
<1>5. QED
  BY <1>3, <1>4

\* A step of one dispatch that writes nothing else.
LEMMA DispatchMoves ==
  ASSUME IInv, NEW d \in Dispatches, NEW r, DispatchTyped(r),
         r.phase = "preferences" =>
            \A u \in steady[d] \cap r.recipients : CompanyOf[u] # None => r.setting = settings[r.event.type],
         dispatch' = [dispatch EXCEPT ![d] = r],
         \/ steady' = steady
         \/ r.phase # "preferences" /\ steady' = [steady EXCEPT ![d] = {}],
         UNCHANGED <<tables, rows, nextId, dedupe, edit>>
  PROVE  IInv'
<1> USE DEF IInv
<1>1. Tables' /\ RowsTyped' /\ settings' = settings
  BY TablesKept, RowsSame DEF tables
<1>2. EditsTyped'
  BY EditsSame, NotificationsAssumption DEF RowsTyped
<1>3. {} \in SUBSET Users
  OBVIOUS
<1>4. DispatchesTyped'
  BY <1>3, DispatchSet
<1>5. ReadStaysTrue'
  BY <1>1, ReadSet
<1>6. QED
  BY <1>1, <1>2, <1>4, <1>5

LEMMA AddressTyped ==
  ASSUME IInv, NEW d \in Dispatches, dispatch[d].phase # "idle",
         NEW found, found \subseteq Addressed(dispatch[d].event)
  PROVE  DispatchTyped(Address(d, found)) /\ Address(d, found).phase # "preferences"
<1>1. DispatchTyped(dispatch[d])
  BY DEF IInv, DispatchesTyped
<1>2. CASE found = {}
  BY <1>2, IdleTyped DEF Address
<1>3. CASE found # {}
  <2> DEFINE r == [dispatch[d] EXCEPT !.phase = "setting", !.recipients = found]
  <2>1. Address(d, found) = r
    BY <1>3 DEF Address
  <2>2. Addressed(dispatch[d].event) \subseteq Users
    BY DEF Addressed
  <2>3. /\ DOMAIN r = DOMAIN dispatch[d] /\ r.phase = "setting" /\ r.event = dispatch[d].event
        /\ r.recipients = found /\ r.to = dispatch[d].to
    BY <1>1 DEF DispatchTyped
  <2> HIDE DEF r
  <2>4. DispatchTyped(r) /\ r.phase # "preferences"
    BY <1>1, <2>2, <2>3 DEF DispatchTyped, Phases
  <2>5. QED
    BY <2>1, <2>4
<1>4. QED
  BY <1>2, <1>3

LEMMA ReadRecipientsStep ==
  ASSUME IInv, NEW d \in Dispatches, ReadRecipients(d)
  PROVE  IInv'
<1> DEFINE e == dispatch[d].event
           found == {u \in users : CompanyOf[u] = e.companyId}
           more == [dispatch[d] EXCEPT !.phase = "operators", !.recipients = found]
           r == IF e.type = "system.error" /\ e.companyId # None THEN more ELSE Address(d, found)
<1>1. /\ dispatch' = [dispatch EXCEPT ![d] = r] /\ steady' = steady
      /\ UNCHANGED <<tables, rows, nextId, dedupe, edit>>
  <2>1. d \in DOMAIN dispatch
    BY DEF IInv, DispatchesTyped
  <2>2. QED
    BY <2>1 DEF ReadRecipients
<1>2. DispatchTyped(dispatch[d]) /\ e \in Events /\ dispatch[d].phase = "recipients"
  BY DEF IInv, DispatchesTyped, ReadRecipients, DispatchTyped
<1>3. found \subseteq Addressed(e) /\ Addressed(e) \subseteq Users
  BY DEF Addressed, IInv, Tables
<1>4. DispatchTyped(Address(d, found)) /\ Address(d, found).phase # "preferences"
  BY <1>2, <1>3, AddressTyped
<1>5. e.type = "system.error" => DispatchTyped(more) /\ more.phase # "preferences"
  <2>1. /\ DOMAIN more = DOMAIN dispatch[d] /\ more.phase = "operators" /\ more.event = e
        /\ more.recipients = found /\ more.to = dispatch[d].to
    BY <1>2 DEF DispatchTyped
  <2> HIDE DEF more, found
  <2>2. QED
    BY <1>2, <1>3, <2>1 DEF DispatchTyped, Phases
<1> HIDE DEF more, found
<1>6. DispatchTyped(r) /\ r.phase # "preferences"
  BY <1>4, <1>5
<1> HIDE DEF r
<1>7. QED
  BY <1>1, <1>6, DispatchMoves

LEMMA ReadOperatorsStep ==
  ASSUME IInv, NEW d \in Dispatches, ReadOperators(d)
  PROVE  IInv'
<1> DEFINE found == dispatch[d].recipients \cup {u \in users : CompanyOf[u] = None}
           r == Address(d, found)
<1>1. /\ dispatch' = [dispatch EXCEPT ![d] = r] /\ steady' = steady
      /\ UNCHANGED <<tables, rows, nextId, dedupe, edit>>
  BY DEF ReadOperators
<1>2. DispatchTyped(dispatch[d]) /\ dispatch[d].phase = "operators"
  BY DEF IInv, DispatchesTyped, ReadOperators
<1>3. found \subseteq Addressed(dispatch[d].event)
  BY <1>2 DEF Addressed, IInv, Tables, DispatchTyped
<1> HIDE DEF found
<1>4. DispatchTyped(r) /\ r.phase # "preferences"
  BY <1>2, <1>3, AddressTyped
<1> HIDE DEF r
<1>5. QED
  BY <1>1, <1>4, DispatchMoves

LEMMA ReadSettingStep ==
  ASSUME IInv, NEW d \in Dispatches, ReadSetting(d)
  PROVE  IInv'
<1> DEFINE e == dispatch[d].event
           setting == IF e.companyId = None THEN None ELSE settings[e.type]
           r == [dispatch[d] EXCEPT !.phase = "preferences", !.setting = setting]
<1>1. d \in DOMAIN dispatch /\ DispatchTyped(dispatch[d]) /\ dispatch[d].phase = "setting"
  BY DEF IInv, DispatchesTyped, ReadSetting
<1>2. /\ dispatch' = [dispatch EXCEPT ![d] = r] /\ steady' = steady
      /\ UNCHANGED <<tables, rows, nextId, dedupe, edit>>
  BY <1>1 DEF ReadSetting
<1>3. DispatchTyped(r)
  <2>1. DOMAIN dispatch[d] = {"phase", "event", "recipients", "setting", "to"}
    BY <1>1 DEF DispatchTyped
  <2>2. /\ DOMAIN r = DOMAIN dispatch[d] /\ r.phase = "preferences" /\ r.event = e
        /\ r.recipients = dispatch[d].recipients /\ r.to = dispatch[d].to
    BY <2>1
  <2> HIDE DEF r, setting
  <2>3. QED
    BY <1>1, <2>2 DEF DispatchTyped, Phases
<1>4. ASSUME NEW u \in steady[d] \cap r.recipients, CompanyOf[u] # None
      PROVE  r.setting = settings[r.event.type]
  <2>1. u \in Addressed(e) /\ r.event = e /\ r.setting = setting
    BY <1>1, <1>4 DEF DispatchTyped
  <2>2. CompanyOf[u] = e.companyId
    BY <1>4, <2>1 DEF Addressed
  <2>3. QED
    BY <1>4, <2>1, <2>2
<1> HIDE DEF r
<1>5. QED
  BY <1>2, <1>3, <1>4, DispatchMoves

LEMMA ReadPreferencesStep ==
  ASSUME IInv, NEW d \in Dispatches, ReadPreferences(d)
  PROVE  IInv'
<1> DEFINE told == {u \in dispatch[d].recipients : Tells(dispatch[d].event, u, dispatch[d].setting)}
           r == IF told = {} THEN Idle
                ELSE [Idle EXCEPT !.phase = "save", !.event = dispatch[d].event, !.to = told]
<1>1. DispatchTyped(dispatch[d]) /\ dispatch[d].phase = "preferences"
  BY DEF IInv, DispatchesTyped, ReadPreferences
<1>2. /\ dispatch' = [dispatch EXCEPT ![d] = r] /\ steady' = [steady EXCEPT ![d] = {}]
      /\ UNCHANGED <<tables, rows, nextId, dedupe, edit>>
  BY DEF ReadPreferences
<1>3. told \subseteq Users
  BY <1>1 DEF DispatchTyped
<1> HIDE DEF told
<1>4. DispatchTyped(r) /\ r.phase # "preferences"
  BY <1>1, <1>3 DEF DispatchTyped, Phases, Idle
<1> HIDE DEF r
<1>5. QED
  BY <1>2, <1>4, DispatchMoves

LEMMA FailStep ==
  ASSUME IInv, NEW d \in Dispatches, Fail(d)
  PROVE  IInv'
<1>1. /\ dispatch' = [dispatch EXCEPT ![d] = Idle] /\ steady' = [steady EXCEPT ![d] = {}]
      /\ UNCHANGED <<tables, rows, nextId, dedupe, edit>>
  BY DEF Fail
<1>2. QED
  BY <1>1, IdleTyped, DispatchMoves

\* The rows of a transaction: one for each user.
LEMMA Transaction ==
  ASSUME NEW S \in SUBSET Users
  PROVE  /\ Cardinality(S) \in Nat
         /\ \A i \in 1 .. Cardinality(S) : SetToSeq(S)[i] \in S
<1>1. IsFiniteSet(S)
  BY FS_Subset, NotificationsAssumption
<1>2. Cardinality(S) \in Nat /\ ExistsBijection(1 .. Cardinality(S), S)
  BY <1>1, FS_CardinalityType
<1>3. PICK f \in [1 .. Cardinality(S) -> S] : IsInjective(f)
  BY <1>2 DEF ExistsBijection, Bijection, Injection, IsInjective
<1>4. SetToSeq(S) \in [1 .. Cardinality(S) -> S]
  BY <1>3 DEF SetToSeq
<1>5. QED
  BY <1>2, <1>4

LEMMA SaveStep ==
  ASSUME IInv, NEW d \in Dispatches, Save(d)
  PROVE  IInv'
<1> USE DEF IInv
<1> DEFINE S == dispatch[d].to
           e == dispatch[d].event
<1>1. DispatchTyped(dispatch[d]) /\ S \in SUBSET Users /\ e \in Events
  BY DEF DispatchesTyped, Save, DispatchTyped
<1>2. /\ dispatch' = [dispatch EXCEPT ![d] = Idle] /\ steady' = steady
      /\ UNCHANGED <<tables, dedupe, edit>> /\ settings' = settings
  BY DEF Save, tables
<1>3. Tables' /\ DispatchesTyped' /\ ReadStaysTrue'
  <2>1. {} \in SUBSET Users /\ Idle.phase # "preferences"
    BY IdleTyped
  <2>2. DispatchesTyped'
    BY <1>2, <2>1, IdleTyped, DispatchSet
  <2>3. ReadStaysTrue'
    BY <1>2, <2>1, ReadSet
  <2>4. QED
    BY <1>2, <2>2, <2>3, TablesKept
<1>4. RowsTyped' /\ nextId' \in Nat /\ nextId <= nextId'
  <2>1. CASE Referenced(d)
    <3>1. /\ nextId + Cardinality(S) <= MaxRows + 1
          /\ nextId' = nextId + Cardinality(S)
          /\ rows' = [i \in Ids |->
                IF i \in nextId .. nextId' - 1
                THEN [user |-> SetToSeq(S)[i - nextId + 1], event |-> e, state |-> "unread", age |-> "new"]
                ELSE rows[i]]
      BY <2>1 DEF Save
    <3>2. Cardinality(S) \in Nat /\ \A i \in 1 .. Cardinality(S) : SetToSeq(S)[i] \in Users
      BY <1>1, Transaction
    <3>3. nextId \in 1 .. MaxRows + 1 /\ MaxRows \in Nat
      BY NotificationsAssumption DEF RowsTyped
    <3> HIDE DEF S
    <3>4. nextId' \in 1 .. MaxRows + 1 /\ nextId <= nextId'
      BY <3>1, <3>2, <3>3
    <3>5. ASSUME NEW i \in Ids
          PROVE  IF i < nextId' THEN rows'[i] \in Notification ELSE rows'[i] = None
      <4>1. CASE i \in nextId .. nextId' - 1
        <5>1. i - nextId + 1 \in 1 .. Cardinality(S) /\ i < nextId'
          BY <3>1, <3>2, <3>3, <4>1
        <5>2. rows'[i] = [user |-> SetToSeq(S)[i - nextId + 1], event |-> e, state |-> "unread", age |-> "new"]
          BY <3>1, <4>1
        <5>3. QED
          BY <1>1, <3>2, <5>1, <5>2 DEF Notification
      <4>2. CASE i \notin nextId .. nextId' - 1
        <5>1. rows'[i] = rows[i] /\ (i < nextId' <=> i < nextId)
          BY <3>1, <3>2, <3>3, <3>4, <4>2 DEF Ids
        <5>2. QED
          BY <5>1 DEF RowsTyped
      <4>3. QED
        BY <4>1, <4>2
    <3>6. QED
      BY <3>1, <3>4, <3>5 DEF RowsTyped
  <2>2. CASE ~Referenced(d)
    BY <2>2, RowsSame DEF Save, RowsTyped
  <2>3. QED
    BY <2>1, <2>2
<1>5. EditsTyped'
  BY <1>2, <1>4, EditsSame, NotificationsAssumption
<1>6. QED
  BY <1>3, <1>4, <1>5

LEMMA CrashStep ==
  ASSUME IInv, Crash
  PROVE  IInv'
<1> USE DEF IInv
<1>1. /\ dedupe' = [k \in Keys |-> 0] /\ dispatch' = [d \in Dispatches |-> Idle]
      /\ edit' = [c \in Editors |-> NoEdit] /\ steady' = [d \in Dispatches |-> {}]
      /\ UNCHANGED <<tables, rows, nextId>>
  BY DEF Crash
<1>2. Tables'
  BY <1>1 DEF Tables, tables
<1>3. RowsTyped'
  BY <1>1, RowsSame
<1>4. DispatchesTyped' /\ ReadStaysTrue'
  BY <1>1, IdleTyped DEF DispatchesTyped, ReadStaysTrue
<1>5. EditsTyped'
  BY <1>1 DEF EditsTyped, EditTyped, NoEdit
<1>6. QED
  BY <1>2, <1>3, <1>4, <1>5

LEMMA TickStep ==
  ASSUME IInv, Tick
  PROVE  IInv'
<1> USE DEF IInv
<1>1. /\ dedupe' = [k \in Keys |-> IF dedupe[k] > 0 THEN dedupe[k] - 1 ELSE 0]
      /\ UNCHANGED <<tables, rows, nextId, dispatch, edit, steady>>
  BY DEF Tick
<1>2. dedupe' \in [Keys -> 0 .. 6]
  BY <1>1 DEF Tables
<1>3. Tables' /\ settings' = settings
  BY <1>1, <1>2 DEF Tables, tables
<1>4. RowsTyped' /\ nextId' \in Nat /\ nextId <= nextId'
  BY <1>1, RowsSame DEF RowsTyped
<1>5. QED
  BY <1>1, <1>3, <1>4, DispatchesSame, ReadSame, EditsSame, NotificationsAssumption

\* A step that writes rows that exist, and nothing else.
LEMMA RowsMove ==
  ASSUME IInv, rows' = [i \in Ids |-> rows'[i]],
         \A i \in Ids : rows'[i] # rows[i] => i < nextId /\ rows'[i] \in Notification,
         UNCHANGED <<tables, nextId, dedupe, dispatch, edit, steady>>
  PROVE  IInv'
<1> USE DEF IInv
<1>1. RowsTyped' /\ nextId' \in Nat /\ nextId <= nextId'
  BY RowsKept DEF RowsTyped
<1>2. settings' = settings
  BY DEF tables
<1>3. QED
  BY <1>1, <1>2, TablesKept, DispatchesSame, ReadSame, EditsSame, NotificationsAssumption

LEMMA PresentIs ==
  ASSUME RowsTyped, NEW i \in Present
  PROVE  i \in Ids /\ i < nextId /\ rows[i] \in Notification /\ rows[i].state \in {"unread", "read"}
BY NotificationsAssumption DEF Present, RowsTyped, Ids

\* What users and the retention do to a row.
LEMMA RowChanges ==
  ASSUME NEW row \in Notification
  PROVE  /\ \A state \in {"unread", "read", "removed", "purged"} :
               [row EXCEPT !.state = state] \in Notification /\ [row EXCEPT !.state = state].state = state
         /\ \A age \in {"new", "month", "quarter"} :
               [row EXCEPT !.age = age] \in Notification /\ [row EXCEPT !.age = age].state = row.state
BY DEF Notification

LEMMA OwnStep ==
  ASSUME IInv, NEW i \in Ids, RemoveRow(i) \/ Grow(i)
  PROVE  IInv'
<1> USE DEF IInv
<1>1. i \in Present /\ UNCHANGED <<tables, nextId, dedupe, dispatch, edit, steady>>
  BY DEF RemoveRow, Grow
<1>2. i < nextId /\ rows[i] \in Notification
  BY <1>1, PresentIs
<1>3. \E row \in Notification : rows' = [rows EXCEPT ![i] = row]
  <2>1. CASE RemoveRow(i)
    BY <1>2, <2>1, RowChanges DEF RemoveRow
  <2>2. CASE Grow(i)
    BY <1>2, <2>2, RowChanges DEF Grow
  <2>3. QED
    BY <2>1, <2>2
<1>4. rows = [j \in Ids |-> rows[j]]
  BY DEF RowsTyped
<1>5. QED
  BY <1>1, <1>2, <1>3, <1>4, RowsMove

LEMMA MarkAllReadStep ==
  ASSUME IInv, NEW u \in Users, MarkAllRead(u)
  PROVE  IInv'
<1>1. /\ rows' = [i \in Ids |-> IF i \in FindAll(u, {"unread"}) THEN [rows[i] EXCEPT !.state = "read"]
                                 ELSE rows[i]]
      /\ UNCHANGED <<tables, nextId, dedupe, dispatch, edit, steady>>
  BY DEF MarkAllRead
<1>2. ASSUME NEW i \in FindAll(u, {"unread"})
      PROVE  i < nextId /\ [rows[i] EXCEPT !.state = "read"] \in Notification
  <2>1. i \in Present
    BY DEF FindAll
  <2>2. QED
    BY <2>1, PresentIs, RowChanges DEF IInv
<1>3. QED
  BY <1>1, <1>2, RowsMove

LEMMA PurgeStep ==
  ASSUME IInv, Purge
  PROVE  IInv'
<1>1. /\ rows' = [i \in Ids |-> IF i \in Present /\ Expired(i) THEN [rows[i] EXCEPT !.state = "purged"]
                                 ELSE rows[i]]
      /\ UNCHANGED <<tables, nextId, dedupe, dispatch, edit, steady>>
  BY DEF Purge
<1>2. ASSUME NEW i \in Present
      PROVE  i < nextId /\ [rows[i] EXCEPT !.state = "purged"] \in Notification
  BY PresentIs, RowChanges DEF IInv
<1>3. QED
  BY <1>1, <1>2, RowsMove

\* A request reads; whether it keeps something or saves at once, the rest stays.
LEMMA EditMoves ==
  ASSUME IInv, NEW c \in Editors, NEW r, EditTyped(r), edit' = [edit EXCEPT ![c] = r],
         UNCHANGED <<tables, rows, nextId, dedupe, dispatch, steady>>
  PROVE  IInv'
<1>1. settings' = settings
  BY DEF tables
<1>2. QED
  BY <1>1, TablesKept, RowsSame, DispatchesSame, EditSet, ReadSame DEF IInv

LEMMA MarkReadSteps ==
  ASSUME IInv, NEW c \in Editors, MarkReadLoad(c) \/ MarkReadSave(c)
  PROVE  IInv'
<1>1. CASE MarkReadLoad(c)
  <2>1. PICK u \in users : \E i \in FindAll(u, {"unread"}) :
          edit' = [edit EXCEPT ![c] = [NoEdit EXCEPT !.op = "read", !.owner = u, !.entity = i,
                                       !.known = rows[i].event.cameraId \in cameras]]
    BY <1>1 DEF MarkReadLoad
  <2>2. PICK i \in FindAll(u, {"unread"}) :
          edit' = [edit EXCEPT ![c] = [NoEdit EXCEPT !.op = "read", !.owner = u, !.entity = i,
                                       !.known = rows[i].event.cameraId \in cameras]]
    BY <2>1
  <2> DEFINE r == [NoEdit EXCEPT !.op = "read", !.owner = u, !.entity = i,
                                 !.known = rows[i].event.cameraId \in cameras]
  <2>3. r.op = "read" /\ r.entity = i
    BY DEF NoEdit
  <2>4. i \in Ids /\ i < nextId
    BY PresentIs DEF FindAll, IInv
  <2> HIDE DEF r
  <2>5. EditTyped(r)
    BY <2>3, <2>4 DEF EditTyped
  <2>6. edit' = [edit EXCEPT ![c] = r]
    BY <2>2 DEF r
  <2>7. UNCHANGED <<tables, rows, nextId, dedupe, dispatch, steady>>
    BY <1>1 DEF MarkReadLoad
  <2>8. QED
    BY <2>5, <2>6, <2>7, EditMoves
<1>2. CASE MarkReadSave(c)
  <2> DEFINE i == edit[c].entity
  <2>1. /\ \/ rows' = [rows EXCEPT ![i].state = "read"]
           \/ rows' = rows
        /\ edit' = [edit EXCEPT ![c] = NoEdit]
        /\ UNCHANGED <<tables, nextId, dedupe, dispatch, steady>>
    BY <1>2 DEF MarkReadSave
  <2>2. i \in Ids /\ i < nextId
    BY <1>2 DEF MarkReadSave, IInv, EditsTyped, EditTyped
  <2>3. rows[i] \in Notification /\ rows = [j \in Ids |-> rows[j]]
    BY <2>2 DEF IInv, RowsTyped
  <2>4. rows' = [rows EXCEPT ![i] = [rows[i] EXCEPT !.state = "read"]] \/ rows' = rows
    BY <2>1
  <2>5. RowsTyped'
    BY <2>1, <2>2, <2>3, <2>4, RowChanges, RowsKept DEF IInv
  <2>6. EditsTyped' /\ settings' = settings
    BY <2>1, NoEditTyped, EditSet DEF IInv, tables
  <2>7. QED
    BY <2>1, <2>5, <2>6, TablesKept, DispatchesSame, ReadSame DEF IInv
<1>3. QED
  BY <1>1, <1>2

LEMMA ItemsAreRows ==
  ASSUME IInv, NEW u \in Users, NEW type \in Types
  PROVE  /\ PreferenceItem(u, type) \subseteq Preference(type)
         /\ SettingItem(u, type) \subseteq Setting(type)
<1>1. None \in Filters(type) /\ Definition(type).defaultFilters \in Filters(type)
  BY DEF Filters
<1>2. OwnPreference(u, type) \in Preference(type)
  BY <1>1 DEF OwnPreference, Preference, IInv, Tables
<1>3. CompanySetting(type) \in Setting(type)
  <2>1. Definition(type).defaultEnabled \in BOOLEAN
    <3>1. type \in EventType
      BY NotificationsAssumption DEF Types
    <3>2. QED
      BY <3>1, Definitions
  <2>2. QED
    BY <1>1, <2>1 DEF CompanySetting, Setting, IInv, Tables
<1>4. ASSUME NEW row \in Preference(type)
      PROVE  /\ \A b \in BOOLEAN \cup {None} : [row EXCEPT !.enabled = b] \in Preference(type)
             /\ \A f \in Filters(type) : [row EXCEPT !.filters = f] \in Preference(type)
  BY <1>4 DEF Preference
<1>5. ASSUME NEW row \in Setting(type)
      PROVE  /\ \A b \in BOOLEAN : [row EXCEPT !.enabled = b] \in Setting(type)
             /\ \A b \in BOOLEAN : [row EXCEPT !.allowUserOverride = b] \in Setting(type)
             /\ \A f \in Filters(type) : [row EXCEPT !.filters = f] \in Setting(type)
  BY <1>5 DEF Setting
<1>6. {g \in FilterChoices[type] : ValidFilters(type, g)} \subseteq Filters(type)
  BY DEF Filters
<1>7. PreferenceItem(u, type) \subseteq Preference(type)
  BY <1>1, <1>2, <1>4, <1>6 DEF PreferenceItem
<1>8. SettingItem(u, type) \subseteq Setting(type)
  BY <1>1, <1>3, <1>5, <1>6 DEF SettingItem
<1>9. QED
  BY <1>7, <1>8

LEMMA LoadSteps ==
  ASSUME IInv, NEW c \in Editors, NEW u \in Users, NEW type \in Types,
         PreferenceLoad(c, u, type) \/ SettingLoad(c, u, type)
  PROVE  IInv'
<1>1. UNCHANGED <<tables, rows, nextId, dedupe, dispatch, steady>>
  BY DEF PreferenceLoad, SettingLoad
<1>2. \E r : EditTyped(r) /\ edit' = [edit EXCEPT ![c] = r]
  <2>1. CASE PreferenceLoad(c, u, type)
    <3>1. PICK item \in PreferenceItem(u, type) :
            edit' = [edit EXCEPT ![c] = [op |-> "preference", owner |-> u, type |-> type, entity |-> item,
                                         known |-> preferences[u][type] # None]]
      BY <2>1 DEF PreferenceLoad
    <3>2. item \in Preference(type)
      BY ItemsAreRows
    <3>3. EditTyped([op |-> "preference", owner |-> u, type |-> type, entity |-> item,
                     known |-> preferences[u][type] # None])
      BY <3>2 DEF EditTyped
    <3>4. QED
      BY <3>1, <3>3
  <2>2. CASE SettingLoad(c, u, type)
    <3>1. PICK item \in SettingItem(u, type) :
            edit' = [edit EXCEPT ![c] = [op |-> "setting", owner |-> None, type |-> type, entity |-> item,
                                         known |-> settings[type] # None]]
      BY <2>2 DEF SettingLoad
    <3>2. item \in Setting(type)
      BY ItemsAreRows
    <3>3. EditTyped([op |-> "setting", owner |-> None, type |-> type, entity |-> item,
                     known |-> settings[type] # None])
      BY <3>2 DEF EditTyped
    <3>4. QED
      BY <3>1, <3>3
  <2>3. QED
    BY <2>1, <2>2
<1>3. QED
  BY <1>1, <1>2, EditMoves

\* A change of settings makes users unsteady, and nobody steady.
LEMMA Unsettling ==
  ASSUME IInv, NEW us, NEW type, steady' = [d \in Dispatches |-> Unsettled(d, us, type)]
  PROVE  /\ steady' \in [Dispatches -> SUBSET Users]
         /\ \A d \in Dispatches : steady'[d] \subseteq steady[d]
         /\ \A d \in Dispatches : dispatch[d].event # None /\ dispatch[d].event.type = type =>
                                    steady'[d] = steady[d] \ us
BY DEF Unsettled, IInv, DispatchesTyped

LEMMA PreferenceSaveStep ==
  ASSUME IInv, NEW c \in Editors, PreferenceSave(c)
  PROVE  IInv'
<1> USE DEF IInv
<1> DEFINE u == edit[c].owner
           type == edit[c].type
           row == edit[c].entity
<1>1. u \in Users /\ type \in Types /\ row \in Preference(type)
  BY DEF PreferenceSave, EditsTyped, EditTyped
<1>2. /\ \/ UNCHANGED <<preferences, steady>>
         \/ /\ preferences' = [preferences EXCEPT ![u][type] = row]
            /\ steady' = [d \in Dispatches |-> Unsettled(d, {u}, type)]
      /\ edit' = [edit EXCEPT ![c] = NoEdit]
      /\ UNCHANGED <<users, cameras, settings, rows, nextId, dedupe, dispatch>>
  BY DEF PreferenceSave
<1>3. steady' \in [Dispatches -> SUBSET Users] /\ \A d \in Dispatches : steady'[d] \subseteq steady[d]
  BY <1>2, Unsettling DEF DispatchesTyped
<1> HIDE DEF u, type, row
<1>4. Tables'
  <2>1. /\ preferences' = [x \in Users |-> preferences'[x]]
        /\ \A x \in Users : preferences'[x] = [t \in Types |-> preferences'[x][t]]
        /\ \A x \in Users : \A t \in Types : preferences'[x][t] \in Preference(t) \cup {None}
    <3>1. CASE UNCHANGED preferences
      BY <3>1 DEF Tables
    <3>2. CASE preferences' = [preferences EXCEPT ![u][type] = row]
      <4>1. preferences' = [preferences EXCEPT ![u] = [preferences[u] EXCEPT ![type] = row]]
        BY <3>2
      <4>2. /\ preferences[u] = [t \in Types |-> preferences[u][t]]
            /\ \A t \in Types : preferences[u][t] \in Preference(t) \cup {None}
        BY <1>1 DEF Tables
      <4>3. PICK own : own = [preferences[u] EXCEPT ![type] = row]
        OBVIOUS
      <4>4. own = [t \in Types |-> own[t]] /\ \A t \in Types : own[t] \in Preference(t) \cup {None}
        BY <1>1, <4>2, <4>3
      <4>5. preferences' = [x \in Users |-> IF x = u THEN own ELSE preferences[x]]
        BY <1>1, <4>1, <4>3 DEF Tables
      <4>6. QED
        BY <4>4, <4>5 DEF Tables
    <3>3. QED
      BY <1>2, <3>1, <3>2
  <2>2. QED
    BY <1>2, <2>1 DEF Tables
<1>5. RowsTyped' /\ EditsTyped'
  BY <1>2, RowsSame, NoEditTyped, EditSet
<1>6. DispatchesTyped' /\ ReadStaysTrue'
  BY <1>2, <1>3 DEF DispatchesTyped, ReadStaysTrue
<1>7. QED
  BY <1>4, <1>5, <1>6

LEMMA SettingSaveStep ==
  ASSUME IInv, NEW c \in Editors, SettingSave(c)
  PROVE  IInv'
<1> USE DEF IInv
<1> DEFINE type == edit[c].type
           row == edit[c].entity
           theirs == {u \in Users : CompanyOf[u] # None}
<1>1. type \in Types /\ row \in Setting(type)
  BY DEF SettingSave, EditsTyped, EditTyped
<1>2. /\ \/ UNCHANGED <<settings, steady>>
         \/ /\ settings' = [settings EXCEPT ![type] = row]
            /\ steady' = [d \in Dispatches |-> Unsettled(d, theirs, type)]
      /\ edit' = [edit EXCEPT ![c] = NoEdit]
      /\ UNCHANGED <<users, cameras, preferences, rows, nextId, dedupe, dispatch>>
  BY DEF SettingSave
<1>3. /\ steady' \in [Dispatches -> SUBSET Users]
      /\ \A d \in Dispatches : steady'[d] \subseteq steady[d]
      /\ settings' = settings \/ \A d \in Dispatches :
            dispatch[d].event # None /\ dispatch[d].event.type = type => steady'[d] = steady[d] \ theirs
  <2>1. CASE UNCHANGED <<settings, steady>>
    BY <2>1 DEF DispatchesTyped
  <2>2. CASE steady' = [d \in Dispatches |-> Unsettled(d, theirs, type)]
    <3> HIDE DEF type, row, theirs
    <3>1. QED
      BY <2>2, Unsettling
  <2>3. QED
    BY <1>2, <2>1, <2>2
<1> HIDE DEF type, row
<1>4. /\ settings' = [t \in Types |-> settings'[t]]
      /\ \A t \in Types : settings'[t] \in Setting(t) \cup {None}
      /\ \A t \in Types : t # type => settings'[t] = settings[t]
  BY <1>1, <1>2 DEF Tables
<1>5. Tables'
  BY <1>2, <1>4 DEF Tables
<1>6. RowsTyped' /\ EditsTyped'
  BY <1>2, RowsSame, NoEditTyped, EditSet
<1>7. DispatchesTyped'
  BY <1>2, <1>3 DEF DispatchesTyped
<1>8. ReadStaysTrue'
  <2>1. SUFFICES ASSUME NEW d \in Dispatches, dispatch[d].phase = "preferences",
                        NEW u \in steady'[d] \cap dispatch[d].recipients, CompanyOf[u] # None
                 PROVE  dispatch[d].setting = settings'[dispatch[d].event.type]
    BY <1>2 DEF ReadStaysTrue
  <2>2. u \in Users /\ u \in steady[d] /\ dispatch[d].event \in Events
    BY <1>3, <2>1 DEF DispatchesTyped, DispatchTyped
  <2>3. dispatch[d].setting = settings[dispatch[d].event.type]
    BY <2>1, <2>2 DEF ReadStaysTrue
  <2>4. dispatch[d].event # None /\ dispatch[d].event.type \in Types
    BY <2>2, RowsAssumption DEF Types
  <2>5. CASE settings' = settings
    BY <2>3, <2>5
  <2>6. CASE settings' # settings
    <3>1. dispatch[d].event.type # type
      BY <1>3, <2>1, <2>2, <2>4, <2>6
    <3>2. QED
      BY <1>4, <2>3, <2>4, <3>1
  <2>7. QED
    BY <2>5, <2>6
<1>9. QED
  BY <1>5, <1>6, <1>7, <1>8

LEMMA RemoveSteps ==
  ASSUME IInv, (\E u \in Users : RemoveUser(u)) \/ (\E x \in Cameras : RemoveCamera(x))
  PROVE  IInv'
<1> USE DEF IInv
<1>1. CASE \E u \in Users : RemoveUser(u)
  <2>1. PICK u \in Users : RemoveUser(u)
    BY <1>1
  <2>2. /\ users' = users \ {u}
        /\ preferences' = [preferences EXCEPT ![u] = [t \in Types |-> None]]
        /\ rows' = [i \in Ids |-> IF i \in Present /\ rows[i].user = u THEN [rows[i] EXCEPT !.state = "removed"]
                                  ELSE rows[i]]
        /\ UNCHANGED <<cameras, settings, nextId, dedupe, dispatch, edit, steady>>
    BY <2>1 DEF RemoveUser
  <2>3. Tables'
    BY <2>2 DEF Tables
  <2>4. ASSUME NEW i \in Present
        PROVE  i < nextId /\ [rows[i] EXCEPT !.state = "removed"] \in Notification
    BY PresentIs, RowChanges
  <2>5. RowsTyped' /\ nextId' \in Nat /\ nextId <= nextId'
    BY <2>2, <2>4, RowsKept DEF RowsTyped
  <2>6. QED
    BY <2>2, <2>3, <2>5, DispatchesSame, ReadSame, EditsSame, NotificationsAssumption
<1>2. CASE \E x \in Cameras : RemoveCamera(x)
  <2>1. /\ cameras' \subseteq cameras
        /\ UNCHANGED <<users, settings, preferences, rows, nextId, dedupe, dispatch, edit, steady>>
    BY <1>2 DEF RemoveCamera
  <2>2. Tables'
    BY <2>1 DEF Tables
  <2>3. RowsTyped' /\ nextId' \in Nat /\ nextId <= nextId'
    BY <2>1, RowsSame DEF RowsTyped
  <2>4. QED
    BY <2>1, <2>2, <2>3, DispatchesSame, ReadSame, EditsSame, NotificationsAssumption
<1>3. QED
  BY <1>1, <1>2

LEMMA InitIsTyped == Init => IInv
<1>1. SUFFICES ASSUME Init PROVE IInv
  OBVIOUS
<1>2. Tables
  <2>1. settings = [t \in Types |-> settings[t]] /\ \A t \in Types : settings[t] \in Setting(t) \cup {None}
    BY <1>1, RowsAssumption DEF Init
  <2>2. preferences = [u \in Users |-> [t \in Types |-> None]] /\ dedupe = [k \in Keys |-> 0]
    BY <1>1 DEF Init
  <2>3. dedupe \in [Keys -> 0 .. 6]
    BY <2>2
  <2>4. users \subseteq Users /\ cameras \subseteq Cameras
    BY <1>1 DEF Init
  <2>5. QED
    BY <2>1, <2>2, <2>3, <2>4 DEF Tables
<1>3. RowsTyped
  BY <1>1, NotificationsAssumption DEF Init, RowsTyped, Ids
<1>4. DispatchesTyped /\ ReadStaysTrue
  BY <1>1, IdleTyped DEF Init, DispatchesTyped, ReadStaysTrue
<1>5. EditsTyped
  BY <1>1 DEF Init, EditsTyped, EditTyped, NoEdit
<1>6. QED
  BY <1>2, <1>3, <1>4, <1>5 DEF IInv

LEMMA StepKeepsInvariant == IInv /\ [Next]_vars => IInv'
<1>1. SUFFICES ASSUME IInv, [Next]_vars PROVE IInv'
  OBVIOUS
<1>2. CASE UNCHANGED vars
  <2>1. UNCHANGED <<tables, rows, nextId, dedupe, dispatch, edit, steady>>
    BY <1>2 DEF vars
  <2>2. settings' = settings /\ nextId' \in Nat /\ nextId <= nextId'
    BY <1>1, <2>1 DEF tables, IInv, RowsTyped
  <2>3. QED
    BY <1>1, <2>1, <2>2, TablesKept, RowsSame, DispatchesSame, ReadSame, EditsSame, NotificationsAssumption DEF IInv
<1>3. CASE Tick \/ Crash \/ Purge \/ Own
  BY <1>1, <1>3, TickStep, CrashStep, PurgeStep, OwnStep DEF Own
<1>4. CASE \E e \in Events : Publish(e)
  BY <1>1, <1>4, PublishStep
<1>5. CASE \E d \in Dispatches : Dispatch(d) \/ Fail(d)
  BY <1>1, <1>5, ReadRecipientsStep, ReadOperatorsStep, ReadSettingStep, ReadPreferencesStep, SaveStep, FailStep DEF Dispatch
<1>6. CASE \E c \in Editors : Edit(c)
  BY <1>1, <1>6, MarkReadSteps, PreferenceSaveStep, SettingSaveStep, LoadSteps DEF Edit
<1>7. CASE (\E u \in Users : MarkAllRead(u) \/ RemoveUser(u)) \/ \E x \in Cameras : RemoveCamera(x)
  BY <1>1, <1>7, MarkAllReadStep, RemoveSteps
<1>8. QED
  BY <1>1, <1>2, <1>3, <1>4, <1>5, <1>6, <1>7 DEF Next

LEMMA Invariant == Spec => []IInv
BY InitIsTyped, StepKeepsInvariant, PTL DEF Spec

LEMMA FaultsCounted == Spec => [](faults \in Nat)
<1>1. Init => faults \in Nat
  BY DEF Init
<1>2. faults \in Nat /\ [Next]_vars => (faults \in Nat)'
  <2>1. SUFFICES ASSUME faults \in Nat, [Next]_vars PROVE faults' \in Nat
    OBVIOUS
  <2>2. Fault => faults' \in Nat
    BY <2>1 DEF Fault
  <2>3. ASSUME Next PROVE faults' = faults \/ Fault
    <3>1. CASE Tick \/ Crash \/ Purge \/ Own
      BY <3>1 DEF Tick, Crash, Purge, Own, RemoveRow, Grow, counters
    <3>2. CASE \E e \in Events : Publish(e)
      BY <3>2 DEF Publish
    <3>3. CASE \E d \in Dispatches : Dispatch(d) \/ Fail(d)
      BY <3>3 DEF Dispatch, ReadRecipients, ReadOperators, ReadSetting, ReadPreferences, Save, Fail, counters
    <3>4. CASE \E c \in Editors : Edit(c)
      BY <3>4 DEF Edit, MarkReadLoad, MarkReadSave, PreferenceSave, SettingSave, PreferenceLoad, SettingLoad, counters
    <3>5. CASE (\E u \in Users : MarkAllRead(u) \/ RemoveUser(u)) \/ \E x \in Cameras : RemoveCamera(x)
      BY <3>5 DEF MarkAllRead, RemoveUser, RemoveCamera, counters
    <3>6. QED
      BY <2>3, <3>1, <3>2, <3>3, <3>4, <3>5 DEF Next
  <2>4. QED
    BY <2>1, <2>2, <2>3 DEF vars, counters
<1>3. QED
  BY <1>1, <1>2, PTL DEF Spec

-----------------------------------------------------------------------------
(* The theorems.                                                           *)

\* Stored settings and preferences keep to the filters of their type, whatever
\* requests send, and identifiers are given out in order, for any number of
\* users, dispatches and requests.
THEOREM NotificationsTypeCorrect == Spec => []TypeOK
<1>1. IInv => TypeOK
  <2>1. SUFFICES ASSUME IInv PROVE TypeOK
    OBVIOUS
  <2>2. \A t \in Types : /\ settings[t] \in Setting(t) \cup {None}
                         /\ \A u \in Users : preferences[u][t] \in Preference(t) \cup {None}
    BY <2>1 DEF IInv, Tables
  <2>3. \A i \in Ids : IF i < nextId THEN rows[i] \in Notification ELSE rows[i] = None
    BY <2>1 DEF IInv, RowsTyped
  <2>4. \A d \in Dispatches :
          /\ dispatch[d].phase \in {"idle", "recipients", "operators", "setting", "preferences", "save"}
          /\ dispatch[d].to \subseteq Users /\ dispatch[d].recipients \subseteq Users
    BY <2>1 DEF IInv, DispatchesTyped, DispatchTyped, Phases
  <2>5. \A c \in Editors : edit[c].op \in {"idle", "read", "preference", "setting"}
    BY <2>1 DEF IInv, EditsTyped, EditTyped
  <2>6. users \subseteq Users /\ cameras \subseteq Cameras /\ dedupe \in [Keys -> 0 .. 6] /\ nextId \in 1 .. MaxRows + 1
    BY <2>1 DEF IInv, Tables, RowsTyped
  <2>7. QED
    BY <2>2, <2>3, <2>4, <2>5, <2>6 DEF TypeOK
<1>2. QED
  BY <1>1, Invariant, PTL

\* A dispatch obeys every user whose settings do not change while it runs,
\* although it reads settings and preferences at different moments: it picks
\* who wants the event by the precedence of the levels, and as they are shown.
THEOREM DispatchObeysSettings == Spec => SettingsObeyed
<1> DEFINE Obeyed ==
       \A d \in Dispatches :
          dispatch[d].phase = "preferences" /\ dispatch'[d].phase # "preferences" /\ faults' = faults =>
             \A u \in steady[d] \cap dispatch[d].recipients :
                LET e == dispatch[d].event
                    shown == GetPreference(u, e.type)
                IN /\ u \in dispatch'[d].to <=> Wants(u, e)
                   /\ Wants(u, e) <=> shown.enabled /\ MatchesFilters(e, shown.filters)
<1>1. SettingsObeyed <=> [][Obeyed]_vars
  BY DEF SettingsObeyed
<1>2. IInv /\ faults \in Nat /\ [Next]_vars => [Obeyed]_vars
  <2>1. SUFFICES ASSUME IInv, faults \in Nat, Next,
                        NEW d \in Dispatches,
                        dispatch[d].phase = "preferences", dispatch'[d].phase # "preferences", faults' = faults,
                        NEW u \in steady[d] \cap dispatch[d].recipients
                 PROVE  LET e == dispatch[d].event
                            shown == GetPreference(u, e.type)
                        IN /\ u \in dispatch'[d].to <=> Wants(u, e)
                           /\ Wants(u, e) <=> shown.enabled /\ MatchesFilters(e, shown.filters)
    OBVIOUS
  <2> DEFINE e == dispatch[d].event
             shown == GetPreference(u, e.type)
  <2>2. ReadPreferences(d)
    <3>1. dispatch = [x \in Dispatches |-> dispatch[x]] /\ faults \in Nat
      BY <2>1 DEF IInv, DispatchesTyped
    <3>2. ~UNCHANGED dispatch /\ ~Fault
      BY <2>1, <3>1 DEF Fault
    <3>3. \A x \in Dispatches : \A r : dispatch' = [dispatch EXCEPT ![x] = r] => x = d
      BY <2>1, <3>1
    <3>4. ASSUME NEW x \in Events, Publish(x) PROVE FALSE
      <4>1. PICK y \in Dispatches : dispatch[y].phase = "idle" /\ \E r : dispatch' = [dispatch EXCEPT ![y] = r]
        BY <3>2, <3>4 DEF Publish
      <4>2. QED
        BY <2>1, <3>3, <4>1
    <3>5. ~(Tick \/ Crash \/ Purge \/ Own)
      BY <3>2 DEF Tick, Crash, Purge, Own, RemoveRow, Grow
    <3>6. \A c \in Editors : ~Edit(c)
      BY <3>2 DEF Edit, MarkReadLoad, MarkReadSave, PreferenceSave, SettingSave, PreferenceLoad, SettingLoad
    <3>7. /\ \A x \in Users : ~MarkAllRead(x) /\ ~RemoveUser(x)
          /\ \A x \in Cameras : ~RemoveCamera(x)
          /\ \A x \in Dispatches : ~Fail(x)
      BY <3>2 DEF MarkAllRead, RemoveUser, RemoveCamera, Fail
    <3>8. PICK x \in Dispatches : Dispatch(x)
      BY <2>1, <3>4, <3>5, <3>6, <3>7 DEF Next
    <3>9. \E r : dispatch' = [dispatch EXCEPT ![x] = r]
      <4>1. CASE ReadRecipients(x)
        BY <4>1 DEF ReadRecipients
      <4>2. CASE ReadSetting(x)
        BY <4>2 DEF ReadSetting
      <4>3. CASE ReadPreferences(x)
        BY <4>3 DEF ReadPreferences
      <4>4. CASE Save(x)
        BY <4>4 DEF Save
      <4>5. CASE ReadOperators(x)
        BY <4>5 DEF ReadOperators
      <4>6. QED
        BY <3>8, <4>1, <4>2, <4>3, <4>4, <4>5 DEF Dispatch
    <3>10. x = d
      BY <3>3, <3>9
    <3>11. QED
      BY <2>1, <3>8, <3>10 DEF Dispatch, ReadRecipients, ReadOperators, ReadSetting, Save
  <2>3. e \in Events /\ e.type \in Types /\ e.type \in EventType /\ u \in Users /\ u \in Addressed(e)
    BY <2>1, NotificationsAssumption DEF IInv, DispatchesTyped, DispatchTyped, Types
  <2>4. Wants(u, e) <=> shown.enabled /\ MatchesFilters(e, shown.filters)
    <3>1. /\ settings[e.type] \in Setting(e.type) \cup {None}
          /\ preferences[u][e.type] \in Preference(e.type) \cup {None}
      BY <2>1, <2>3 DEF IInv, Tables
    <3> HIDE DEF e
    <3>2. QED
      BY <2>3, <3>1, ResolutionObeysLevels
  <2>5. u \in dispatch'[d].to <=> Tells(e, u, dispatch[d].setting)
    <3> DEFINE told == {x \in dispatch[d].recipients : Tells(e, x, dispatch[d].setting)}
    <3>1. dispatch' = [dispatch EXCEPT ![d] =
              IF told = {} THEN Idle ELSE [Idle EXCEPT !.phase = "save", !.event = e, !.to = told]]
      BY <2>2 DEF ReadPreferences
    <3>2. dispatch'[d] = IF told = {} THEN Idle ELSE [Idle EXCEPT !.phase = "save", !.event = e, !.to = told]
      BY <2>1, <3>1 DEF IInv, DispatchesTyped
    <3> HIDE DEF told, e
    <3>3. dispatch'[d].to = told
      BY <3>2 DEF Idle
    <3>4. QED
      BY <2>1, <3>3 DEF told
  <2>6. Tells(e, u, dispatch[d].setting) <=> shown.enabled /\ MatchesFilters(e, shown.filters)
    <3>1. CompanyOf[u] # None => dispatch[d].setting = settings[e.type]
      BY <2>1 DEF IInv, ReadStaysTrue
    <3>2. QED
      BY <3>1 DEF Tells, GetPreference
  <2>7. QED
    BY <2>4, <2>5, <2>6
<1> HIDE DEF Obeyed
<1>3. QED
  BY <1>1, <1>2, Invariant, FaultsCounted, PTL DEF Spec

\* What was read is never unread again, and retention takes what its user has
\* not seen only after ninety days, whatever readings, removals, cascades and
\* failures overlap with it.
THEOREM UnseenStays == Spec => UnseenKept
<1> DEFINE Kept(i) ==
       rows[i] # None =>
          /\ rows[i].state # "unread" => rows'[i].state # "unread"
          /\ rows[i].state = "unread" /\ rows'[i].state = "purged" => rows[i].age = "quarter"
<1>1. UnseenKept <=> [][\A i \in Ids : Kept(i)]_vars
  BY DEF UnseenKept
<1>2. IInv /\ [Next]_vars => [\A i \in Ids : Kept(i)]_vars
  <2>1. SUFFICES ASSUME IInv, Next, NEW i \in Ids, rows[i] # None PROVE Kept(i)
    OBVIOUS
  <2>2. i < nextId /\ rows[i] \in Notification /\ nextId \in Nat
    BY <2>1 DEF IInv, RowsTyped
  <2>3. ASSUME rows'[i] = rows[i] PROVE Kept(i)
    BY <2>2, <2>3 DEF Notification
  <2>4. ASSUME rows'[i] \in {[rows[i] EXCEPT !.state = "read"], [rows[i] EXCEPT !.state = "removed"]} PROVE Kept(i)
    BY <2>2, <2>4, RowChanges
  <2>5. ASSUME NEW age \in {"new", "month", "quarter"}, rows'[i] = [rows[i] EXCEPT !.age = age] PROVE Kept(i)
    BY <2>2, <2>5, RowChanges DEF Notification
  <2> HIDE DEF Kept
  <2>6. rows = [j \in Ids |-> rows[j]]
    BY <2>1 DEF IInv, RowsTyped
  <2>7. ASSUME Purge PROVE Kept(i)
    <3>1. rows'[i] = IF i \in Present /\ Expired(i) THEN [rows[i] EXCEPT !.state = "purged"] ELSE rows[i]
      BY <2>7 DEF Purge
    <3>2. Expired(i) /\ rows[i].state = "unread" => rows[i].age = "quarter"
      BY DEF Expired
    <3>3. QED
      BY <2>2, <2>3, <3>1, <3>2, RowChanges DEF Kept
  <2>8. ASSUME Own PROVE Kept(i)
    <3>1. PICK j \in Ids : RemoveRow(j) \/ Grow(j)
      BY <2>8 DEF Own
    <3>2. CASE RemoveRow(j)
      BY <2>3, <2>4, <2>6, <3>2 DEF RemoveRow
    <3>3. CASE Grow(j)
      BY <2>3, <2>5, <2>6, <3>3 DEF Grow
    <3>4. QED
      BY <3>1, <3>2, <3>3
  <2>9. ASSUME NEW d \in Dispatches, Save(d) PROVE Kept(i)
    <3>1. rows'[i] = rows[i]
      BY <2>2, <2>9 DEF Save
    <3>2. QED
      BY <2>3, <3>1
  <2>10. ASSUME NEW c \in Editors, Edit(c) PROVE Kept(i)
    <3>1. CASE MarkReadSave(c)
      BY <2>3, <2>4, <2>6, <3>1 DEF MarkReadSave
    <3>2. CASE ~MarkReadSave(c)
      <4>1. rows' = rows
        BY <2>10, <3>2 DEF Edit, MarkReadLoad, PreferenceSave, SettingSave, PreferenceLoad, SettingLoad
      <4>2. QED
        BY <2>3, <4>1
    <3>3. QED
      BY <3>1, <3>2
  <2>11. ASSUME NEW u \in Users, MarkAllRead(u) \/ RemoveUser(u) PROVE Kept(i)
    BY <2>3, <2>4, <2>11 DEF MarkAllRead, RemoveUser
  <2>12. ASSUME rows' = rows PROVE Kept(i)
    BY <2>3, <2>12
  <2>13. QED
    <3>1. CASE Tick \/ Crash \/ Purge \/ Own
      BY <2>7, <2>8, <2>12, <3>1 DEF Tick, Crash
    <3>2. CASE (\E e \in Events : Publish(e)) \/ \E x \in Cameras : RemoveCamera(x)
      BY <2>12, <3>2 DEF Publish, RemoveCamera
    <3>3. CASE \E d \in Dispatches : Dispatch(d) \/ Fail(d)
      BY <2>9, <2>12, <3>3 DEF Dispatch, ReadRecipients, ReadOperators, ReadSetting, ReadPreferences, Fail
    <3>4. QED
      BY <2>1, <2>10, <2>11, <3>1, <3>2, <3>3 DEF Next
<1> HIDE DEF Kept
<1>3. QED
  BY <1>1, <1>2, Invariant, PTL DEF Spec
=============================================================================
