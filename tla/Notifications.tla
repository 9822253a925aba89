---------------------------- MODULE Notifications ----------------------------
(***************************************************************************)
(* From an event to the notifications of the users of a company            *)
(* (src/src/notification): the deduplication in memory, the reads of a     *)
(* dispatch, the rows it saves in one transaction, and what users and      *)
(* administrators do to their notifications and settings meanwhile.        *)
(*                                                                         *)
(* An action is what happens between two awaits.  Time is counted in units *)
(* of 150 seconds, half of the shortest window of the catalog.             *)
(***************************************************************************)
EXTENDS NotificationCatalog, SequencesExt

CONSTANTS
    Users,
    CompanyOf,     \* the company of each user, None for the operators of the platform
    RoleOf,        \* "admin" or "user"
    LinkedPoints,  \* user_points
    Cameras,
    PointOf,       \* the point of each camera
    ActivePoints,
    Company,       \* the company modelled
    Events,        \* what may be published
    Problems,      \* the events that are published as long as their cause lasts
    FilterChoices, \* the filters a request may send for each event type
    FormerSettings,  \* what may be in company_notification_settings at first
    Editors,       \* requests that edit preferences or settings
    Enabled,       \* the operations of this instance
    Dispatches,    \* dispatches in progress at the same time
    MaxRows, MaxDispatches, MaxFaults,   \* bounds
    MaxChanges     \* bound: edits, readings and ageings in all

ASSUME NotificationsAssumption ==
    /\ CompanyOf \in [Users -> {Company, None}]
    /\ RoleOf \in [Users -> {"admin", "user"}]
    /\ LinkedPoints \in [Users -> SUBSET ActivePoints]
    /\ \A e \in Events : /\ e.type \in EventType /\ e.companyId \in {Company, None}
                         /\ e.dedupeWindow \in {0, None}
    /\ Problems \subseteq Events
    /\ IsFiniteSet(Users) /\ MaxRows \in Nat

VARIABLES
    users, cameras,  \* the rows of users and cameras that exist
    settings,        \* company_notification_settings, one row for each event type at most
    preferences,     \* user_notification_preferences, likewise for each user
    rows,            \* notifications
    nextId,
    dedupe,          \* this.dedupe: what is left of the window of a key
    dispatch,        \* dispatches in progress
    edit,            \* requests in progress
    steady,          \* history: users whose settings did not change since a dispatch began
    started, changes, faults   \* counters for the bounds

tables == <<users, cameras, settings, preferences>>
counters == <<started, changes, faults>>
vars == <<tables, rows, nextId, dedupe, dispatch, edit, steady, counters>>

Types == {e.type : e \in Events}
Keys == {DedupeKey(e) : e \in Events}
Ids == 1 .. MaxRows

Filters(t) == {f \in FilterChoices[t] : ValidFilters(t, f)} \cup {None, Definition(t).defaultFilters}
Setting(t) == [enabled: BOOLEAN, filters: Filters(t), allowUserOverride: BOOLEAN]
Preference(t) == [enabled: BOOLEAN \cup {None}, filters: Filters(t)]

\* A notification; wording and the copies of the event's fields are its event.
Notification == [user: Users, event: Events, state: {"unread", "read", "removed", "purged"},
                 age: {"new", "month", "quarter"}]

\* None is no row, event or value; the rows that exist at first were written
\* by the same requests, which refuse the filters that a type does not know.
ASSUME RowsAssumption ==
    /\ None \notin BOOLEAN /\ None \notin Events
    /\ \A t \in Types :
          /\ None \notin Setting(t) /\ None \notin Preference(t)
          /\ None \notin FilterChoices[t] /\ None # Definition(t).defaultFilters
    /\ \A s \in FormerSettings : /\ s = [t \in Types |-> s[t]]
                                 /\ \A t \in Types : s[t] \in Setting(t) \cup {None}

Idle == [phase |-> "idle", event |-> None, recipients |-> {}, setting |-> None, to |-> {}]
NoEdit == [op |-> "idle", owner |-> None, type |-> None, entity |-> None, known |-> FALSE]

Fault == faults < MaxFaults /\ faults' = faults + 1

Change == changes < MaxChanges /\ changes' = changes + 1

Present == {i \in Ids : rows[i] # None /\ rows[i].state \in {"unread", "read"}}

-----------------------------------------------------------------------------
(* Publication and dispatch.                                               *)

Window(e) == IF e.dedupeWindow # None THEN e.dedupeWindow ELSE Definition(e.type).dedupeWindow

IsDuplicate(e) == Window(e) > 0 /\ dedupe[DedupeKey(e)] > 0

\* Mutant: a repetition renews the window.
PublishRenewing(e) ==
    /\ \/ e \in Problems
       \/ "once" \in Enabled
    /\ IF IsDuplicate(e)
       THEN /\ dedupe' = [dedupe EXCEPT ![DedupeKey(e)] = Window(e)]
            /\ UNCHANGED <<dispatch, steady, started>>
       ELSE /\ started < MaxDispatches
            /\ started' = started + 1
            /\ dedupe' = IF Window(e) = 0 THEN dedupe ELSE [dedupe EXCEPT ![DedupeKey(e)] = Window(e)]
            /\ \E d \in Dispatches :
                  /\ dispatch[d].phase = "idle"
                  /\ dispatch' = [dispatch EXCEPT ![d] = [Idle EXCEPT !.phase = "recipients", !.event = e]]
                  /\ steady' = [steady EXCEPT ![d] = users]
    /\ UNCHANGED <<tables, rows, nextId, edit, changes, faults>>

\* publish is synchronous: the window is taken before anything is read.
Publish(e) ==
    /\ \/ e \in Problems
       \/ "once" \in Enabled
    /\ IF IsDuplicate(e)
       THEN UNCHANGED <<dedupe, dispatch, steady, started>>
       ELSE /\ started < MaxDispatches
            /\ started' = started + 1
            /\ dedupe' = IF Window(e) = 0 THEN dedupe ELSE [dedupe EXCEPT ![DedupeKey(e)] = Window(e)]
            /\ \E d \in Dispatches :
                  /\ dispatch[d].phase = "idle"
                  /\ dispatch' = [dispatch EXCEPT ![d] = [Idle EXCEPT !.phase = "recipients", !.event = e]]
                  /\ steady' = [steady EXCEPT ![d] = users]
    /\ UNCHANGED <<tables, rows, nextId, edit, changes, faults>>

\* A dispatch that addresses nobody ends.
Address(d, found) ==
    IF found = {} THEN Idle ELSE [dispatch[d] EXCEPT !.phase = "setting", !.recipients = found]

\* resolveRecipients reads the users of the company ...
ReadRecipients(d) ==
    /\ dispatch[d].phase = "recipients"
    /\ LET e == dispatch[d].event
           found == {u \in users : CompanyOf[u] = e.companyId}
       IN dispatch' = [dispatch EXCEPT ![d] =
              IF e.type = "system.error" /\ e.companyId # None
              THEN [@ EXCEPT !.phase = "operators", !.recipients = found]
              ELSE Address(d, found)]
    /\ UNCHANGED <<tables, rows, nextId, dedupe, edit, steady, counters>>

\* ... and, for an error of the company, the operators as well.
ReadOperators(d) ==
    /\ dispatch[d].phase = "operators"
    /\ dispatch' = [dispatch EXCEPT ![d] =
           Address(d, dispatch[d].recipients \cup {u \in users : CompanyOf[u] = None})]
    /\ UNCHANGED <<tables, rows, nextId, dedupe, edit, steady, counters>>

ReadSetting(d) ==
    /\ dispatch[d].phase = "setting"
    /\ dispatch' = [dispatch EXCEPT ![d].phase = "preferences",
           ![d].setting = IF dispatch[d].event.companyId = None THEN None ELSE settings[dispatch[d].event.type]]
    /\ UNCHANGED <<tables, rows, nextId, dedupe, edit, steady, counters>>

\* getPreferences: what the user is shown for an event type.
GetPreference(u, type) ==
    ResolvePreference(type, IF CompanyOf[u] = None THEN None ELSE settings[type], preferences[u][type])

\* What u is told according to a setting of the company and the preference of u.
Tells(e, u, setting) ==
    LET resolved == ResolvePreference(e.type, IF CompanyOf[u] = None THEN None ELSE setting,
                                      preferences[u][e.type])
    IN resolved.enabled /\ MatchesFilters(e, resolved.filters)

ReadPreferences(d) ==
    /\ dispatch[d].phase = "preferences"
    /\ LET told == {u \in dispatch[d].recipients : Tells(dispatch[d].event, u, dispatch[d].setting)}
       IN dispatch' = [dispatch EXCEPT ![d] =
              IF told = {} THEN Idle
              ELSE [Idle EXCEPT !.phase = "save", !.event = dispatch[d].event, !.to = told]]
    /\ steady' = [steady EXCEPT ![d] = {}]
    /\ UNCHANGED <<tables, rows, nextId, dedupe, edit, counters>>

\* The foreign keys of a notification.
Referenced(d) ==
    /\ dispatch[d].to \subseteq users
    /\ dispatch[d].event.cameraId \in cameras \cup {None}

\* One transaction inserts every row, or none when a key is missing.
Save(d) ==
    /\ dispatch[d].phase = "save"
    /\ IF Referenced(d)
       THEN /\ nextId + Cardinality(dispatch[d].to) <= MaxRows + 1
            /\ nextId' = nextId + Cardinality(dispatch[d].to)
            /\ rows' = [i \in Ids |->
                  IF i \in nextId .. nextId' - 1
                  THEN [user |-> SetToSeq(dispatch[d].to)[i - nextId + 1], event |-> dispatch[d].event,
                        state |-> "unread", age |-> "new"]
                  ELSE rows[i]]
       ELSE UNCHANGED <<rows, nextId>>
    /\ dispatch' = [dispatch EXCEPT ![d] = Idle]
    /\ UNCHANGED <<tables, dedupe, edit, steady, counters>>

\* A query of the dispatch fails: dispatch catches the error.
Fail(d) ==
    /\ dispatch[d].phase # "idle"
    /\ Fault
    /\ dispatch' = [dispatch EXCEPT ![d] = Idle]
    /\ steady' = [steady EXCEPT ![d] = {}]
    /\ UNCHANGED <<tables, rows, nextId, dedupe, edit, started, changes>>

\* The process dies; deduplication and dispatches were in its memory.
Crash ==
    /\ Fault
    /\ dedupe' = [k \in Keys |-> 0]
    /\ dispatch' = [d \in Dispatches |-> Idle]
    /\ edit' = [c \in Editors |-> NoEdit]
    /\ steady' = [d \in Dispatches |-> {}]
    /\ UNCHANGED <<tables, rows, nextId, started, changes>>

\* Time passes.  An entry that is over is as good as one that was pruned.
Tick ==
    /\ dedupe' = [k \in Keys |-> IF dedupe[k] > 0 THEN dedupe[k] - 1 ELSE 0]
    /\ UNCHANGED <<tables, rows, nextId, dispatch, edit, steady, counters>>

-----------------------------------------------------------------------------
(* Notifications in the hands of their user, and retention.                *)

\* The rows a user sees; unreadCount counts the unread ones.
FindAll(u, states) == {i \in Present : rows[i].user = u /\ rows[i].state \in states}

\* markRead reads the row ...
MarkReadLoad(c) ==
    /\ "read" \in Enabled /\ edit[c].op = "idle" /\ Change
    /\ \E u \in users : \E i \in FindAll(u, {"unread"}) :
          edit' = [edit EXCEPT ![c] = [NoEdit EXCEPT !.op = "read", !.owner = u, !.entity = i,
                                       !.known = rows[i].event.cameraId \in cameras]]
    /\ UNCHANGED <<tables, rows, nextId, dedupe, dispatch, steady, started, faults>>

\* ... and saves it with readAt: a row removed meanwhile is inserted again, as
\* long as its user exists, and so does the camera that the entity names.
MarkReadSave(c) ==
    /\ edit[c].op = "read"
    /\ LET i == edit[c].entity
       IN rows' = IF edit[c].owner \in users /\ (edit[c].known => rows[i].event.cameraId \in cameras)
                  THEN [rows EXCEPT ![i].state = "read"] ELSE rows
    /\ edit' = [edit EXCEPT ![c] = NoEdit]
    /\ UNCHANGED <<tables, nextId, dedupe, dispatch, steady, counters>>

MarkAllRead(u) ==
    /\ "read" \in Enabled /\ u \in users
    /\ rows' = [i \in Ids |-> IF i \in FindAll(u, {"unread"}) THEN [rows[i] EXCEPT !.state = "read"]
                              ELSE rows[i]]
    /\ UNCHANGED <<tables, nextId, dedupe, dispatch, edit, steady, counters>>

RemoveRow(i) ==
    /\ "read" \in Enabled /\ i \in Present
    /\ rows' = [rows EXCEPT ![i].state = "removed"]
    /\ UNCHANGED <<tables, nextId, dedupe, dispatch, edit, steady, counters>>

\* A row grows old: thirty days (the retention of read rows), ninety days.
Grow(i) ==
    /\ "read" \in Enabled /\ i \in Present /\ Change
    /\ \/ rows[i].age = "new" /\ rows' = [rows EXCEPT ![i].age = "month"]
       \/ rows[i].age = "month" /\ rows' = [rows EXCEPT ![i].age = "quarter"]
    /\ UNCHANGED <<tables, nextId, dedupe, dispatch, edit, steady, started, faults>>

\* Mutant: old rows go whether they were read or not.
ExpiredByAge(i) == rows[i].age # "new"

Expired(i) ==
    \/ rows[i].state = "read" /\ rows[i].age # "new"
    \/ rows[i].state = "unread" /\ rows[i].age = "quarter"

\* Every six hours.
Purge ==
    /\ "read" \in Enabled
    /\ rows' = [i \in Ids |-> IF i \in Present /\ Expired(i) THEN [rows[i] EXCEPT !.state = "purged"]
                              ELSE rows[i]]
    /\ UNCHANGED <<tables, nextId, dedupe, dispatch, edit, steady, counters>>

-----------------------------------------------------------------------------
(* Settings and preferences.  A request with several items saves them one  *)
(* at a time, as if it were several requests, and stops at the first that  *)
(* is refused.                                                             *)

AllowedEventTypes(u) == IF CompanyOf[u] = None THEN {"system.error"} ELSE EventType

AvailablePoints(u) ==
    IF RoleOf[u] = "user" /\ LinkedPoints[u] # {} THEN LinkedPoints[u] ELSE ActivePoints

\* assertFiltersInScope: the user's points, and the cameras at them.
FiltersInScope(u, f) ==
    /\ "pointIds" \in DOMAIN f => f["pointIds"] \subseteq AvailablePoints(u)
    /\ "cameraIds" \in DOMAIN f => \A x \in f["cameraIds"] : x \in cameras /\ PointOf[x] \in AvailablePoints(u)

MayConfigure(u) == CompanyOf[u] = None \/ RoleOf[u] = "admin"

\* The row of a user or of the company, or the one that is created.
OwnPreference(u, type) ==
    IF preferences[u][type] # None THEN preferences[u][type] ELSE [enabled |-> None, filters |-> None]

CompanySetting(type) ==
    IF settings[type] # None THEN settings[type]
    ELSE [enabled |-> Definition(type).defaultEnabled, filters |-> Definition(type).defaultFilters,
          allowUserOverride |-> TRUE]

\* Mutant: the filters are checked for scope, not against their type.
PreferenceItemUnparsed(u, type) ==
    {[OwnPreference(u, type) EXCEPT !.enabled = b] : b \in BOOLEAN \cup {None}}
    \cup {[OwnPreference(u, type) EXCEPT !.filters = f] :
            f \in {None} \cup {g \in FilterChoices[type] : CompanyOf[u] # None => FiltersInScope(u, g)}}

\* What an item of a request may make of a row: it sends one field or more;
\* several fields are as good as several items.
PreferenceItem(u, type) ==
    {[OwnPreference(u, type) EXCEPT !.enabled = b] : b \in BOOLEAN \cup {None}}
    \cup {[OwnPreference(u, type) EXCEPT !.filters = f] :
            f \in {None} \cup {g \in FilterChoices[type] :
                     ValidFilters(type, g) /\ (CompanyOf[u] # None => FiltersInScope(u, g))}}

SettingItem(u, type) ==
    {[CompanySetting(type) EXCEPT !.enabled = b] : b \in BOOLEAN}
    \cup {[CompanySetting(type) EXCEPT !.allowUserOverride = b] : b \in BOOLEAN}
    \cup {[CompanySetting(type) EXCEPT !.filters = f] :
            f \in {None} \cup {g \in FilterChoices[type] : ValidFilters(type, g) /\ FiltersInScope(u, g)}}

PreferenceLoad(c, u, type) ==
    /\ "preference" \in Enabled /\ edit[c].op = "idle" /\ u \in users /\ Change
    /\ type \in AllowedEventTypes(u)
    /\ \E item \in PreferenceItem(u, type) :
          edit' = [edit EXCEPT ![c] = [op |-> "preference", owner |-> u, type |-> type, entity |-> item,
                                       known |-> preferences[u][type] # None]]
    /\ UNCHANGED <<tables, rows, nextId, dedupe, dispatch, steady, started, faults>>

SettingLoad(c, u, type) ==
    /\ "setting" \in Enabled /\ edit[c].op = "idle" /\ u \in users /\ Change
    /\ MayConfigure(u)
    /\ \E item \in SettingItem(u, type) :
          edit' = [edit EXCEPT ![c] = [op |-> "setting", owner |-> None, type |-> type, entity |-> item,
                                       known |-> settings[type] # None]]
    /\ UNCHANGED <<tables, rows, nextId, dedupe, dispatch, steady, started, faults>>

\* Who a change concerns while the dispatch d is in progress.
Unsettled(d, us, type) ==
    IF dispatch[d].event # None /\ dispatch[d].event.type = type THEN steady[d] \ us ELSE steady[d]

\* save; the unique key refuses a second row, the foreign key a user who is gone.
PreferenceSave(c) ==
    LET u == edit[c].owner
        type == edit[c].type
    IN /\ edit[c].op = "preference"
       /\ IF u \in users /\ (edit[c].known \/ preferences[u][type] = None)
          THEN /\ preferences' = [preferences EXCEPT ![u][type] = edit[c].entity]
               /\ steady' = [d \in Dispatches |-> Unsettled(d, {u}, type)]
          ELSE UNCHANGED <<preferences, steady>>
       /\ edit' = [edit EXCEPT ![c] = NoEdit]
       /\ UNCHANGED <<users, cameras, settings, rows, nextId, dedupe, dispatch, counters>>

SettingSave(c) ==
    /\ edit[c].op = "setting"
    /\ IF edit[c].known \/ settings[edit[c].type] = None
       THEN /\ settings' = [settings EXCEPT ![edit[c].type] = edit[c].entity]
            /\ steady' = [d \in Dispatches |->
                   Unsettled(d, {u \in Users : CompanyOf[u] # None}, edit[c].type)]
       ELSE UNCHANGED <<settings, steady>>
    /\ edit' = [edit EXCEPT ![c] = NoEdit]
    /\ UNCHANGED <<users, cameras, preferences, rows, nextId, dedupe, dispatch, counters>>

\* A user is removed, with preferences and notifications (CASCADE).
RemoveUser(u) ==
    /\ "leave" \in Enabled /\ u \in users
    /\ users' = users \ {u}
    /\ preferences' = [preferences EXCEPT ![u] = [t \in Types |-> None]]
    /\ rows' = [i \in Ids |-> IF i \in Present /\ rows[i].user = u THEN [rows[i] EXCEPT !.state = "removed"]
                              ELSE rows[i]]
    /\ UNCHANGED <<cameras, settings, nextId, dedupe, dispatch, edit, steady, counters>>

\* A camera is removed; its notifications stay (SET NULL).
RemoveCamera(x) ==
    /\ "leave" \in Enabled /\ x \in cameras
    /\ cameras' = cameras \ {x}
    /\ UNCHANGED <<users, settings, preferences, rows, nextId, dedupe, dispatch, edit, steady, counters>>

-----------------------------------------------------------------------------

Init ==
    /\ users = Users /\ cameras = Cameras
    /\ settings \in FormerSettings
    /\ preferences = [u \in Users |-> [t \in Types |-> None]]
    /\ rows = [i \in Ids |-> None] /\ nextId = 1
    /\ dedupe = [k \in Keys |-> 0]
    /\ dispatch = [d \in Dispatches |-> Idle]
    /\ edit = [c \in Editors |-> NoEdit]
    /\ steady = [d \in Dispatches |-> {}]
    /\ started = 0 /\ changes = 0 /\ faults = 0

Dispatch(d) == ReadRecipients(d) \/ ReadOperators(d) \/ ReadSetting(d) \/ ReadPreferences(d) \/ Save(d)

Own == \E i \in Ids : RemoveRow(i) \/ Grow(i)

Edit(c) ==
    \/ MarkReadLoad(c) \/ MarkReadSave(c) \/ PreferenceSave(c) \/ SettingSave(c)
    \/ \E u \in Users, t \in Types : PreferenceLoad(c, u, t) \/ SettingLoad(c, u, t)

Next ==
    \/ Tick \/ Crash \/ Purge \/ Own
    \/ \E e \in Events : Publish(e)
    \/ \E d \in Dispatches : Dispatch(d) \/ Fail(d)
    \/ \E c \in Editors : Edit(c)
    \/ \E u \in Users : MarkAllRead(u) \/ RemoveUser(u)
    \/ \E x \in Cameras : RemoveCamera(x)

Spec == Init /\ [][Next]_vars

\* Time passes, a dispatch is carried on, and a problem that lasts is
\* published again and again (monitoring.service.ts publishes a camera that
\* is offline whenever it is asked for).
Fairness ==
    /\ WF_vars(Tick)
    /\ \A d \in Dispatches : WF_vars(Dispatch(d))
    /\ \A e \in Problems : SF_vars(Publish(e))

FairSpec == Spec /\ Fairness

-----------------------------------------------------------------------------
(* Properties.                                                             *)

\* Stored settings and preferences keep to the filters that their type of
\* notification knows, whatever requests send (resolvePreference and the matcher
\* rely on it); identifiers are given out in order.
TypeOK ==
    /\ users \subseteq Users /\ cameras \subseteq Cameras
    /\ \A t \in Types :
          /\ settings[t] \in Setting(t) \cup {None}
          /\ \A u \in Users : preferences[u][t] \in Preference(t) \cup {None}
    /\ \A i \in Ids : IF i < nextId THEN rows[i] \in Notification ELSE rows[i] = None
    /\ nextId \in 1 .. MaxRows + 1
    /\ dedupe \in [Keys -> 0 .. 6]
    /\ \A d \in Dispatches :
          /\ dispatch[d].phase \in {"idle", "recipients", "operators", "setting", "preferences", "save"}
          /\ dispatch[d].to \subseteq Users /\ dispatch[d].recipients \subseteq Users
    /\ \A c \in Editors : edit[c].op \in {"idle", "read", "preference", "setting"}

\* The levels that have a say for u, the most specific one first; None is silent.
Levels(u, type) ==
    LET company == IF CompanyOf[u] = None THEN None ELSE settings[type]
        own == IF company # None /\ ~company.allowUserOverride THEN None ELSE preferences[u][type]
    IN <<own, company, [enabled |-> TRUE, filters |-> Definition(type).defaultFilters]>>

\* u is told of e: the first level that decides says yes, and for every kind of
\* filter the first level that has one lets e pass.
Wants(u, e) ==
    LET levels == Levels(u, e.type)
        Says(i) == IF levels[i] = None THEN None ELSE levels[i].enabled
        Has(i, k) == levels[i] # None /\ levels[i].filters # None /\ k \in DOMAIN levels[i].filters
    IN /\ \E i \in 1 .. 3 : Says(i) = TRUE /\ \A j \in 1 .. i - 1 : Says(j) = None
       /\ \A k \in DOMAIN FilterValues(e.type) : \A i \in 1 .. 3 :
             Has(i, k) /\ (\A j \in 1 .. i - 1 : ~Has(j, k)) =>
                MatchesFilters(e, [x \in {k} |-> levels[i].filters[x]])

\* A dispatch obeys every user whose settings do not change while it runs: it
\* picks exactly the recipients who want the event, by the precedence of the
\* documentation (user, company, catalog; a company may forbid overriding) and
\* as they are shown, although it reads settings and preferences at different
\* moments.
SettingsObeyed ==
    [][\A d \in Dispatches :
          dispatch[d].phase = "preferences" /\ dispatch'[d].phase # "preferences" /\ faults' = faults =>
             \A u \in steady[d] \cap dispatch[d].recipients :
                LET e == dispatch[d].event
                    shown == GetPreference(u, e.type)
                IN /\ u \in dispatch'[d].to <=> Wants(u, e)
                   /\ Wants(u, e) <=> shown.enabled /\ MatchesFilters(e, shown.filters)]_vars

\* What was read is never unread again, and retention takes what its user has
\* not seen only after ninety days, whatever readings, removals and cascades
\* overlap with it.
UnseenKept ==
    [][\A i \in Ids : rows[i] # None =>
          /\ rows[i].state # "unread" => rows'[i].state # "unread"
          /\ rows[i].state = "unread" /\ rows'[i].state = "purged" => rows[i].age = "quarter"]_vars

\* Who resolveRecipients addresses.
Recipients(e) ==
    {u \in users : \/ CompanyOf[u] = e.companyId
                   \/ e.type = "system.error" /\ CompanyOf[u] = None}

\* A problem that lasts is told in the end to everyone who wants to know:
\* windows taken by a dispatch that failed or lost its rows to a missing key
\* expire, and a restart forgets them.
ToldInTheEnd ==
    \A e \in Problems, u \in Users :
        [](/\ u \in Recipients(e) /\ Wants(u, e)
           /\ e.cameraId \in cameras \cup {None})
        => <>(\E i \in Ids : rows[i] # None /\ rows[i].user = u /\ rows[i].event = e)
=============================================================================
