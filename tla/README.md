# Formal models of Controle Logística

The repository is an API that records vehicles entering and leaving the units of
a company (NestJS, PostgreSQL), with a service that reads licence plates from
cameras (Python, FastAPI). This directory holds TLA+ models of its core, the
configurations that check them with TLC and proofs checked by TLAPS.
`PROJECT.json` lists components, runs, the mutant that breaks each property, the
source lines of every definition, the hazards and the findings.

    tlc -workers 2 -config Movements_visits.cfg MCMovements.tla
    tlapm MovementsProofs.tla
    for m in *Proofs.tla; do tlapm $m; done     # every proof, about half an hour

## 1. The system

| Component | Code | State | Operations | Hard behaviour |
|---|---|---|---|---|
| Movements | `src/movement` | table `movements` (status, vehicle, gate, observation) | create, update, remove, confirm an observation, register automatically, discard, recalculate, reconcile | several requests at once, stale entities, row locks and deadlocks, a unique key, rollbacks |
| Pairing | `movement-auto`, `movement-reconciliation`, `reports/movement-time` | status of entries and exits | close a visit, reconcile a period, dwell report | three algorithms that should agree |
| Event feed | `anpr-service/.../events.py` | epoch, sequence, deque of the last 1024 events | publish, poll | forgotten events, restarts |
| Automatic registration: queue | `auto-registration.service.ts` | cursor, pending, jobs, busy gates, processed | consume events, enqueue, pump, process a camera, repair, start, stop | lost polls, crashes, full queue, failed jobs |
| Automatic registration: decision | same, `recognition-resolver` | marks on the observation | shortcuts, cooldown, external call, commit | a paid call that must not be repeated |
| Camera monitor | `anpr-service/.../monitors.py` | votes, candidate or confirmed observation | capture, accept a result, expire | late results, expiry, errors |
| Inference scheduler | `anpr-service/.../inference.py` | one pending image per camera, manual slots | submit, recognize, run, close | timeouts racing results |
| Observations | `monitoring`, `movement-evidence`, `src/scripts/purge-confirmed-evidence.mjs` | table `camera_observations`, photos in the store | insert, extend, mark, keep, read and remove a photo, purge | whole-entity saves, a file without row and a row without file, crashes |
| External interactions | `anpr/external-interaction*` | table of calls | record, attach a movement, list, add up | a paid call whose answer is lost |
| Recognition | `anpr-service/.../recognizer.py`, `plate.py`, `camera.py`, `src/anpr` | none beyond one request | capture, detect, read crops, rows and frame, correct, answer, ask the provider | passes that fall back on one another, two formats for one misreading |
| Cameras, MediaMTX | `camera` | table `cameras`, remote paths | create, update, remove, repair | a row and an HTTP call |
| Monitoring sync | `monitoring-sync` | registered monitors | reconcile every 5 s | cameras that change during a pass |
| Vehicles | `vehicle` | table `vehicles`, code sequence | create, find or create, remove | races on plate and code |
| Notifications | `notification` | rows, preferences, settings, deduplication windows | publish, dispatch, read, remove, edit settings, retain, stream | failure after deduplication, settings that change during a dispatch |
| Reports | `reports` | cache of baselines | timelines, dwell, transit, use, exceptions, book, summary | cut periods, missing exits, ties |
| Companies, users, units, gates, cameras | `company`, `user`, `admin-unity`, `point`, `camera`, `auth` | their tables, tokens | create, update, remove, link, log in | stale tokens and entities, a check and a later save, cascades |
| Settings | `company-config`, `common/anpr-config` | columns of company and gate | inherit, edit | settings that change during a job |
| Storage, snapshots, streams, HTTP | `storage`, `camera/snapshot`, `main` | none | input and output | failures, as their callers see them |

How they interact: a camera monitor publishes a *camera name* in the feed; the
API polls the feed, queues the camera, fetches the monitor's current state,
persists the observation, decides and registers a movement. Gatekeepers confirm
observations and reviewers decide pending movements through HTTP at the same
time. Everything meets in PostgreSQL under READ COMMITTED; TypeORM's
`Repository.save` writes whole entities. Timers follow the tables: paths and
monitors are brought in line with the cameras. Errors of cameras, of the provider
and of the database are published as events that notify users; reports read the
confirmed movements.

What makes each part correct: an observation has one movement; review decides
once; the context of an observed movement never changes; a closed entry was left;
no state that a camera shows is missed; two cameras of a gate are never processed
at once; queues are bounded; the three pairings agree; reports account for the
time they cover; whoever decides sees the photo, and a paid answer is not bought
twice; paths and monitors follow the cameras; a lasting problem is told to those
who want to know; a company has one administrator and its own rows; a plate
answered is the nearest to what was read.

## 2. Modules

### Movements, MovementsClaims, MCMovements

`Movements` is the table and every request that writes it. A request is
`op[c]`, the rows it works on (`want`), the entities in its memory (`draft`) and
one argument (`arg`). The steps are the places where another request may commit:
`UpdateLoad`/`UpdateSave`, `RemoveLoad`/`RemoveRow`, `ConfirmRead`/`ConfirmCommit`
(under the lock on the observation), `AutoRead`/`AutoCommit` (without it),
`DiscardBegin`/`Lock`/`DiscardCommit`,
`RecalculateBegin`/`Lock`/`RecalculateRead`/`Lock`/`RecalculateCommit`,
`ReconcileRead`/`ReconcileSave`. `SaveDraft` is `Repository.save`: it overwrites
the row with the entity, or inserts the entity when the row is gone; unique and
foreign keys are its guards and their violation is `Refuse`. `DeadlockVictim` is
PostgreSQL's choice among clients that wait for each other; `Crash` is the death
of the process or its connection.

Abstractions: a vehicle is its plate and exists or not (inactive vehicles and
gates are absent); free text and audit columns are left out; a lock is held from
the step that reads under it; the SELECT and the UPDATE inside one `save` are one
step (what they interleave with is the same outcome in another order, for they
only write the columns that differ). `RowAssumption` says that no row is the value
that stands for an absent one.

`MovementsClaims` holds what documents and comments say and the code does not do.

### Pairing, VisitPairing, VisitPairingClaims

`Pairing` says by counting which passages pair up (a parenthesis matches when the
run up to its partner is balanced; `VisitEnd` is the exit up to which exits outweigh
entries for the first time); `Movements` uses it for reconcile.
`VisitPairing` is the code: `closeUnitVisit` when a movement arrives, then
reconcile's walk with a stack, then the report's walk. `ReconcileCountsVisits`
shows that the stack computes the counting definition.
`NothingToReconcile` shows that closing visits as they end is the same as pairing
the whole period when movements are observed in order. The report's order among
equal instants is that of random ids, hence any: `VisitsNest` holds of it as well, but
its pairs need not be those of reconcile (`VisitPairingClaims`).

### Reports, MCVisits

`Reports` is what `MovementTimeService` and `ReportsService` compute from the
movements of one vehicle: journey window, period and its default, dwells (a stack
per unit) and transits, baselines of routes with their cache, the current state,
and the reports on units, dwell, transit, use, exceptions, fleet and the book of
movements. A step confirms a movement (`Confirm`) or asks for every report of a
request (`Ask`), which may fill the cache. Instants count half minutes, so that
rounding to minutes shows. `Sorted` lists the movements in the order of
`compareMovements` (ids are distinct, so there is one such order), `Walk` is the stack of
one unit over that list. `DwellsCountVisits` compares the dwells of the report, an
algorithm of its own, with the visits that `Pairing` counts. Ids are drawn in the order
of creation here, so that reports and counting break ties alike and what is compared is
the algorithm; what random ids do is `VisitPairingClaims`'. `MCVisits` checks `VisitPairing` and `Reports` in one
run: a behaviour is one or the other.

### MonitorEvents, EventPipeline, GateAttention, MCEventPipeline

`MonitorEvents` is the feed; `EventPipeline` extends it with the long poll, the
queue, the jobs, the repair and the restarts of both processes. Each state a
camera shows has a number (`version`); a job examines the number it was given.

The API is one JavaScript thread. A loop is taken one iteration at a time and
`Turn` keeps other callbacks waiting until it is over; the next poll is sent in
the same turn. Abstractions: `inbox` is a set (the order of the events in one
answer is left out); the gate of a camera is constant, so `cameraPoints` is the
set of its keys; whether an observation is usable or in `processed` is a free
choice; monitors are not removed; the end of a job and the `pump` that follows it
are one turn; a repair lists the cameras and reads all their observations at one instant,
where `getActiveObservations` awaits one camera after the other (`RepairList`), so that
a repair of the code may see a newer state of a later camera, which its event enqueues
as well.

`MCEventPipeline` chooses which cameras are watched (`watched`): what takes many events is
checked of one camera, what takes two cameras with fewer.

`GateAttention` is what the pipeline promises, with neither feed nor poll nor
queue: cameras that are due and cameras that are served. `EventPipeline` implements
it under the mapping at its end: a camera is due while its current state was not
examined, and served while it has a job. The run `pipeline` checks the refinement
with the fairness of both (`EveryStateAttended`), and a theorem proves its safety
part.

### Registration, RegistrationClaims

`Registration` is what one job of the pipeline does with an observation:
`processObservation` (`JobStart` to `Decide`), `evaluateExternal` (`ReuseAnswer`,
`ImageMissing`, `CallExternal`, `Mark`) and `commitRecognition` (`CommitVehicle` to
`Create`). `job` is the memory of the job: where it is, the settings, the vehicle
and the mark it read, the answer it got. Between two steps a gatekeeper confirms an
observation (`Confirm`), vehicles and settings change, time passes, the process
dies. `Resolve` is the inheritance of settings. One gate has one job, which is what
`OneJobPerPoint` says of the pipeline. The rest of the steps that may lie between
(another gate's jobs) write other observations.

Abstractions: an answer is a plate or none, which stands for errors, timeouts and
low confidence; a vehicle stands for its plate; reviews and expiry are left out;
instants are few. `calls` counts the calls of the external service whose result was
not lost, `answers` the plates it returned: both are history. `AskedOnce` says
nothing of the others: when a save of the mark fails or the process dies before it, the
code asks, and pays, again.

The cooldown is one comparison when a movement is about to be created: the present, less
the cooldown, against the capture of earlier movements that have the identifier of its
vehicle, or its plate when no vehicle is known. `CreatedAfterCooldown` says what that gives
after the steps in between. It is not a distance between movements, nor does it hold of a
vehicle that is registered between two of its movements, of which `RegistrationClaims` has
what the documentation says.

`MCRegistration` composes this module with `Recognition` and `CameraMonitors` below, which
share no state with it: a behaviour is one of the three (`part`).

### Recognition

One request for the plate in a photo, and one question to the external provider.
The actions are the stages of `PlacaRecognizer`: `SendPhoto`, `Detect`, `ReadCrop`
(directly, then its rows), `CropsRead` (again with contrast, then the frame),
`ReadFrame`, `Answer` through the route of the service and `AnprService.post`,
`GiveUp`; `AskProvider` is `GoogleVisionProvider.recognize` with its errors. What
detector and readers see is free, scores included, so any plate read may be the
best. `Normalise` and its parts are the correction of texts, character by character,
with the tables of the code; the Python and the TypeScript version are the same rule
and are one definition; the tables that take a letter for a digit are spelt out. The
reference for it (`Repairs`, `Nearest`, `Legible`) tries every set of confusions instead
of following a pattern.

### Evidence, Administration, MCRecords

`Evidence` is the life of a stored observation: readings that insert it and extend
it (`ReadState`, `ReadStore`, `JobFetch`, `JobPersist`), the paid call, its audit
row and its mark (`JobCall` to `JobMark`), the photo that is put in the store and
then in the row (`JobPutPhoto`, `JobSavePhoto`), the movement, confirmations, reviews
that remove photos one by one and save the entities (`ReviewFind` to `ReviewSave`),
the purge script, failures of each call and crashes. Which decision a job takes is
free: `Registration` has it.

`Administration` is every request on companies, users, units, gates and cameras in
three steps, between which others may commit: it reads the row it names (`Ask...`),
the rows it depends on (`Check`) and writes (`Write`). `Login` gives a token that
outlives the row of its user; `InScope` is the scope a token gives. Unique and
foreign keys are guards, cascades part of the write. `FirstRows` is what the table holds at the
start; `FirstRowsAssumption` asks of it what the requests guarantee of the rows they
write (foreign keys, one administrator for each company, cameras with the context of
their gate), as if they had written it.

`MCRecords` composes these two and the queue of `EventPipeline` when it is too small:
parts that share nothing, one per behaviour (`RecordsSpec`). Evidence has two: one
observation that is seen again ("evidence") and two side by side ("photos").
`RecordsTypeOK` has the types of administration and evidence.

### CameraSync, MCCameraSync

The rows of cameras, the paths of MediaMTX and the monitors of the ANPR service. A
request changes the row and then calls MediaMTX (`Create`, `UpdateSave`, `Erase`,
...), `DetectFamily` is the probe of the device, a repair lists cameras and paths and
creates or drops what differs (`PassFind`, `BootFind`, `ListPaths`, `DropOrphan`),
`SyncFind` to `SyncEnd` is the pass that registers monitors and removes leftovers.
Each HTTP call may fail, be refused or be carried out while its answer is lost; both
remote services and the API restart.

### NotificationCatalog, Notifications, MCNotifications

`NotificationCatalog` has the events that the factory builds, the catalog, filters
and the resolution of a preference (user, company, catalog). `Notifications` has the
steps of a dispatch between its reads (`Publish`, `ReadRecipients`, `ReadOperators`,
`ReadSetting`, `ReadPreferences`, `Save`, `Fail`), what users do with their notifications,
edits of settings and preferences, retention, removed users and cameras, restarts.
`Enabled` are the kinds of changes that an instance allows; `MCNotifications` tells one of
three stories per behaviour, each with kinds and bounds of its own (`story`). Time is
counted in half of the shortest window. Titles, bodies and the live
stream, which repeats what was saved, are left out. A filter is a record that may lack keys
(`NoFilters` has none); what does not keep to the schema of its type falls back as in
`safeParseNotificationFilters`. `FormerSettings` is what the table of settings may hold
at first; `RowsAssumption` asks that it was written by the same requests, which refuse
the filters that a type does not know. `CatalogMatches`, which TLC evaluates, says that
each event of the factory can be matched with each filter of its type.

### InferenceScheduler, CameraMonitors

`InferenceScheduler` is the queue in front of the inference thread: the line of
images (`pending`, an ordered map in the code, a sequence of images with distinct
keys here), the image in the thread, the slots of manual requests and the future
each of their clients waits for. `CameraMonitors` extends it with what a camera's
task does (`CaptureStart`, `CaptureEnd`, `CaptureFail`), with `Accepted`, the
function that turns a monitor's state and a result into its next state, and with
the manager (`Upsert`, `ReplaceBegin`/`ReplaceEnd`, `RemoveBegin`/`RemoveEnd`: the
lock is held while the old monitor's task ends). A step lasts from one `await` to
the next. A result of the thread is one of the plates, none, one of too little
confidence, or an error.

Abstractions: time is a number of ticks and a monitor captures at most once per
tick; the delay of the capture loop is free; whether the scene filter lets a frame
go is free, within its bounds; an observation is identified by the instant of its
first frame, and so are votes, so that a monitor's votes are a set; confidence, box and
photo are left out; the end of the service
removes every monitor first. History variables say what was read since the last
failure (`readings`), what was last published (`told`) and by how many others an
image was overtaken (`overtaken`).

## 3. Runs

| Run | Question | Bounds |
|---|---|---|
| visits | an entry and two possible exits, two gates, registered, confirmed, reviewed, reconciled | 2 requests, 3 observations, 2 instants, 3 rows |
| manual | stale updates, removals, reconciliation | 2 requests, 1 observation, a two-way gate, 2 rows: one observed, one manual |
| requests_end | everything ends, deadlocks included; review decides once | 2 reviewers, 2 observations of one passage, 2 rows |
| pairing | reconcile against counting and against closing visits; dwells against counting; the reports | 4 movements, 4 instants: two nested or consecutive visits, all ties; 2 units, a day of 4 half minutes, so that journeys and periods cut segments |
| pipeline | forgotten events, cursors that are behind or of another epoch, jobs overtaken by newer states, lost polls and processes, failed jobs; one gate; GateAttention | a deque of 1, 2 workers; 2 cameras of one gate with 2 events and faults in all, or 1 camera with 3 events and 1 fault |
| registration | votes, events, slots, replaced monitors; recognition; shortcuts, cooldowns, the paid call, crashes | 1 camera, 3 monitors in a row (two upserts at once, were there no lock), 2 plates, 4 instants, a window of 2, 1 manual request at a time; 2 crops, every word of seven of "9", "Q", "K" and texts of several words; 2 observations, 2 plates (one may be a misreading of the other), 3 instants with a cooldown of 1, 6 combinations of settings, 1 change, failure or crash |
| records | administration, in one company and between two; evidence; a full queue | 2 clients, 3 requests, 2 companies, a user, unit, gate and camera still to come, or 2 requests and both companies with a user, a unit and a gate from the start; 1 observation seen twice, or 2 seen once of which one may be reviewed and purged while the other waits, 1 other reader, 2 failures or crashes; 3 cameras, maxPending 1, 2 workers |
| cameras | paths and monitors follow the cameras | 2 cameras, room for 1 monitor, 1 request, 1 fault, 1 pass |
| notifications | "problem": a lasting problem is told in the end; "settings": settings and preferences that change during a dispatch, filters of the wrong kind; "retention": rows that age thirty and ninety days while requests read and remove them | 2 users (of the company, of the platform), 1 problem, 2 rows; 3 dispatches, 1 edit, 1 fault; 1 dispatch, 2 requests, 3 edits; 1 dispatch, 2 requests, 5 ageings and readings, 1 fault |

Bounds are as small as the cases allow: two of what may race, one more where a
third party decides (an exit that may close either of two entries, a third camera
for a queue of two, a second observation to review while the first one waits). What needs
many steps in a row is a behaviour of its own in which less else happens (`watched`, `part`,
`story`): a feed that forgets needs more events than it holds, a row of ninety days ages
twice before it is read. Every action and alternative of every module is taken in some run.

Symmetry is used in runs of safety only (clients, cameras, observations, plates, units);
those with liveness have none.

What the runs do not reach: `cameras` has one pass at a time, as the code's flag has it,
and says of agreement that it comes, not that it lasts; `notifications` has one
problem, so that no two share a window; `SettingsObeyed` is about users whose settings
did not change while the dispatch ran; `pipeline` has one fault
per behaviour, next to three events of one camera or one of two.

The violation runs show where the code differs from what the repository says of
it (`findings`):

- an update writes back columns it did not send and brings back a removed movement
  (stale_update);
- the report orders equal instants by random id where reconcile orders them by
  `createdAt`, so that it may miss visits that reconcile closes, though
  `movement-time.service.ts:121` says it has the same rule (report_ties);
- the cooldown looks for a registered vehicle by its identifier, which movements
  from before its registration do not have, so that the first movement after it
  may follow at once (cooldown_new_vehicle).

More differences and limits are known and have no run.

Movements and registration:

- an exit that is confirmed by review closes no visit until somebody reconciles,
  though `src/README.md:341` says that a confirmed exit closes the latest open
  entry;
- two exits that arrive at once through two gates of a unit may both close one open
  entry, and an entry before it stays open: nothing locks the entry. Reconcile closes
  what was left;
- recalculation discards the other readings of the passage, where
  `auto-registration.controller.ts:129` says that all with the plate are confirmed;
- an interaction may be attached to a movement that a gatekeeper confirmed with the
  plate of the camera while the external answer was another;
- the cooldown is counted from the capture of the earlier movement to the creation of
  the later (`movement-auto.service.ts:170`), so that two passages of one instant are
  both registered when the first waited long enough for its turn;
  `company-config.docs.ts:35` speaks of a minimal interval between registrations of a
  vehicle;
- a full queue clears the cursor (`auto-registration.service.ts:115`), but a poll in
  progress writes it again after its await; and with less room than cameras a
  repair may find the queue full each time. `NothingSilentlyLost` assumes room for
  every camera;
- a repair ends when no job is left, those that start meanwhile included, and the next
  begins after it, so that a stream of events without end keeps the next from starting.

Observations, photos, external calls:

- `monitoring.service.ts:68` says that freshness is never rolled back: its own
  update keeps to that, the whole entities saved by a job
  (`recognition-resolver.service.ts:243`) and a review (`movement-evidence.service.ts:80`)
  do not;
- a removal from the store that fails, a crash or a failed save leaves a file
  without row; the photo of an observation that a gatekeeper confirmed stays until
  the purge;
- a call that found no plate is recorded without billable units and without HTTP
  status;
- the discovery of a camera's address may take longer than a capture (13 addresses
  of 5 s in 10 s): it is then cut off, not counted as failed and starts with the
  first address again, so that an address behind two that hang is never found. A
  camera without address that cannot be reached is answered with 400, where
  `reconhecer.py:37` announces 502 for a failed connection.

Cameras: an update or a removal may overlap with a repair that read the camera
earlier; the path is wrong or missing until the next repair. A camera whose removal
is refused by a foreign key has lost its path until then.

Reports: movements whose partner is missing may give visits that overlap, whose times
add up to more than the period (`TimeAddsUp` is about movements that alternate); baselines of a past period come from a cache that may hold later ones; the
fleet shows the earliest ongoing dwell (`reports.service.ts:108`); the book counts a
visit twice when an entry in the same unit follows; a filter by gate may nest visits;
the upper percentile needs more than twenty samples to differ from the maximum.

Administration: unlinking gates from a user answers with success and changes nothing,
for the user is read without its gates (`user.service.ts:147`), though
`user.controller.ts:160` says that it removes the links; linking gates replaces the links
of the user; a user without company
has the scope of root whatever the role, and creating users asks for no role; a
removed company leaves its users; a company that is updated with a stale entity after
its removal is inserted again, without settings.

### Fairness

`requests_end`: a request that can take its next step does (`SF` on `Finish`), and
PostgreSQL grants row locks in the order of the queue (`SF` on `Lock`); a deadlock
is detected (`DeadlockVictim` is part of `Finish`). Crashes are not fair.

`pipeline`: synchronous loops end (`WF` on `Pump`, `Enqueue`); a request is
answered or times out; callbacks run in the order in which they became ready, so
one that is ready again and again runs (`SF`, because `Turn` disables it in
between); the interval timer fires; the 5 s synchronisation registers a missing
monitor of a watched camera (`WatchedSpec`). New states, faults, restarts and crashes are not fair and are bounded.

`cameras`: a request or pass goes on to its end, the timers of repair and
synchronisation fire (`SF`, for a pass waits until the one before has ended), a
stopped API is started again. Changes, faults and restarts are bounded.

`notifications`: time passes, a dispatch goes on, and a problem that lasts is
published again and again (`SF`, for a dispatch may be in progress). Everything else
is bounded. Liveness is a question to the story "problem"; the other two have neither the
time nor the repetitions that fairness asks for and are about safety.

The other runs check safety and assume none.

## 4. Proofs

A theorem holds for every value of the constants that the named assumptions of its
module allow: any number of clients, rows, cameras, plates, any capacity, any number of
faults. Every run's module extends those assumptions, so that TLC evaluates them. Each
proof has one shape. The property is not inductive, so an invariant says more: what the
memory of requests and jobs may hold, and how it relates to the tables that others
change in between. One lemma shows it of the first state, one for each conjunct or
action that it survives every step, and the theorems at the end of the module follow.

| Module | Obligations | Properties |
|---|---|---|
| MovementsProofs | 2006 | `TypeOK`, `OneMovementPerObservation`, `ReviewMatchesVehicle`, `ReviewIsFinal`, `ObservedContextImmutable`, `ClosedEntryWasLeft` |
| PairingProofs | 465 | lemmas about pairing, used by the next and by the one before |
| VisitPairingProofs | 2766 | `ReconcileCountsVisits`, `NothingToReconcile`, `VisitsNest`; of the reports `DwellsCountVisits`, `CurrentStateExplained`, `TimeAddsUp` |
| EventPipelineProofs | 1263 | `TypeOK`, `OneJobPerPoint`, `QueueBounded`, `NoSilentLoss`, the refinement of `GateAttention` |
| RegistrationProofs | 1762 | `TypeOK`, `AskedOnce`, `ExternalDecides`, `CreatedAfterCooldown`; of recognition `AnswersStand` |
| CameraMonitorsProofs | 2368 | `SlotsAccounted`, `FairAdmission`, `EveryChangeTold`, `OneLiveMonitor`, `ObservationStable`, `ConfirmedByReadings` |
| RecordsProofs | 3603 | `RecordsTypeOK`; of administration `OneAdministrator`, `ContextsAgree`, `TenantsKeptApart`; of evidence `PendingPhotoLoadable`, `PaidCallKept` |
| NotificationsProofs | 1075 | `TypeOK`, `SettingsObeyed`, `UnseenKept` |

These are all the invariants and all the safety properties of steps that the passing
runs check. Properties about data that folds compute (the stack of a report, a sum of
minutes, the pieces of a text) are proved by taking the fold one step at a time, as a
function on the naturals below its length, and the least step at which something fails
in place of an induction.

### MovementsProofs

The assumptions are `MovementsAssumption` and `RowAssumption`. A stale entity can break
every one of the invariants when it is saved; `IInv` says what the memory of a request
may hold:

- `ReviewInv`: entities satisfy the same relation between status and vehicle as
  rows do, and only the kinds of requests that may decide hold decided entities;
- `FreshInv`: identifiers that were not given out appear in no row and no draft but
  that of the insertion that reserved it;
- `OwnerInv`: a drafted entity keeps the observation of its row;
- `DraftsUnique`, `SoleInsertion`: a request inserts one row at most, and its own
  drafts agree on the observation;
- `NothingDrafted`, `UnderReview`, `ConfirmedTargets`: what each kind of request
  has in memory at each of its steps; in particular a reviewer's entity is the row
  it locked, and an update or a reconciliation only holds rows that were confirmed;
- `SoleObserved`, `ContextKept`: whoever is about to insert the movement of an
  observation is the only one who knows its identifier, and whoever is about to
  overwrite an observed movement remembers its gate, its direction and its vehicle if
  it has one. `ContextStays` follows.

The proof first classifies each step (`Kinds`: a request begins, a row is locked, a
draft is saved, a review commits, ...) and then shows each conjunct per kind, so
that a conjunct is proved against six kinds of steps and not nineteen actions.

`ClosedEntriesWereLeft` has a hypothesis, `NobodyEdits`: the company enables neither
manual creation, nor updates, nor removals. Without it the property is false, for an
update may reopen or remove the exit of a visit and leave its entry closed; `manual`
therefore does not check it. Under it `VisitInv` is inductive with `IInv`: every
movement was observed (`OnlyObserved`), drafts keep the time of their row (`TimesKept`),
an exit in a confirmed draft is closed (`ExitsClosed`), and whoever holds a closed entry
holds the exit that closes it or finds one in the table (`EntriesLeft`). The last one is
what nobody checks when a reconciliation saves visits that it read earlier. That
reconcile only closes an entry with an exit after it is `PairedWithAnExit` of
`PairingProofs`.

### PairingProofs, VisitPairingProofs

The pairs of a group that reconcile should close are stated twice: `Paired` counts
(parentheses), and `Visits(M, Q)` says that Q is a matching of entries with later
exits that is nested, and in which no exit goes without an entry while one before it
waits. `VisitsCounted` shows that its members are those that count as paired: a visit contains
as many entries as exits (`VisitBalanced`), and the other way round an entry whose run
of passages is balanced is matched. `VisitEnds` says more: the exit that such a matching
gives an entry is the `VisitEnd` that counting gives. They go by the least or greatest
element of a set of numbers, which well-foundedness of the naturals gives.

`VisitPairingProofs` then needs no induction over sequences, for each walk is a run of
steps: its invariant is `Walked`, which says of the movements passed so far that the
stack holds the entries that wait in their order (`Stacked`), that the pairs so far
are a nested matching (`Matched`, `Nested`), that everything that came after an entry
that waits is above it on the stack or in a visit begun later (`Waits`), and that an
exit found no entry only when none waited (`NoneWaited`). `Precedes` is the order that
a walk respects: reconcile's is total, the report's leaves equal instants as they come,
and `WalksNest` holds of both. At the end of a walk in a total order `Walked` is
`Visits`, which gives `StackCounts`. `Arrivals` is the same for
movements that close visits as they come: as long as each was observed after all
before, the closed entries and the exits are the members of some `Visits`, which gives
`ReconcileIsIdle`. The abstraction that `Movements` uses for reconcile is therefore
exact, with ties and whatever statuses the table held.

The reports use `ReportsAssumption` (instants are numbers; None is none). `WalkSteps`
gives the states of a fold over the sorted movements, `WalkType` and `WalkOpen` what
they are: an entry waits until another event of its unit. The report's own walk, a fold over
positions with dwells that are opened and closed, is a run of the same steps
(`WalkIsWalked`); at its end the dwells are a `Visits`, hence end where counting says
(`DwellEnd`, `WalkCounts`), and `DwellsAreCounted` follows for every group of movements,
with missing partners and ties. `StateExplained` follows from the same steps: an entry
that comes last still waits at the end, every other that waits is marked as a missing
exit, and a transit goes on only after an exit that comes last.

`TimeAddsUp` is about movements that alternate between entry and exit. Then a visit is
an entry and the exit right after it (`WalkAlternates`), so that completed segments lie
one after the other between the movements (`SegmentsFollow`). `SumBound` is the fact
about numbers: intervals that share no time and lie within a period add up to at most
the period, and rounding each to minutes adds at most half a minute to it. `SumSteps`
takes the sum of the code one segment at a time, whatever the order.

### EventPipelineProofs

The assumptions are `FeedAssumption` and `PipelineAssumption`. `NothingSilentlyLost` has
the hypothesis `RoomForAll`, that the queue has room for every camera; with less room
the resync may be lost. `PipelineImplementsAttention` says that every step of the
pipeline is a step of `GateAttention` or changes neither what is due nor what is served.

The invariant is in two parts. `Inv` adds to the types that an answer belongs to a poll
(`Answered`) and what the queue is like (`QueueInv`: no camera twice, at most
`Concurrency` jobs, and at most `MaxPending + Concurrency` cameras queued or
running: a job that goes back to the queue gives up its place among the jobs).
`DeliveryInv` is about the feed: a cursor is never from the future
(`CursorsIssued`), every camera whose state was not examined is queued, in a job, in
the answer that is being worked off, or named by the events after the cursor or by
the reset that the cursor will cause (`Covered`), and an answer on its way covers
what its cursor no longer does (`AnswerCovers`). A step inside the API can only move
a camera along this chain (`Progress`); a publication adds to its end, also when the
deque forgets its oldest event (`PublishNames`). The refinement needs one more
invariant: no state was examined that was not shown yet (`NotAhead`). Then a job
that looks at the current state is `Attend`, one that ends or fails is `Leave`.

### RegistrationProofs

The assumption is `RegistrationAssumption`. `IInv` adds to the types (`JobInv` has what
the job knows at each of its steps):

- `MarkInv`: the job works with the mark of the row until it asks; what it learnt then
  may be missing in the row, when the save failed, but never contradicts it, and a
  plate that is stored or committed as the answer was returned. `ServiceDecides` needs it;
- `CallInv`: an observation without mark was never asked about, but for a call whose
  result is still in the memory of the job (`AskedOnce` alone says nothing of that call);
- `StoryInv`: until the job inserts its movement there is none for its observation that
  the service decided, and once the cooldown was checked no step lets another movement
  of its plate come in between;
- `CreatedAfterCooldown` itself, which is inductive with the last part of `StoryInv`.

The second half is about `RecognitionSpec` and uses `RecognitionAssumption`: readers
return texts of the alphabet, in at least one piece. `Classified` says of the correction
that follows the two patterns position by position that it finds one of the plates
nearest to the word among all that confusions make of it, and that it finds none only if
the word is not legible: what it changes is the number of positions that do not fit
(`Fixed` of one position, `RepairsAre`, `FewestIsNearest`). `Normalised` takes a text piece
by piece and then as a whole, `Meaning` joins the two. `ReadingInv` says that the
candidates of a request are the texts read so far that are plates, so that an answer
without plate means that none was.

### CameraMonitorsProofs

The assumptions are `SchedulerAssumption` and `MonitorsAssumption`. For the scheduler:
`QueueTyped` (no key is in line twice), `SlotsAccounted`, and `LineFair`: each place
that an image moves up pays for one image read before it, so that what overtook it and
its place stay within the limit. For the monitors:

- `Registry`, `LineWatched`: the registered monitor of a camera is its only open one,
  also between the two steps of a replacement, and a camera with an image in line is
  watched, which bounds the line;
- `MonitorHistory`: a monitor's votes are readings since its last failure, and what it
  observes began with a frame it captured;
- `Flight`: an image on its way is its monitor's, newer than the last failure and than
  what is observed, and no camera has one in line and one in the thread.

`ObservationsAreStable` and `ConfirmationsAreRead` are action properties: late images
are what could break them, and `Flight` says what a late image can be.

### RecordsProofs

Of administration, the assumptions are `AdministrationAssumption` and `FirstRowsAssumption`. A request
writes a row after it was checked, with an entity that may be older, and a save brings
back a row that was removed meanwhile. The *versions* of an id are therefore the row now
and the entities that requests hold of it. `IInv` says of versions what the properties
say of rows: they agree on everything but a user's role (`Identity`); the company, unit
and gate they name were given to rows of that company only, and every version of a gate
has the unit of its cameras (`CompaniesBorn`, `Context`); whatever a request may
overwrite belongs to the company of its token (`Scope`). `AdminInv` and `AdminKept` say
that a company keeps its administrator, whose row no request in progress removes or
demotes.

Of evidence, the assumption is `EvidenceAssumption`. `EInv` has the types of tables, job, review and
purge, and:

- `PhotosKept`: the row of an undecided observation, and the entity the job holds of it,
  name a photo only when the file exists;
- `JobAlone`: from its reading to the movement the job is the only one that decides its
  observation, and no review holds that row;
- `MarksKnown`: whoever holds the row of an observation that was marked knows the mark,
  so that no save of a whole entity takes it back;
- `CallsStored`: without failures every call is stored before the next.

`PartsBehave` says that a behaviour of the composition is one of each part; `RecordsTypes`
is then about `RecordsSpec`, the specification that is checked.

### NotificationsProofs

The assumptions are `NotificationsAssumption` and `RowsAssumption`. `IInv` adds to the types
that a dispatch remembers only users whom its event is addressed to, that an edit holds an
entity that keeps to the schema of its type, and that every identifier below the next one
was given to a row. What the code could get wrong is `ReadStaysTrue`: the setting that a
dispatch read before it reads preferences is still that of every recipient whose settings
did not change. `ResolutionObeysLevels` compares the merging of filters, their validation
with its two fallbacks and the rule about overriding with the precedence of the levels
stated for each key: merging what is valid is valid, so that no fallback is ever taken.
`DispatchObeysSettings` joins both. `UnseenStays` goes over the steps that touch a row; the
readers that save a stale entity only ever write that it was read.

### Only model-checked

Liveness, which is out of the prover's reach with `ENABLED`: `EveryRequestEnds`, the fair
part of `EveryStateAttended`, `ToldInTheEnd`, `PathsFollow` and `MonitorsFollow` (all that
is said of CameraSync). That the bounds of a run let each case happen is TLC's as well:
the mutant of a property breaks it within them. No module with proofs uses recursive
operators.

## 5. Plan

Open, in this order:

1. that the publications of `CameraMonitors` are the events of `EventPipeline`, as a
   refinement;
2. a safety invariant for `CameraSync` between two repairs: which path of which camera
   may be wrong, and since which failure.

## 6. Not modelled

- Images: what detector and readers make of pixels, boxes, contrast, the scene
  filter beyond its bounds. The models let them see anything.
- Wording and formats: titles, CSV, pagination, addresses of vendors, codes of
  vehicles (a sequence with a unique key, which no other part reads), costs in a
  currency.
- The size of the connection pool, which the repository leaves to the driver: a
  transaction that needs a second connection (`movement-auto.service.ts:66`) may
  wait for others that do as well.
- Input and output: the object store beyond saving, loading and removing, the
  snapshot proxy, streams, filters of errors, password hashes, the start of the
  process, `migrate-evidence.mjs`, which runs once.
