------------------------------ MODULE CameraSync ------------------------------
(***************************************************************************)
(* The cameras of the database and the two services that must follow them: *)
(* MediaMTX, which has a path for each camera (CameraService and           *)
(* MediaMTXService), and the ANPR service, which has a monitor for each    *)
(* camera of an active point and unit (MonitoringSyncService).  Requests   *)
(* change a path next to the row; timers compare names and make up for     *)
(* what failed, with what they read at their start.                        *)
(***************************************************************************)
EXTENDS Integers, FiniteSets, Functions

CONSTANTS
    Cameras,        \* ids of cameras; an id is never used again
    Existing,       \* cameras that are there when the process starts; others may be
    Handlers,       \* requests that may be handled at once
    Passes,         \* passes over all paths that may run at once
    Vendor,         \* [Cameras -> Family]: the make of the device
    Hinted,         \* cameras whose snapshot URL tells the make
    MaxMonitors,    \* settings.max_monitors of the ANPR service
    MaxRequests,    \* bound: requests that change something
    MaxFaults,      \* bound: failed calls, restarts, crashes
    None

Family == {"hikvision", "dahua"}

Workers == Handlers \cup Passes

ASSUME CameraAssumption ==
    /\ Vendor \in [Cameras -> Family] /\ Hinted \subseteq Cameras /\ Existing \subseteq Cameras
    /\ MaxMonitors \in Nat /\ MaxRequests \in Nat /\ MaxFaults \in Nat

VARIABLES
    rows,        \* the table: [some cameras -> revision of their fields]
    fresh,       \* ids that no camera has had
    active,      \* cameras whose point and unit are active
    paths,       \* MediaMTX: [some cameras -> source]
    monitors,    \* ANPR service: [some cameras -> revision]
    registered,  \* the set of MonitoringSyncService
    work,        \* [Workers -> Job]
    sync,        \* the one pass of MonitoringSyncService
    phase,       \* of the process: "starting", "up", "stopped"
    requests, faults

tables == <<rows, fresh, active>>
vars == <<tables, paths, monitors, registered, work, sync, phase, requests, faults>>

\* Name, address, credentials and snapshot URL; unit and point never change.
Revision == 0 .. MaxRequests
Source == [rev: Revision, family: Family]

Idle == [op |-> "none", step |-> "idle", camera |-> None, todo |-> <<>>, gone |-> {}]
Asleep == [step |-> "idle", todo |-> <<>>, desired |-> {}, gone |-> {}]

Empty == [c \in {} |-> 0]
Without(f, c) == Restrict(f, DOMAIN f \ {c})
With(f, c, v) == [d \in DOMAIN f \cup {c} |-> IF d = c THEN v ELSE f[d]]

Fault == faults < MaxFaults /\ faults' = faults + 1
Request == phase = "up" /\ requests < MaxRequests /\ requests' = requests + 1

\* A worker of this operation goes on; at shutdown the pass of the start ends.
At(w, step) == work[w].step = step /\ ~(phase = "stopped" /\ work[w].op = "boot")
Do(w, job) == work' = [work EXCEPT ![w] = job]

-----------------------------------------------------------------------------
(* MediaMTX: one HTTP call per action, which may fail.                     *)

\* Probing: a device answers under the endpoint of its make, or times out.
DetectFamily(c, answers) == IF answers /\ Vendor[c] = "dahua" THEN "dahua" ELSE "hikvision"

\* buildRtspSource: the snapshot URL decides, otherwise the device is probed,
\* and one that does not answer in time is taken for the other make.
Sends(c, rev) ==
    \/ paths' = With(paths, c, [rev |-> rev, family |-> IF c \in Hinted THEN Vendor[c] ELSE DetectFamily(c, TRUE)])
       /\ UNCHANGED faults
    \/ /\ c \notin Hinted /\ Fault
       /\ paths' = With(paths, c, [rev |-> rev, family |-> DetectFamily(c, FALSE)])

\* This camera is dealt with; a failure was told (stream_failed).
Added(w, c) == [work[w] EXCEPT !.step = "adds", !.camera = None, !.todo = Without(@, c)]

\* A path with this name is not replaced but refused.
AddPath(w) ==
    /\ At(w, "adds")
    /\ \E c \in DOMAIN work[w].todo :
          \/ c \notin DOMAIN paths /\ Sends(c, work[w].todo[c]) /\ Do(w, Added(w, c))
          \/ /\ c \in DOMAIN paths
             /\ Do(w, [work[w] EXCEPT !.step = "recreate", !.camera = c])
             /\ UNCHANGED <<paths, faults>>
          \/ Fault /\ Do(w, Added(w, c)) /\ UNCHANGED paths
    /\ UNCHANGED <<tables, monitors, registered, sync, phase, requests>>

\* removePath: an unknown path is no error, a failure is logged.
Deleted(c) ==
    \/ paths' = Without(paths, c) /\ UNCHANGED faults
    \/ Fault /\ UNCHANGED paths

Recreate(w) ==
    /\ At(w, "recreate")
    /\ Deleted(work[w].camera)
    /\ Do(w, [work[w] EXCEPT !.step = "again"])
    /\ UNCHANGED <<tables, monitors, registered, sync, phase, requests>>

\* The second attempt is the last one.
AddPathAgain(w) ==
    /\ At(w, "again")
    /\ LET c == work[w].camera
       IN /\ Do(w, Added(w, c))
          /\ \/ c \notin DOMAIN paths /\ Sends(c, work[w].todo[c])
             \/ c \in DOMAIN paths /\ UNCHANGED <<paths, faults>>
             \/ Fault /\ UNCHANGED paths
    /\ UNCHANGED <<tables, monitors, registered, sync, phase, requests>>

-----------------------------------------------------------------------------
(* CameraService: requests.                                                *)

Start(w, op, step, c, todo) ==
    /\ work[w] = Idle
    /\ Do(w, [Idle EXCEPT !.op = op, !.step = step, !.camera = c, !.todo = todo])

\* create: the row is saved, then its path is added.
Create(w, c) ==
    /\ Request
    /\ c \in fresh
    /\ fresh' = fresh \ {c}
    /\ rows' = With(rows, c, requests')
    /\ Start(w, "create", "adds", None, [d \in {c} |-> requests'])
    /\ UNCHANGED <<active, paths, monitors, registered, sync, phase, faults>>

\* findOneRaw: what update and remove work with from here on.
Load(w, op, c) ==
    /\ Request
    /\ c \in DOMAIN rows
    /\ Start(w, op, IF op = "update" THEN "save" ELSE "drop", c, <<>>)
    /\ UNCHANGED <<tables, paths, monitors, registered, sync, phase, faults>>

\* The entity is saved: a row that was removed meanwhile is inserted again.
UpdateSave(w) ==
    /\ At(w, "save")
    /\ rows' = With(rows, work[w].camera, requests)
    /\ Do(w, [work[w] EXCEPT !.step = "drop", !.todo = [d \in {work[w].camera} |-> requests]])
    /\ UNCHANGED <<fresh, active, paths, monitors, registered, sync, phase, requests, faults>>

\* update goes on with the new path, remove with the row.
Drop(w) ==
    /\ At(w, "drop")
    /\ Deleted(work[w].camera)
    /\ Do(w, [work[w] EXCEPT !.step = IF work[w].op = "update" THEN "adds" ELSE "erase"])
    /\ UNCHANGED <<tables, monitors, registered, sync, phase, requests>>

\* Rows that refer to the camera refuse its removal; its path is gone by then.
Erase(w) ==
    /\ At(w, "erase")
    /\ Do(w, Idle)
    /\ \/ rows' = Without(rows, work[w].camera) /\ UNCHANGED faults
       \/ Fault /\ UNCHANGED rows
    /\ UNCHANGED <<fresh, active, paths, monitors, registered, sync, phase, requests>>

\* findAll and findOne (ensurePaths): the cameras of the company, or one.
Read(w) ==
    /\ phase = "up"
    /\ \E S \in {DOMAIN rows} \cup {{c} : c \in DOMAIN rows} :
          S # {} /\ Start(w, "read", "list", None, Restrict(rows, S))
    /\ UNCHANGED <<tables, paths, monitors, registered, sync, phase, requests, faults>>

-----------------------------------------------------------------------------
(* The passes over all paths, every 30 seconds (op "pass") and once at the  *)
(* start of MonitoringSyncService (op "boot").  Nothing keeps two from      *)
(* running at once.                                                         *)

PassFind(w) ==
    /\ phase # "stopped"
    /\ Start(w, "pass", "list", None, rows)
    /\ UNCHANGED <<tables, paths, monitors, registered, sync, phase, requests, faults>>

BootFind(w) ==
    /\ phase = "starting" /\ phase' = "up"
    /\ Start(w, "boot", "list", None, rows)
    /\ UNCHANGED <<tables, paths, monitors, registered, sync, requests, faults>>

\* Mutant: paths of removed cameras stay.
OrphansKept(w, names) == {}

\* Paths that none of the cameras read at the start has.
Orphans(w, names) == IF work[w].op = "read" THEN {} ELSE names \ DOMAIN work[w].todo

\* listPaths: a failure looks like no path at all.
ListPaths(w) ==
    /\ At(w, "list")
    /\ \E names \in {DOMAIN paths, {}} :
          /\ IF names = DOMAIN paths THEN UNCHANGED faults ELSE Fault
          /\ Do(w, [work[w] EXCEPT !.step = "adds",
                                   !.todo = Restrict(@, DOMAIN @ \ names),
                                   !.gone = Orphans(w, names)])
    /\ UNCHANGED <<tables, paths, monitors, registered, sync, phase, requests>>

DropOrphan(w) ==
    /\ At(w, "adds") /\ DOMAIN work[w].todo = {}
    /\ \E c \in work[w].gone :
          Deleted(c) /\ Do(w, [work[w] EXCEPT !.gone = @ \ {c}])
    /\ UNCHANGED <<tables, monitors, registered, sync, phase, requests>>

Done(w) ==
    /\ \/ work[w].step = "adds" /\ DOMAIN work[w].todo = {} /\ work[w].gone = {}
       \/ work[w].op = "boot" /\ phase = "stopped"
    /\ Do(w, Idle)
    /\ UNCHANGED <<tables, paths, monitors, registered, sync, phase, requests, faults>>

-----------------------------------------------------------------------------
(* MonitoringSyncService: one pass at a time, every 5 seconds.             *)

\* reconcile shares the pass that runs.
SyncFind ==
    /\ phase = "up" /\ sync = Asleep
    /\ sync' = [Asleep EXCEPT !.step = "cameras", !.todo = rows]
    /\ UNCHANGED <<tables, paths, monitors, registered, work, phase, requests, faults>>

\* The next camera without a valid context (validContext).
SyncSkip ==
    /\ phase = "up" /\ sync.step = "cameras"
    /\ \E c \in DOMAIN sync.todo \ active : sync' = [sync EXCEPT !.todo = Without(@, c)]
    /\ UNCHANGED <<tables, paths, monitors, registered, work, phase, requests, faults>>

\* MonitorManager.upsert: a camera it has, or room for another one.
Accepts(c) == c \in DOMAIN monitors \/ Cardinality(DOMAIN monitors) < MaxMonitors

\* PUT /monitors/:id; a refusal or a failure is told and the pass goes on.
SyncUpsert ==
    /\ phase = "up" /\ sync.step = "cameras"
    /\ \E c \in DOMAIN sync.todo \cap active :
          /\ sync' = [sync EXCEPT !.todo = Without(@, c), !.desired = @ \cup {c}]
          /\ \/ /\ Accepts(c)
                /\ monitors' = With(monitors, c, sync.todo[c])
                /\ registered' = registered \cup {c}
                /\ UNCHANGED faults
             \/ ~Accepts(c) /\ UNCHANGED <<monitors, registered, faults>>
             \* The call fails, or it is carried out and its answer is lost.
             \/ Fault /\ UNCHANGED <<monitors, registered>>
             \/ /\ Fault /\ Accepts(c)
                /\ monitors' = With(monitors, c, sync.todo[c])
                /\ UNCHANGED registered
    /\ UNCHANGED <<tables, paths, work, phase, requests>>

\* Mutant: only what this process registered.
LeftoversRegistered == registered \ sync.desired

\* Monitors of a former process count as well.
Leftovers == (DOMAIN monitors \cup registered) \ sync.desired

SyncList ==
    /\ sync.step = "cameras" /\ DOMAIN sync.todo = {}
    /\ sync' = [Asleep EXCEPT !.step = "leftovers", !.gone = Leftovers]
    /\ UNCHANGED <<tables, paths, monitors, registered, work, phase, requests, faults>>

\* DELETE /monitors/:id; an unknown monitor is no error.
SyncDelete ==
    /\ phase = "up" /\ sync.step = "leftovers"
    /\ \E c \in sync.gone :
          /\ monitors' = Without(monitors, c)
          /\ registered' = registered \ {c}
          /\ sync' = [sync EXCEPT !.gone = @ \ {c}]
    /\ UNCHANGED <<tables, paths, work, phase, requests, faults>>

\* The pass is over, or the service stops between two cameras.
SyncEnd ==
    /\ \/ sync.step = "leftovers" /\ sync.gone = {}
       \/ phase = "stopped" /\ sync.step \in {"cameras", "leftovers"}
    /\ sync' = Asleep
    /\ UNCHANGED <<tables, paths, monitors, registered, work, phase, requests, faults>>

\* A query, the list or a removal fails: told, and tried again in 5 seconds.
SyncFail ==
    /\ sync.step \in {"cameras", "leftovers"} /\ Fault
    /\ sync' = Asleep
    /\ UNCHANGED <<tables, paths, monitors, registered, work, phase, requests>>

-----------------------------------------------------------------------------
(* Around the cameras.                                                     *)

\* A point or a unit is activated or deactivated.
SetActive(c) ==
    /\ Request
    /\ active' = IF c \in active THEN active \ {c} ELSE active \cup {c}
    /\ UNCHANGED <<rows, fresh, paths, monitors, registered, work, sync, phase, faults>>

\* Paths added over the API are not in the configuration file of MediaMTX.
MediaRestart ==
    /\ Fault /\ paths' = Empty
    /\ UNCHANGED <<tables, monitors, registered, work, sync, phase, requests>>

AnprRestart ==
    /\ Fault /\ monitors' = Empty
    /\ UNCHANGED <<tables, paths, registered, work, sync, phase, requests>>

\* destroy
Stop ==
    /\ phase = "up" /\ Fault
    /\ phase' = "stopped"
    /\ UNCHANGED <<tables, paths, monitors, registered, work, sync, requests>>

\* The next process, after a shutdown or a crash.
Boot ==
    /\ \/ phase = "stopped" /\ sync = Asleep /\ UNCHANGED faults
       \/ Fault
    /\ registered' = {} /\ sync' = Asleep /\ phase' = "starting"
    /\ work' = [w \in Workers |-> Idle]
    /\ UNCHANGED <<tables, paths, monitors, requests>>

-----------------------------------------------------------------------------

Init ==
    /\ fresh \in SUBSET (Cameras \ Existing) /\ rows = [c \in Cameras \ fresh |-> 0]
    /\ active = Cameras
    /\ paths = Empty /\ monitors = Empty
    /\ registered = {}
    /\ work = [w \in Workers |-> Idle] /\ sync = Asleep
    /\ phase = "starting" /\ requests = 0 /\ faults = 0

Step(w) ==
    \/ AddPath(w) \/ Recreate(w) \/ AddPathAgain(w)
    \/ UpdateSave(w) \/ Drop(w) \/ Erase(w)
    \/ ListPaths(w) \/ DropOrphan(w) \/ Done(w)

Sync == SyncFind \/ SyncSkip \/ SyncUpsert \/ SyncList \/ SyncDelete \/ SyncEnd

Next ==
    \/ \E w \in Workers : Step(w)
    \/ \E w \in Handlers :
          \/ Read(w)
          \/ \E c \in Cameras : Create(w, c) \/ \E op \in {"update", "remove"} : Load(w, op, c)
    \/ \E w \in Passes : PassFind(w) \/ BootFind(w)
    \/ Sync \/ SyncFail
    \/ \E c \in Cameras : SetActive(c)
    \/ MediaRestart \/ AnprRestart \/ Stop \/ Boot

Spec == Init /\ [][Next]_vars

\* Calls end, both timers go on, and a process that stopped is started again.
\* Earlier passes may still run when a timer fires (strong).
Fairness ==
    /\ \A w \in Workers : WF_vars(Step(w))
    /\ SF_vars(\E w \in Passes : PassFind(w)) /\ SF_vars(\E w \in Passes : BootFind(w))
    /\ WF_vars(Sync) /\ WF_vars(phase = "stopped" /\ Boot)

FairSpec == Spec /\ Fairness

-----------------------------------------------------------------------------
(* Properties.                                                             *)

\* Whatever failed and whoever ran meanwhile, a camera without a path gets one
\* and a path without a camera goes.
PathsFollow ==
    \A c \in Cameras : ((c \in DOMAIN rows) # (c \in DOMAIN paths)) ~> ((c \in DOMAIN rows) = (c \in DOMAIN paths))

Wanted == Restrict(rows, DOMAIN rows \cap active)

\* When the changes are over and the limit allows it, exactly the cameras of
\* active points and units are monitored, as they are configured.
MonitorsFollow ==
    <>[](Cardinality(DOMAIN Wanted) <= MaxMonitors => monitors = Wanted)
=============================================================================
