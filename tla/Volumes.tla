------------------------------- MODULE Volumes -------------------------------
(***************************************************************************)
(* Volumes on one worker: their rows (db/volume.go, db/volume_factory.go), *)
(* what baggageclaim holds, the steps that make them (worker/              *)
(* volume_client.go, resource/fetcher.go, resource_instance_fetch_source.go*)
(* and worker/container_provider.go), and the collector (gc/               *)
(* volumecollector.go).                                                    *)
(*                                                                         *)
(* A build of a "get" job fetches a version into a volume of its get       *)
(* container, makes that volume the cache of the version on this worker,   *)
(* and mounts a copy-on-write child of it into the container of its task.  *)
(* A build of a "task" job mounts a child of the volume the last build     *)
(* left as the task's cache, and leaves a new one.  The builds run         *)
(* concurrently, may be taken over by another ATC at any step, and end     *)
(* under the feet of a process that has not noticed.                       *)
(*                                                                         *)
(* Row ids (and handles) are 1, 2, ... in the order of insertion.          *)
(***************************************************************************)
EXTENDS ResourceCaches, FiniteSetsExt

CONSTANTS
    Target,     \* [Build -> Cache]: the version each build gets
    MaxVolumes  \* bound on the volume rows inserted

ASSUME VolumesAssumption == Target \in [Build -> Cache]

VARIABLES
    kind,       \* what the builds' job does: "get" or "task"
    running,    \* builds that are not finished (or still interceptible)
    container,  \* rows of containers, [Build -> [Step -> state]]
    volume,     \* rows of volumes, [id -> record]
    nextId,     \* the sequence of ids
    wrc,        \* caches with a row in worker_resource_caches
    bc,         \* volumes in baggageclaim
    lock,       \* [Cache -> holder of the lock on fetching it]
    pc,         \* where the process of a build is
    cur,        \* the volume it is making, or made
    parent,     \* the volume it found to make a child of
    src,        \* the volume its get step returned
    stale,      \* builds whose in-memory cache id no longer exists
    orphans,    \* created volumes the collector read and has not marked yet
    jobs,       \* destroying volumes handed to the workers of the collector
    lost,       \* volumes baggageclaim made though the call failed
    excused     \* volumes that lost their cache to a change of the worker, or
                \* became a cache after their own build had ended

rowVars == <<running, container, volume, nextId, wrc>>
procVars == <<lock, pc, cur, parent, src>>
gcVars == <<orphans, jobs>>
ghosts == <<lost, excused>>
vars == <<cacheVars, kind, rowVars, bc, procVars, stale, gcVars, ghosts>>

None == 0
Step == {"get", "task"}
VolumeId == 1 .. MaxVolumes
Owner == Build \X Step
NoOwner == <<"none", "none">>

PC == {"use", "find", "lock", "recheck", "row", "make", "mark", "run", "init",
       "input", "child", "register", "swap", "done", "failed"}

\* Every variable has its type; the rows for caches on the worker refer to
\* caches, and a volume's cache to such a row.
TypeOK ==
    /\ CachesTypeOK
    /\ kind \in {"get", "task"}
    /\ running \subseteq Build
    /\ container \in [Build -> [Step -> {"none", "creating", "created", "destroying", "failed"}]]
    /\ DOMAIN volume \subseteq VolumeId
    /\ \A v \in DOMAIN volume :
          volume[v] \in [state : {"creating", "created", "destroying", "failed"},
                         owner : Owner \cup {NoOwner},
                         cache : SUBSET wrc,
                         task : BOOLEAN,
                         team : BOOLEAN,
                         parent : VolumeId \cup {None}]
    /\ nextId \in 1 .. MaxVolumes + 1
    /\ wrc \subseteq cache
    /\ bc \subseteq VolumeId
    /\ lock \in [Cache -> SUBSET Build]
    /\ pc \in [Build -> PC]
    /\ {cur, parent, src} \subseteq [Build -> VolumeId \cup {None}]
    /\ stale \subseteq Build
    /\ orphans \subseteq VolumeId
    /\ jobs \subseteq VolumeId
    /\ lost \subseteq VolumeId
    /\ excused \subseteq VolumeId

FirstPC == IF kind = "get" THEN "use" ELSE "input"

Init ==
    /\ CachesInit
    /\ kind \in {"get", "task"}
    /\ running = Build
    /\ container = [b \in Build |-> [s \in Step |-> "none"]]
    /\ volume = << >>
    /\ nextId = 1
    /\ wrc = {}
    /\ bc = {}
    /\ lock = [c \in Cache |-> {}]
    /\ pc = [b \in Build |-> FirstPC]
    /\ cur = [b \in Build |-> None]
    /\ parent = [b \in Build |-> None]
    /\ src = [b \in Build |-> None]
    /\ stale = {}
    /\ orphans = {}
    /\ jobs = {}
    /\ lost = {}
    /\ excused = {}

-----------------------------------------------------------------------------
\* Rows of volumes.

Volumes == DOMAIN volume

Row(owner, task, team, p) ==
    [state |-> "creating", owner |-> owner, cache |-> {}, task |-> task,
     team |-> team, parent |-> p]

\* createVolume and CreateChildForContainer: a new row in state creating.
InsertVolume(r) ==
    /\ nextId <= MaxVolumes
    /\ volume' = [v \in Volumes \cup {nextId} |-> IF v = nextId THEN r ELSE volume[v]]
    /\ nextId' = nextId + 1

\* The update of volumeStateTransition finds the row in one of the two states.
CanMove(v, from, to) == v \in Volumes /\ volume[v].state \in {from, to}

SetState(v, s) == volume' = [volume EXCEPT ![v].state = s]

\* Rows whose (parent_id, parent_state) refers to v in state created.
Children(v) == {w \in Volumes : volume[w].parent = v}

DeleteVolume(v) == volume' = [w \in Volumes \ {v} |-> volume[w]]

\* The last owner of a volume that is still being created may not go:
\* cannot_invalidate_during_initialization.
Initializing(o) ==
    \E v \in Volumes : /\ volume[v].state = "creating"
                       /\ volume[v].owner = o
                       /\ ~volume[v].task
                       /\ volume[v].cache = {}

\* FindVolumeForResourceCache: the created volume of the cache on this worker,
\* if baggageclaim has it too.
CacheVolume(b, c) ==
    IF b \in stale THEN {}
    ELSE {v \in Volumes : c \in volume[v].cache /\ volume[v].state = "created" /\ v \in bc}

\* FindContainerVolume: a row for the mount of this container that has a team;
\* which one, when there are several, is left to the database.  Each step of
\* the model mounts one volume.
ContainerVolumes(o) == {v \in Volumes : volume[v].owner = o /\ volume[v].team}

-----------------------------------------------------------------------------
\* The get step of a build.

Goto(b, l) == pc' = [pc EXCEPT ![b] = l]

Unlock(b) == lock' = [c \in Cache |-> lock[c] \ {b}]

\* GetAction.Run: the cache of the version, used by the build.
UseCache(b) ==
    /\ pc[b] = "use"
    /\ FindOrCreateResourceCache(b, Target[b])
    /\ stale' = stale \ {b}
    /\ Goto(b, "find")
    /\ UNCHANGED <<kind, rowVars, bc, lock, cur, parent, src, gcVars, ghosts>>

\* fetchWithLock, before the lock.
FindCached(b) ==
    /\ pc[b] = "find"
    /\ \/ \E v \in CacheVolume(b, Target[b]) :
             /\ src' = [src EXCEPT ![b] = v]
             /\ Goto(b, "input")
       \/ /\ CacheVolume(b, Target[b]) = {}
          /\ Goto(b, "lock")
          /\ UNCHANGED src
    /\ UNCHANGED <<cacheVars, kind, rowVars, bc, lock, cur, parent, stale, gcVars, ghosts>>

\* The lock on type, version, source, params and worker; tried again, with the
\* lookup before it, at every tick.
LockFetch(b) ==
    /\ pc[b] = "lock"
    /\ IF lock[Target[b]] = {}
       THEN /\ lock' = [lock EXCEPT ![Target[b]] = {b}]
            /\ Goto(b, "recheck")
       ELSE /\ Goto(b, "find")
            /\ UNCHANGED lock
    /\ UNCHANGED <<cacheVars, kind, rowVars, bc, cur, parent, src, stale, gcVars, ghosts>>

\* Mutant: no second lookup.
RecheckSkipped(b) ==
    /\ pc[b] = "recheck"
    /\ Goto(b, "row")
    /\ UNCHANGED <<cacheVars, kind, rowVars, bc, lock, cur, parent, src, stale, gcVars, ghosts>>

\* resourceInstanceFetchSource.Create looks again, under the lock.
Recheck(b) ==
    /\ pc[b] = "recheck"
    /\ \/ \E v \in CacheVolume(b, Target[b]) :
             /\ src' = [src EXCEPT ![b] = v]
             /\ Unlock(b)
             /\ Goto(b, "input")
       \/ /\ CacheVolume(b, Target[b]) = {}
          /\ Goto(b, "row")
          /\ UNCHANGED <<src, lock>>
    /\ UNCHANGED <<cacheVars, kind, rowVars, bc, cur, parent, stale, gcVars, ghosts>>

\* The step ends in an error, at any of its calls; the deferred release gives
\* the lock back.
Fail(b) ==
    /\ Goto(b, "failed")
    /\ Unlock(b)
    /\ UNCHANGED <<cur, parent, src>>

\* The step whose container the process of b is creating.
StepOf(b) == IF kind = "get" /\ src[b] = None THEN "get" ELSE "task"

\* An error between the container's row and the container marks the row.
FailContainer(b) ==
    /\ Fail(b)
    /\ container' = IF container[b][StepOf(b)] = "creating"
                    THEN [container EXCEPT ![b][StepOf(b)] = "failed"]
                    ELSE container

\* FindOrCreateContainer, as far as volumes are concerned, finds a creating row
\* or inserts one.  (The rows of a step whose process went on after its build
\* had ended are left to Containers.)
Creatable(b) == container[b][StepOf(b)] \in {"none", "creating"}

Doomed(b) == container[b][StepOf(b)] \in {"destroying", "failed"}

CreatingContainer(b) == container' = [container EXCEPT ![b][StepOf(b)] = "creating"]

\* findOrCreateVolume up to the lock on creating it: the row found, or one
\* inserted.  Inserting a child refers to its parent in state created, and
\* fails when it is not.
VolumeRow(b, p) ==
    LET o == <<b, StepOf(b)>>
        Found(v) == volume[v].state \in {"creating", "created"}
    IN  \/ \E v \in ContainerVolumes(o) :
             /\ Found(v)
             /\ IF volume[v].state = "created" /\ v \notin bc
                THEN FailContainer(b)
                ELSE /\ CreatingContainer(b)
                     /\ cur' = [cur EXCEPT ![b] = v]
                     /\ Goto(b, IF volume[v].state = "created" THEN "run" ELSE "make")
                     /\ UNCHANGED <<lock, parent, src>>
             /\ UNCHANGED <<volume, nextId>>
        \/ /\ \/ ContainerVolumes(o) = {}
              \/ \E v \in ContainerVolumes(o) : ~Found(v)
           /\ IF p = None \/ CanMove(p, "created", "created")
              THEN /\ CreatingContainer(b)
                   /\ InsertVolume(Row(o, FALSE, p = None \/ volume[p].team, p))
                   /\ cur' = [cur EXCEPT ![b] = nextId]
                   /\ Goto(b, "make")
                   /\ UNCHANGED <<lock, parent, src>>
              ELSE /\ Fail(b)
                   /\ container' = [container EXCEPT ![b][StepOf(b)] = "failed"]
                   /\ UNCHANGED <<volume, nextId>>

\* The volume a created container of b's step has mounted.
Mounted(b) == {v \in Volumes : volume[v].owner = <<b, StepOf(b)>> /\ volume[v].state = "created"}

\* The get container: its row, then the row of the volume it fetches into.  A
\* container that an earlier run of the step left created is used as it is.
GetContainer(b) ==
    /\ pc[b] = "row"
    /\ \/ /\ Creatable(b)
          /\ VolumeRow(b, None)
       \/ /\ container[b]["get"] = "created"
          /\ \E v \in Mounted(b) : cur' = [cur EXCEPT ![b] = v]
          /\ Goto(b, "run")
          /\ UNCHANGED <<container, volume, nextId, lock, parent, src>>
       \/ /\ Doomed(b)
          /\ Fail(b)
          /\ UNCHANGED <<container, volume, nextId>>
    /\ UNCHANGED <<cacheVars, kind, running, wrc, bc, stale, gcVars, ghosts>>

\* Under the lock on creating the volume: looked up in baggageclaim, created
\* there when it is missing.
MakeVolume(b) ==
    /\ pc[b] = "make"
    /\ LET p == volume[cur[b]].parent
       IN  IF cur[b] \in bc \/ p = None \/ p \in bc
           THEN /\ bc' = bc \cup {cur[b]}
                /\ Goto(b, "mark")
                /\ UNCHANGED <<container, volume, lock, cur, parent, src>>
           ELSE /\ SetState(cur[b], "failed")
                /\ FailContainer(b)
                /\ UNCHANGED bc
    /\ UNCHANGED <<cacheVars, kind, running, nextId, wrc, stale, gcVars, ghosts>>

\* The lookup fails, and the row stays as it is; or the creation does, whether
\* or not baggageclaim made the volume, and the row is marked failed.
MakeFails(b) ==
    /\ pc[b] = "make"
    /\ Event
    /\ \/ UNCHANGED <<volume, bc, lost>>
       \/ /\ cur[b] \notin bc
          /\ SetState(cur[b], "failed")
          /\ \E made \in {{}, {cur[b]}} :
                /\ bc' = bc \cup made
                /\ lost' = lost \cup made
    /\ FailContainer(b)
    /\ UNCHANGED <<cacheRows, kind, running, nextId, wrc, stale, gcVars, excused>>

\* creatingVolume.Created.
MarkVolume(b) ==
    /\ pc[b] = "mark"
    /\ IF CanMove(cur[b], "creating", "created")
       THEN /\ SetState(cur[b], "created")
            /\ Goto(b, IF volume[cur[b]].owner = NoOwner THEN "swap" ELSE "run")
            /\ UNCHANGED <<container, lock, cur, parent, src>>
       ELSE /\ FailContainer(b)
            /\ UNCHANGED volume
    /\ UNCHANGED <<cacheVars, kind, running, nextId, wrc, bc, stale, gcVars, ghosts>>

\* The container is created around its volume (an input that is not on the
\* worker is streamed into it first) and runs.
RunContainer(b) ==
    /\ pc[b] = "run"
    /\ LET s == StepOf(b)
           streamed == s = "task" /\ kind = "get" /\ parent[b] = None
       IN  IF \/ container[b][s] \notin {"creating", "created"}
              \/ streamed /\ src[b] \notin bc
           THEN FailContainer(b)
           ELSE /\ container' = [container EXCEPT ![b][s] = "created"]
                /\ Goto(b, CASE s = "get" -> "init"
                             [] s = "task" /\ kind = "get" -> "done"
                             [] s = "task" /\ kind = "task" -> "register")
                /\ UNCHANGED <<lock, cur, parent, src>>
    /\ UNCHANGED <<cacheVars, kind, running, volume, nextId, wrc, bc, stale, gcVars, ghosts>>

\* Garden refuses, or the script fails in the container.
RunFails(b) ==
    /\ pc[b] = "run"
    /\ Event
    /\ \/ FailContainer(b)
       \/ /\ ~Doomed(b)
          /\ Fail(b)
          /\ container' = [container EXCEPT ![b][StepOf(b)] = "created"]
    /\ UNCHANGED <<cacheRows, kind, running, volume, nextId, wrc, bc, stale, gcVars, lost, excused>>

\* InitializeResourceCache: the row for the cache on this worker, then the
\* volume becomes its volume, unless another one is (the index is unique), in
\* which case it stays its container's.  The row may be in any state, or gone.
InitializeResourceCache(b) ==
    /\ pc[b] = "init"
    /\ LET c == Target[b]
           taken == \E v \in Volumes : c \in volume[v].cache
       IN  IF b \in stale
           THEN /\ Fail(b)
                /\ UNCHANGED <<volume, wrc>>
           ELSE /\ wrc' = wrc \cup {c}
                /\ IF taken \/ cur[b] \notin Volumes
                   THEN UNCHANGED volume
                   ELSE volume' = [volume EXCEPT ![cur[b]].cache = {c}, ![cur[b]].team = FALSE]
                /\ IF ~taken /\ cur[b] \notin Volumes
                   THEN Fail(b)
                   ELSE /\ src' = [src EXCEPT ![b] = cur[b]]
                        /\ cur' = [cur EXCEPT ![b] = None]
                        /\ Unlock(b)
                        /\ Goto(b, "input")
                        /\ UNCHANGED parent
    /\ excused' = IF b \in running THEN excused ELSE excused \cup {cur[b]}
    /\ UNCHANGED <<cacheVars, kind, running, container, nextId, bc, stale, gcVars, lost>>

-----------------------------------------------------------------------------
\* The task step of a build.

\* VolumeOn: the volume of the build's input, or of the task's cache, on this
\* worker, to be mounted as a child.
FindInput(b) ==
    LET TaskCacheRows == {v \in Volumes : volume[v].task}
        Usable == {v \in TaskCacheRows : volume[v].state = "created" /\ v \in bc}
    IN  /\ pc[b] = "input"
        /\ \/ /\ Creatable(b)
              /\ \/ /\ kind = "get"
                    /\ parent' = [parent EXCEPT ![b] =
                          IF CacheVolume(b, Target[b]) = {} THEN None
                          ELSE CHOOSE v \in CacheVolume(b, Target[b]) : TRUE]
                 \/ /\ kind = "task"
                    /\ \/ \E v \in Usable : parent' = [parent EXCEPT ![b] = v]
                       \/ /\ TaskCacheRows = {} \/ TaskCacheRows # Usable
                          /\ parent' = [parent EXCEPT ![b] = None]
              /\ Goto(b, "child")
              /\ UNCHANGED <<cur, lock, src>>
           \/ /\ container[b]["task"] = "created"
              /\ \E v \in Mounted(b) : cur' = [cur EXCEPT ![b] = v]
              /\ Goto(b, IF kind = "get" THEN "done" ELSE "register")
              /\ UNCHANGED <<parent, lock, src>>
           \/ /\ Doomed(b)
              /\ Fail(b)
        /\ UNCHANGED <<cacheVars, kind, rowVars, bc, stale, gcVars, ghosts>>

TaskContainer(b) ==
    /\ pc[b] = "child"
    /\ Creatable(b)
    /\ VolumeRow(b, parent[b])
    /\ UNCHANGED <<cacheVars, kind, running, wrc, bc, stale, gcVars, ghosts>>

\* registerOutputs, for the cache of a task that ran: the mounted volume
\* becomes the cache, or a copy of it when it has a parent itself.
RegisterTaskCache(b) ==
    /\ pc[b] = "register"
    /\ IF cur[b] \in Volumes /\ volume[cur[b]].parent # None
       THEN /\ InsertVolume(Row(NoOwner, TRUE, TRUE, None))
            /\ cur' = [cur EXCEPT ![b] = nextId]
            /\ Goto(b, "make")
       ELSE /\ Goto(b, "swap")
            /\ UNCHANGED <<volume, nextId, cur>>
    /\ UNCHANGED <<cacheVars, kind, running, container, wrc, bc, lock, parent, src, stale, gcVars, ghosts>>

\* InitializeTaskCache: in one transaction the other volumes of the cache are
\* released and this one is set.  Releasing a volume that is still being
\* created violates cannot_invalidate_during_initialization.
InitializeTaskCache(b) ==
    /\ pc[b] = "swap"
    /\ LET creating == \E v \in Volumes : /\ volume[v].state = "creating"
                                          /\ volume[v].task
                                          /\ volume[v].owner = NoOwner
       IN  IF creating \/ cur[b] \notin Volumes
           THEN /\ Fail(b)
                /\ UNCHANGED volume
           ELSE /\ volume' = [v \in Volumes |-> [volume[v] EXCEPT !.task = (v = cur[b])]]
                /\ Goto(b, "done")
                /\ UNCHANGED <<lock, cur, parent, src>>
    /\ UNCHANGED <<cacheVars, kind, running, container, nextId, wrc, bc, stale, gcVars, ghosts>>

-----------------------------------------------------------------------------
\* Builds end, ATCs crash, workers change.

\* A build ends when its steps have; or it is ended elsewhere, and its process
\* here finds out late.
BuildEnds(b) ==
    /\ b \in running
    /\ \/ /\ pc[b] \in {"done", "failed"}
          /\ UNCHANGED events
       \/ /\ pc[b] \notin {"done", "failed"}
          /\ Event
    /\ running' = running \ {b}
    /\ UNCHANGED <<cacheRows, kind, container, volume, nextId, wrc, bc, procVars, stale, gcVars, lost, excused>>

\* The ATC running the build stops; another takes the build over from its plan.
Crash(b) ==
    /\ b \in running
    /\ pc[b] \notin {FirstPC, "done", "failed"}
    /\ Event
    /\ Goto(b, FirstPC)
    /\ Unlock(b)
    /\ cur' = [cur EXCEPT ![b] = None]
    /\ parent' = [parent EXCEPT ![b] = None]
    /\ src' = [src EXCEPT ![b] = None]
    /\ UNCHANGED <<cacheRows, kind, rowVars, bc, stale, gcVars, lost, excused>>

\* saveWorker with a new version of its base resource type: the row for the
\* old version goes, the worker's caches go with it.
WorkerChanges ==
    /\ wrc # {}
    /\ Event
    /\ wrc' = {}
    /\ excused' = excused \cup {v \in Volumes : volume[v].cache # {}}
    /\ volume' = [v \in Volumes |-> [volume[v] EXCEPT !.cache = {}]]
    /\ UNCHANGED <<cacheRows, kind, running, container, nextId, bc, procVars, stale, gcVars, lost>>

-----------------------------------------------------------------------------
\* The collectors.

Finished == Build \ running

\* The rows of resource_caches take worker_resource_caches with them, and those
\* release their volumes.
CollectCaches ==
    /\ DeleteInvalidCaches
    /\ wrc' = wrc \cap cache'
    /\ volume' = [v \in Volumes |-> [volume[v] EXCEPT !.cache = @ \cap wrc']]
    /\ stale' = stale \cup {b \in Build : pc[b] # "use" /\ Target[b] \in cache \ cache'}
    /\ UNCHANGED <<kind, running, container, nextId, bc, procVars, gcVars, ghosts>>

CollectRows ==
    /\ \/ CleanUsesForFinishedBuilds(Finished)
       \/ CleanCheckSessions(IF running = {} THEN Config ELSE {})
       \/ SelectInvalidCaches
       \/ SelectUnreferencedConfigs
       \/ DeleteUnreferencedConfigs
    /\ UNCHANGED <<kind, rowVars, bc, procVars, stale, gcVars, ghosts>>

Radar ==
    /\ \/ \E k \in Config : FindOrCreateCheckSession(k) \/ SessionExpires(k)
       \/ \E b \in Build : NextInputs(Target[b])
    /\ UNCHANGED <<kind, rowVars, bc, procVars, stale, gcVars, ghosts>>

\* The container collector, for the container of a finished build: marked ...
MarkContainer(b, s) ==
    /\ b \in Finished
    /\ container[b][s] = "created"
    /\ container' = [container EXCEPT ![b][s] = "destroying"]
    /\ UNCHANGED <<cacheVars, kind, running, volume, nextId, wrc, bc, procVars, stale, gcVars, ghosts>>

\* ... and deleted, as a failed one is at once, its volumes losing it as an
\* owner.
DeleteContainer(b, s) ==
    /\ container[b][s] \in {"destroying", "failed"}
    /\ ~Initializing(<<b, s>>)
    /\ container' = [container EXCEPT ![b][s] = "none"]
    /\ volume' = [v \in Volumes |-> [volume[v] EXCEPT !.owner = IF @ = <<b, s>> THEN NoOwner ELSE @]]
    /\ UNCHANGED <<cacheVars, kind, running, nextId, wrc, bc, procVars, stale, gcVars, ghosts>>

\* GetOrphanedVolumes: no owner of any kind.
Orphaned(v) == volume[v].owner = NoOwner /\ volume[v].cache = {} /\ ~volume[v].task

ReadOrphans ==
    /\ orphans = {}
    /\ orphans' = {v \in Volumes : Orphaned(v) /\ volume[v].state = "created"}
    /\ jobs' = jobs \cup {v \in Volumes : Orphaned(v) /\ volume[v].state = "destroying"}
    /\ gcVars' # gcVars
    /\ UNCHANGED <<cacheVars, kind, rowVars, bc, procVars, stale, ghosts>>

\* createdVolume.Destroying, refused while there are children.
MarkDestroying(v) ==
    /\ v \in orphans
    /\ orphans' = orphans \ {v}
    /\ IF CanMove(v, "created", "destroying") /\ Children(v) = {}
       THEN /\ SetState(v, "destroying")
            /\ jobs' = jobs \cup {v}
       ELSE UNCHANGED <<volume, jobs>>
    /\ UNCHANGED <<cacheVars, kind, running, container, nextId, wrc, bc, procVars, stale, ghosts>>

\* destroyDestroyingVolume: first baggageclaim ...
DestroyReal(v) ==
    /\ v \in jobs \cap bc
    /\ bc' = bc \ {v}
    /\ UNCHANGED <<cacheVars, kind, rowVars, procVars, stale, gcVars, ghosts>>

\* Mutant: the row goes whether or not the volume has.
DestroyRowFirst(v) ==
    /\ v \in jobs
    /\ jobs' = jobs \ {v}
    /\ IF v \in Volumes THEN DeleteVolume(v) ELSE UNCHANGED volume
    /\ UNCHANGED <<cacheVars, kind, running, container, nextId, wrc, bc, procVars, stale, orphans, ghosts>>

\* ... then the row.
DestroyRow(v) ==
    /\ v \in jobs \ bc
    /\ jobs' = jobs \ {v}
    /\ IF v \in Volumes /\ volume[v].state = "destroying"
       THEN DeleteVolume(v)
       ELSE UNCHANGED volume
    /\ UNCHANGED <<cacheVars, kind, running, container, nextId, wrc, bc, procVars, stale, orphans, ghosts>>

\* The job stops at an error, or with its ATC.
JobFails(v) ==
    /\ v \in jobs
    /\ Event
    /\ jobs' = jobs \ {v}
    /\ UNCHANGED <<cacheRows, kind, rowVars, bc, procVars, stale, orphans, lost, excused>>

\* cleanupFailedVolumes: the row only.
DeleteFailed(v) ==
    /\ v \in Volumes
    /\ volume[v].state = "failed"
    /\ DeleteVolume(v)
    /\ UNCHANGED <<cacheVars, kind, running, container, nextId, wrc, bc, procVars, stale, gcVars, ghosts>>

-----------------------------------------------------------------------------
BuildStep(b) ==
    \/ UseCache(b) \/ FindCached(b) \/ LockFetch(b) \/ Recheck(b)
    \/ GetContainer(b) \/ MakeVolume(b) \/ MarkVolume(b) \/ RunContainer(b)
    \/ InitializeResourceCache(b)
    \/ FindInput(b) \/ TaskContainer(b) \/ RegisterTaskCache(b) \/ InitializeTaskCache(b)

Collector ==
    \/ CollectCaches \/ CollectRows \/ ReadOrphans
    \/ \E b \in Build, s \in Step : MarkContainer(b, s) \/ DeleteContainer(b, s)
    \/ \E v \in VolumeId : MarkDestroying(v) \/ DestroyReal(v) \/ DestroyRow(v) \/ DeleteFailed(v)

Faults ==
    \/ WorkerChanges
    \/ \E b \in Build : MakeFails(b) \/ RunFails(b) \/ Crash(b)
    \/ \E v \in VolumeId : JobFails(v)

Next ==
    \/ \E b \in Build : BuildStep(b) \/ BuildEnds(b)
    \/ Radar
    \/ Collector
    \/ Faults

Spec == Init /\ [][Next]_vars

\* Steps are run to their end, builds that are over are ended, the scheduler
\* drops inputs it no longer needs, sessions expire, and the collectors run at
\* their interval.
FairSpec ==
    /\ Spec
    /\ \A b \in Build : WF_vars(BuildStep(b)) /\ WF_vars(BuildEnds(b) /\ UNCHANGED events)
    /\ WF_vars(Radar /\ UNCHANGED events)
    /\ WF_vars(CollectCaches)
    /\ WF_vars(CollectRows)
    /\ WF_vars(\E b \in Build, s \in Step : MarkContainer(b, s) \/ DeleteContainer(b, s))
    /\ WF_vars(ReadOrphans \/ \E v \in VolumeId : MarkDestroying(v))
    /\ WF_vars(\E v \in VolumeId : DestroyReal(v) \/ DestroyRow(v) \/ DeleteFailed(v))

-----------------------------------------------------------------------------
\* What the get step of a running build returned stays in baggageclaim until
\* the build is over, whichever build fetched it and whatever the collectors
\* decided on while it was looked up: the use of the cache (ForBuild) is taken
\* before the lookup and keeps the cache, its row for the worker and so the
\* volume.  The exceptions are a worker that registers with another version of
\* the base type, and a volume made a cache by a process whose build had
\* ended: Destroying does not look at the owners again.
InputStays ==
    \A b \in running :
        pc[b] # "failed" /\ src[b] # None => src[b] \in bc \cup excused

\* A copy-on-write volume in baggageclaim has its parent there: Destroying is
\* refused while children refer to the row, CreateChildForContainer while it is
\* not created, and each row outlives its volume.
ChildrenHaveParents ==
    \A v \in Volumes : v \in bc /\ volume[v].parent # None => volume[v].parent \in bc

\* Every volume in baggageclaim has a row that leads the collector to it,
\* across crashes and failed calls, but for one: a creation that baggageclaim
\* carried out and reported as failed, whose row is deleted as failed.
NothingLeaks == bc \subseteq Volumes \cup lost

\* A used cache exists ("So long as the UsedResourceCache exists, the underlying
\* ResourceCache can not be removed", db/resource_cache.go), and so does all its
\* type rests on, though the collectors decide what to delete before they do.
References ==
    /\ UsedCaches \subseteq cache
    /\ {ConfigOf[c] : c \in cache} \subseteq config
    /\ TypeOfConfigs \subseteq cache
    /\ {s[1] : s \in session} \subseteq config

\* A version is not fetched while its cache is on the worker: under the lock
\* the lookup is made again, and nobody else fills the cache meanwhile.
FetchOnce ==
    [][\A b \in Build :
          pc[b] = "run" /\ pc'[b] = "init" => CacheVolume(b, Target[b]) = {}]_vars

\* When builds end and nothing fails, all they made goes: containers, children
\* before their parents, cache volumes after their cache, a cache after its
\* uses, the cache of a type after the configs made by it.  One volume stays,
\* the last cache of the task.
EverythingGoes ==
    <>[](/\ running = {}
         /\ bc = Volumes
         /\ Volumes = {v \in Volumes : volume[v].task}
         /\ Cardinality(Volumes) <= 1
         /\ cache = {} /\ config = {} /\ session = {}
         /\ \A b \in Build, s \in Step : container[b][s] = "none")

\* "When the owner goes away, the container should be garbage collected"
\* (db/container_owner.go): a container that failed or is being destroyed is
\* eventually gone.
ContainersGo ==
    \A b \in Build, s \in Step :
        container[b][s] \in {"destroying", "failed"} ~> container[b][s] = "none"
==============================================================================
