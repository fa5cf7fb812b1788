----------------------------- MODULE Containers ------------------------------
(***************************************************************************)
(* The containers of build steps, from the steps that find or create them  *)
(* (worker/container_provider.go, worker/pool.go) to the collectors that   *)
(* destroy them (gc/containercollector.go, gc/worker_job_runner.go), with  *)
(* users who hijack them (api/containerserver/hijack.go) and the workers   *)
(* they are on (module Workers).                                           *)
(*                                                                         *)
(* A container is a row of the containers table (db/container.go) and a    *)
(* container in Garden on the worker, under the same handle: nothing makes *)
(* the two change together.                                                *)
(***************************************************************************)
EXTENDS Workers, FiniteSets, FiniteSetsExt

CONSTANTS
  Build,        \* builds, each with one step that has a container
  Draining,     \* builds that landing and retiring workers wait for
  Creator,      \* processes that run a build's step on some ATC
  BuildOf,      \* BuildOf[c]: the build of the creator
  HelperOf,     \* HelperOf[c]: the process that fetches the image c needs
  NoOwner,      \* every owner column of a row is NULL
  Atc,          \* ATCs, as far as they collect
  Hijacker,     \* hijack requests
  MaxRows,      \* bound: container rows ever inserted
  MaxJobs,      \* maxJobsPerWorker
  MaxFaults     \* bound: crashes, lost locks, failed calls, changes of a worker, hijacks

Helper == {HelperOf[c] : c \in DOMAIN HelperOf}
Proc == Creator \cup Helper
Id == 1..MaxRows

ASSUME ContainersAssumption ==
  /\ MaxRows \in Nat /\ MaxJobs \in Nat \ {0} /\ MaxFaults \in Nat
  /\ BuildOf \in [Creator -> Build]
  /\ Draining \subseteq Build
  /\ DOMAIN HelperOf \subseteq Creator /\ Helper \cap Creator = {}
  /\ \A c, d \in DOMAIN HelperOf : HelperOf[c] = HelperOf[d] => c = d
  /\ NoOwner \notin Build \cup Nat /\ Build \cap Nat = {}

VARIABLES
  build,    \* "running", "completed", "cold" (not interceptible) or "gone"
  row,      \* row[i]: the container row i, or Gone
  inserted, \* rows inserted so far; the serial id of the next is one more
  garden,   \* handles that exist in Garden
  graced,   \* those with a grace time set: Garden destroys them once unused
  holder,   \* holder[i]: who holds the container-creating lock of row i, or "free"
  pc, has, on,  \* a process's place, its row and its worker
  synced,   \* synced[a]: running workers as the job runner last saw them
  jobs,     \* jobs of the job runners
  hpc, hon, knew, \* a hijack's place, its container, `hijacked` as it read it
  faults,
  blind,    \* ids some collector read as created and not hijacked, or missed in Garden
  excused   \* ids that a fault or the removal of their worker hit

Gone == [state |-> "gone", owner |-> NoOwner, hijacked |-> FALSE, discontinued |-> FALSE, worker |-> "none"]

gardenVars == <<garden, graced>>
ghosts == <<faults, blind, excused>>
dbVars == <<build, row, inserted>>
procVars == <<pc, has, on, holder>>
gcVars == <<synced, jobs>>
hijackVars == <<hpc, hon, knew>>
vars == <<workerVars, dbVars, gardenVars, procVars, gcVars, hijackVars, ghosts>>

Live(i) == row[i].state # "gone"
In(i, states) == row[i].state \in states
OwnerOf(p) == IF p \in Creator THEN BuildOf[p] ELSE has[CHOOSE c \in DOMAIN HelperOf : HelperOf[c] = p]

Init ==
  /\ WorkersInit
  /\ build = [b \in Build |-> "running"]
  /\ row = [i \in Id |-> Gone] /\ inserted = 0
  /\ garden = {} /\ graced = {}
  /\ holder = [i \in Id |-> "free"]
  /\ pc = [p \in Proc |-> IF p \in Creator THEN "start" ELSE "idle"]
  /\ has = [p \in Proc |-> 0]
  /\ on \in [Proc -> {CHOOSE w \in Worker : TRUE}]
  /\ synced = [a \in Atc |-> {w \in Worker : wstate[w] = "running"}] /\ jobs = {}
  /\ hpc = [h \in Hijacker |-> "idle"] /\ hon = [h \in Hijacker |-> 0] /\ knew = [h \in Hijacker |-> FALSE]
  /\ faults = 0 /\ blind = {} /\ excused = {}

-----------------------------------------------------------------------------
(* The states of a row (db/container.go). Each statement is an UPDATE or a *)
(* DELETE guarded by the states it may start from.                         *)
SetState(i, s) == row' = [row EXCEPT ![i].state = s]

MayBeCreated(i) == In(i, {"creating", "created"})
MayFail(i) == In(i, {"creating", "failed"})
MayBeDestroying(i) == In(i, {"created", "destroying"})

(* Failed() of a creating container, its error only logged.                *)
Failed(i) == IF MayFail(i) THEN SetState(i, "failed") ELSE UNCHANGED row

(* DELETE: rows that it owned lose that owner (ON DELETE SET NULL).        *)
DeleteRows(ids) ==
  row' = [i \in Id |-> IF i \in ids THEN Gone
                       ELSE IF row[i].owner \in ids THEN [row[i] EXCEPT !.owner = NoOwner]
                       ELSE row[i]]

(* Mutant: the container that needs the image is not looked at.            *)
OrphanedOrImage(i) ==
  LET o == row[i].owner
  IN  \/ o = NoOwner
      \/ o \in Build /\ build[o] = "cold"
      \/ o \in Id

(* FindOrphanedContainers                                                  *)
Orphaned(i) ==
  LET o == row[i].owner
  IN  \/ o = NoOwner
      \/ o \in Build /\ build[o] = "cold"
      \/ o \in Id /\ row[o].state # "creating"

-----------------------------------------------------------------------------
(* Builds. A build completes when a process that runs its step is through; *)
(* MarkNonInterceptibleBuilds takes the completed ones that succeeded or   *)
(* are not their job's last. Destroying its pipeline deletes a build at    *)
(* any time, and sets the owner of its containers to NULL.                 *)
BuildCompletes(b) ==
  /\ build[b] = "running"
  /\ \E c \in Creator : BuildOf[c] = b /\ pc[c] \in {"done", "failed"}
  /\ build' = [build EXCEPT ![b] = "completed"]
  /\ UNCHANGED <<workerVars, row, inserted, gardenVars, procVars, gcVars, hijackVars, ghosts>>

MarkNonInterceptible(b) ==
  /\ build[b] = "completed"
  /\ build' = [build EXCEPT ![b] = "cold"]
  /\ UNCHANGED <<workerVars, row, inserted, gardenVars, procVars, gcVars, hijackVars, ghosts>>

BuildDeleted(b) ==
  /\ build[b] # "gone"
  /\ build' = [build EXCEPT ![b] = "gone"]
  /\ row' = [i \in Id |-> IF row[i].owner = b THEN [row[i] EXCEPT !.owner = NoOwner] ELSE row[i]]
  /\ UNCHANGED <<workerVars, inserted, gardenVars, procVars, gcVars, hijackVars, ghosts>>

-----------------------------------------------------------------------------
(* pool.FindOrCreateContainer: the worker of a container the owner already *)
(* has, whatever its state, else a running one.                            *)
Owned(p) == {i \in Id : Live(i) /\ row[i].owner = OwnerOf(p)}

(* A process returns, and gives up its lock.                               *)
Leave(p, to) ==
  /\ pc' = [pc EXCEPT ![p] = to]
  /\ has' = [has EXCEPT ![p] = 0]
  /\ holder' = [i \in Id |-> IF holder[i] = p THEN "free" ELSE holder[i]]

Choose(p) ==
  /\ pc[p] = "start"
  /\ \/ \E i \in Owned(p) : on' = [on EXCEPT ![p] = row[i].worker] /\ pc' = [pc EXCEPT ![p] = "find"]
     \/ /\ Owned(p) = {}
        /\ \E w \in Worker : /\ wstate[w] = "running"
                             /\ on' = [on EXCEPT ![p] = w]
        /\ pc' = [pc EXCEPT ![p] = "find"]
     \/ /\ Owned(p) = {} /\ \A w \in Worker : wstate[w] # "running"
        /\ pc' = [pc EXCEPT ![p] = "failed"] /\ UNCHANGED on
  /\ UNCHANGED <<workerVars, dbVars, gardenVars, has, holder, gcVars, hijackVars, ghosts>>

(* FindContainerOnWorker reads one row of the owner, no matter which. One  *)
(* that is destroying or failed counts as none.                            *)
Find(p) ==
  /\ pc[p] = "find"
  /\ LET here == {i \in Owned(p) : row[i].worker = on[p]}
     IN  \/ \E i \in here :
              /\ pc' = [pc EXCEPT ![p] = IF In(i, {"creating"}) THEN "lookup"
                                         ELSE IF In(i, {"created"}) THEN "reuse" ELSE "insert"]
              /\ has' = [has EXCEPT ![p] = i]
         \/ here = {} /\ pc' = [pc EXCEPT ![p] = "insert"] /\ UNCHANGED has
  /\ UNCHANGED <<workerVars, dbVars, gardenVars, on, holder, gcVars, hijackVars, ghosts>>

(* A created container is looked up in Garden, and must be there; one that *)
(* is being created may be, when whoever made it got no further.           *)
Reuse(p) ==
  /\ pc[p] = "reuse"
  /\ Leave(p, IF has[p] \in garden THEN "done" ELSE "failed")
  /\ UNCHANGED <<workerVars, dbVars, gardenVars, on, gcVars, hijackVars, ghosts>>

Lookup(p) ==
  /\ pc[p] = "lookup"
  /\ pc' = [pc EXCEPT ![p] = IF has[p] \in garden THEN "mark" ELSE "lock"]
  /\ UNCHANGED <<workerVars, dbVars, gardenVars, has, on, holder, gcVars, hijackVars, ghosts>>

(* CreateContainer inserts a creating row, unless its build, its container *)
(* or its worker is gone.                                                  *)
Insert(p) ==
  /\ pc[p] = "insert"
  /\ LET o == OwnerOf(p)
         ok == Present(on[p]) /\ (IF o \in Build THEN build[o] # "gone" ELSE Live(o))
     IN  \/ /\ ok /\ inserted < MaxRows
            /\ inserted' = inserted + 1
            /\ row' = [row EXCEPT ![inserted + 1] = [Gone EXCEPT !.state = "creating", !.owner = o, !.worker = on[p]]]
            /\ has' = [has EXCEPT ![p] = inserted + 1]
            /\ pc' = [pc EXCEPT ![p] = "lock"]
            /\ UNCHANGED holder
         \/ ~ok /\ Leave(p, "failed") /\ UNCHANGED <<inserted, row>>
  /\ UNCHANGED <<workerVars, build, gardenVars, on, gcVars, hijackVars, ghosts>>

(* The container-creating lock; whoever does not get it looks again. With  *)
(* the lock nobody looks again.                                            *)
AcquireLock(p) ==
  /\ pc[p] = "lock"
  /\ \/ /\ holder[has[p]] = "free"
        /\ holder' = [holder EXCEPT ![has[p]] = p]
        /\ \/ pc' = [pc EXCEPT ![p] = "create"]
           \/ p \in DOMAIN HelperOf /\ pc' = [pc EXCEPT ![p] = "fetch"]
     \/ /\ holder[has[p]] # "free"
        /\ pc' = [pc EXCEPT ![p] = "find"]
        /\ UNCHANGED holder
  /\ UNCHANGED <<workerVars, dbVars, gardenVars, has, on, gcVars, hijackVars, ghosts>>

(* FetchForContainer, when the image is a resource: a container of its     *)
(* own, owned by the creating one, fetches it.                             *)
Fetch(p) ==
  /\ pc[p] = "fetch"
  /\ pc' = [pc EXCEPT ![p] = "image", ![HelperOf[p]] = "find"]
  /\ on' = [on EXCEPT ![HelperOf[p]] = on[p]]
  /\ UNCHANGED <<workerVars, dbVars, gardenVars, has, holder, gcVars, hijackVars, ghosts>>

ImageFetched(p) ==
  /\ pc[p] = "image" /\ pc[HelperOf[p]] = "done"
  /\ pc' = [pc EXCEPT ![p] = "create", ![HelperOf[p]] = "idle"]
  /\ UNCHANGED <<workerVars, dbVars, gardenVars, has, on, holder, gcVars, hijackVars, ghosts>>

ImageFailed(p) ==
  /\ pc[p] = "image" /\ pc[HelperOf[p]] = "failed"
  /\ Failed(has[p])
  /\ pc' = [pc EXCEPT ![p] = "failed", ![HelperOf[p]] = "idle"]
  /\ has' = [has EXCEPT ![p] = 0]
  /\ holder' = [i \in Id |-> IF holder[i] = p THEN "free" ELSE holder[i]]
  /\ UNCHANGED <<workerVars, build, inserted, gardenVars, on, gcVars, hijackVars, ghosts>>

(* createGardenContainer. Garden refuses a handle that it already has; a   *)
(* call that fails may have had its effect.                                *)
CreateInGarden(p) ==
  /\ pc[p] = "create"
  /\ has[p] \notin garden
  /\ garden' = garden \cup {has[p]}
  /\ pc' = [pc EXCEPT ![p] = "mark"]
  /\ UNCHANGED <<workerVars, dbVars, graced, has, on, holder, gcVars, hijackVars, ghosts>>

CreateRefused(p) ==
  /\ pc[p] = "create"
  /\ has[p] \in garden
  /\ Failed(has[p])
  /\ Leave(p, "failed")
  /\ UNCHANGED <<workerVars, build, inserted, gardenVars, on, gcVars, hijackVars, ghosts>>

CreateFails(p) ==
  /\ pc[p] = "create"
  /\ faults < MaxFaults /\ faults' = faults + 1
  /\ garden' \in {garden, garden \cup {has[p]}}
  /\ excused' = excused \cup {has[p]}
  /\ Failed(has[p])
  /\ Leave(p, "failed")
  /\ UNCHANGED <<workerVars, build, inserted, graced, on, gcVars, hijackVars, blind>>

(* Mutant: the container in Garden is forgotten.                           *)
MarkCreatedOrForget(p) ==
  /\ pc[p] = "mark"
  /\ IF MayBeCreated(has[p])
     THEN SetState(has[p], "created") /\ Leave(p, "done")
     ELSE Leave(p, "failed") /\ UNCHANGED row
  /\ UNCHANGED <<workerVars, build, inserted, gardenVars, on, gcVars, hijackVars, ghosts>>

(* Created(). When it fails, because the row is no longer creating or      *)
(* because of the database, the container in Garden is destroyed.          *)
MarkCreated(p) ==
  /\ pc[p] = "mark"
  /\ IF MayBeCreated(has[p])
     THEN SetState(has[p], "created") /\ Leave(p, "done")
     ELSE pc' = [pc EXCEPT ![p] = "undo"] /\ UNCHANGED <<row, has, holder>>
  /\ UNCHANGED <<workerVars, build, inserted, gardenVars, on, gcVars, hijackVars, ghosts>>

MarkFails(p) ==
  /\ pc[p] = "mark"
  /\ faults < MaxFaults /\ faults' = faults + 1
  /\ \/ UNCHANGED row
     \/ MayBeCreated(has[p]) /\ SetState(has[p], "created")
  /\ pc' = [pc EXCEPT ![p] = "undo"]
  /\ excused' = excused \cup {has[p]}
  /\ UNCHANGED <<workerVars, build, inserted, gardenVars, has, on, holder, gcVars, hijackVars, blind>>

Undo(p) ==
  /\ pc[p] = "undo"
  /\ garden' = garden \ {has[p]}
  /\ Leave(p, "failed")
  /\ UNCHANGED <<workerVars, dbVars, graced, on, gcVars, hijackVars, ghosts>>

(* The ATC of a process dies: another one resumes the build. Or only the   *)
(* connection that holds its lock drops.                                   *)
Crash(p) ==
  /\ p \in Creator /\ pc[p] \notin {"start", "failed"}
  /\ faults < MaxFaults /\ faults' = faults + 1
  /\ LET q == IF p \in DOMAIN HelperOf THEN {p, HelperOf[p]} ELSE {p}
     IN  /\ pc' = [x \in Proc |-> IF x = p THEN "start" ELSE IF x \in q THEN "idle" ELSE pc[x]]
         /\ holder' = [i \in Id |-> IF holder[i] \in q THEN "free" ELSE holder[i]]
         /\ has' = [x \in Proc |-> IF x \in q THEN 0 ELSE has[x]]
         /\ excused' = excused \cup {has[x] : x \in {y \in q : pc[y] \in {"mark", "undo"}}}
  /\ UNCHANGED <<workerVars, dbVars, gardenVars, on, gcVars, hijackVars, blind>>

LockLost(i) ==
  /\ holder[i] # "free"
  /\ faults < MaxFaults /\ faults' = faults + 1
  /\ holder' = [holder EXCEPT ![i] = "free"]
  /\ UNCHANGED <<workerVars, dbVars, gardenVars, pc, has, on, gcVars, hijackVars, blind, excused>>

-----------------------------------------------------------------------------
(* syncWorkers of the job runner.                                          *)
SyncWorkers(a) ==
  /\ synced' = [synced EXCEPT ![a] = {w \in Worker : wstate[w] = "running"}]
  /\ synced' # synced
  /\ UNCHANGED <<workerVars, dbVars, gardenVars, procVars, jobs, hijackVars, ghosts>>

(* cleanupOrphanedContainers: a job for every orphan, the created ones     *)
(* first, that Try admits: on a worker it knows, not in flight already,    *)
(* and within the limit of the worker. Creating orphans are only counted.  *)
(* Then cleanupFailedContainers deletes failed rows, and the rows only.    *)
InFlight(a, w) == {j \in jobs : j.atc = a /\ j.worker = w}

Candidates(a, w, s) ==
  {i \in Id : /\ In(i, {s}) /\ Orphaned(i) /\ row[i].worker = w /\ w \in synced[a]
              /\ \A j \in jobs : ~(j.atc = a /\ j.id = i)}

Admitted(a, ids) ==
  \A w \in Worker :
    LET first == Candidates(a, w, "created")
        next == Candidates(a, w, "destroying")
        free == MaxJobs - Cardinality(InFlight(a, w))
        got == ids \cap (first \cup next)
    IN  /\ Cardinality(got) = Min({Cardinality(first \cup next), Max({free, 0})})
        /\ got \cap next # {} => first \subseteq got

Collect(a) ==
  /\ \E ids \in SUBSET {i \in Id : \E w \in Worker : i \in Candidates(a, w, "created") \cup Candidates(a, w, "destroying")} :
       /\ Admitted(a, ids)
       /\ jobs' = jobs \cup {[atc |-> a, id |-> i, worker |-> row[i].worker, left |-> row[i].discontinued,
                             at |-> IF ~In(i, {"created"}) THEN "destroy" ELSE IF row[i].hijacked THEN "look" ELSE "mark"] : i \in ids}
       /\ blind' = blind \cup {i \in ids : In(i, {"created"}) /\ ~row[i].hijacked}
  /\ DeleteRows({i \in Id : In(i, {"failed"})})
  /\ <<jobs, row>>' # <<jobs, row>>
  /\ UNCHANGED <<workerVars, build, inserted, gardenVars, procVars, synced, hijackVars, faults, excused>>

-----------------------------------------------------------------------------
(* The jobs. An error from Garden ends one, for a later pass to retry: the *)
(* worker is not running, or the call fails.                               *)
Step(j, to) == jobs' = (jobs \ {j}) \cup {[j EXCEPT !.at = to]}
End(j) == jobs' = jobs \ {j}

(* Mutant: a job that fails stays in flight.                               *)
JobFailsInFlight(j) ==
  /\ j.at \in {"look", "destroy"}
  /\ \/ wstate[j.worker] # "running" /\ UNCHANGED faults
     \/ faults < MaxFaults /\ faults' = faults + 1
  /\ Step(j, "failed")
  /\ UNCHANGED <<workerVars, dbVars, gardenVars, procVars, synced, hijackVars, blind, excused>>

JobFails(j) ==
  /\ j.at \in {"look", "destroy"}
  /\ \/ wstate[j.worker] # "running" /\ UNCHANGED faults
     \/ faults < MaxFaults /\ faults' = faults + 1
  /\ End(j)
  /\ UNCHANGED <<workerVars, dbVars, gardenVars, procVars, synced, hijackVars, blind, excused>>

(* markHijackedContainerAsDestroying looks the container up and, when it   *)
(* is there, sets its grace time...                                        *)
JobLook(j) ==
  /\ j.at = "look"
  /\ IF j.id \in garden
     THEN Step(j, "discontinue") /\ graced' = graced \cup {j.id} /\ UNCHANGED blind
     ELSE Step(j, "mark") /\ blind' = blind \cup {j.id} /\ UNCHANGED graced
  /\ UNCHANGED <<workerVars, dbVars, garden, procVars, synced, hijackVars, faults, excused>>

(* ...and leaves it to Garden: Discontinue().                              *)
JobDiscontinue(j) ==
  /\ j.at = "discontinue"
  /\ IF MayBeDestroying(j.id)
     THEN row' = [row EXCEPT ![j.id].state = "destroying", ![j.id].discontinued = TRUE]
     ELSE UNCHANGED row
  /\ End(j)
  /\ UNCHANGED <<workerVars, build, inserted, gardenVars, procVars, synced, hijackVars, ghosts>>

(* Destroying() returns whether the row is discontinued by now.            *)
JobMark(j) ==
  /\ j.at = "mark"
  /\ IF MayBeDestroying(j.id)
     THEN /\ SetState(j.id, "destroying")
          /\ jobs' = (jobs \ {j}) \cup {[j EXCEPT !.at = "destroy", !.left = row[j.id].discontinued]}
     ELSE End(j) /\ UNCHANGED row
  /\ UNCHANGED <<workerVars, build, inserted, gardenVars, procVars, synced, hijackVars, ghosts>>

(* Mutant: discontinued or not.                                            *)
JobDestroyAlways(j) ==
  /\ j.at = "destroy"
  /\ Step(j, "delete") /\ garden' = garden \ {j.id}
  /\ UNCHANGED <<workerVars, dbVars, graced, procVars, synced, hijackVars, ghosts>>

(* tryToDestroyContainer: a discontinued container is only waited for.     *)
JobDestroy(j) ==
  /\ j.at = "destroy"
  /\ IF j.left /\ j.id \in garden
     THEN End(j) /\ UNCHANGED garden
     ELSE Step(j, "delete") /\ garden' = garden \ {j.id}
  /\ UNCHANGED <<workerVars, dbVars, graced, procVars, synced, hijackVars, ghosts>>

JobDelete(j) ==
  /\ j.at = "delete"
  /\ IF In(j.id, {"destroying"}) THEN DeleteRows({j.id}) ELSE UNCHANGED row
  /\ End(j)
  /\ UNCHANGED <<workerVars, build, inserted, gardenVars, procVars, synced, hijackVars, ghosts>>

CollectorCrash(a) ==
  /\ \E j \in jobs : j.atc = a
  /\ faults < MaxFaults /\ faults' = faults + 1
  /\ jobs' = {j \in jobs : j.atc # a}
  /\ UNCHANGED <<workerVars, dbVars, gardenVars, procVars, synced, hijackVars, blind, excused>>

(* Garden destroys a container whose grace time passed with nobody         *)
(* attached to it.                                                         *)
Attached(i) == \E h \in Hijacker : hpc[h] \in {"mark", "open"} /\ hon[h] = i

GardenReaps(i) ==
  /\ i \in graced \cap garden
  /\ ~Attached(i)
  /\ garden' = garden \ {i}
  /\ UNCHANGED <<workerVars, dbVars, graced, procVars, gcVars, hijackVars, ghosts>>

-----------------------------------------------------------------------------
(* HijackContainer: find the container in Garden and a created row, run a  *)
(* process in it, and only then mark the row.                              *)
HijackRun(h) ==
  /\ hpc[h] = "idle"
  /\ \E i \in garden : /\ In(i, {"created"})
                       /\ hon' = [hon EXCEPT ![h] = i]
                       /\ knew' = [knew EXCEPT ![h] = row[i].hijacked]
  /\ hpc' = [hpc EXCEPT ![h] = "mark"]
  /\ faults < MaxFaults /\ faults' = faults + 1
  /\ UNCHANGED <<workerVars, dbVars, gardenVars, procVars, gcVars, blind, excused>>

(* MarkAsHijacked                                                          *)
HijackMark(h) ==
  /\ hpc[h] = "mark"
  /\ LET i == hon[h]
     IN  \/ /\ knew[h] \/ In(i, {"created"})
            /\ row' = IF knew[h] THEN row ELSE [row EXCEPT ![i].hijacked = TRUE]
            /\ hpc' = [hpc EXCEPT ![h] = "open"]
         \/ /\ ~knew[h] /\ ~In(i, {"created"})
            /\ hpc' = [hpc EXCEPT ![h] = "over"]
            /\ UNCHANGED row
  /\ knew' = [knew EXCEPT ![h] = FALSE]
  /\ UNCHANGED <<workerVars, build, inserted, gardenVars, procVars, gcVars, hon, ghosts>>

(* The process exits, the user leaves or the idle timeout strikes.         *)
HijackClose(h) ==
  /\ hpc[h] = "open"
  /\ hpc' = [hpc EXCEPT ![h] = "over"]
  /\ hon' = [hon EXCEPT ![h] = 0]
  /\ UNCHANGED <<workerVars, dbVars, gardenVars, procVars, gcVars, knew, ghosts>>

-----------------------------------------------------------------------------
(* Workers, and the containers that go with them (ON DELETE CASCADE).      *)
Busy == {row[i].worker : i \in {k \in Id : row[k].owner \in Draining /\ build[row[k].owner] = "running"}}

On(ws) == {i \in Id : Live(i) /\ row[i].worker \in ws}

Cascade(ws) ==
  /\ DeleteRows(On(ws))
  /\ excused' = excused \cup On(ws)
  /\ UNCHANGED <<build, inserted, gardenVars, procVars, gcVars, hijackVars, blind>>

KeepContainers == UNCHANGED <<dbVars, gardenVars, procVars, gcVars, hijackVars, blind, excused>>

WorkerMoves(w) ==
  /\ faults < MaxFaults /\ faults' = faults + 1
  /\ \/ (SaveWorker(w) \/ Land(w) \/ Retire(w) \/ Expire(w)) /\ KeepContainers
     \/ (Prune(w) \/ Delete(w)) /\ Cascade({w})

Heartbeat(w) ==
  /\ HeartbeatWorker(w)
  /\ UNCHANGED faults
  /\ KeepContainers

CollectWorkers ==
  /\ UNCHANGED faults
  /\ \/ StallUnresponsiveWorkers /\ KeepContainers
     \/ DeleteFinishedRetiringWorkers(Busy) /\ Cascade(FinishedRetiring(Busy))
     \/ LandFinishedLandingWorkers(Busy) /\ KeepContainers

-----------------------------------------------------------------------------
ProcStep(p) ==
  \/ Choose(p) \/ Find(p) \/ Reuse(p) \/ Lookup(p) \/ Insert(p) \/ AcquireLock(p)
  \/ Fetch(p) \/ ImageFetched(p) \/ ImageFailed(p)
  \/ CreateInGarden(p) \/ CreateRefused(p) \/ MarkCreated(p) \/ Undo(p)

JobStep(j) == JobLook(j) \/ JobDiscontinue(j) \/ JobMark(j) \/ JobDestroy(j) \/ JobDelete(j)

HijackStep(h) == HijackMark(h) \/ HijackClose(h)

Next ==
  \/ \E b \in Build : BuildCompletes(b) \/ MarkNonInterceptible(b) \/ BuildDeleted(b)
  \/ \E p \in Proc : ProcStep(p) \/ CreateFails(p) \/ MarkFails(p) \/ Crash(p)
  \/ \E i \in Id : LockLost(i) \/ GardenReaps(i)
  \/ \E a \in Atc : SyncWorkers(a) \/ Collect(a) \/ CollectorCrash(a)
  \/ \E j \in jobs : JobStep(j) \/ JobFails(j)
  \/ \E h \in Hijacker : HijackRun(h) \/ HijackStep(h)
  \/ \E w \in Worker : WorkerMoves(w) \/ Heartbeat(w)
  \/ CollectWorkers

Spec == Init /\ [][Next]_vars

(* What the components' loops guarantee: the collector runs at its         *)
(* interval, calls return, Garden's clock runs, sessions end.              *)
FairSpec ==
  /\ Spec
  /\ WF_vars(\E a \in Atc : SyncWorkers(a) \/ Collect(a))
  /\ WF_vars(\E j \in jobs : JobStep(j))
  /\ WF_vars(\E i \in Id : GardenReaps(i))
  /\ WF_vars(\E h \in Hijacker : HijackStep(h))

-----------------------------------------------------------------------------
RowState == {"gone", "creating", "created", "destroying", "failed"}

(* Every variable keeps to its type, and a process holds no lock but that  *)
(* of its row.                                                             *)
TypeOK ==
  /\ WorkersTypeOK
  /\ build \in [Build -> {"running", "completed", "cold", "gone"}]
  /\ \A i \in Id : /\ row[i].state \in RowState
                   /\ row[i].owner \in Build \cup Id \cup {NoOwner}
                   /\ row[i].hijacked \in BOOLEAN /\ row[i].discontinued \in BOOLEAN
                   /\ Live(i) => row[i].worker \in Worker
  /\ inserted \in 0..MaxRows
  /\ garden \subseteq Id /\ graced \subseteq Id
  /\ holder \in [Id -> Proc \cup {"free"}]
  /\ \A i \in Id : holder[i] = "free" \/ has[holder[i]] = i
  /\ has \in [Proc -> 0..MaxRows] /\ on \in [Proc -> Worker]
  /\ \A j \in jobs : j.atc \in Atc /\ j.id \in Id /\ j.worker \in Worker

(* No container is left in Garden without a row that leads to it, except   *)
(* while the process that made it is about to destroy it, or after a fault *)
(* or the removal of its worker: FindOrCreateContainer's clean-up when     *)
(* Created() fails, and the collector, which deletes failed rows without a *)
(* look at Garden, together leak nothing by themselves. And a created row  *)
(* is backed by a container in Garden, though several processes create,    *)
(* adopt, undo and destroy it: the row is marked destroying before Garden  *)
(* is told, and whoever loses a race cleans up only what no row stands     *)
(* for. (Garden may take one that has a grace time before the collector    *)
(* that set it marks the row.)                                             *)
RowsMatchGarden ==
  \A i \in Id \ excused :
    /\ i \in garden => Live(i) \/ \E p \in Proc : has[p] = i /\ pc[p] \in {"mark", "undo"}
    /\ In(i, {"created"}) /\ i \notin graced => i \in garden

(* The container of a build that runs, and the container that fetches an   *)
(* image for one being created, are not destroyed under it: what the       *)
(* collector read as orphaned stays so until its job acts on it.           *)
OwnedContainersStay ==
  \A i \in Id : In(i, {"destroying"}) =>
    LET o == row[i].owner
    IN  /\ o \in Build => build[o] # "running"
        /\ o \in Id => row[o].state # "creating"

(* A hijacked container outlives the session, unless a collector had       *)
(* already read the row when it was marked, or looked for the container    *)
(* when Garden had none, or a second process that found the container      *)
(* being created comes too late to mark it and destroys it: a collector    *)
(* that sees the mark leaves the container to Garden, and the others learn *)
(* of that when they mark the row destroying.                              *)
SessionsSurvive ==
  [][\A h \in Hijacker :
       LET i == hon[h]
       IN  hpc[h] = "open" /\ i \in garden \ garden' =>
             i \in blind \/ \E p \in Proc : pc[p] = "undo" /\ has[p] = i]_vars

(* A row that is destroying or failed never becomes anything else but      *)
(* gone, and an id is never used again, whichever process still holds an   *)
(* older copy of the row.                                                  *)
EndsAreFinal ==
  [][\A i \in Id : /\ In(i, {"destroying", "failed"}) => row'[i].state \in {row[i].state, "gone"}
                   /\ ~Live(i) /\ i <= inserted => row'[i].state = "gone"]_vars

(* Every orphaned container that got as far as Garden, and every failed    *)
(* row, is eventually removed, unless its worker stops running: jobs that  *)
(* fail, limits and hijack sessions only delay it. (Volumes, which can     *)
(* keep a row from being deleted, are in module Volumes.)                  *)
OrphansGo ==
  \A i \in Id : (In(i, {"created", "destroying", "failed"}) /\ Orphaned(i))
                  ~> (~Live(i) \/ wstate[row[i].worker] # "running")
=============================================================================
