------------------------------ MODULE Scheduler ------------------------------
(***************************************************************************)
(* Scheduling the builds of one pipeline: the scheduler's runner on every  *)
(* ATC (scheduler/runner.go, under the pipeline's scheduling lock), the    *)
(* goroutine a manual trigger starts (TriggerImmediately, without it), the *)
(* build starter and the max-in-flight check both run, one query a step.   *)
(*                                                                         *)
(* A build's id is its place in `build`. The versions of a job's inputs    *)
(* are one number, the newest one that resolves, 0 when none does: it is   *)
(* what next_build_inputs, build_inputs and the build's plan hold.         *)
(* jobs.max_in_flight_reached is only displayed and is left out.           *)
(***************************************************************************)
EXTENDS Naturals, Sequences, FiniteSets

CONSTANTS
  Runner,       \* scheduler runners of the pipeline, one per ATC
  Trigger,      \* API requests that trigger a job
  Job,
  JobId,        \* JobId[j]: jobs.id, by which pipeline.Jobs() lists the jobs
  None,
  SerialGroups, \* SerialGroups[j]: JobConfig.GetSerialGroups
  MaxInFlight,  \* MaxInFlight[j]: JobConfig.MaxInFlight, 0 for no limit
  Triggered,    \* jobs with an input that has trigger: true
  Pausing,      \* whether users pause jobs and the pipeline
  MaxVersions,  \* bound: versions of the inputs
  MaxBuilds,    \* bound: builds of the pipeline
  MaxFaults     \* bound: failed queries and crashes

ASSUME SchedulerAssumption ==
  /\ None \notin Runner
  /\ Runner \cap Trigger = {}
  /\ Triggered \subseteq Job
  /\ JobId \in [Job -> Nat]
  /\ \A j, k \in Job : JobId[j] = JobId[k] => j = k
  /\ MaxInFlight \in [Job -> Nat]
  /\ DOMAIN SerialGroups = Job
  /\ \A j \in Job : MaxInFlight[j] = 0 <=> SerialGroups[j] = {}
  /\ Pausing \in BOOLEAN
  /\ MaxVersions \in Nat /\ MaxBuilds \in Nat /\ MaxFaults \in Nat

VARIABLES
  build,          \* builds: job, status, scheduled, manual, inputs, plan
  paused,         \* jobs.paused
  pipelinePaused, \* pipelines.paused
  version,        \* newest version that resolves, 0 when none does
  versions,       \* number of versions found so far
  mapping,        \* next_build_inputs, 0 when not inputs_determined
  groups,         \* jobs_serial_groups
  lock,           \* runner that holds the scheduling lock
  proc,           \* proc[p]: where runner or trigger p is, and its variables
  faults

vars == <<build, paused, pipelinePaused, version, versions, mapping, groups, lock, proc, faults>>
outside == <<paused, pipelinePaused, version, versions, faults>>

Proc == Runner \cup Trigger

(* What the queries tell apart: succeeded, failed, errored and aborted      *)
(* builds are over, an aborted one even while its steps are being stopped.  *)
Status == {"pending", "started", "over"}

(* The variables of a goroutine: the jobs still to map, the pending builds *)
(* still to start and the one that is tried, the job objects' Paused(), the *)
(* versions database (the newest version and what the builds used) and the *)
(* next build's inputs.                                                    *)
Idle ==
  [pc |-> "idle", todo |-> {}, queue |-> {}, now |-> 0, held |-> {},
   latest |-> 0, used |-> [j \in Job |-> {}], inputs |-> 0]

Init ==
  /\ build = <<>>
  /\ paused = {} /\ pipelinePaused = FALSE
  /\ version = 1 /\ versions = 1
  /\ mapping = [j \in Job |-> 0]
  /\ groups = [j \in Job |-> {}]
  /\ lock = None
  /\ proc = [p \in Proc |-> Idle]
  /\ faults = 0

Current(p) == proc[p].now
JobOf(p) == build[Current(p)].job

(* job.CreateBuild, job.EnsurePendingBuildExists.                          *)
NewBuild(j, manual) ==
  [job |-> j, status |-> "pending", scheduled |-> FALSE, manual |-> manual,
   inputs |-> 0, plan |-> 0]

(* GetPendingBuilds, and the pending builds of all jobs.                   *)
PendingBuilds(j) ==
  {b \in DOMAIN build : build[b].job = j /\ build[b].status = "pending"}

AllPendingBuilds == {b \in DOMAIN build : build[b].status = "pending"}

(* pipeline.Jobs() is ORDER BY j.id...                                     *)
FirstJob(j, jobs) == j \in jobs /\ \A k \in jobs : JobId[j] <= JobId[k]

(* ...and the builds of a job ORDER BY b.id.                               *)
FirstBuild(b, queue) ==
  /\ b \in queue
  /\ FirstJob(build[b].job, {build[c].job : c \in queue})
  /\ \A c \in queue : build[c].job = build[b].job => b <= c

(* TryStartPendingBuildsForJob goes on with the next build, or ends and,   *)
(* on a runner, tick releases the scheduling lock.                         *)
Return(p) ==
  /\ proc' = [proc EXCEPT ![p] = Idle]
  /\ lock' = IF lock = p THEN None ELSE lock

GoOn(p, queue) ==
  \/ queue = {} /\ Return(p)
  \/ \E b \in queue :
       /\ FirstBuild(b, queue)
       /\ proc' = [proc EXCEPT ![p].pc = "running", ![p].queue = queue, ![p].now = b,
                               ![p].inputs = 0]
       /\ lock' = lock

(* tryStartNextPendingBuild returned false: no more builds of this job.    *)
NotStarted(p) ==
  GoOn(p, {b \in proc[p].queue : build[b].job # JobOf(p)})

Started(p) == GoOn(p, proc[p].queue \ {Current(p)})

At(p, pc) == proc[p].pc = pc
Goto(p, pc) == proc' = [proc EXCEPT ![p].pc = pc] /\ lock' = lock

-----------------------------------------------------------------------------
(* Runner.tick: take the lock (and find that the interval has passed)...   *)
Tick(r) ==
  /\ At(r, "idle")
  /\ lock = None
  /\ lock' = r
  /\ proc' = [proc EXCEPT ![r].pc = "versions"]
  /\ UNCHANGED <<build, mapping, groups, outside>>

(* LoadVersionsDB: the versions, and which of them a job's builds used.    *)
Used(j) == {build[b].inputs : b \in {c \in DOMAIN build : build[c].job = j}}

LoadVersionsDB(p, pc) ==
  proc' = [proc EXCEPT ![p].pc = pc, ![p].latest = version,
                       ![p].used = [j \in Job |-> Used(j)]]

LoadVersions(r) ==
  /\ At(r, "versions")
  /\ LoadVersionsDB(r, "jobs")
  /\ UNCHANGED <<build, mapping, groups, lock, outside>>

LoadJobs(r) ==
  /\ At(r, "jobs")
  /\ proc' = [proc EXCEPT ![r].pc = "map", ![r].todo = Job, ![r].held = paused]
  /\ UNCHANGED <<build, mapping, groups, lock, outside>>

(* ...Schedule: for every job, SaveNextInputMapping (DeleteNextInputMapping *)
(* when the inputs do not resolve)...                                      *)
MapInputs(r) ==
  /\ At(r, "map")
  /\ \E j \in proc[r].todo :
       LET first == proc[r].latest # 0 /\ proc[r].latest \notin proc[r].used[j] IN
       /\ FirstJob(j, proc[r].todo)
       /\ mapping' = [mapping EXCEPT ![j] = proc[r].latest]
       /\ proc' = [proc EXCEPT
            ![r].pc = IF first /\ j \in Triggered THEN "ensure" ELSE "map",
            ![r].todo = IF first /\ j \in Triggered THEN @ ELSE @ \ {j}]
  /\ UNCHANGED <<build, groups, lock, outside>>

(* ...and EnsurePendingBuildExists when a version is new to the job (no    *)
(* build is created beyond the bound)...                                   *)
EnsureAnother(r) ==
  /\ At(r, "ensure")
  /\ \E j \in proc[r].todo :
       /\ FirstJob(j, proc[r].todo)
       /\ build' = IF Len(build) = MaxBuilds THEN build ELSE Append(build, NewBuild(j, FALSE))
       /\ proc' = [proc EXCEPT ![r].pc = "map", ![r].todo = @ \ {j}]
  /\ UNCHANGED <<mapping, groups, lock, outside>>

EnsurePendingBuildExists(r) ==
  /\ At(r, "ensure")
  /\ \E j \in proc[r].todo :
       /\ FirstJob(j, proc[r].todo)
       /\ build' = IF PendingBuilds(j) # {} \/ Len(build) = MaxBuilds THEN build
                   ELSE Append(build, NewBuild(j, FALSE))
       /\ proc' = [proc EXCEPT ![r].pc = "map", ![r].todo = @ \ {j}]
  /\ UNCHANGED <<mapping, groups, lock, outside>>

(* ...then the pending builds of all jobs, job by job.                     *)
GetAllPendingBuilds(r) ==
  /\ At(r, "map")
  /\ proc[r].todo = {}
  /\ GoOn(r, AllPendingBuilds)
  /\ UNCHANGED <<build, mapping, groups, outside>>

(* CreateJobBuild, TriggerImmediately: load the job, create a build...     *)
TriggerImmediately(t, j) ==
  /\ At(t, "idle")
  /\ Len(build) < MaxBuilds
  /\ build' = Append(build, NewBuild(j, TRUE))
  /\ proc' = [proc EXCEPT ![t].pc = "pending", ![t].todo = {j}, ![t].held = paused]
  /\ UNCHANGED <<mapping, groups, lock, outside>>

(* ...and try to start the pending builds of the job.                      *)
GetPendingBuilds(t) ==
  /\ At(t, "pending")
  /\ \E j \in proc[t].todo : GoOn(t, PendingBuilds(j))
  /\ UNCHANGED <<build, mapping, groups, outside>>

-----------------------------------------------------------------------------
(* tryStartNextPendingBuild. First isMaxInFlightReached: updateSerialGroups *)
(* and GetRunningBuildsBySerialGroup...                                    *)
RunningScheduled(j, gs) ==
  {b \in DOMAIN build :
     gs[build[b].job] \cap SerialGroups[j] # {} /\ build[b].scheduled}

Running(j, gs) ==
  {b \in DOMAIN build :
     /\ gs[build[b].job] \cap SerialGroups[j] # {}
     /\ \/ build[b].status = "started"
        \/ build[b].status = "pending" /\ build[b].scheduled}

OverLimit(n, max) == n > max

AtLimit(n, max) == n >= max

CountRunning(p) ==
  /\ At(p, "running")
  /\ LET j == JobOf(p)
         reached == AtLimit(Cardinality(Running(j, groups')), MaxInFlight[j])
     IN IF MaxInFlight[j] = 0
        THEN Goto(p, IF build[Current(p)].manual THEN "scan" ELSE "determined") /\ groups' = groups
        ELSE /\ groups' = [groups EXCEPT ![j] = SerialGroups[j]]
             /\ IF reached THEN NotStarted(p) ELSE Goto(p, "next")
  /\ UNCHANGED <<build, mapping, outside>>

(* ...then GetNextPendingBuildBySerialGroup, which must be this build.     *)
NextPending(j) ==
  {b \in DOMAIN build :
     /\ groups[build[b].job] \cap SerialGroups[j] # {}
     /\ build[b].status = "pending"
     /\ build[b].job \notin paused
     /\ mapping[build[b].job] # 0}

IsNextPending(p) ==
  /\ At(p, "next")
  /\ IF /\ Current(p) \in NextPending(JobOf(p))
        /\ \A b \in NextPending(JobOf(p)) : Current(p) <= b
     THEN Goto(p, IF build[Current(p)].manual THEN "scan" ELSE "determined")
     ELSE NotStarted(p)
  /\ UNCHANGED <<build, mapping, groups, outside>>

(* A manually triggered build: scan the resources, load the versions again *)
(* and map the inputs again.                                               *)
Scan(p) ==
  /\ At(p, "scan")
  /\ LoadVersionsDB(p, "remap")
  /\ UNCHANGED <<build, mapping, groups, lock, outside>>

Remap(p) ==
  /\ At(p, "remap")
  /\ mapping' = [mapping EXCEPT ![JobOf(p)] = proc[p].latest]
  /\ Goto(p, "determined")
  /\ UNCHANGED <<build, groups, outside>>

(* GetNextBuildInputs: two queries, and the inputs may be gone in between. *)
InputsDetermined(p) ==
  /\ At(p, "determined")
  /\ IF mapping[JobOf(p)] = 0 THEN NotStarted(p) ELSE Goto(p, "inputs")
  /\ UNCHANGED <<build, mapping, groups, outside>>

GetNextBuildInputs(p) ==
  /\ At(p, "inputs")
  /\ proc' = [proc EXCEPT ![p].pc = "paused", ![p].inputs = mapping[JobOf(p)]]
  /\ UNCHANGED <<build, mapping, groups, lock, outside>>

(* CheckPaused asks for the pipeline, job.Paused() is the loaded value.    *)
CheckPaused(p) ==
  /\ At(p, "paused")
  /\ IF pipelinePaused \/ JobOf(p) \in proc[p].held
     THEN NotStarted(p)
     ELSE Goto(p, "schedule")
  /\ UNCHANGED <<build, mapping, groups, outside>>

(* Schedule has no condition but the id.                                   *)
Schedule(p) ==
  /\ At(p, "schedule")
  /\ build' = [build EXCEPT ![Current(p)].scheduled = TRUE]
  /\ Goto(p, "use")
  /\ UNCHANGED <<mapping, groups, outside>>

UseNoInputs(p) ==
  /\ At(p, "use")
  /\ Goto(p, "create")
  /\ UNCHANGED <<build, mapping, groups, outside>>

UseInputs(p) ==
  /\ At(p, "use")
  /\ build' = [build EXCEPT ![Current(p)].inputs = proc[p].inputs]
  /\ Goto(p, "create")
  /\ UNCHANGED <<mapping, groups, outside>>

(* No plan can be made: Finish(errored), whatever became of the build.     *)
PlanFails(p) ==
  /\ At(p, "create")
  /\ build' = [build EXCEPT ![Current(p)].status = "over"]
  /\ NotStarted(p)
  /\ UNCHANGED <<mapping, groups, outside>>

(* build.Start, of a pending build only; a build that is not is resumed    *)
(* like one that is, and the next build is tried.                          *)
StartBuild(b, p) ==
  build' = IF build[b].status = "pending"
           THEN [build EXCEPT ![b].status = "started", ![b].plan = proc[p].inputs]
           ELSE build

StartSkips(p) ==
  /\ At(p, "create")
  /\ \E b \in proc[p].queue : (\A c \in proc[p].queue : c <= b) /\ StartBuild(b, p)
  /\ Started(p)
  /\ UNCHANGED <<mapping, groups, outside>>

CreateBuild(p) ==
  /\ At(p, "create")
  /\ StartBuild(Current(p), p)
  /\ Started(p)
  /\ UNCHANGED <<mapping, groups, outside>>

(* Start fails, before its commit or after it (Notify).                    *)
CreateBuildFails(p) ==
  /\ At(p, "create")
  /\ faults < MaxFaults
  /\ faults' = faults + 1
  /\ build' = build \/ StartBuild(Current(p), p)
  /\ NotStarted(p)
  /\ UNCHANGED <<mapping, groups, paused, pipelinePaused, version, versions>>

(* A query fails and the error is returned (tick ends, the pipeline's      *)
(* processes are restarted), or the ATC crashes.                           *)
Fault(p) ==
  /\ ~At(p, "idle")
  /\ faults < MaxFaults
  /\ faults' = faults + 1
  /\ Return(p)
  /\ UNCHANGED <<build, mapping, groups, paused, pipelinePaused, version, versions>>

-----------------------------------------------------------------------------
(* Builds end (Finish), and are aborted whatever they are (MarkAsAborted). *)
FinishBuild(b) ==
  /\ build[b].status = "started"
  /\ build' = [build EXCEPT ![b].status = "over"]
  /\ UNCHANGED <<mapping, groups, lock, proc, outside>>

AbortBuild(b) ==
  /\ build' = [build EXCEPT ![b].status = "over"]
  /\ UNCHANGED <<mapping, groups, lock, proc, outside>>

(* Resource checks find versions; disabling or unpinning one may leave the *)
(* inputs unresolvable.                                                    *)
FindVersion ==
  /\ versions < MaxVersions
  /\ versions' = versions + 1
  /\ version' \in {0, versions + 1}
  /\ UNCHANGED <<build, mapping, groups, lock, proc, paused, pipelinePaused, faults>>

PauseJob(j) ==
  /\ Pausing
  /\ paused' \in {paused \cup {j}, paused \ {j}}
  /\ UNCHANGED <<build, mapping, groups, lock, proc, pipelinePaused, version, versions, faults>>

PausePipeline ==
  /\ Pausing
  /\ pipelinePaused' = ~pipelinePaused
  /\ UNCHANGED <<build, mapping, groups, lock, proc, paused, version, versions, faults>>

-----------------------------------------------------------------------------
RunnerStep(r) ==
  LoadVersions(r) \/ LoadJobs(r) \/ MapInputs(r) \/ EnsurePendingBuildExists(r)
    \/ GetAllPendingBuilds(r)

StarterStep(p) ==
  \/ CountRunning(p) \/ IsNextPending(p) \/ Scan(p) \/ Remap(p)
  \/ InputsDetermined(p) \/ GetNextBuildInputs(p) \/ CheckPaused(p)
  \/ Schedule(p) \/ UseInputs(p) \/ CreateBuild(p)

Next ==
  \/ \E r \in Runner : Tick(r) \/ RunnerStep(r)
  \/ \E t \in Trigger : GetPendingBuilds(t) \/ \E j \in Job : TriggerImmediately(t, j)
  \/ \E p \in Proc : StarterStep(p) \/ PlanFails(p) \/ CreateBuildFails(p) \/ Fault(p)
  \/ \E b \in DOMAIN build : FinishBuild(b) \/ AbortBuild(b)
  \/ FindVersion \/ PausePipeline \/ \E j \in Job : PauseJob(j)

Spec == Init /\ [][Next]_vars

(* Runners tick again and again, every goroutine goes on, and a build that *)
(* runs ends.                                                              *)
Fairness ==
  /\ WF_vars(\E r \in Runner : Tick(r))
  /\ \A r \in Runner : WF_vars(RunnerStep(r))
  /\ \A t \in Trigger : WF_vars(GetPendingBuilds(t))
  /\ \A p \in Proc : WF_vars(StarterStep(p))
  /\ \A b \in 1..MaxBuilds : WF_vars(b \in DOMAIN build /\ FinishBuild(b))

FairSpec == Spec /\ Fairness

-----------------------------------------------------------------------------
TypeOK ==
  /\ Len(build) <= MaxBuilds
  /\ \A b \in DOMAIN build :
       build[b] \in [job : Job, status : Status, scheduled : BOOLEAN, manual : BOOLEAN,
                     inputs : 0..MaxVersions, plan : 0..MaxVersions]
  /\ paused \subseteq Job /\ pipelinePaused \in BOOLEAN
  /\ versions \in 1..MaxVersions /\ version \in 0..versions
  /\ mapping \in [Job -> 0..versions]
  /\ \A j \in Job : groups[j] \in {{}, SerialGroups[j]}
  /\ lock \in Runner \cup {None}
  /\ \A r \in Runner : lock = r <=> ~At(r, "idle")
  /\ \A p \in Proc :
       /\ proc[p].queue \subseteq DOMAIN build
       /\ proc[p].queue # {} => Current(p) \in proc[p].queue
  /\ faults \in 0..MaxFaults

(* The builds of j's serial groups that are running.                       *)
InFlight(j) ==
  {b \in DOMAIN build : /\ SerialGroups[build[b].job] \cap SerialGroups[j] # {}
                        /\ build[b].status = "started"}

(* A build is started only while fewer builds of its job, and of the jobs  *)
(* in its job's serial groups, are running than max_in_flight allows.      *)
MaxInFlightRespected ==
  [][\A b \in DOMAIN build :
       LET j == build[b].job IN
       (build[b].status # "started" /\ build'[b].status = "started" /\ MaxInFlight[j] > 0)
         => Cardinality(InFlight(j)) < MaxInFlight[j]]_vars

(* A build that was started has recorded as its inputs (build_inputs, from *)
(* which passed constraints and the next versions are computed) the        *)
(* versions in its plan, which are the ones it fetches.                    *)
InputsAreThePlans ==
  \A b \in DOMAIN build :
    build[b].status = "started" => build[b].inputs = build[b].plan

(* Builds of a job are started in the order they were created: what        *)
(* tryStartNextPendingBuild starts is never overtaken.                     *)
StartedInOrder ==
  [][\A b \in DOMAIN build :
       (build[b].status = "pending" /\ build'[b].status = "started") =>
         \A c \in 1..(b - 1) : build[c].job = build[b].job => build[c].status # "pending"]_vars

(* The scheduler never creates two builds of a job for the same version    *)
(* (EnsurePendingBuildExists on a first occurrence).                       *)
NoVersionTriggersTwice ==
  \A b, c \in DOMAIN build :
    (b # c /\ build[b].job = build[c].job /\ ~build[b].manual /\ ~build[c].manual
       /\ build[b].plan # 0)
    => build[b].plan # build[c].plan

(* While nothing is paused, no query fails and the inputs resolve from     *)
(* some point on, every pending build leaves the queue.                    *)
PendingBuildsLeave ==
  <>[](version # 0) =>
    \A b \in 1..MaxBuilds :
      (b \in DOMAIN build /\ build[b].status = "pending")
      ~> (b \in DOMAIN build /\ build[b].status # "pending")
=============================================================================
