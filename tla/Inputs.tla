------------------------------- MODULE Inputs --------------------------------
(***************************************************************************)
(* The versions of a pipeline's resources and the inputs they give a job:  *)
(* the rows that resource checks and builds save (db/pipeline.go,          *)
(* engine/exec_engine_build_delegate.go), the versions database that the   *)
(* scheduler caches (LoadVersionsDB) and the mapping it computes from it   *)
(* (scheduler/inputmapper, module Algorithm).                              *)
(*                                                                         *)
(* The cache is valid while the latest modified_time is the one it was     *)
(* loaded at. Times matter only for that: `modified` says that they        *)
(* differ, and an open transaction knows whether the time it began at is   *)
(* still the newest. Transactions that save versions of one resource are   *)
(* taken to do so one after the other: two that overlap may compute the    *)
(* same check order, and which version is the latest is then arbitrary.    *)
(***************************************************************************)
EXTENDS Algorithm, FiniteSetsExt

CONSTANTS
  Resource,
  Upstream,     \* jobs whose builds the inputs may have to pass
  Down,         \* the job whose inputs are mapped
  Configs,      \* the configurations its inputs may have
  FirstRows,    \* the versions, the upstream builds and the outputs of these
  FirstBuilds,  \* when the scheduler starts
  FirstOutputs,
  MaxVersions,  \* bound: versions
  MaxBuilds,    \* bound: builds of upstream jobs
  MaxEvents     \* bound: transactions that change the tables

VARIABLES
  cfgs,     \* the configuration of the job's inputs
  row,      \* versioned_resources: res, check order, enabled; the id is the place
  build,    \* builds of upstream jobs: job and status
  outs,     \* build_outputs: id and build
  ins,      \* build_inputs of the job: id, name and build
  modified, \* the latest modified_time is not cachedAt
  tx,       \* an open SaveResourceVersions
  cache,    \* pipeline.versionsDB
  pc, db,   \* the scheduler's place in LoadVersionsDB, and what it has read
  next,     \* next_build_inputs
  alone,    \* independent_build_inputs
  events,   \* transactions so far
  finished, \* builds that succeeded since the outputs were read last
  missed,   \* versions that a late transaction saved since the cache was loaded
  moved     \* whether an order changed without a new version since then

tables == <<row, build, outs, ins>>
ghosts == <<events, finished, missed, moved>>
vars == <<cfgs, tables, modified, tx, cache, pc, db, next, alone, ghosts>>

NoDB == [versions |-> {}, outputs |-> {}, inputs |-> {}]
NoTx == [res |-> "none", late |-> FALSE]

Init ==
  /\ cfgs \in Configs
  /\ row = FirstRows
  /\ build = FirstBuilds /\ outs \in FirstOutputs /\ ins = {}
  /\ modified = TRUE
  /\ tx = NoTx
  /\ cache = NoDB /\ pc = "idle" /\ db = NoDB
  /\ next = NoMapping /\ alone = NoMapping
  /\ events = 0 /\ finished = {} /\ missed = {} /\ moved = FALSE

Id == DOMAIN row
OfResource(r) == {id \in Id : row[id].res = r}
MaxOrder(r) == Max({row[id].order : id \in OfResource(r)} \cup {0})

Event == events < MaxEvents /\ events' = events + 1

(* A commit whose transaction began after every other one.                 *)
Modify ==
  /\ Event
  /\ modified' = TRUE
  /\ tx' = IF tx = NoTx THEN tx ELSE [tx EXCEPT !.late = TRUE]

(* saveVersionedResource and incrementCheckOrderWhenNewerVersion.          *)
NewVersion(r) == Append(row, [res |-> r, order |-> MaxOrder(r) + 1, enabled |-> TRUE])
Bump(id) == [row EXCEPT ![id].order = MaxOrder(row[id].res) + 1]

-----------------------------------------------------------------------------
(* A check found versions: SaveResourceVersions begins...                  *)
Begin(r) ==
  /\ tx = NoTx /\ events < MaxEvents
  /\ tx' = [res |-> r, late |-> FALSE]
  /\ UNCHANGED <<cfgs, tables, modified, cache, pc, db, next, alone, ghosts>>

(* ...and commits: a new version, or one that is known and the newest      *)
(* again, whose row gets a new order and keeps its modified_time.          *)
CommitNew ==
  /\ tx # NoTx /\ Len(row) < MaxVersions
  /\ Event
  /\ row' = NewVersion(tx.res)
  /\ modified' = (modified \/ ~tx.late)
  /\ missed' = IF modified' THEN missed ELSE missed \cup {Len(row) + 1}
  /\ tx' = NoTx
  /\ UNCHANGED <<cfgs, build, outs, ins, cache, pc, db, next, alone, finished, moved>>

CommitKnown ==
  /\ tx # NoTx
  /\ Event
  /\ \E id \in OfResource(tx.res) : row[id].order < MaxOrder(tx.res) /\ row' = Bump(id)
  /\ moved' = TRUE
  /\ tx' = NoTx
  /\ UNCHANGED <<cfgs, build, outs, ins, modified, cache, pc, db, next, alone, finished, missed>>

(* DisableVersionedResource, EnableVersionedResource.                      *)
(* Mutant: modified_time is not set.                                       *)
ToggleQuietly(id) ==
  /\ row' = [row EXCEPT ![id].enabled = ~@]
  /\ Event
  /\ UNCHANGED <<cfgs, build, outs, ins, modified, tx, cache, pc, db, next, alone, finished, missed, moved>>
ToggleVersionedResource(id) ==
  /\ row' = [row EXCEPT ![id].enabled = ~@]
  /\ Modify
  /\ UNCHANGED <<cfgs, build, outs, ins, cache, pc, db, next, alone, finished, missed, moved>>

-----------------------------------------------------------------------------
(* Builds of upstream jobs. A put saves its version while the build runs,  *)
(* what was only fetched is saved after a build that succeeded.            *)
StartUpstream(j) ==
  /\ Len(build) < MaxBuilds /\ events < MaxEvents
  /\ build' = Append(build, [job |-> j, status |-> "started"])
  /\ UNCHANGED <<cfgs, row, outs, ins, modified, tx, cache, pc, db, next, alone, ghosts>>

ResOf(b) == {row[o.id].res : o \in {p \in outs : p.build = b}}

SaveOutput(b, id) ==
  /\ outs' = outs \cup {[id |-> id, build |-> b]}
  /\ Modify
  /\ UNCHANGED <<cfgs, build, ins, cache, pc, db, next, alone, finished, missed, moved>>

PutOutput(b) ==
  /\ build[b].status = "started"
  /\ Len(row) < MaxVersions
  /\ \E r \in Resource \ ResOf(b) : row' = NewVersion(r)
  /\ SaveOutput(b, Len(row) + 1)

ImplicitOutput(b) ==
  /\ build[b].status = "succeeded"
  /\ \E id \in Id : row[id].res \notin ResOf(b) /\ SaveOutput(b, id)
  /\ UNCHANGED row

Finish(b) ==
  /\ build[b].status = "started"
  /\ \E s \in {"succeeded", "failed"} : build' = [build EXCEPT ![b].status = s]
  /\ finished' = finished \cup {b}
  /\ UNCHANGED <<cfgs, row, outs, ins, modified, tx, cache, pc, db, next, alone, events, missed, moved>>

-----------------------------------------------------------------------------
(* LoadVersionsDB, a query a step.                                         *)
Enabled == {id \in Id : row[id].enabled}

Versions == {[id |-> id, res |-> row[id].res, order |-> row[id].order] : id \in Enabled}

Outputs ==
  {[id |-> o.id, res |-> row[o.id].res, order |-> row[o.id].order, build |-> o.build, job |-> build[o.build].job] :
     o \in {p \in outs : p.id \in Enabled /\ build[p.build].status = "succeeded"}}

Inputs == {[id |-> i.id, res |-> row[i.id].res, build |-> i.build, job |-> Down, name |-> i.name] :
             i \in {k \in ins : k.id \in Enabled}}

LoadTime ==
  /\ pc = "idle"
  /\ pc' = IF modified THEN "outputs" ELSE "map"
  /\ modified' = FALSE
  /\ IF modified THEN missed' = {} /\ moved' = FALSE ELSE UNCHANGED <<missed, moved>>
  /\ UNCHANGED <<cfgs, tables, tx, cache, db, next, alone, events, finished>>

LoadOutputs ==
  /\ pc = "outputs"
  /\ db' = [db EXCEPT !.outputs = Outputs]
  /\ pc' = "inputs"
  /\ finished' = {}
  /\ UNCHANGED <<cfgs, tables, modified, tx, cache, next, alone, events, missed, moved>>

LoadInputs ==
  /\ pc = "inputs"
  /\ db' = [db EXCEPT !.inputs = Inputs]
  /\ pc' = "versions"
  /\ UNCHANGED <<cfgs, tables, modified, tx, cache, next, alone, ghosts>>

LoadVersions ==
  /\ pc = "versions"
  /\ cache' = [db EXCEPT !.versions = Versions]
  /\ db' = NoDB
  /\ pc' = "map"
  /\ UNCHANGED <<cfgs, tables, modified, tx, next, alone, ghosts>>

(* A query fails: versionsDB and cachedAt stay what they were.             *)
LoadFails ==
  /\ pc \in {"outputs", "inputs", "versions"}
  /\ modified' = TRUE
  /\ db' = NoDB
  /\ pc' = "idle"
  /\ UNCHANGED <<cfgs, tables, tx, cache, next, alone, ghosts>>

(* inputMapper.SaveNextInputMapping. An input pinned to a version that is  *)
(* not there or disabled is left out, and then there are not enough.       *)
Transformed == {i \in DOMAIN cfgs : cfgs[i].pinned # 0 => cfgs[i].pinned \in Enabled}

SaveNextInputMapping ==
  /\ pc = "map"
  /\ alone' = UNION {Resolve(cache, <<cfgs[i]>>) : i \in Transformed}
  /\ \/ next' = IF Cardinality(alone') < Len(cfgs) THEN NoMapping ELSE Resolve(cache, cfgs)
     \/ UNCHANGED next  \* the second transaction failed
  /\ pc' = "idle"
  /\ UNCHANGED <<cfgs, tables, modified, tx, cache, db, ghosts>>

(* A build of the job is created and starts with them: UseInputs.          *)
UseInputs ==
  /\ next # NoMapping
  /\ Modify
  /\ ins' = ins \cup {[id |-> n.id, name |-> n.name, build |-> events'] : n \in next}
  /\ UNCHANGED <<cfgs, row, build, outs, cache, pc, db, next, alone, finished, missed, moved>>

Next ==
  \/ \E r \in Resource : Begin(r)
  \/ CommitNew \/ CommitKnown
  \/ \E id \in Id : ToggleVersionedResource(id)
  \/ \E j \in Upstream : StartUpstream(j)
  \/ \E b \in DOMAIN build : PutOutput(b) \/ ImplicitOutput(b) \/ Finish(b)
  \/ LoadTime \/ LoadOutputs \/ LoadInputs \/ LoadVersions \/ LoadFails \/ SaveNextInputMapping
  \/ UseInputs

Spec == Init /\ [][Next]_vars

-----------------------------------------------------------------------------
(* Every variable has its type.                                            *)
TypeOK ==
  /\ cfgs \in Configs
  /\ Len(row) <= MaxVersions
  /\ \A id \in Id : row[id].res \in Resource /\ row[id].order \in Nat /\ row[id].enabled \in BOOLEAN
  /\ Len(build) <= MaxBuilds
  /\ \A b \in DOMAIN build : build[b].job \in Upstream /\ build[b].status \in {"started", "succeeded", "failed"}
  /\ \A o \in outs : o.id \in Id /\ o.build \in DOMAIN build
  /\ \A i \in ins : i.id \in Id /\ i.build \in 1..events
  /\ modified \in BOOLEAN /\ tx.res \in Resource \cup {"none"}
  /\ pc \in {"idle", "outputs", "inputs", "versions", "map"}
  /\ \A n \in next \cup alone : n.id \in Id

(* What the scheduler maps inputs from is what the tables hold, though it  *)
(* is reloaded only when the latest modified_time has changed, except for  *)
(* three things that leave that time alone: a build that succeeded after   *)
(* its outputs were saved, a transaction that committed after one that     *)
(* began later, and a known version that a check found to be the newest.   *)
CacheExplained ==
  (pc = "map" /\ ~modified) =>
    LET Ids(vs) == {v.id : v \in vs}
        Passed(os) == {<<o.id, o.build>> : o \in os}
    IN  /\ cache.inputs = Inputs
        /\ Ids(cache.versions) \subseteq Enabled /\ Enabled \ Ids(cache.versions) \subseteq missed
        /\ Passed(cache.outputs) \subseteq Passed(Outputs)
        /\ \A p \in Passed(Outputs) \ Passed(cache.outputs) : p[2] \in finished
        /\ moved \/ \A v \in cache.versions \cup cache.outputs : v.order = row[v.id].order

(* The mapping that is about to be saved. An input that is both pinned and *)
(* passed is not handled by Reduce, see PinnedIsUsed.                      *)
Mapping == Resolve(cache, cfgs)
Mapped(m) == {[name |-> cfgs[i].name, id |-> m[i]] : i \in DOMAIN cfgs}
Plain == \A i \in DOMAIN cfgs : cfgs[i].pinned = 0 \/ cfgs[i].passed = {}

(* No right choice has a newer version for the first input in which it     *)
(* differs from m. With version: every, it has none that m skips.          *)
NoneNewer(m, right) ==
  \A r \in right : \A i \in DOMAIN cfgs :
    (\A k \in 1..(i - 1) : r[k] = m[k]) =>
      LET c == Candidates(cache, cfgs[i])
          Order(id) == (CHOOSE v \in c : v.id = id).order
          used == {v.order : v \in {u \in c : u.id \in ExistingVersions(cache, cfgs[i])}}
      IN  IF cfgs[i].every /\ used # {}
          THEN ~(Max(used) < Order(r[i]) /\ Order(r[i]) < Order(m[i]))
          ELSE Order(r[i]) <= Order(m[i])

(* Inputs that passed a job passed it in one build, for every job they     *)
(* have in common ("finds only versions that passed through together",     *)
(* db/algorithm/algorithm_test.go); when there are such versions the       *)
(* search finds some, as pruning and backtracking lose none; and of all    *)
(* of them it takes the newest, the first input's first.                   *)
NewestTogether ==
  pc = "map" /\ Plain =>
    LET mapping == Mapping
        right == RightChoices(cache, cfgs)
    IN  IF mapping = NoMapping THEN right = {}
        ELSE \E m \in right : mapping = Mapped(m) /\ NoneNewer(m, right)

(* "does not resolve a version when the pinned version has not passed the  *)
(* constraint" (db/algorithm/algorithm_test.go): a pinned input has the    *)
(* pinned version or the job has no inputs.                                *)
PinnedIsUsed ==
  \A n \in next : \A i \in DOMAIN cfgs : cfgs[i].name = n.name /\ cfgs[i].pinned # 0 => n.id = cfgs[i].pinned
=============================================================================
