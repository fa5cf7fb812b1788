---------------------------- MODULE VolumesProofs ----------------------------
(***************************************************************************)
(* For any number of builds, volumes, caches and faults:                   *)
(*   NoneLeaks      a volume in baggageclaim has a row that leads the      *)
(*                  collector to it, ParentsStay: and its parent is there; *)
(*   ReferencesHold no statement leaves a reference to a row that is gone; *)
(*   InputsStay     what the get step of a running build returned stays;   *)
(*   FetchedOnce    a version on the worker is not fetched again.          *)
(*                                                                         *)
(* The first two rest on the state machine of the rows, which is spread    *)
(* over processes that act on what they read earlier.  IInv says what each *)
(* of them may rely on: a volume that a process is making is creating, and *)
(* its own; a volume that a job of the collector removes is destroying; a  *)
(* parent is created; and a created row has its volume.                    *)
(*                                                                         *)
(* The last two rest on what a process relies on while others act, which   *)
(* InputInv says: the use it took, the lock it holds and its container.    *)
(***************************************************************************)
EXTENDS Volumes, TLAPS

Fields == {"state", "owner", "cache", "task", "team", "parent"}

Making(b) == pc[b] \in {"make", "mark"}

Typed ==
    /\ DOMAIN pc = Build /\ DOMAIN cur = Build
    /\ kind \in {"get", "task"}
    /\ nextId \in Nat
    /\ \A v \in Volumes : v \in Nat /\ v < nextId /\ DOMAIN volume[v] = Fields

\* What the jobs of the collector remove: ids are not used again.
JobsInv ==
    \A v \in jobs : v \in Nat /\ v < nextId /\ (v \in Volumes => volume[v].state = "destroying")

\* The foreign key (parent_id, parent_state).
ParentsInv ==
    \A v \in Volumes :
        volume[v].parent # None =>
            volume[v].parent \in Volumes /\ volume[volume[v].parent].state = "created"

\* A volume being made is made by one process, of its own build.
MakersInv ==
    /\ \A b \in Build :
          Making(b) => /\ cur[b] \in Volumes
                       /\ volume[cur[b]].state = "creating"
                       /\ volume[cur[b]].owner = NoOwner \/ \E s \in Step : volume[cur[b]].owner = <<b, s>>
    /\ \A b, c \in Build : Making(b) /\ Making(c) /\ cur[b] = cur[c] => b = c

\* What rows say of baggageclaim.
BackedInv ==
    /\ \A b \in Build : pc[b] = "mark" => cur[b] \in bc
    /\ \A v \in Volumes : volume[v].state = "created" => v \in bc
    /\ \A v \in Volumes : volume[v].state = "failed" => v \notin bc \ lost

IInv == Typed /\ JobsInv /\ ParentsInv /\ MakersInv /\ BackedInv /\ NothingLeaks

-----------------------------------------------------------------------------
\* Steps that leave the states of rows, and baggageclaim, alone.

SameRows ==
    /\ nextId' = nextId
    /\ Volumes' = Volumes
    /\ \A v \in Volumes : /\ DOMAIN volume'[v] = Fields
                          /\ volume'[v].state = volume[v].state
                          /\ volume'[v].parent = volume[v].parent
                          /\ volume'[v].owner \in {volume[v].owner, NoOwner}

SameProcs ==
    /\ kind' = kind
    /\ DOMAIN pc' = Build /\ DOMAIN cur' = Build
    /\ \A b \in Build : Making(b)' => pc'[b] = pc[b] /\ cur'[b] = cur[b]

Calm == SameRows /\ SameProcs /\ bc' = bc /\ lost' = lost /\ jobs' \subseteq jobs

LEMMA CalmStep ==
  ASSUME IInv, Calm
  PROVE  IInv'
<1> USE DEF Calm, SameRows, SameProcs
<1>1. Typed'
  BY DEF IInv, Typed
<1>2. JobsInv'
  BY DEF IInv, JobsInv
<1>3. ParentsInv'
  BY DEF IInv, ParentsInv
<1>4. MakersInv'
  BY DEF IInv, MakersInv, Making
<1>5. BackedInv'
  BY DEF IInv, BackedInv, Making
<1>6. NothingLeaks'
  BY DEF IInv, NothingLeaks
<1> QED BY <1>1, <1>2, <1>3, <1>4, <1>5, <1>6 DEF IInv

\* Rows that are not written are the same rows.
LEMMA RowsKept ==
  ASSUME IInv, volume' = volume, nextId' = nextId
  PROVE  SameRows
BY DEF IInv, Typed, SameRows, Volumes

\* A process that goes elsewhere than to make a volume.
LEMMA ProcMoves ==
  ASSUME IInv, NEW b \in Build, NEW l, l \notin {"make", "mark"}, Goto(b, l), kind' = kind,
         DOMAIN cur' = Build, \A c \in Build \ {b} : cur'[c] = cur[c]
  PROVE  SameProcs
BY DEF IInv, Typed, SameProcs, Goto, Making

LEMMA ProcsKept ==
  ASSUME IInv, pc' = pc, cur' = cur, kind' = kind
  PROVE  SameProcs
BY DEF IInv, Typed, SameProcs, Making

LEMMA FailMoves ==
  ASSUME IInv, NEW b \in Build, Fail(b), kind' = kind
  PROVE  SameProcs
BY ProcMoves DEF Fail, IInv, Typed

-----------------------------------------------------------------------------
\* The steps of builds that find caches and locks.
LEMMA FindSteps ==
  ASSUME IInv, NEW b \in Build,
         UseCache(b) \/ FindCached(b) \/ LockFetch(b) \/ Recheck(b)
  PROVE  IInv'
<1> USE DEF UseCache, FindCached, LockFetch, Recheck
<1>1. /\ volume' = volume /\ nextId' = nextId /\ kind' = kind /\ cur' = cur
      /\ bc' = bc /\ lost' = lost /\ jobs' = jobs
  BY DEF rowVars, gcVars, ghosts
<1>2. SameRows
  BY <1>1, RowsKept
<1>3. \E l \in {"find", "input", "lock", "recheck", "row"} : Goto(b, l)
  OBVIOUS
<1>4. SameProcs
  BY <1>1, <1>3, ProcMoves DEF IInv, Typed
<1> QED BY <1>1, <1>2, <1>4, CalmStep DEF Calm

LEMMA RunSteps ==
  ASSUME IInv, NEW b \in Build, RunContainer(b) \/ RunFails(b)
  PROVE  IInv'
<1> USE DEF RunContainer, RunFails
<1>1. /\ volume' = volume /\ nextId' = nextId /\ kind' = kind
      /\ bc' = bc /\ lost' = lost /\ jobs' = jobs
  BY DEF gcVars, ghosts
<1>2. SameRows
  BY <1>1, RowsKept
<1>3. cur' = cur
  BY DEF FailContainer, Fail
<1>4. \E l \in {"init", "done", "register", "failed"} : Goto(b, l)
  BY DEF FailContainer, Fail, StepOf, IInv, Typed
<1>5. SameProcs
  BY <1>1, <1>3, <1>4, ProcMoves DEF IInv, Typed
<1> QED BY <1>1, <1>2, <1>5, CalmStep DEF Calm

LEMMA InitSteps ==
  ASSUME IInv, NEW b \in Build, InitializeResourceCache(b)
  PROVE  IInv'
<1>1. nextId' = nextId /\ kind' = kind /\ bc' = bc /\ lost' = lost /\ jobs' = jobs
  BY DEF InitializeResourceCache, gcVars
<1>2. SameRows
  <2>1. CASE volume' = volume
    BY <1>1, <2>1, RowsKept
  <2>2. CASE volume' = [volume EXCEPT ![cur[b]].cache = {Target[b]}, ![cur[b]].team = FALSE]
    BY <1>1, <2>2 DEF SameRows, IInv, Typed, Volumes, Fields
  <2> QED BY <2>1, <2>2 DEF InitializeResourceCache, Fail
<1>3. SameProcs
  <2>1. CASE Fail(b)
    BY <1>1, <2>1, FailMoves
  <2>2. CASE cur' = [cur EXCEPT ![b] = None] /\ Goto(b, "input")
    BY <1>1, <2>2, ProcMoves DEF IInv, Typed
  <2> QED BY <2>1, <2>2 DEF InitializeResourceCache
<1> QED BY <1>1, <1>2, <1>3, CalmStep DEF Calm

LEMMA InputSteps ==
  ASSUME IInv, NEW b \in Build, FindInput(b)
  PROVE  IInv'
<1>1. /\ volume' = volume /\ nextId' = nextId /\ kind' = kind
      /\ bc' = bc /\ lost' = lost /\ jobs' = jobs
  BY DEF FindInput, rowVars, gcVars, ghosts
<1>2. SameRows
  BY <1>1, RowsKept
<1>3. \E l \in {"child", "done", "register", "failed"} : Goto(b, l)
  BY DEF FindInput, Fail
<1>4. cur' = cur \/ \E v \in Mounted(b) : cur' = [cur EXCEPT ![b] = v]
  BY DEF FindInput, Fail
<1>5. SameProcs
  BY <1>1, <1>3, <1>4, ProcMoves DEF IInv, Typed
<1> QED BY <1>1, <1>2, <1>5, CalmStep DEF Calm

LEMMA SwapSteps ==
  ASSUME IInv, NEW b \in Build, InitializeTaskCache(b)
  PROVE  IInv'
<1>1. nextId' = nextId /\ kind' = kind /\ bc' = bc /\ lost' = lost /\ jobs' = jobs
  BY DEF InitializeTaskCache, gcVars, ghosts
<1>2. SameRows
  <2>1. CASE volume' = volume
    BY <1>1, <2>1, RowsKept
  <2>2. CASE volume' = [v \in Volumes |-> [volume[v] EXCEPT !.task = (v = cur[b])]]
    BY <1>1, <2>2 DEF SameRows, IInv, Typed, Volumes, Fields
  <2> QED BY <2>1, <2>2 DEF InitializeTaskCache
<1>3. cur' = cur
  BY DEF InitializeTaskCache, Fail
<1>4. \E l \in {"done", "failed"} : Goto(b, l)
  BY DEF InitializeTaskCache, Fail
<1>5. SameProcs
  BY <1>1, <1>3, <1>4, ProcMoves DEF IInv, Typed
<1> QED BY <1>1, <1>2, <1>5, CalmStep DEF Calm

-----------------------------------------------------------------------------
\* The steps of builds that make volumes.

\* findOrCreateVolume finds a row of its own container that is creating.
LEMMA Found ==
  ASSUME IInv, NEW b \in Build, NEW v \in Volumes, NEW s \in Step,
         volume[v].state = "creating", volume[v].owner = <<b, s>>,
         cur' = [cur EXCEPT ![b] = v], Goto(b, "make"),
         volume' = volume, nextId' = nextId, kind' = kind, bc' = bc, lost' = lost, jobs' = jobs
  PROVE  IInv'
<1>1. DOMAIN pc = Build /\ DOMAIN cur = Build /\ Volumes' = Volumes
  BY DEF IInv, Typed, Volumes
<1>2. \A c \in Build : pc'[c] = (IF c = b THEN "make" ELSE pc[c]) /\ cur'[c] = (IF c = b THEN v ELSE cur[c])
  BY <1>1 DEF Goto
<1>3. Typed' /\ JobsInv' /\ ParentsInv' /\ NothingLeaks'
  BY <1>1 DEF IInv, Typed, JobsInv, ParentsInv, NothingLeaks, Goto
<1>4. MakersInv'
  <2>1. \A c \in Build \ {b} : Making(c) => cur[c] # v
    BY DEF IInv, MakersInv, NoOwner, Step
  <2>2. \A c \in Build : Making(c)' => c = b \/ Making(c)
    BY <1>2 DEF Making
  <2> QED BY <1>1, <1>2, <2>1, <2>2 DEF IInv, MakersInv
<1>5. BackedInv'
  BY <1>1, <1>2 DEF IInv, BackedInv
<1> QED BY <1>3, <1>4, <1>5 DEF IInv

\* A row is inserted.
LEMMA Inserted ==
  ASSUME IInv, NEW b \in Build, NEW r, DOMAIN r = Fields, r.state = "creating",
         r.owner = NoOwner \/ \E s \in Step : r.owner = <<b, s>>,
         r.parent # None => r.parent \in Volumes /\ volume[r.parent].state = "created",
         InsertVolume(r), cur' = [cur EXCEPT ![b] = nextId], Goto(b, "make"),
         kind' = kind, bc' = bc, lost' = lost, jobs' = jobs
  PROVE  IInv'
<1>1. DOMAIN pc = Build /\ DOMAIN cur = Build /\ nextId \in Nat /\ nextId' = nextId + 1
  BY DEF IInv, Typed, InsertVolume
<1>2. \A c \in Build : pc'[c] = (IF c = b THEN "make" ELSE pc[c]) /\ cur'[c] = (IF c = b THEN nextId ELSE cur[c])
  BY <1>1 DEF Goto
<1>3. nextId \notin Volumes /\ nextId \notin jobs
  BY <1>1 DEF IInv, Typed, JobsInv
<1>4. Volumes' = Volumes \cup {nextId}
  BY DEF InsertVolume, Volumes
<1>5. \A w \in Volumes' : volume'[w] = IF w = nextId THEN r ELSE volume[w]
  BY <1>4 DEF InsertVolume
<1>6. Typed'
  BY <1>1, <1>4, <1>5 DEF IInv, Typed, Goto
<1>7. JobsInv'
  BY <1>1, <1>3, <1>4, <1>5 DEF IInv, JobsInv
<1>8. ParentsInv'
  BY <1>3, <1>4, <1>5 DEF IInv, ParentsInv
<1>9. MakersInv'
  <2>1. \A c \in Build : Making(c)' => c = b \/ Making(c)
    BY <1>2 DEF Making
  <2>2. \A c \in Build \ {b} : Making(c)' => cur'[c] = cur[c] /\ cur[c] \in Volumes /\ cur[c] # nextId
    BY <1>2, <1>3, <2>1 DEF IInv, MakersInv
  <2>3. \A c \in Build : Making(c)' => /\ cur'[c] \in Volumes'
                                       /\ volume'[cur'[c]].state = "creating"
                                       /\ \/ volume'[cur'[c]].owner = NoOwner
                                          \/ \E s \in Step : volume'[cur'[c]].owner = <<c, s>>
    <3>1. ASSUME NEW c \in Build \ {b}, Making(c)' PROVE volume'[cur'[c]] = volume[cur[c]] /\ cur'[c] \in Volumes' /\ Making(c)
      BY <1>4, <1>5, <2>1, <2>2, <3>1
    <3>2. ASSUME NEW c \in Build \ {b}, Making(c)'
          PROVE  /\ cur'[c] \in Volumes'
                 /\ volume'[cur'[c]].state = "creating"
                 /\ \/ volume'[cur'[c]].owner = NoOwner
                    \/ \E s \in Step : volume'[cur'[c]].owner = <<c, s>>
      BY <3>1, <3>2 DEF IInv, MakersInv
    <3>3. /\ cur'[b] \in Volumes'
          /\ volume'[cur'[b]].state = "creating"
          /\ \/ volume'[cur'[b]].owner = NoOwner
             \/ \E s \in Step : volume'[cur'[b]].owner = <<b, s>>
      BY <1>2, <1>4, <1>5
    <3> QED BY <3>2, <3>3
  <2>4. \A c, d \in Build : Making(c)' /\ Making(d)' /\ cur'[c] = cur'[d] => c = d
    BY <1>2, <2>1, <2>2 DEF IInv, MakersInv
  <2> QED BY <2>3, <2>4 DEF MakersInv
<1>10. BackedInv' /\ NothingLeaks'
  BY <1>2, <1>4, <1>5 DEF IInv, BackedInv, NothingLeaks
<1> QED BY <1>6, <1>7, <1>8, <1>9, <1>10 DEF IInv

LEMMA VolumeRowStep ==
  ASSUME IInv, NEW b \in Build, NEW p, VolumeRow(b, p),
         kind' = kind, bc' = bc, lost' = lost, jobs' = jobs
  PROVE  IInv'
<1> DEFINE o == <<b, StepOf(b)>>
<1>0. StepOf(b) \in Step
  BY DEF StepOf, Step
<1>1. CASE Fail(b) /\ volume' = volume /\ nextId' = nextId
  BY <1>1, FailMoves, RowsKept, CalmStep DEF Calm
<1>2. ASSUME NEW v \in ContainerVolumes(o), volume[v].state \in {"creating", "created"},
             cur' = [cur EXCEPT ![b] = v],
             Goto(b, IF volume[v].state = "created" THEN "run" ELSE "make"),
             volume' = volume, nextId' = nextId
      PROVE  IInv'
  <2>1. v \in Volumes /\ volume[v].owner = <<b, StepOf(b)>>
    BY <1>2 DEF ContainerVolumes
  <2>2. CASE volume[v].state = "created"
    <3>1. Goto(b, "run")
      BY <1>2, <2>2
    <3>2. SameProcs
      BY <1>2, <3>1, ProcMoves DEF IInv, Typed
    <3> QED BY <1>2, <3>2, RowsKept, CalmStep DEF Calm
  <2>3. CASE volume[v].state = "creating"
    <3>1. Goto(b, "make")
      BY <1>2, <2>3
    <3> QED BY Zenon, <1>0, <1>2, <2>1, <2>3, <3>1, Found
  <2> QED BY <1>2, <2>2, <2>3
<1>3. ASSUME p = None \/ CanMove(p, "created", "created"), NEW team,
             InsertVolume(Row(o, FALSE, team, p)),
             cur' = [cur EXCEPT ![b] = nextId], Goto(b, "make")
      PROVE  IInv'
  <2> DEFINE r == Row(o, FALSE, team, p)
  <2>1. DOMAIN r = Fields /\ r.state = "creating" /\ r.owner = o /\ r.parent = p
    BY DEF Row, Fields
  <2>2. p # None => p \in Volumes /\ volume[p].state = "created"
    BY <1>3 DEF CanMove
  <2> HIDE DEF r
  <2> QED BY Zenon, <1>0, <1>3, <2>1, <2>2, Inserted DEF r
<1> QED BY Zenon, <1>1, <1>2, <1>3 DEF VolumeRow, FailContainer

LEMMA ContainerSteps ==
  ASSUME IInv, NEW b \in Build, GetContainer(b) \/ TaskContainer(b)
  PROVE  IInv'
<1>0. kind' = kind /\ bc' = bc /\ lost' = lost /\ jobs' = jobs
  BY DEF GetContainer, TaskContainer, gcVars, ghosts
<1>1. CASE \E p : VolumeRow(b, p)
  BY <1>0, <1>1, VolumeRowStep
<1>2. CASE Fail(b) /\ volume' = volume /\ nextId' = nextId
  BY <1>0, <1>2, FailMoves, RowsKept, CalmStep DEF Calm
<1>3. CASE /\ \E v \in Mounted(b) : cur' = [cur EXCEPT ![b] = v]
           /\ Goto(b, "run") /\ volume' = volume /\ nextId' = nextId
  <2>1. SameProcs
    BY <1>0, <1>3, ProcMoves DEF IInv, Typed
  <2> QED BY <1>0, <1>3, <2>1, RowsKept, CalmStep DEF Calm
<1> QED BY <1>1, <1>2, <1>3 DEF GetContainer, TaskContainer

LEMMA RegisterSteps ==
  ASSUME IInv, NEW b \in Build, RegisterTaskCache(b)
  PROVE  IInv'
<1>0. kind' = kind /\ bc' = bc /\ lost' = lost /\ jobs' = jobs
  BY DEF RegisterTaskCache, gcVars, ghosts
<1>1. CASE /\ InsertVolume(Row(NoOwner, TRUE, TRUE, None))
           /\ cur' = [cur EXCEPT ![b] = nextId] /\ Goto(b, "make")
  <2> DEFINE r == Row(NoOwner, TRUE, TRUE, None)
  <2>1. DOMAIN r = Fields /\ r.state = "creating" /\ r.owner = NoOwner /\ r.parent = None
    BY DEF Row, Fields
  <2> HIDE DEF r
  <2> QED BY Zenon, <1>0, <1>1, <2>1, Inserted DEF r
<1>2. CASE Goto(b, "swap") /\ volume' = volume /\ nextId' = nextId /\ cur' = cur
  <2>1. SameProcs
    BY <1>0, <1>2, ProcMoves DEF IInv, Typed
  <2> QED BY <1>0, <1>2, <2>1, RowsKept, CalmStep DEF Calm
<1> QED BY Zenon, <1>1, <1>2 DEF RegisterTaskCache

\* volumeStateTransition changes one row and only its state.
LEMMA Transition ==
  ASSUME IInv, NEW v \in Volumes, NEW s, SetState(v, s)
  PROVE  /\ Volumes' = Volumes
         /\ \A w \in Volumes : /\ DOMAIN volume'[w] = Fields
                               /\ volume'[w].state = (IF w = v THEN s ELSE volume[w].state)
                               /\ volume'[w].parent = volume[w].parent
                               /\ volume'[w].owner = volume[w].owner
                               /\ volume'[w].cache = volume[w].cache
BY DEF IInv, Typed, SetState, Volumes, Fields

\* Creating the volume failed, and its row is marked failed.
LEMMA GivenUp ==
  ASSUME IInv, NEW b \in Build, Making(b), cur[b] \notin bc, SetState(cur[b], "failed"), Fail(b),
         NEW made \in SUBSET {cur[b]}, bc' = bc \cup made, lost' = lost \cup made,
         nextId' = nextId, kind' = kind, jobs' = jobs
  PROVE  IInv'
<1>1. cur[b] \in Volumes /\ volume[cur[b]].state = "creating"
  BY DEF IInv, MakersInv
<1>2. DOMAIN pc = Build /\ DOMAIN cur = Build /\ cur' = cur
  BY DEF IInv, Typed, Fail
<1>3. \A c \in Build : pc'[c] = IF c = b THEN "failed" ELSE pc[c]
  BY <1>2 DEF Fail, Goto
<1>4. \A c \in Build : Making(c)' => c # b /\ Making(c) /\ cur[c] # cur[b]
  BY <1>3 DEF Making, IInv, MakersInv
<1>5. /\ Volumes' = Volumes
      /\ \A w \in Volumes : /\ DOMAIN volume'[w] = Fields
                            /\ volume'[w].state = (IF w = cur[b] THEN "failed" ELSE volume[w].state)
                            /\ volume'[w].parent = volume[w].parent
                            /\ volume'[w].owner = volume[w].owner
  BY <1>1, Transition
<1>6. Typed'
  BY <1>2, <1>5 DEF IInv, Typed, Fail, Goto
<1>7. JobsInv'
  BY <1>1, <1>5 DEF IInv, JobsInv
<1>8. ParentsInv'
  BY <1>1, <1>5 DEF IInv, ParentsInv
<1>9. MakersInv'
  BY <1>2, <1>4, <1>5 DEF IInv, MakersInv
<1>10. BackedInv'
  <2>1. \A c \in Build : pc'[c] = "mark" => cur'[c] \in bc'
    BY <1>2, <1>3 DEF IInv, BackedInv
  <2>2. \A v \in Volumes : volume'[v].state = "created" => v \in bc'
    BY <1>5 DEF IInv, BackedInv
  <2>3. \A v \in Volumes : volume'[v].state = "failed" => v \notin bc' \ lost'
    BY <1>5 DEF IInv, BackedInv
  <2> QED BY <1>5, <2>1, <2>2, <2>3 DEF BackedInv
<1>11. NothingLeaks'
  BY <1>5 DEF IInv, NothingLeaks
<1> QED BY <1>6, <1>7, <1>8, <1>9, <1>10, <1>11 DEF IInv

LEMMA MakeSteps ==
  ASSUME IInv, NEW b \in Build, MakeVolume(b) \/ MakeFails(b)
  PROVE  IInv'
<1>0. /\ pc[b] = "make" /\ Making(b)
      /\ nextId' = nextId /\ kind' = kind /\ jobs' = jobs
  BY DEF MakeVolume, MakeFails, Making, gcVars
<1>1. CASE bc' = bc \cup {cur[b]} /\ Goto(b, "mark") /\ volume' = volume /\ cur' = cur /\ lost' = lost
  <2>1. DOMAIN pc = Build /\ DOMAIN cur = Build /\ Volumes' = Volumes
    BY <1>1 DEF IInv, Typed, Volumes
  <2>2. \A c \in Build : pc'[c] = IF c = b THEN "mark" ELSE pc[c]
    BY <1>1, <2>1 DEF Goto
  <2>3. \A c \in Build : Making(c)' <=> Making(c)
    BY <1>0, <2>2 DEF Making
  <2>4. cur[b] \in Volumes /\ volume[cur[b]].state = "creating"
    BY <1>0 DEF IInv, MakersInv
  <2>5. Typed' /\ JobsInv' /\ ParentsInv' /\ NothingLeaks'
    BY <1>0, <1>1, <2>1, <2>4 DEF IInv, Typed, JobsInv, ParentsInv, NothingLeaks, Goto
  <2>6. MakersInv'
    BY <1>1, <2>1, <2>3 DEF IInv, MakersInv
  <2>7. BackedInv'
    BY <1>1, <2>1, <2>2, <2>4 DEF IInv, BackedInv
  <2> QED BY <2>5, <2>6, <2>7 DEF IInv
<1>2. CASE Fail(b) /\ volume' = volume /\ bc' = bc /\ lost' = lost
  BY <1>0, <1>2, FailMoves, RowsKept, CalmStep DEF Calm
<1>3. CASE \E made \in SUBSET {cur[b]} : /\ cur[b] \notin bc /\ SetState(cur[b], "failed") /\ Fail(b)
                                         /\ bc' = bc \cup made /\ lost' = lost \cup made
  BY <1>0, <1>3, GivenUp
<1>4. CASE MakeVolume(b)
  <2>1. CASE cur[b] \in bc \/ volume[cur[b]].parent = None \/ volume[cur[b]].parent \in bc
    BY <1>1, <1>4, <2>1 DEF MakeVolume, ghosts
  <2>2. CASE ~(cur[b] \in bc \/ volume[cur[b]].parent = None \/ volume[cur[b]].parent \in bc)
    <3>1. /\ cur[b] \notin bc /\ SetState(cur[b], "failed") /\ Fail(b)
          /\ bc' = bc \cup {} /\ lost' = lost \cup {}
      BY <1>4, <2>2 DEF MakeVolume, FailContainer, ghosts
    <3> QED BY Zenon, <1>3, <3>1
  <2> QED BY <2>1, <2>2
<1>5. CASE MakeFails(b)
  BY Zenon, <1>2, <1>3, <1>5 DEF MakeFails, FailContainer
<1> QED BY <1>4, <1>5

LEMMA MarkSteps ==
  ASSUME IInv, NEW b \in Build, MarkVolume(b)
  PROVE  IInv'
<1>0. /\ pc[b] = "mark" /\ Making(b) /\ nextId' = nextId /\ kind' = kind
      /\ bc' = bc /\ lost' = lost /\ jobs' = jobs
  BY DEF MarkVolume, Making, gcVars, ghosts
<1>1. cur[b] \in Volumes /\ volume[cur[b]].state = "creating" /\ cur[b] \in bc
  BY <1>0 DEF IInv, MakersInv, BackedInv
<1>2. /\ SetState(cur[b], "created") /\ cur' = cur
      /\ Goto(b, IF volume[cur[b]].owner = NoOwner THEN "swap" ELSE "run")
  BY Zenon, <1>1 DEF MarkVolume, CanMove
<1>3. DOMAIN pc = Build /\ DOMAIN cur = Build
  BY SMTT(20) DEF IInv, Typed
<1>4. \A c \in Build : Making(c)' => c # b /\ Making(c) /\ pc'[c] = pc[c] /\ cur[c] # cur[b]
  BY <1>0, <1>2, <1>3 DEF Making, Goto, IInv, MakersInv
<1>5. /\ Volumes' = Volumes
      /\ \A w \in Volumes : /\ DOMAIN volume'[w] = Fields
                            /\ volume'[w].state = (IF w = cur[b] THEN "created" ELSE volume[w].state)
                            /\ volume'[w].parent = volume[w].parent
                            /\ volume'[w].owner = volume[w].owner
  BY <1>1, <1>2, Transition
<1>6. Typed'
  BY <1>0, <1>2, <1>3, <1>5 DEF IInv, Typed, Goto
<1>7. JobsInv'
  BY <1>0, <1>1, <1>5 DEF IInv, JobsInv
<1>8. ParentsInv'
  BY <1>5 DEF IInv, ParentsInv
<1>9. MakersInv'
  BY <1>2, <1>4, <1>5 DEF IInv, MakersInv
<1>10. BackedInv' /\ NothingLeaks'
  <2>1. \A c \in Build : pc'[c] = "mark" => cur'[c] \in bc'
    BY SMTT(20), <1>0, <1>2, <1>4 DEF IInv, BackedInv, Making
  <2> QED BY <1>0, <1>1, <1>5, <2>1 DEF IInv, BackedInv, NothingLeaks
<1> QED BY <1>6, <1>7, <1>8, <1>9, <1>10 DEF IInv

-----------------------------------------------------------------------------
\* Builds end, ATCs crash, workers change, and the collectors of caches and
\* containers.
LEMMA OtherSteps ==
  ASSUME IInv,
         \/ \E b \in Build : BuildEnds(b) \/ Crash(b)
         \/ Radar \/ CollectRows \/ \E b \in Build, s \in Step : MarkContainer(b, s)
         \/ \E v \in VolumeId : JobFails(v)
  PROVE  IInv'
<1> USE DEF BuildEnds, Crash, Radar, CollectRows, MarkContainer, JobFails, rowVars, procVars, gcVars, ghosts
<1>1. /\ volume' = volume /\ nextId' = nextId /\ kind' = kind
      /\ bc' = bc /\ lost' = lost /\ jobs' \subseteq jobs
  OBVIOUS
<1>2. SameRows
  BY <1>1, RowsKept
<1>3. CASE \E b \in Build : Crash(b)
  <2>1. PICK b \in Build : Goto(b, FirstPC) /\ cur' = [cur EXCEPT ![b] = None]
    BY Zenon, <1>3
  <2>2. FirstPC \notin {"make", "mark"}
    BY DEF FirstPC
  <2>3. SameProcs
    BY <1>1, <2>1, <2>2, ProcMoves DEF IInv, Typed
  <2> QED BY <1>1, <1>2, <2>3, CalmStep DEF Calm
<1>4. CASE ~\E b \in Build : Crash(b)
  <2>1. pc' = pc /\ cur' = cur
    BY <1>4
  <2> QED BY <1>1, <1>2, <2>1, ProcsKept, CalmStep DEF Calm
<1> QED BY <1>3, <1>4

LEMMA RowSteps ==
  ASSUME IInv,
         WorkerChanges \/ CollectCaches \/ \E b \in Build, s \in Step : DeleteContainer(b, s)
  PROVE  IInv'
<1> USE DEF procVars, gcVars, ghosts
<1>1. /\ nextId' = nextId /\ kind' = kind /\ pc' = pc /\ cur' = cur
      /\ bc' = bc /\ lost' = lost /\ jobs' = jobs
  BY Zenon DEF WorkerChanges, CollectCaches, DeleteContainer
<1>2. SameRows
  <2> USE DEF SameRows, IInv, Typed, Volumes, Fields
  <2>1. CASE WorkerChanges
    BY <1>1, <2>1 DEF WorkerChanges
  <2>2. CASE CollectCaches
    BY <1>1, <2>2 DEF CollectCaches
  <2>3. CASE \E b \in Build, s \in Step : DeleteContainer(b, s)
    BY <1>1, <2>3 DEF DeleteContainer
  <2> QED BY Zenon, <2>1, <2>2, <2>3
<1> QED BY <1>1, <1>2, ProcsKept, CalmStep DEF Calm

-----------------------------------------------------------------------------
\* The collector of volumes.
LEMMA OrphanSteps ==
  ASSUME IInv, ReadOrphans
  PROVE  IInv'
<1>1. /\ volume' = volume /\ nextId' = nextId /\ kind' = kind /\ pc' = pc /\ cur' = cur
      /\ bc' = bc /\ lost' = lost
  BY Zenon DEF ReadOrphans, rowVars, procVars, ghosts
<1>2. \A v \in jobs' : v \in jobs \/ (v \in Volumes /\ volume[v].state = "destroying")
  BY DEF ReadOrphans
<1>3. Volumes' = Volumes
  BY <1>1 DEF Volumes
<1>4. Typed' /\ ParentsInv' /\ NothingLeaks'
  BY <1>1, <1>3 DEF IInv, Typed, ParentsInv, NothingLeaks
<1>5. JobsInv'
  BY <1>1, <1>2, <1>3 DEF IInv, Typed, JobsInv
<1>6. MakersInv' /\ BackedInv'
  BY <1>1, <1>3 DEF IInv, MakersInv, BackedInv, Making
<1> QED BY <1>4, <1>5, <1>6 DEF IInv

LEMMA DestroyingSteps ==
  ASSUME IInv, NEW v, MarkDestroying(v)
  PROVE  IInv'
<1>1. /\ nextId' = nextId /\ kind' = kind /\ pc' = pc /\ cur' = cur /\ bc' = bc /\ lost' = lost
  BY DEF MarkDestroying, procVars, ghosts
<1>2. CASE volume' = volume /\ jobs' = jobs
  BY <1>1, <1>2, RowsKept, ProcsKept, CalmStep DEF Calm
<1>3. CASE /\ CanMove(v, "created", "destroying") /\ Children(v) = {}
           /\ SetState(v, "destroying") /\ jobs' = jobs \cup {v}
  <2>1. v \in Volumes /\ volume[v].state \in {"created", "destroying"}
    BY <1>3 DEF CanMove
  <2>2. \A w \in Volumes : volume[w].parent # v
    BY <1>3 DEF Children
  <2>3. /\ Volumes' = Volumes
        /\ \A w \in Volumes : /\ DOMAIN volume'[w] = Fields
                              /\ volume'[w].state = (IF w = v THEN "destroying" ELSE volume[w].state)
                              /\ volume'[w].parent = volume[w].parent
                              /\ volume'[w].owner = volume[w].owner
    BY <1>3, <2>1, Transition
  <2>4. Typed' /\ NothingLeaks'
    BY <1>1, <2>3 DEF IInv, Typed, NothingLeaks
  <2>5. JobsInv'
    BY <1>1, <1>3, <2>1, <2>3 DEF IInv, JobsInv, Typed
  <2>6. ParentsInv'
    BY <2>2, <2>3 DEF IInv, ParentsInv
  <2>7. MakersInv'
    BY <1>1, <2>1, <2>3 DEF IInv, MakersInv, Making
  <2>8. BackedInv'
    BY <1>1, <2>3 DEF IInv, BackedInv
  <2> QED BY <2>4, <2>5, <2>6, <2>7, <2>8 DEF IInv
<1> QED BY <1>2, <1>3 DEF MarkDestroying

LEMMA DestroySteps ==
  ASSUME IInv, NEW v, DestroyReal(v)
  PROVE  IInv'
<1>1. /\ volume' = volume /\ nextId' = nextId /\ kind' = kind /\ pc' = pc /\ cur' = cur
      /\ lost' = lost /\ jobs' = jobs /\ v \in jobs /\ bc' = bc \ {v}
  BY DEF DestroyReal, rowVars, procVars, gcVars, ghosts
<1>2. Volumes' = Volumes /\ (v \in Volumes => volume[v].state = "destroying")
  BY <1>1 DEF Volumes, IInv, JobsInv
<1>3. Typed' /\ JobsInv' /\ ParentsInv' /\ NothingLeaks'
  BY <1>1, <1>2 DEF IInv, Typed, JobsInv, ParentsInv, NothingLeaks
<1>4. MakersInv'
  BY <1>1, <1>2 DEF IInv, MakersInv, Making
<1>5. BackedInv'
  BY <1>1, <1>2 DEF IInv, BackedInv, MakersInv, Making
<1> QED BY <1>3, <1>4, <1>5 DEF IInv

\* A row that is neither creating nor created, and whose volume nobody would
\* look for, may go.
LEMMA RowGoes ==
  ASSUME IInv, NEW v \in Volumes, volume[v].state \in {"destroying", "failed"}, v \notin bc \ lost,
         DeleteVolume(v), jobs' \subseteq jobs,
         nextId' = nextId, kind' = kind, pc' = pc, cur' = cur, bc' = bc, lost' = lost
  PROVE  IInv'
<1>1. Volumes' = Volumes \ {v} /\ \A w \in Volumes' : volume'[w] = volume[w]
  BY DEF DeleteVolume, Volumes
<1>2. Typed' /\ JobsInv'
  BY <1>1 DEF IInv, Typed, JobsInv
<1>3. ParentsInv'
  BY <1>1 DEF IInv, ParentsInv
<1>4. MakersInv'
  BY <1>1 DEF IInv, MakersInv, Making
<1>5. BackedInv' /\ NothingLeaks'
  BY <1>1 DEF IInv, BackedInv, NothingLeaks
<1> QED BY <1>2, <1>3, <1>4, <1>5 DEF IInv

LEMMA DeleteSteps ==
  ASSUME IInv, NEW v, DestroyRow(v) \/ DeleteFailed(v)
  PROVE  IInv'
<1>1. /\ nextId' = nextId /\ kind' = kind /\ pc' = pc /\ cur' = cur /\ bc' = bc /\ lost' = lost
      /\ jobs' \subseteq jobs
  BY Zenon DEF DestroyRow, DeleteFailed, procVars, gcVars, ghosts
<1>2. CASE volume' = volume
  BY <1>1, <1>2, RowsKept, ProcsKept, CalmStep DEF Calm
<1>3. CASE DestroyRow(v) /\ volume' # volume
  BY <1>1, <1>3, RowGoes DEF DestroyRow
<1>4. CASE DeleteFailed(v)
  <2>1. v \in Volumes /\ volume[v].state = "failed" /\ DeleteVolume(v)
    BY <1>4 DEF DeleteFailed
  <2>2. v \notin bc \ lost
    BY <2>1 DEF IInv, BackedInv
  <2> QED BY <1>1, <2>1, <2>2, RowGoes
<1> QED BY <1>2, <1>3, <1>4

-----------------------------------------------------------------------------
LEMMA InitIInv == Init => IInv
<1> SUFFICES ASSUME Init PROVE IInv
  OBVIOUS
<1>1. Volumes = {}
  BY DEF Init, Volumes
<1>2. Typed
  BY <1>1 DEF Init, Typed
<1>3. \A b \in Build : ~Making(b)
  BY DEF Init, Making, FirstPC
<1> QED BY <1>1, <1>2, <1>3 DEF Init, IInv, JobsInv, ParentsInv, MakersInv, BackedInv, NothingLeaks, Making

LEMMA IInvStep == IInv /\ [Next]_vars => IInv'
<1> SUFFICES ASSUME IInv, [Next]_vars PROVE IInv'
  OBVIOUS
<1>1. CASE UNCHANGED vars
  <2>1. /\ volume' = volume /\ nextId' = nextId /\ kind' = kind /\ pc' = pc /\ cur' = cur
        /\ bc' = bc /\ lost' = lost /\ jobs' = jobs
    BY <1>1 DEF vars, rowVars, procVars, gcVars, ghosts
  <2> QED BY <2>1, RowsKept, ProcsKept, CalmStep DEF Calm
<1>2. ASSUME NEW b \in Build, BuildStep(b) PROVE IInv'
  BY <1>2, FindSteps, RunSteps, InitSteps, InputSteps, SwapSteps, ContainerSteps, RegisterSteps,
     MakeSteps, MarkSteps DEF BuildStep
<1>3. CASE Radar \/ \E b \in Build : BuildEnds(b)
  BY <1>3, OtherSteps
<1>4. CASE Collector
  BY <1>4, OtherSteps, RowSteps, OrphanSteps, DestroyingSteps, DestroySteps, DeleteSteps DEF Collector
<1>5. CASE Faults
  BY <1>5, OtherSteps, RowSteps, MakeSteps, RunSteps DEF Faults
<1> QED BY <1>1, <1>2, <1>3, <1>4, <1>5 DEF Next

-----------------------------------------------------------------------------
\* Neither a crash nor a failed call, of however many, leaves a volume in
\* baggageclaim that no row leads to, except for a creation that was carried
\* out and reported as failed (createVolume, and cleanupFailedVolumes, which
\* deletes the row).
THEOREM NoneLeaks == Spec => []NothingLeaks
<1>1. IInv => NothingLeaks
  BY DEF IInv
<1> QED BY <1>1, InitIInv, IInvStep, PTL DEF Spec

\* A copy-on-write volume never outlives its parent, although the collector
\* reads which volumes are orphaned before it marks and destroys them, and
\* builds make children meanwhile (Destroying, CreateChildForContainer).
THEOREM ParentsStay == Spec => []ChildrenHaveParents
<1>1. IInv => ChildrenHaveParents
  BY DEF IInv, ParentsInv, BackedInv, ChildrenHaveParents
<1> QED BY <1>1, InitIInv, IInvStep, PTL DEF Spec
-----------------------------------------------------------------------------
\* The references between caches and configs.

\* What a config rests on has all that it rests on itself.
LEMMA TypesRest ==
  ASSUME NEW k \in Config
  PROVE  TypeCaches(k) \subseteq Cache /\ RestsOn(k, TypeCaches(k))
<1> USE ResourceCachesAssumption
<1>1. MadeBy[k] \in TypeCaches(k) \cup {BaseType}
  BY DEF TypeCaches, RestsOn
<1>2. ASSUME NEW c \in TypeCaches(k) PROVE MadeBy[ConfigOf[c]] \in TypeCaches(k) \cup {BaseType}
  <2>1. c \in Cache /\ MadeBy[ConfigOf[c]] \in Cache \cup {BaseType}
    BY DEF TypeCaches
  <2>2. ASSUME NEW S \in SUBSET Cache, RestsOn(k, S) PROVE MadeBy[ConfigOf[c]] \in S \cup {BaseType}
    BY <2>2 DEF TypeCaches, RestsOn
  <2> QED BY <2>1, <2>2 DEF TypeCaches
<1>3. TypeCaches(k) \subseteq Cache
  BY DEF TypeCaches
<1> QED BY <1>1, <1>2, <1>3 DEF RestsOn

\* Rows are found or created with all they refer to.
LEMMA RowsAdded ==
  ASSUME References, NEW k \in Config, config' = config \cup ConfigChain(k),
         cache \cup TypeCaches(k) \subseteq cache',
         \A c \in cache' : c \in cache \cup TypeCaches(k) \/ ConfigOf[c] = k,
         UsedCaches' \subseteq cache',
         {s[1] : s \in session'} \subseteq {s[1] : s \in session} \cup {k}
  PROVE  References'
<1>1. {ConfigOf[c] : c \in cache'} \subseteq config'
  BY DEF References, ConfigChain
<1>2. TypeOfConfigs' \subseteq cache'
  BY TypesRest DEF References, ConfigChain, TypeOfConfigs, RestsOn
<1>3. {s[1] : s \in session'} \subseteq config'
  BY DEF References, ConfigChain
<1> QED BY <1>1, <1>2, <1>3 DEF References

LEMMA ReferencesKept ==
  ASSUME References, config' = config, cache' = cache, UsedCaches' \subseteq UsedCaches,
         {s[1] : s \in session'} \subseteq {s[1] : s \in session}
  PROVE  References'
BY DEF References, TypeOfConfigs

LEMMA ReferencesStep == References /\ [Next]_vars => References'
<1> SUFFICES ASSUME References, [Next]_vars PROVE References'
  OBVIOUS
<1>1. CASE UNCHANGED <<config, cache, uses, session>>
  BY <1>1, ReferencesKept DEF UsedCaches
<1>2. ASSUME NEW b \in Build, UseCache(b) PROVE References'
  <2>1. Target[b] \in Cache /\ ConfigOf[Target[b]] \in Config
    BY VolumesAssumption, ResourceCachesAssumption
  <2>2. /\ config' = config \cup ConfigChain(ConfigOf[Target[b]])
        /\ cache' = cache \cup TypeCaches(ConfigOf[Target[b]]) \cup {Target[b]}
        /\ uses' = uses \cup {<<b, Target[b]>>} /\ session' = session
    BY <1>2 DEF UseCache, FindOrCreateResourceCache
  <2>3. UsedCaches' \subseteq cache'
    BY <2>2 DEF UsedCaches, References
  <2> QED BY <2>1, <2>2, <2>3, RowsAdded
<1>3. ASSUME NEW k \in Config, FindOrCreateCheckSession(k) PROVE References'
  <2>1. /\ config' = config \cup ConfigChain(k) /\ cache' = cache \cup TypeCaches(k)
        /\ uses' = uses /\ session' = session \cup {<<k, "fresh">>}
    BY <1>3 DEF FindOrCreateCheckSession, FindOrCreateConfig
  <2>2. UsedCaches' \subseteq cache'
    BY <2>1 DEF UsedCaches, References
  <2>3. {s[1] : s \in session'} \subseteq {s[1] : s \in session} \cup {k}
    BY <2>1
  <2> QED BY <2>1, <2>2, <2>3, RowsAdded
<1>4. ASSUME NEW k \in Config, SessionExpires(k) PROVE References'
  <2>1. /\ config' = config /\ cache' = cache /\ uses' = uses /\ <<k, "fresh">> \in session
        /\ session' = (session \ {<<k, "fresh">>}) \cup {<<k, "expired">>}
    BY <1>4 DEF SessionExpires
  <2>2. \A s \in session' : \E t \in session : s[1] = t[1]
    BY <2>1
  <2> QED BY <2>1, <2>2, ReferencesKept DEF UsedCaches
<1>5. CASE CollectCaches
  BY <1>5 DEF CollectCaches, DeleteInvalidCaches, References, UsedCaches, TypeOfConfigs
<1>6. CASE CollectRows
  <2>1. CASE CleanUsesForFinishedBuilds(Finished)
    BY <2>1, ReferencesKept DEF CleanUsesForFinishedBuilds, UsedCaches
  <2>2. CASE CleanCheckSessions(IF running = {} THEN Config ELSE {})
    BY <2>2, ReferencesKept DEF CleanCheckSessions, UsedCaches
  <2>3. CASE SelectInvalidCaches \/ SelectUnreferencedConfigs
    BY <2>3, ReferencesKept DEF SelectInvalidCaches, SelectUnreferencedConfigs, UsedCaches
  <2>4. CASE DeleteUnreferencedConfigs
    BY <2>4 DEF DeleteUnreferencedConfigs, UnreferencedConfigs, References, UsedCaches, TypeOfConfigs
  <2> QED BY <1>6, <2>1, <2>2, <2>3, <2>4 DEF CollectRows
<1>7. CASE Radar
  BY <1>1, <1>3, <1>4, <1>7 DEF Radar, NextInputs
<1>8. ASSUME Next, ~\E b \in Build : UseCache(b), ~Radar, ~CollectCaches, ~CollectRows
      PROVE  UNCHANGED <<config, cache, uses, session>>
  <2> USE DEF cacheVars, cacheRows
  <2>1. CASE \E b \in Build : BuildStep(b) \/ BuildEnds(b)
    BY Zenon, <1>8, <2>1 DEF BuildStep, FindCached, LockFetch, Recheck, GetContainer, MakeVolume, MarkVolume,
       RunContainer, InitializeResourceCache, FindInput, TaskContainer, RegisterTaskCache,
       InitializeTaskCache, BuildEnds
  <2>2. CASE Collector
    BY Zenon, <1>8, <2>2 DEF Collector, ReadOrphans, MarkContainer, DeleteContainer, MarkDestroying,
       DestroyReal, DestroyRow, DeleteFailed
  <2>3. CASE Faults
    BY <2>3 DEF Faults, WorkerChanges, MakeFails, RunFails, Crash, JobFails
  <2> QED BY <1>8, <2>1, <2>2, <2>3 DEF Next
<1>9. CASE UNCHANGED vars
  BY <1>1, <1>9 DEF vars, cacheVars, cacheRows
<1> QED BY <1>1, <1>2, <1>5, <1>6, <1>7, <1>8, <1>9

\* A used cache exists, and so do its config, the cache of its type, and so on,
\* in a chain of any length, with any number of builds: the statements of the
\* collectors that delete what they decided on earlier are refused while a row
\* refers to one of theirs (CleanUpInvalidCaches, CleanUnreferencedConfigs).
THEOREM ReferencesHold == Spec => []References
<1>1. Init => References
  BY Zenon DEF Init, CachesInit, References, UsedCaches, TypeOfConfigs
<1> QED BY <1>1, ReferencesStep, PTL DEF Spec

-----------------------------------------------------------------------------
\* What the get step of a running build returned stays, and is fetched once.
\* The argument is about what each process relies on while others act: the use
\* it took, the lock it holds, and its container.

\* The get step of b is looking for the version under the lock; it has a volume
\* to put it in.
Fetching(b) == kind = "get" /\ src[b] = None /\ pc[b] \in {"recheck", "row", "make", "mark", "run", "init"}

Filling(b) == kind = "get" /\ src[b] = None /\ pc[b] \in {"make", "mark", "run", "init"}

PlaceOK(b) ==
    /\ pc[b] \in {"use", "find", "lock", "recheck", "row", "init"} => kind = "get" /\ src[b] = None
    /\ kind = "get" /\ pc[b] \in {"input", "child"} => src[b] # None
    /\ pc[b] = "register" => kind = "task"
    /\ kind = "task" => src[b] = None

\* The use is taken before anything is looked up, and stays while b runs.
UseOK(b) ==
    kind = "get" /\ b \in running /\ pc[b] # "use" => <<b, Target[b]>> \in uses /\ b \notin stale

\* The volume being filled is the container's, while b runs.
FillOK(b) ==
    Filling(b) =>
        /\ cur[b] \in Nat /\ 0 < cur[b] /\ cur[b] < nextId
        /\ cur[b] \in Volumes => /\ volume[cur[b]].owner \in {<<b, "get">>, NoOwner}
                                 /\ pc[b] \in {"run", "init"} => volume[cur[b]].state # "creating"
        /\ b \in running => /\ cur[b] \in Volumes
                            /\ volume[cur[b]].owner = <<b, "get">>
                            /\ container[b]["get"] \in {"creating", "created"}
                            /\ pc[b] \in {"run", "init"} => volume[cur[b]].state = "created"
                            /\ pc[b] = "init" => container[b]["get"] = "created"

\* What the get step returned is the volume of the cache that b uses, or of
\* the container of the step.
Kept(b, v) ==
    /\ v \in Volumes /\ volume[v].state = "created"
    /\ \/ Target[b] \in volume[v].cache
       \/ volume[v].owner = <<b, "get">> /\ container[b]["get"] = "created"

InputOK(b) ==
    b \in running /\ pc[b] # "failed" /\ src[b] # None => src[b] \in excused \/ Kept(b, src[b])

LockOK(b) == Fetching(b) => lock[Target[b]] = {b}

\* Once looked for under the lock, the version stays absent.
AbsentOK(b) ==
    Fetching(b) /\ pc[b] \in {"row", "make", "mark", "run"} =>
        b \in stale \/ \A v \in Volumes : volume[v].state = "created" => Target[b] \notin volume[v].cache

BuildOK(b) == PlaceOK(b) /\ UseOK(b) /\ FillOK(b) /\ InputOK(b) /\ LockOK(b) /\ AbsentOK(b)

\* A volume becomes a cache after it was created, and by its own build.
RowOK(v) ==
    /\ 0 < v
    /\ volume[v].cache \subseteq wrc
    /\ volume[v].state = "creating" => volume[v].cache = {}
    /\ \A b \in Build : volume[v].owner = <<b, "get">> => volume[v].cache \subseteq {Target[b]}

\* What the collector read as orphaned has no owner, and none but the cache of
\* a process whose build had ended.
OrphanOK(v) ==
    /\ v \in Nat /\ v < nextId
    /\ v \in Volumes => volume[v].owner = NoOwner /\ (volume[v].cache = {} \/ v \in excused)

Shaped ==
    /\ DOMAIN src = Build /\ DOMAIN container = Build /\ DOMAIN lock = Cache
    /\ \A b \in Build : DOMAIN container[b] = Step
    /\ 0 < nextId

InputInv ==
    /\ Shaped /\ running \subseteq Build
    /\ \A b \in Build : BuildOK(b)
    /\ \A v \in Volumes : RowOK(v)
    /\ \A v \in orphans : OrphanOK(v)

\* How the tables change in a step, as far as a build that does not act relies
\* on them.
RowMoves(v) ==
    /\ volume[v].state \in {"created", "destroying"} /\ v \notin orphans => volume'[v].state = volume[v].state
    /\ volume'[v].state = "creating" => volume[v].state = "creating"
    /\ volume'[v].state = "created" => volume[v].state \in {"creating", "created"}
    /\ \/ volume'[v].owner = volume[v].owner
       \/ /\ volume'[v].owner = NoOwner
          /\ \A b \in Build, s \in Step :
                volume[v].owner = <<b, s>> => container[b][s] \notin {"creating", "created"}
    /\ \A b \in running' : Target[b] \in volume[v].cache /\ <<b, Target[b]>> \in uses =>
                              Target[b] \in volume'[v].cache \/ v \in excused'
    /\ \A c \in volume'[v].cache \ volume[v].cache : \E b \in Build : pc[b] = "init" /\ c = Target[b]

RowsMove ==
    /\ nextId' \in Nat /\ nextId <= nextId'
    /\ \A v \in Volumes' : v \in Volumes \/ (nextId <= v /\ volume'[v].state = "creating")
    /\ \A v \in Volumes : v \in Volumes' \/ volume[v].state \in {"destroying", "failed"}
    /\ \A v \in Volumes : v \in Volumes' => RowMoves(v)

UsesMove ==
    /\ \A b \in running' : <<b, Target[b]>> \in uses => <<b, Target[b]>> \in uses'
    /\ \A b \in Build : pc[b] # "use" =>
          /\ b \in stale => b \in stale'
          /\ b \in stale' /\ b \in running' => b \in stale \/ <<b, Target[b]>> \notin uses

TablesMove ==
    /\ kind' = kind /\ running' \subseteq running /\ excused \subseteq excused'
    /\ RowsMove /\ UsesMove

ContainerKept(b) ==
    b \in running' /\ container[b]["get"] \in {"creating", "created"} => container'[b]["get"] = container[b]["get"]

Undisturbed(b) ==
    /\ pc'[b] = pc[b] /\ src'[b] = src[b] /\ cur'[b] = cur[b]
    /\ ContainerKept(b)
    /\ lock[Target[b]] = {b} => lock'[Target[b]] = {b}

LEMMA UseKept ==
  ASSUME InputInv, TablesMove, NEW b \in Build, pc[b] # "use"
  PROVE  UseOK(b)'
BY Zenon DEF InputInv, BuildOK, UseOK, TablesMove, UsesMove

LEMMA KeptStays ==
  ASSUME IInv, InputInv, TablesMove, NEW b \in Build, NEW v, Kept(b, v), v \notin excused',
         b \in running', <<b, Target[b]>> \in uses, ContainerKept(b)
  PROVE  Kept(b, v)'
<1>1. v \in Volumes /\ volume[v].state = "created" /\ v \in Volumes' /\ RowMoves(v)
  BY DEF Kept, TablesMove, RowsMove
<1>2. <<b, "get">> # NoOwner /\ "get" \in Step
  BY DEF NoOwner, Step
<1>3. v \notin excused
  BY DEF TablesMove
<1>4. v \notin orphans
  BY <1>1, <1>2, <1>3 DEF InputInv, OrphanOK, Kept
<1>5. volume'[v].state = "created"
  BY Zenon, <1>1, <1>4 DEF RowMoves
<1>6. CASE Target[b] \in volume[v].cache
  BY Zenon, <1>1, <1>5, <1>6 DEF RowMoves, Kept
<1>7. CASE volume[v].owner = <<b, "get">> /\ container[b]["get"] = "created"
  <2>1. volume'[v].owner = <<b, "get">>
    BY Zenon, <1>1, <1>2, <1>7 DEF RowMoves
  <2> QED BY Zenon, <1>1, <1>5, <1>7, <2>1 DEF ContainerKept, Kept
<1> QED BY Zenon, <1>6, <1>7 DEF Kept

LEMMA InputKept ==
  ASSUME IInv, InputInv, TablesMove, NEW b \in Build, src'[b] = src[b], pc[b] # "failed", ContainerKept(b)
  PROVE  InputOK(b)'
<1> SUFFICES ASSUME b \in running', src[b] # None, src[b] \notin excused'
             PROVE  Kept(b, src[b])'
  BY DEF InputOK, Kept
<1>1. b \in running /\ kind = "get" /\ pc[b] # "use" /\ src[b] \notin excused
  BY Zenon DEF InputInv, BuildOK, PlaceOK, TablesMove, IInv, Typed
<1>2. <<b, Target[b]>> \in uses
  BY Zenon, <1>1 DEF InputInv, BuildOK, UseOK
<1>3. Kept(b, src[b])
  BY Zenon, <1>1 DEF InputInv, BuildOK, InputOK
<1> QED BY Zenon, <1>2, <1>3, KeptStays

LEMMA FillKept ==
  ASSUME IInv, IInv', InputInv, TablesMove, NEW b \in Build, Filling(b),
         pc'[b] = pc[b] \/ pc'[b] \in {"make", "mark"}, cur'[b] = cur[b], ContainerKept(b)
  PROVE  FillOK(b)'
<1> DEFINE v == cur[b]
<1>1. /\ v \in Nat /\ 0 < v /\ v < nextId
      /\ v \in Volumes => /\ volume[v].owner \in {<<b, "get">>, NoOwner}
                          /\ pc[b] \in {"run", "init"} => volume[v].state # "creating"
      /\ b \in running => /\ v \in Volumes
                          /\ volume[v].owner = <<b, "get">>
                          /\ container[b]["get"] \in {"creating", "created"}
                          /\ pc[b] \in {"run", "init"} => volume[v].state = "created"
                          /\ pc[b] = "init" => container[b]["get"] = "created"
  BY Zenon DEF InputInv, BuildOK, FillOK
<1>2. nextId \in Nat /\ nextId' \in Nat /\ nextId <= nextId'
  BY Zenon DEF IInv, Typed, TablesMove, RowsMove
<1>3. v \in Volumes' => v \in Volumes /\ RowMoves(v)
  <2>1. v \in Volumes' => v \in Volumes \/ nextId <= v
    BY Zenon DEF TablesMove, RowsMove
  <2>2. ~(nextId <= v)
    BY <1>1, <1>2
  <2> QED BY Zenon, <2>1, <2>2 DEF TablesMove, RowsMove
<1>4. pc[b] \in {"make", "mark", "run", "init"}
  BY Zenon DEF Filling
<1>5. <<b, "get">> # NoOwner /\ "get" \in Step
  BY Zenon DEF NoOwner, Step
<1>6. v \in Volumes' => /\ volume'[v].owner \in {<<b, "get">>, NoOwner}
                        /\ pc[b] \in {"run", "init"} => volume'[v].state # "creating"
  BY Zenon, <1>1, <1>3 DEF RowMoves
<1>7. ASSUME b \in running'
      PROVE  /\ v \in Volumes'
             /\ volume'[v].owner = <<b, "get">>
             /\ container'[b]["get"] \in {"creating", "created"}
             /\ pc[b] \in {"run", "init"} => volume'[v].state = "created"
             /\ pc[b] = "init" => container'[b]["get"] = "created"
  <2>1. b \in running
    BY Zenon, <1>7 DEF TablesMove
  <2>2. volume[v].state \in {"creating", "created"}
    <3>1. CASE Making(b)
      BY Zenon, <3>1 DEF IInv, MakersInv
    <3> QED BY Zenon, <1>1, <1>4, <2>1, <3>1 DEF Making
  <2>3. v \in Volumes' /\ RowMoves(v)
    BY Zenon, <1>1, <2>1, <2>2 DEF TablesMove, RowsMove
  <2>4. v \notin orphans
    BY Zenon, <1>1, <1>5, <2>1 DEF InputInv, OrphanOK
  <2>5. volume'[v].owner = <<b, "get">>
    BY Zenon, <1>1, <1>5, <2>1, <2>3 DEF RowMoves
  <2>6. pc[b] \in {"run", "init"} => volume'[v].state = "created"
    BY Zenon, <1>1, <2>1, <2>3, <2>4 DEF RowMoves
  <2> QED BY Zenon, <1>1, <1>7, <2>1, <2>3, <2>5, <2>6 DEF ContainerKept
<1>8. v < nextId'
  <2>1. v \in Nat /\ v < nextId /\ nextId \in Nat /\ nextId' \in Nat /\ nextId <= nextId'
    BY Zenon, <1>1, <1>2
  <2> HIDE DEF v
  <2> QED BY <2>1
<1>9. pc'[b] \in {"run", "init"} => pc'[b] = pc[b]
  BY Zenon
<1> QED BY Zenon, <1>1, <1>6, <1>7, <1>8, <1>9 DEF FillOK

\* A version becomes present only by the step of whoever holds the lock.
LEMMA AbsentKept ==
  ASSUME IInv, InputInv, TablesMove, NEW b \in Build, Fetching(b), pc[b] \in {"row", "make", "mark", "run"},
         b \notin stale'
  PROVE  \A v \in Volumes' : volume'[v].state = "created" => Target[b] \notin volume'[v].cache
<1> SUFFICES ASSUME NEW v \in Volumes', volume'[v].state = "created", Target[b] \in volume'[v].cache
             PROVE  FALSE
  OBVIOUS
<1>1. v \in Volumes /\ RowMoves(v)
  BY DEF TablesMove, RowsMove
<1>2. Target[b] \notin volume[v].cache
  <2>1. b \notin stale
    BY Zenon DEF TablesMove, UsesMove
  <2>2. volume[v].state \in {"creating", "created"}
    BY <1>1 DEF RowMoves
  <2> QED BY Zenon, <1>1, <2>1, <2>2 DEF InputInv, BuildOK, AbsentOK, RowOK
<1>3. PICK a \in Build : pc[a] = "init" /\ Target[b] = Target[a]
  BY <1>1, <1>2 DEF RowMoves
<1>4. lock[Target[a]] = {a}
  BY Zenon, <1>3 DEF InputInv, BuildOK, PlaceOK, LockOK, Fetching
<1>5. lock[Target[b]] = {b}
  BY Zenon DEF InputInv, BuildOK, LockOK
<1> QED BY <1>3, <1>4, <1>5

LEMMA Others ==
  ASSUME IInv, IInv', InputInv, TablesMove, NEW b \in Build, Undisturbed(b)
  PROVE  BuildOK(b)'
<1> USE DEF Undisturbed
<1>0. kind' = kind
  BY DEF TablesMove
<1>1. PlaceOK(b)'
  BY Zenon, <1>0 DEF InputInv, BuildOK, PlaceOK
<1>2. UseOK(b)'
  <2>1. CASE pc[b] = "use"
    BY <2>1 DEF UseOK
  <2> QED BY Zenon, <2>1, UseKept
<1>3. FillOK(b)'
  <2>1. CASE Filling(b)
    BY Zenon, <2>1, FillKept
  <2> QED BY Zenon, <1>0, <2>1 DEF FillOK, Filling
<1>4. InputOK(b)'
  <2>1. CASE pc[b] = "failed"
    BY <2>1 DEF InputOK
  <2> QED BY Zenon, <2>1, InputKept
<1>5. LockOK(b)'
  BY Zenon, <1>0 DEF InputInv, BuildOK, LockOK, Fetching
<1>6. AbsentOK(b)'
  <2>1. CASE Fetching(b) /\ pc[b] \in {"row", "make", "mark", "run"}
    BY Zenon, <2>1, AbsentKept DEF AbsentOK
  <2> QED BY Zenon, <1>0, <2>1 DEF AbsentOK, Fetching
<1> QED BY <1>1, <1>2, <1>3, <1>4, <1>5, <1>6 DEF BuildOK

\* A step that has given up, or does not fetch, relies on little.
LEMMA NotFetching ==
  ASSUME NEW b \in Build,
         \/ pc'[b] \notin {"recheck", "row", "make", "mark", "run", "init"}
         \/ src'[b] # None
         \/ kind' # "get"
  PROVE  FillOK(b)' /\ LockOK(b)' /\ AbsentOK(b)'
BY Zenon DEF FillOK, LockOK, AbsentOK, Filling, Fetching

LEMMA FailedOK ==
  ASSUME InputInv, TablesMove, NEW b \in Build, pc[b] # "use", pc'[b] = "failed", src'[b] = src[b]
  PROVE  BuildOK(b)'
<1>1. PlaceOK(b)'
  BY Zenon DEF InputInv, BuildOK, PlaceOK, TablesMove
<1>2. InputOK(b)'
  BY Zenon DEF InputOK
<1> QED BY Zenon, <1>1, <1>2, UseKept, NotFetching DEF BuildOK

-----------------------------------------------------------------------------
\* How the actions change the rows.
RowsOK ==
    /\ \A v \in Volumes : RowOK(v)
    /\ \A v \in orphans : OrphanOK(v)

LEMMA SameNextId ==
  ASSUME IInv, nextId' = nextId
  PROVE  nextId' \in Nat /\ nextId <= nextId'
<1>1. nextId \in Nat
  BY Zenon DEF IInv, Typed
<1> QED BY <1>1

LEMMA StayingRows ==
  ASSUME IInv, nextId' = nextId, Volumes' = Volumes, \A v \in Volumes : RowMoves(v)
  PROVE  RowsMove
<1>1. nextId' \in Nat /\ nextId <= nextId'
  BY Zenon, SameNextId
<1> QED BY Zenon, <1>1 DEF RowsMove, RowMoves

LEMMA RowsStill ==
  ASSUME IInv, InputInv, volume' = volume, nextId' = nextId, wrc \subseteq wrc', excused \subseteq excused',
         orphans' \subseteq orphans
  PROVE  RowsMove /\ RowsOK'
<1>1. Volumes' = Volumes
  BY DEF Volumes
<1>2. RowsMove
  BY SMTT(20), <1>1 DEF IInv, Typed, RowsMove, RowMoves
<1>3. RowsOK'
  BY <1>1 DEF InputInv, RowsOK, RowOK, OrphanOK
<1> QED BY <1>2, <1>3

\* Columns that nothing here depends on.
LEMMA RowsSimilar ==
  ASSUME IInv, InputInv, Volumes' = Volumes, nextId' = nextId, wrc' = wrc, excused' = excused, orphans' = orphans,
         \A v \in Volumes : /\ volume'[v].state = volume[v].state /\ volume'[v].owner = volume[v].owner
                            /\ volume'[v].cache = volume[v].cache
  PROVE  RowsMove /\ RowsOK'
<1>1. RowsMove
  BY DEF IInv, Typed, RowsMove, RowMoves
<1>2. RowsOK'
  BY DEF InputInv, RowsOK, RowOK, OrphanOK
<1> QED BY SMTT(20), <1>1, <1>2

LEMMA RowInserted ==
  ASSUME IInv, InputInv, NEW r, r.state = "creating", r.cache = {}, InsertVolume(r),
         wrc' = wrc, excused' = excused, orphans' = orphans
  PROVE  RowsMove /\ RowsOK'
<1>1. nextId \in Nat /\ 0 < nextId /\ nextId' = nextId + 1 /\ \A v \in Volumes : v \in Nat /\ v < nextId
  BY SMTT(20) DEF IInv, InputInv, Typed, Shaped, InsertVolume
<1>2. Volumes' = Volumes \cup {nextId}
  BY DEF InsertVolume, Volumes
<1>3. volume'[nextId] = r /\ \A v \in Volumes : volume'[v] = volume[v]
  BY <1>1, <1>2 DEF InsertVolume
<1>4. RowsMove
  BY <1>1, <1>2, <1>3 DEF RowsMove, RowMoves
<1>5. \A v \in Volumes' : RowOK(v)'
  BY <1>1, <1>2, <1>3 DEF InputInv, RowOK
<1>6. \A v \in orphans' : OrphanOK(v)'
  BY <1>1, <1>2, <1>3 DEF InputInv, OrphanOK
<1> QED BY SMTT(20), <1>4, <1>5, <1>6 DEF RowsOK

LEMMA RowTransits ==
  ASSUME IInv, InputInv, NEW v \in Volumes, NEW s, SetState(v, s),
         \/ volume[v].state = "creating" /\ s \in {"created", "failed"}
         \/ v \in orphans /\ s = "destroying",
         nextId' = nextId, wrc' = wrc, excused' = excused, orphans' \subseteq orphans
  PROVE  RowsMove /\ RowsOK'
<1>1. /\ Volumes' = Volumes
      /\ \A w \in Volumes : /\ volume'[w].state = (IF w = v THEN s ELSE volume[w].state)
                            /\ volume'[w].owner = volume[w].owner
                            /\ volume'[w].cache = volume[w].cache
  BY Transition
<1>2. RowsMove
  BY <1>1 DEF IInv, Typed, RowsMove, RowMoves
<1>3. RowsOK'
  BY <1>1 DEF InputInv, RowsOK, RowOK, OrphanOK
<1> QED BY <1>2, <1>3

LEMMA RowDeleted ==
  ASSUME IInv, InputInv, NEW v \in Volumes, volume[v].state \in {"destroying", "failed"}, DeleteVolume(v),
         nextId' = nextId, wrc' = wrc, excused' = excused, orphans' = orphans
  PROVE  RowsMove /\ RowsOK'
<1>1. Volumes' = Volumes \ {v} /\ \A w \in Volumes' : volume'[w] = volume[w]
  BY DEF DeleteVolume, Volumes
<1>2. RowsMove
  BY <1>1 DEF IInv, Typed, RowsMove, RowMoves
<1>3. RowsOK'
  BY <1>1 DEF InputInv, RowsOK, RowOK, OrphanOK
<1> QED BY <1>2, <1>3

-----------------------------------------------------------------------------
\* A step of one build.
Acts(a) ==
    \A b \in Build \ {a} :
        /\ pc'[b] = pc[b] /\ src'[b] = src[b] /\ cur'[b] = cur[b] /\ container'[b] = container[b]
        /\ lock[Target[b]] = {b} => lock'[Target[b]] = {b}

ContainerActs(a) ==
    container' = container \/ \E s \in Step : \E x : container' = [container EXCEPT ![a][s] = x]

LEMMA ActsAlone ==
  ASSUME IInv, InputInv, NEW a \in Build, NEW l, Goto(a, l),
         cur' = cur \/ \E x : cur' = [cur EXCEPT ![a] = x],
         src' = src \/ \E x : src' = [src EXCEPT ![a] = x],
         ContainerActs(a),
         \/ lock' = lock \/ Unlock(a)
         \/ lock[Target[a]] = {} /\ lock' = [lock EXCEPT ![Target[a]] = {a}],
         nextId <= nextId', nextId' \in Nat
  PROVE  Acts(a) /\ Shaped'
<1>1. /\ DOMAIN pc = Build /\ DOMAIN cur = Build /\ DOMAIN src = Build /\ DOMAIN container = Build
      /\ DOMAIN lock = Cache /\ \A b \in Build : DOMAIN container[b] = Step
      /\ nextId \in Nat /\ 0 < nextId
  BY Zenon DEF IInv, Typed, InputInv, Shaped
<1>2. \A b \in Build \ {a} : pc'[b] = pc[b] /\ src'[b] = src[b] /\ cur'[b] = cur[b]
  BY Zenon, <1>1 DEF Goto
<1>3. DOMAIN src' = Build
  BY Zenon, <1>1
<1>4. /\ \A b \in Build \ {a} : container'[b] = container[b]
      /\ DOMAIN container' = Build /\ \A b \in Build : DOMAIN container'[b] = Step
  BY <1>1 DEF ContainerActs
<1>5. /\ DOMAIN lock' = Cache
      /\ \A b \in Build \ {a} : lock[Target[b]] = {b} => lock'[Target[b]] = {b}
  <2>1. \A b \in Build : Target[b] \in Cache
    BY VolumesAssumption
  <2>2. CASE Unlock(a)
    BY SMTT(20), <1>1, <2>1, <2>2 DEF Unlock
  <2>3. CASE lock[Target[a]] = {} /\ lock' = [lock EXCEPT ![Target[a]] = {a}]
    BY <1>1, <2>1, <2>3
  <2> QED BY Zenon, <1>1, <2>2, <2>3
<1>6. 0 < nextId'
  BY <1>1
<1>7. Acts(a)
  BY Zenon, <1>2, <1>4, <1>5 DEF Acts
<1>8. Shaped'
  BY Zenon, <1>3, <1>4, <1>5, <1>6 DEF Shaped
<1> QED BY Zenon, <1>7, <1>8

LEMMA ActsCombine ==
  ASSUME IInv, IInv', InputInv, TablesMove, NEW a \in Build, Acts(a), Shaped', RowsOK', BuildOK(a)'
  PROVE  InputInv'
<1>1. \A b \in Build \ {a} : Undisturbed(b)
  BY DEF Acts, Undisturbed, ContainerKept
<1>2. \A b \in Build : BuildOK(b)'
  BY <1>1, Others
<1> QED BY <1>2 DEF InputInv, RowsOK, TablesMove

-----------------------------------------------------------------------------
\* The actions of a build.
LEMMA InputFind ==
  ASSUME IInv, IInv', InputInv, NEW b \in Build, UseCache(b) \/ FindCached(b) \/ LockFetch(b) \/ Recheck(b)
  PROVE  InputInv'
<1> USE DEF rowVars, gcVars, ghosts
<1>1. /\ volume' = volume /\ nextId' = nextId /\ wrc' = wrc /\ excused' = excused /\ orphans' = orphans
      /\ kind' = kind /\ running' = running /\ container' = container /\ cur' = cur
      /\ pc[b] \in {"use", "find", "lock", "recheck"}
  BY Zenon DEF UseCache, FindCached, LockFetch, Recheck
<1>2. RowsMove /\ RowsOK'
  BY <1>1, RowsStill
<1>3. UsesMove
  <2>1. CASE UseCache(b)
    BY Zenon, <2>1 DEF UsesMove, UseCache, FindOrCreateResourceCache
  <2>2. CASE ~UseCache(b)
    BY Zenon, <2>2 DEF UsesMove, FindCached, LockFetch, Recheck, cacheVars, cacheRows
  <2> QED BY <2>1, <2>2
<1>4. TablesMove
  BY <1>1, <1>2, <1>3 DEF TablesMove
<1>5. kind = "get" /\ src[b] = None /\ DOMAIN pc = Build /\ DOMAIN src = Build /\ DOMAIN lock = Cache
  BY Zenon, <1>1 DEF InputInv, BuildOK, PlaceOK, IInv, Typed, Shaped
<1>6. ASSUME NEW v \in CacheVolume(b, Target[b]), src' = [src EXCEPT ![b] = v], Goto(b, "input"),
             pc[b] # "use", lock' = lock \/ Unlock(b)
      PROVE  InputInv'
  <2>1. v \in Volumes /\ Target[b] \in volume[v].cache /\ volume[v].state = "created" /\ v # None
    <3>1. v \in Volumes /\ Target[b] \in volume[v].cache /\ volume[v].state = "created"
      BY Zenon, <1>6 DEF CacheVolume
    <3>2. v \in Nat /\ 0 < v
      BY Zenon, <3>1 DEF InputInv, RowOK, IInv, Typed
    <3>3. v # None
      BY <3>2 DEF None
    <3> QED BY Zenon, <3>1, <3>3
  <2>2. pc'[b] = "input" /\ src'[b] = v
    BY <1>5, <1>6 DEF Goto
  <2>3. PlaceOK(b)'
    BY Zenon, <1>1, <1>5, <2>1, <2>2 DEF PlaceOK
  <2>4. InputOK(b)'
    BY Zenon, <1>1, <2>1, <2>2 DEF InputOK, Kept, Volumes
  <2>5. BuildOK(b)'
    BY Zenon, <1>4, <1>6, <2>2, <2>3, <2>4, UseKept, NotFetching DEF BuildOK
  <2>6. Acts(b) /\ Shaped'
    <3>1. ContainerActs(b) /\ nextId <= nextId' /\ nextId' \in Nat
      BY <1>1 DEF IInv, Typed, ContainerActs
    <3> QED BY Zenon, <1>1, <1>6, <3>1, ActsAlone
  <2> QED BY <1>2, <1>4, <2>5, <2>6, ActsCombine
<1>7. ASSUME NEW l \in {"find", "lock", "recheck", "row"}, Goto(b, l), src' = src, UseOK(b)', LockOK(b)', AbsentOK(b)',
             lock' = lock \/ (lock[Target[b]] = {} /\ lock' = [lock EXCEPT ![Target[b]] = {b}])
      PROVE  InputInv'
  <2>1. pc'[b] = l /\ src'[b] = None
    BY Zenon, <1>5, <1>7 DEF Goto
  <2>2. PlaceOK(b)' /\ InputOK(b)' /\ FillOK(b)'
    BY Zenon, <1>1, <1>5, <2>1 DEF PlaceOK, InputOK, FillOK, Filling
  <2>3. Acts(b) /\ Shaped'
    BY <1>1, <1>7, ActsAlone DEF IInv, Typed, ContainerActs
  <2> QED BY <1>2, <1>4, <1>7, <2>2, <2>3, ActsCombine DEF BuildOK
<1>8. CASE UseCache(b)
  <2>1. Goto(b, "find") /\ src' = src /\ lock' = lock /\ pc'[b] = "find"
    BY Zenon, <1>5, <1>8 DEF UseCache, Goto
  <2>2. UseOK(b)'
    BY Zenon, <1>8 DEF UseOK, UseCache, FindOrCreateResourceCache
  <2> QED BY Zenon, <1>7, <2>1, <2>2, NotFetching
<1>9. CASE FindCached(b)
  <2>1. CASE \E v \in CacheVolume(b, Target[b]) : src' = [src EXCEPT ![b] = v] /\ Goto(b, "input")
    BY Zenon, <1>6, <1>9, <2>1 DEF FindCached
  <2>2. CASE Goto(b, "lock") /\ src' = src
    <3>1. pc'[b] = "lock" /\ lock' = lock /\ pc[b] # "use"
      BY <1>5, <1>9, <2>2 DEF FindCached, Goto
    <3> QED BY Zenon, <1>4, <1>7, <2>2, <3>1, UseKept, NotFetching
  <2> QED BY Zenon, <1>9, <2>1, <2>2 DEF FindCached
<1>10. CASE LockFetch(b)
  <2>0. pc[b] # "use" /\ src' = src
    BY Zenon, <1>10 DEF LockFetch
  <2>1. CASE lock[Target[b]] = {} /\ lock' = [lock EXCEPT ![Target[b]] = {b}] /\ Goto(b, "recheck")
    <3>1. pc'[b] = "recheck"
      BY Zenon, <1>5, <2>1 DEF Goto
    <3>2. LockOK(b)' /\ AbsentOK(b)'
      BY Zenon, <1>5, <2>1, <3>1, VolumesAssumption DEF LockOK, AbsentOK
    <3> QED BY Zenon, <1>4, <1>7, <2>0, <2>1, <3>2, UseKept
  <2>2. CASE Goto(b, "find") /\ lock' = lock
    <3>1. pc'[b] = "find"
      BY <1>5, <2>2 DEF Goto
    <3> QED BY Zenon, <1>4, <1>7, <2>0, <2>2, <3>1, UseKept, NotFetching
  <2> QED BY Zenon, <1>10, <2>1, <2>2 DEF LockFetch
<1>11. CASE Recheck(b)
  <2>0. pc[b] = "recheck" /\ stale' = stale
    BY Zenon, <1>11 DEF Recheck
  <2>1. CASE \E v \in CacheVolume(b, Target[b]) : src' = [src EXCEPT ![b] = v] /\ Unlock(b) /\ Goto(b, "input")
    BY Zenon, <1>6, <2>0, <2>1
  <2>2. CASE CacheVolume(b, Target[b]) = {} /\ Goto(b, "row") /\ src' = src /\ lock' = lock
    <3>1. pc'[b] = "row"
      BY <1>5, <2>2 DEF Goto
    <3>2. LockOK(b)'
      BY Zenon, <1>5, <2>0, <2>2 DEF InputInv, BuildOK, LockOK, Fetching
    <3>3. b \in stale \/ \A v \in Volumes : volume[v].state = "created" => Target[b] \notin volume[v].cache
      BY Zenon, <2>2 DEF CacheVolume, IInv, BackedInv
    <3>4. AbsentOK(b)'
      BY Zenon, <1>1, <2>0, <3>3 DEF AbsentOK, Volumes
    <3> QED BY Zenon, <1>4, <1>7, <2>0, <2>2, <3>2, <3>4, UseKept
  <2> QED BY Zenon, <1>11, <2>1, <2>2 DEF Recheck
<1> QED BY <1>8, <1>9, <1>10, <1>11

\* A step that fails, at any call.
LEMMA InputFails ==
  ASSUME IInv, IInv', InputInv, NEW b \in Build, pc[b] # "use", Fail(b), TablesMove, RowsOK', ContainerActs(b)
  PROVE  InputInv'
<1>1. /\ Goto(b, "failed") /\ Unlock(b) /\ cur' = cur /\ src' = src /\ DOMAIN pc = Build
      /\ nextId <= nextId' /\ nextId' \in Nat
  BY Zenon DEF Fail, IInv, Typed, TablesMove, RowsMove
<1>2. pc'[b] = "failed"
  BY <1>1 DEF Goto
<1>3. Acts(b) /\ Shaped'
  BY Zenon, <1>1, ActsAlone
<1>4. BuildOK(b)'
  BY <1>1, <1>2, FailedOK
<1> QED BY <1>3, <1>4, ActsCombine

\* A step of the get step's fetch, which goes on under the lock.
LEMMA InputFetches ==
  ASSUME IInv, IInv', InputInv, NEW b \in Build, Fetching(b), pc[b] \in {"row", "make", "mark", "run"},
         NEW l \in {"make", "mark", "run", "init"}, Goto(b, l), TablesMove, RowsOK', ContainerActs(b), FillOK(b)',
         cur' = cur \/ \E x : cur' = [cur EXCEPT ![b] = x], src' = src, lock' = lock
  PROVE  InputInv'
<1>1. kind' = "get" /\ DOMAIN pc = Build /\ src'[b] = None /\ nextId <= nextId' /\ nextId' \in Nat
  BY Zenon DEF IInv, Typed, TablesMove, RowsMove, Fetching
<1>2. pc'[b] = l
  BY <1>1 DEF Goto
<1>3. Acts(b) /\ Shaped'
  BY Zenon, <1>1, ActsAlone
<1>4. PlaceOK(b)' /\ InputOK(b)'
  BY Zenon, <1>1, <1>2 DEF PlaceOK, InputOK
<1>5. LockOK(b)'
  BY Zenon DEF InputInv, BuildOK, LockOK
<1>6. AbsentOK(b)'
  BY Zenon, AbsentKept DEF AbsentOK
<1> QED BY <1>3, <1>4, <1>5, <1>6, UseKept, ActsCombine DEF BuildOK

\* A step of the task step, which has its input.
LEMMA InputTask ==
  ASSUME IInv, IInv', InputInv, NEW b \in Build, kind = "get" => src[b] # None, pc[b] # "use",
         NEW l \in {"child", "make", "mark", "run", "done", "swap", "register"}, Goto(b, l),
         l = "register" => kind = "task",
         TablesMove, RowsOK', ContainerActs(b), ContainerKept(b), pc[b] # "failed",
         cur' = cur \/ \E x : cur' = [cur EXCEPT ![b] = x], src' = src, lock' = lock
  PROVE  InputInv'
<1>1. kind' = kind /\ kind \in {"get", "task"} /\ DOMAIN pc = Build /\ nextId <= nextId' /\ nextId' \in Nat
  BY Zenon DEF IInv, Typed, TablesMove, RowsMove
<1>2. pc'[b] = l
  BY <1>1 DEF Goto
<1>3. Acts(b) /\ Shaped'
  BY Zenon, <1>1, ActsAlone
<1>4. PlaceOK(b)'
  BY Zenon, <1>1, <1>2 DEF InputInv, BuildOK, PlaceOK
<1>5. InputOK(b)'
  BY Zenon, InputKept
<1>6. FillOK(b)' /\ LockOK(b)' /\ AbsentOK(b)'
  BY Zenon, <1>1, NotFetching
<1> QED BY Zenon, <1>3, <1>4, <1>5, <1>6, UseKept, ActsCombine DEF BuildOK

LEMMA StillTables ==
  ASSUME kind' = kind, running' \subseteq running, excused' = excused, RowsMove, uses' = uses, stale' = stale
  PROVE  TablesMove
BY Zenon DEF TablesMove, UsesMove

\* The rows of a container and its volume, for either step.
LEMMA InputRow ==
  ASSUME IInv, IInv', InputInv, NEW b \in Build, NEW p, VolumeRow(b, p), Creatable(b),
         \/ pc[b] = "row" /\ p = None
         \/ pc[b] = "child",
         kind' = kind, running' = running, excused' = excused, wrc' = wrc, orphans' = orphans,
         uses' = uses, stale' = stale
  PROVE  InputInv'
<1> DEFINE s == StepOf(b)
           o == <<b, s>>
<1>1. s \in Step /\ container[b][s] \in {"none", "creating"} /\ DOMAIN container = Build /\ DOMAIN container[b] = Step
  BY Zenon DEF StepOf, Step, Creatable, InputInv, Shaped
<1>2. /\ kind \in {"get", "task"} /\ DOMAIN cur = Build /\ DOMAIN pc = Build
      /\ pc[b] = "row" => s = "get" /\ Fetching(b)
      /\ pc[b] = "child" => s = "task" /\ (kind = "get" => src[b] # None)
  BY Zenon DEF IInv, Typed, InputInv, BuildOK, PlaceOK, StepOf, Fetching
<1> HIDE DEF s
<1>3. CASE Fail(b) /\ volume' = volume /\ nextId' = nextId /\ ContainerActs(b)
  BY <1>3, RowsStill, StillTables, InputFails
<1>4. ASSUME CreatingContainer(b), NEW l \in {"make", "run"}, Goto(b, l), NEW v, cur' = [cur EXCEPT ![b] = v],
             lock' = lock, src' = src, RowsMove, RowsOK',
             /\ v \in Nat /\ 0 < v /\ v < nextId' /\ v \in Volumes' /\ volume'[v].owner = o
             /\ l = "run" => volume'[v].state = "created"
      PROVE  InputInv'
  <2>1. /\ container' = [container EXCEPT ![b][s] = "creating"]
        /\ ContainerActs(b) /\ TablesMove
        /\ pc'[b] = l /\ cur'[b] = v
    BY Zenon, <1>1, <1>2, <1>4, StillTables DEF CreatingContainer, ContainerActs, s, Goto
  <2>2. CASE pc[b] = "row"
    <3>1. o = <<b, "get">> /\ container'[b]["get"] = "creating"
      BY <1>1, <1>2, <2>1, <2>2
    <3>2. FillOK(b)'
      BY <1>4, <2>1, <3>1 DEF FillOK
    <3> QED BY Zenon, <1>2, <1>4, <2>1, <2>2, <3>2, InputFetches
  <2>3. CASE pc[b] = "child"
    <3>1. ContainerKept(b)
      BY <1>1, <1>2, <2>1, <2>3 DEF ContainerKept
    <3> QED BY Zenon, <1>2, <1>4, <2>1, <2>3, <3>1, InputTask
  <2> QED BY <2>2, <2>3
<1>5. ASSUME NEW v \in ContainerVolumes(o), volume[v].state \in {"creating", "created"},
             CreatingContainer(b), cur' = [cur EXCEPT ![b] = v],
             Goto(b, IF volume[v].state = "created" THEN "run" ELSE "make"),
             volume' = volume, nextId' = nextId, lock' = lock, src' = src
      PROVE  InputInv'
  <2>1. v \in Volumes /\ volume[v].owner = o /\ v \in Nat /\ 0 < v /\ v < nextId /\ Volumes' = Volumes
    BY Zenon, <1>5 DEF ContainerVolumes, IInv, Typed, InputInv, RowOK, Volumes
  <2>2. RowsMove /\ RowsOK'
    BY Zenon, <1>5, RowsStill
  <2>3. CASE volume[v].state = "created"
    <3>1. Goto(b, "run")
      BY Zenon, <1>5, <2>3
    <3> QED BY Zenon, <1>4, <1>5, <2>1, <2>2, <2>3, <3>1
  <2>4. CASE volume[v].state = "creating"
    <3>1. Goto(b, "make")
      BY Zenon, <1>5, <2>4
    <3> QED BY Zenon, <1>4, <1>5, <2>1, <2>2, <3>1
  <2> QED BY Zenon, <1>5, <2>3, <2>4
<1>6. ASSUME NEW team, InsertVolume(Row(o, FALSE, team, p)), CreatingContainer(b),
             cur' = [cur EXCEPT ![b] = nextId], Goto(b, "make"), lock' = lock, src' = src
      PROVE  InputInv'
  <2> DEFINE r == Row(o, FALSE, team, p)
  <2>1. r.state = "creating" /\ r.cache = {} /\ r.owner = o
    BY DEF Row
  <2> HIDE DEF r
  <2>2. InsertVolume(r)
    BY Zenon, <1>6 DEF r
  <2>3. RowsMove /\ RowsOK'
    BY Zenon, <2>1, <2>2, RowInserted
  <2>4. /\ nextId \in Nat /\ 0 < nextId /\ nextId < nextId' /\ nextId \in Volumes' /\ volume'[nextId].owner = o
    BY Zenon, <2>1, <2>2 DEF InsertVolume, Volumes, IInv, Typed, InputInv, Shaped
  <2> QED BY Zenon, <1>4, <1>6, <2>3, <2>4
<1>7. CASE \E v \in ContainerVolumes(o) :
             /\ volume[v].state \in {"creating", "created"}
             /\ IF volume[v].state = "created" /\ v \notin bc
                THEN FailContainer(b)
                ELSE /\ CreatingContainer(b)
                     /\ cur' = [cur EXCEPT ![b] = v]
                     /\ Goto(b, IF volume[v].state = "created" THEN "run" ELSE "make")
                     /\ UNCHANGED <<lock, parent, src>>
             /\ UNCHANGED <<volume, nextId>>
  <2>1. CASE FailContainer(b) /\ UNCHANGED <<volume, nextId>>
    BY Zenon, <1>1, <1>3, <2>1 DEF FailContainer, ContainerActs, s
  <2> QED BY Zenon, <1>5, <1>7, <2>1
<1>8. CASE IF p = None \/ CanMove(p, "created", "created")
           THEN /\ CreatingContainer(b)
                /\ InsertVolume(Row(o, FALSE, p = None \/ volume[p].team, p))
                /\ cur' = [cur EXCEPT ![b] = nextId]
                /\ Goto(b, "make")
                /\ UNCHANGED <<lock, parent, src>>
           ELSE /\ Fail(b)
                /\ container' = [container EXCEPT ![b][s] = "failed"]
                /\ UNCHANGED <<volume, nextId>>
  BY Zenon, <1>1, <1>3, <1>6, <1>8 DEF ContainerActs
<1> QED BY Zenon, <1>7, <1>8 DEF VolumeRow, s

LEMMA InputContainer ==
  ASSUME IInv, IInv', InputInv, NEW b \in Build, GetContainer(b) \/ TaskContainer(b)
  PROVE  InputInv'
<1>1. /\ kind' = kind /\ running' = running /\ excused' = excused /\ wrc' = wrc /\ orphans' = orphans
      /\ uses' = uses /\ stale' = stale /\ pc[b] \in {"row", "child"}
  BY Zenon DEF GetContainer, TaskContainer, gcVars, ghosts, cacheVars, cacheRows
<1>2. CASE \E p : VolumeRow(b, p) /\ Creatable(b) /\ ((pc[b] = "row" /\ p = None) \/ pc[b] = "child")
  BY <1>1, <1>2, InputRow
<1>3. CASE Fail(b) /\ volume' = volume /\ nextId' = nextId /\ container' = container
  <2>1. RowsMove /\ RowsOK' /\ ContainerActs(b)
    BY <1>1, <1>3, RowsStill DEF ContainerActs
  <2> QED BY <1>1, <1>3, <2>1, StillTables, InputFails
<1>4. CASE /\ pc[b] = "row" /\ container[b]["get"] = "created" /\ Goto(b, "run")
           /\ \E v \in Mounted(b) : cur' = [cur EXCEPT ![b] = v]
           /\ UNCHANGED <<container, volume, nextId, lock, parent, src>>
  <2>1. RowsMove /\ RowsOK' /\ ContainerActs(b) /\ TablesMove
    BY <1>1, <1>4, RowsStill, StillTables DEF ContainerActs
  <2>2. Fetching(b) /\ StepOf(b) = "get" /\ DOMAIN cur = Build /\ DOMAIN pc = Build
    BY Zenon, <1>4 DEF IInv, Typed, InputInv, BuildOK, PlaceOK, Fetching, StepOf
  <2>3. PICK v \in Mounted(b) : cur' = [cur EXCEPT ![b] = v]
    BY Zenon, <1>4
  <2>4. /\ v \in Volumes /\ volume[v].owner = <<b, "get">> /\ volume[v].state = "created"
        /\ v \in Nat /\ 0 < v /\ v < nextId
    BY Zenon, <2>2 DEF Mounted, IInv, Typed, InputInv, RowOK
  <2>5. pc'[b] = "run" /\ cur'[b] = v /\ Volumes' = Volumes
    BY Zenon, <1>4, <2>2, <2>3 DEF Goto, Volumes
  <2>6. FillOK(b)'
    BY Zenon, <1>4, <2>4, <2>5 DEF FillOK
  <2> QED BY Zenon, <1>4, <2>1, <2>2, <2>3, <2>6, InputFetches
<1> QED BY Zenon, <1>2, <1>3, <1>4 DEF GetContainer, TaskContainer

LEMMA InputMake ==
  ASSUME IInv, IInv', InputInv, NEW b \in Build, MakeVolume(b) \/ MakeFails(b) \/ MarkVolume(b)
  PROVE  InputInv'
<1> USE DEF MakeVolume, MakeFails, MarkVolume
<1>1. /\ kind' = kind /\ running' = running /\ excused' = excused /\ wrc' = wrc /\ orphans' = orphans
      /\ uses' = uses /\ stale' = stale /\ nextId' = nextId /\ pc[b] \in {"make", "mark"}
  BY Zenon DEF gcVars, ghosts, cacheVars, cacheRows
<1>2. cur[b] \in Volumes /\ volume[cur[b]].state = "creating" /\ DOMAIN pc = Build
  BY Zenon, <1>1 DEF IInv, MakersInv, Making, Typed
<1>3. ASSUME FailContainer(b), volume' = volume \/ SetState(cur[b], "failed") PROVE InputInv'
  <2>1. Fail(b) /\ ContainerActs(b)
    BY Zenon, <1>3 DEF FailContainer, ContainerActs, StepOf, Step
  <2>2. RowsMove /\ RowsOK'
    BY Zenon, <1>1, <1>2, <1>3, RowsStill, RowTransits
  <2> QED BY Zenon, <1>1, <2>1, <2>2, StillTables, InputFails
<1>4. ASSUME NEW l \in {"mark", "run", "swap"}, Goto(b, l), container' = container, cur' = cur, lock' = lock, src' = src,
             RowsMove, RowsOK', l = "run" => volume'[cur[b]].state = "created",
             l = "swap" => volume[cur[b]].owner = NoOwner
      PROVE  InputInv'
  <2>1. TablesMove /\ ContainerActs(b) /\ ContainerKept(b) /\ pc'[b] = l
    BY <1>1, <1>2, <1>4, StillTables DEF ContainerActs, ContainerKept, Goto
  <2>2. CASE kind = "get" => src[b] # None
    BY Zenon, <1>1, <1>4, <2>1, <2>2, InputTask
  <2>3. CASE Filling(b)
    <3>1. Fetching(b)
      BY Zenon, <2>3 DEF Filling, Fetching
    <3>2. CASE l = "mark"
      <4>1. FillOK(b)'
        BY Zenon, <1>4, <2>1, <2>3, <3>2, FillKept
      <4> QED BY Zenon, <1>1, <1>4, <2>1, <3>1, <3>2, <4>1, InputFetches
    <3>3. CASE l = "run"
      <4>1. /\ cur[b] \in Nat /\ 0 < cur[b] /\ cur[b] < nextId
            /\ volume[cur[b]].owner \in {<<b, "get">>, NoOwner}
            /\ b \in running => /\ volume[cur[b]].owner = <<b, "get">>
                                /\ container[b]["get"] \in {"creating", "created"}
        BY Zenon, <1>2, <2>3 DEF InputInv, BuildOK, FillOK
      <4>2. cur[b] \in Volumes' /\ RowMoves(cur[b])
        BY Zenon, <1>2, <1>4 DEF RowsMove
      <4>3. "get" \in Step
        BY Zenon DEF Step
      <4>4. /\ volume'[cur[b]].owner \in {<<b, "get">>, NoOwner}
            /\ b \in running => volume'[cur[b]].owner = <<b, "get">>
        BY Zenon, <4>1, <4>2, <4>3 DEF RowMoves
      <4>5. FillOK(b)'
        BY Zenon, <1>1, <1>4, <2>1, <3>3, <4>1, <4>2, <4>4 DEF FillOK
      <4> QED BY Zenon, <1>1, <1>4, <2>1, <3>1, <3>3, <4>5, InputFetches
    <3>4. CASE l = "swap"
      <4>1. Acts(b) /\ Shaped'
        BY Zenon, <1>1, <1>4, <2>1, SameNextId, ActsAlone
      <4>2. PlaceOK(b)' /\ InputOK(b)'
        BY Zenon, <1>1, <1>4, <2>1, <2>3, <3>4 DEF PlaceOK, InputOK, Filling
      <4> QED BY Zenon, <1>1, <1>4, <2>1, <3>4, <4>1, <4>2, UseKept, NotFetching, ActsCombine DEF BuildOK
    <3> QED BY Zenon, <3>2, <3>3, <3>4
  <2> QED BY Zenon, <1>1, <2>2, <2>3 DEF Filling
<1>5. CASE MakeVolume(b)
  <2>1. CASE Goto(b, "mark") /\ UNCHANGED <<container, volume, lock, cur, parent, src>>
    BY Zenon, <1>1, <1>4, <2>1, RowsStill
  <2> QED BY Zenon, <1>3, <1>5, <2>1
<1>6. CASE MakeFails(b)
  BY Zenon, <1>3, <1>6
<1>7. CASE MarkVolume(b)
  <2>1. /\ SetState(cur[b], "created") /\ UNCHANGED <<container, lock, cur, parent, src>>
        /\ Goto(b, IF volume[cur[b]].owner = NoOwner THEN "swap" ELSE "run")
    BY Zenon, <1>2, <1>7 DEF CanMove
  <2>2. volume'[cur[b]].state = "created"
    BY Zenon, <1>2, <2>1, Transition
  <2>3. RowsMove /\ RowsOK'
    BY Zenon, <1>1, <1>2, <2>1, RowTransits
  <2>4. CASE volume[cur[b]].owner = NoOwner
    <3>1. Goto(b, "swap")
      BY Zenon, <2>1, <2>4
    <3> QED BY Zenon, <1>4, <2>1, <2>3, <2>4, <3>1
  <2>5. CASE volume[cur[b]].owner # NoOwner
    <3>1. Goto(b, "run")
      BY Zenon, <2>1, <2>5
    <3> QED BY Zenon, <1>4, <2>1, <2>2, <2>3, <3>1
  <2> QED BY Zenon, <2>4, <2>5
<1> QED BY Zenon, <1>5, <1>6, <1>7

LEMMA InputRun ==
  ASSUME IInv, IInv', InputInv, NEW b \in Build, RunContainer(b) \/ RunFails(b)
  PROVE  InputInv'
<1>1. /\ kind' = kind /\ running' = running /\ excused' = excused /\ wrc' = wrc /\ orphans' = orphans
      /\ uses' = uses /\ stale' = stale /\ nextId' = nextId /\ volume' = volume /\ pc[b] = "run"
  BY DEF RunContainer, RunFails, gcVars, ghosts, cacheVars, cacheRows
<1>2. RowsMove /\ RowsOK' /\ TablesMove
  BY SMTT(20), <1>1, RowsStill, StillTables
<1>3. StepOf(b) \in Step /\ kind \in {"get", "task"} /\ DOMAIN pc = Build
  BY DEF StepOf, Step, IInv, Typed
<1>4. CASE Fail(b)
  <2>1. ContainerActs(b)
    BY <1>3, <1>4 DEF RunContainer, RunFails, FailContainer, ContainerActs
  <2> QED BY <1>1, <1>2, <1>4, <2>1, InputFails
<1>5. CASE RunContainer(b) /\ ~Fail(b)
  <2> DEFINE s == StepOf(b)
  <2>1. /\ container' = [container EXCEPT ![b][s] = "created"]
        /\ Goto(b, CASE s = "get" -> "init"
                     [] s = "task" /\ kind = "get" -> "done"
                     [] s = "task" /\ kind = "task" -> "register")
        /\ lock' = lock /\ cur' = cur /\ src' = src
    BY Zenon, <1>5 DEF RunContainer, FailContainer
  <2>2. ContainerActs(b)
    BY Zenon, <1>3, <2>1 DEF ContainerActs
  <2>3. CASE s = "get"
    <3>1. Goto(b, "init")
      BY <2>1, <2>3
    <3>2. Filling(b) /\ Fetching(b)
      BY <1>1, <2>3 DEF StepOf, Filling, Fetching
    <3>3. pc'[b] = "init" /\ container'[b]["get"] = "created" /\ Volumes' = Volumes
      BY <1>1, <1>3, <2>1, <2>3, <3>1 DEF Goto, InputInv, Shaped, Step, Volumes
    <3>4. FillOK(b)'
      BY <1>1, <2>1, <3>2, <3>3 DEF InputInv, BuildOK, FillOK
    <3> QED BY <1>1, <1>2, <2>1, <2>2, <3>1, <3>2, <3>4, InputFetches
  <2>4. CASE s = "task"
    <3>1. kind = "get" => src[b] # None
      BY <2>4 DEF StepOf
    <3>2. ContainerKept(b)
      BY <2>1, <2>4 DEF ContainerKept, InputInv, Shaped
    <3>3. PICK l \in {"done", "register"} : Goto(b, l) /\ (l = "register" => kind = "task")
      BY <1>3, <2>1, <2>4
    <3> QED BY <1>1, <1>2, <2>1, <2>2, <3>1, <3>2, <3>3, InputTask
  <2> QED BY <1>3, <2>3, <2>4 DEF Step
<1> QED BY <1>4, <1>5 DEF RunFails, FailContainer

\* The volume becomes the cache's, or stays its container's.
LEMMA InputInit ==
  ASSUME IInv, IInv', InputInv, NEW b \in Build, InitializeResourceCache(b)
  PROVE  InputInv'
<1> DEFINE v == cur[b]
           c == Target[b]
           taken == \E w \in Volumes : c \in volume[w].cache
<1>1. /\ kind' = kind /\ running' = running /\ orphans' = orphans /\ uses' = uses /\ stale' = stale
      /\ nextId' = nextId /\ container' = container /\ pc[b] = "init"
      /\ excused' = IF b \in running THEN excused ELSE excused \cup {v}
  BY DEF InitializeResourceCache, gcVars, cacheVars, cacheRows
<1>2. /\ Filling(b) /\ DOMAIN pc = Build /\ DOMAIN cur = Build /\ DOMAIN src = Build
      /\ nextId \in Nat /\ excused \subseteq excused'
  BY Zenon, <1>1 DEF InputInv, BuildOK, PlaceOK, Filling, Shaped, IInv, Typed
<1>3. /\ v \in Nat /\ 0 < v
      /\ v \in Volumes => volume[v].owner \in {<<b, "get">>, NoOwner} /\ volume[v].state # "creating"
      /\ b \in running => /\ v \in Volumes /\ volume[v].owner = <<b, "get">> /\ volume[v].state = "created"
                          /\ container[b]["get"] = "created"
  BY Zenon, <1>1, <1>2 DEF InputInv, BuildOK, FillOK
<1>4. b \notin running => v \in excused'
  BY Zenon, <1>1
<1>5. CASE Fail(b) /\ volume' = volume /\ wrc \subseteq wrc'
  <2>1. RowsMove /\ RowsOK' /\ ContainerActs(b)
    BY SMTT(20), <1>1, <1>2, <1>5, RowsStill DEF ContainerActs
  <2>2. TablesMove
    BY <1>1, <1>2, <2>1 DEF TablesMove, UsesMove
  <2> QED BY <1>1, <1>5, <2>1, <2>2, InputFails
<1>6. ASSUME /\ RowsMove /\ RowsOK'
             /\ src' = [src EXCEPT ![b] = v] /\ cur' = [cur EXCEPT ![b] = None] /\ Unlock(b) /\ Goto(b, "input")
             /\ v \in Volumes => /\ v \in Volumes' /\ volume'[v].state = volume[v].state
                                 /\ volume'[v].owner = volume[v].owner
      PROVE  InputInv'
  <2>1. TablesMove /\ ContainerActs(b)
    BY <1>1, <1>2, <1>6 DEF TablesMove, UsesMove, ContainerActs
  <2>2. Acts(b) /\ Shaped'
    <3>1. nextId <= nextId' /\ nextId' \in Nat
      BY Zenon, <1>1, SameNextId
    <3>2. (\E x : cur' = [cur EXCEPT ![b] = x]) /\ (\E x : src' = [src EXCEPT ![b] = x])
      BY Zenon, <1>6
    <3> QED BY Zenon, <1>6, <2>1, <3>1, <3>2, ActsAlone
  <2>3. pc'[b] = "input" /\ src'[b] = v /\ v # None
    <3>1. v # None
      BY <1>3 DEF None
    <3> HIDE DEF v
    <3>2. pc'[b] = "input" /\ src'[b] = v
      BY Zenon, <1>2, <1>6 DEF Goto
    <3> QED BY Zenon, <3>1, <3>2
  <2>4. PlaceOK(b)'
    BY Zenon, <1>1, <1>2, <2>3 DEF PlaceOK, Filling
  <2>5. InputOK(b)'
    BY Zenon, <1>1, <1>3, <1>6, <2>3 DEF InputOK, Kept
  <2> QED BY Zenon, <1>1, <1>6, <2>1, <2>2, <2>3, <2>4, <2>5, UseKept, NotFetching, ActsCombine DEF BuildOK
<1>7. CASE /\ wrc' = wrc \cup {c} /\ volume' = volume
           /\ src' = [src EXCEPT ![b] = v] /\ cur' = [cur EXCEPT ![b] = None] /\ Unlock(b) /\ Goto(b, "input")
  <2>1. RowsMove /\ RowsOK'
    BY Zenon, <1>1, <1>2, <1>7, RowsStill
  <2> QED BY <1>6, <1>7, <2>1 DEF Volumes
<1>8. CASE /\ wrc' = wrc \cup {c} /\ ~taken /\ v \in Volumes
           /\ volume' = [volume EXCEPT ![v].cache = {c}, ![v].team = FALSE]
           /\ src' = [src EXCEPT ![b] = v] /\ cur' = [cur EXCEPT ![b] = None] /\ Unlock(b) /\ Goto(b, "input")
  <2>1. Volumes' = Volumes /\ \A w \in Volumes : DOMAIN volume[w] = Fields
    BY <1>8 DEF Volumes, IInv, Typed
  <2>2. \A w \in Volumes : /\ volume'[w].state = volume[w].state /\ volume'[w].owner = volume[w].owner
                           /\ volume'[w].cache = IF w = v THEN {c} ELSE volume[w].cache
    BY <1>8, <2>1 DEF Volumes, Fields
  <2>3. volume[v].cache = {} \/ v \in excused'
    <3>1. CASE b \in running
      <4>1. volume[v].cache \subseteq {c}
        BY Zenon, <1>3, <3>1 DEF InputInv, RowOK
      <4> QED BY <1>8, <4>1
    <3> QED BY <1>4, <3>1
  <2>4. RowsMove
    <3>1. ASSUME NEW w \in Volumes PROVE RowMoves(w)
      <4>1. CASE w = v
        <5>1. /\ volume'[w].state = volume[w].state /\ volume'[w].owner = volume[w].owner
              /\ volume'[w].cache = {c} /\ (volume[w].cache = {} \/ w \in excused')
          BY Zenon, <2>2, <2>3, <4>1
        <5>2. \A x \in volume'[w].cache : pc[b] = "init" /\ x = Target[b]
          BY Zenon, <1>1, <5>1
        <5> HIDE DEF c, v
        <5> QED BY Zenon, <5>1, <5>2 DEF RowMoves
      <4>2. CASE w # v
        BY Zenon, <2>2, <4>2 DEF RowMoves
      <4> QED BY Zenon, <4>1, <4>2
    <3> QED BY Zenon, <1>1, <2>1, <3>1, StayingRows
  <2>5. \A w \in Volumes : RowOK(w)'
    <3>1. <<b, "get">> # NoOwner
      BY DEF NoOwner
    <3>2. \A a \in Build : volume[v].owner = <<a, "get">> => a = b
      BY <1>3, <1>8, <3>1 DEF NoOwner
    <3>3. ASSUME NEW w \in Volumes PROVE RowOK(w)'
      <4>1. RowOK(w)
        BY DEF InputInv
      <4>2. CASE w = v
        <5>1. /\ volume'[w].cache = {c} /\ volume'[w].state = volume[w].state /\ volume'[w].owner = volume[w].owner
              /\ volume[w].state # "creating" /\ c \in wrc' /\ 0 < w
          BY Zenon, <1>3, <1>8, <2>2, <4>2
        <5>2. \A a \in Build : volume[w].owner = <<a, "get">> => c = Target[a]
          BY <3>2, <4>2
        <5> HIDE DEF c, v
        <5> QED BY <5>1, <5>2 DEF RowOK
      <4>3. CASE w # v
        BY Zenon, <1>8, <2>2, <4>1, <4>3 DEF RowOK
      <4> QED BY <4>2, <4>3
    <3> QED BY <3>3
  <2>6. \A w \in orphans : OrphanOK(w)'
    <3>1. v \in orphans => b \notin running
      BY <1>3, <1>8 DEF InputInv, OrphanOK, NoOwner
    <3> QED BY Zenon, <1>1, <1>2, <1>4, <2>1, <2>2, <3>1 DEF InputInv, OrphanOK
  <2> QED BY Zenon, <1>1, <1>6, <1>8, <2>1, <2>2, <2>4, <2>5, <2>6 DEF RowsOK
<1> QED BY <1>5, <1>7, <1>8 DEF InitializeResourceCache

LEMMA InputInput ==
  ASSUME IInv, IInv', InputInv, NEW b \in Build, FindInput(b)
  PROVE  InputInv'
<1>1. /\ kind' = kind /\ running' = running /\ excused' = excused /\ wrc' = wrc /\ orphans' = orphans
      /\ uses' = uses /\ stale' = stale /\ nextId' = nextId /\ volume' = volume /\ container' = container
      /\ pc[b] = "input"
  BY Zenon DEF FindInput, rowVars, gcVars, ghosts, cacheVars, cacheRows
<1>2. RowsMove /\ RowsOK' /\ TablesMove /\ ContainerActs(b) /\ ContainerKept(b)
  BY <1>1, RowsStill, StillTables DEF ContainerActs, ContainerKept
<1>3. (kind = "get" => src[b] # None) /\ kind \in {"get", "task"}
  BY Zenon, <1>1 DEF InputInv, BuildOK, PlaceOK, IInv, Typed
<1>4. CASE Fail(b)
  BY <1>1, <1>2, <1>4, InputFails
<1>5. CASE ~Fail(b)
  <2>1. /\ src' = src /\ lock' = lock /\ (cur' = cur \/ \E x : cur' = [cur EXCEPT ![b] = x])
        /\ Goto(b, "child") \/ Goto(b, IF kind = "get" THEN "done" ELSE "register")
    BY Zenon, <1>5 DEF FindInput
  <2>2. PICK l \in {"child", "done", "register"} : Goto(b, l) /\ (l = "register" => kind = "task")
    BY <1>3, <2>1
  <2> QED BY Zenon, <1>1, <1>2, <1>3, <2>1, <2>2, InputTask
<1> QED BY <1>4, <1>5

LEMMA InputRegister ==
  ASSUME IInv, IInv', InputInv, NEW b \in Build, RegisterTaskCache(b)
  PROVE  InputInv'
<1>1. /\ kind' = kind /\ running' = running /\ excused' = excused /\ wrc' = wrc /\ orphans' = orphans
      /\ uses' = uses /\ stale' = stale /\ container' = container /\ lock' = lock /\ src' = src
      /\ pc[b] = "register"
  BY Zenon DEF RegisterTaskCache, gcVars, ghosts, cacheVars, cacheRows
<1>2. kind = "task" /\ ContainerActs(b) /\ ContainerKept(b)
  BY <1>1 DEF InputInv, BuildOK, PlaceOK, ContainerActs, ContainerKept
<1>3. CASE /\ InsertVolume(Row(NoOwner, TRUE, TRUE, None))
           /\ cur' = [cur EXCEPT ![b] = nextId] /\ Goto(b, "make")
  <2> DEFINE r == Row(NoOwner, TRUE, TRUE, None)
  <2>1. r.state = "creating" /\ r.cache = {}
    BY DEF Row
  <2> HIDE DEF r
  <2>2. RowsMove /\ RowsOK'
    BY Zenon, <1>1, <1>3, <2>1, RowInserted DEF r
  <2>3. TablesMove
    BY <1>1, <2>2, StillTables
  <2> QED BY Zenon, <1>1, <1>2, <1>3, <2>2, <2>3, InputTask
<1>4. CASE Goto(b, "swap") /\ volume' = volume /\ nextId' = nextId /\ cur' = cur
  <2>1. RowsMove /\ RowsOK' /\ TablesMove
    BY <1>1, <1>4, RowsStill, StillTables
  <2> QED BY Zenon, <1>1, <1>2, <1>4, <2>1, InputTask
<1> QED BY Zenon, <1>3, <1>4 DEF RegisterTaskCache

LEMMA InputSwap ==
  ASSUME IInv, IInv', InputInv, NEW b \in Build, InitializeTaskCache(b)
  PROVE  InputInv'
<1>1. /\ kind' = kind /\ running' = running /\ excused' = excused /\ wrc' = wrc /\ orphans' = orphans
      /\ uses' = uses /\ stale' = stale /\ container' = container /\ nextId' = nextId
      /\ pc[b] = "swap"
  BY DEF InitializeTaskCache, gcVars, ghosts, cacheVars, cacheRows
<1>2. ContainerActs(b) /\ ContainerKept(b)
  BY <1>1 DEF ContainerActs, ContainerKept
<1>3. CASE Fail(b) /\ volume' = volume
  BY <1>1, <1>2, <1>3, RowsStill, StillTables, InputFails
<1>4. CASE /\ volume' = [v \in Volumes |-> [volume[v] EXCEPT !.task = (v = cur[b])]]
           /\ Goto(b, "done") /\ lock' = lock /\ cur' = cur /\ src' = src
  <2>1. Volumes' = Volumes /\ \A v \in Volumes : DOMAIN volume[v] = Fields
    BY <1>4 DEF Volumes, IInv, Typed
  <2>2. \A v \in Volumes : /\ volume'[v].state = volume[v].state /\ volume'[v].owner = volume[v].owner
                           /\ volume'[v].cache = volume[v].cache
    BY <1>4, <2>1 DEF Fields
  <2>3. RowsMove /\ RowsOK'
    BY Zenon, <1>1, <2>1, <2>2, RowsSimilar
  <2>4. TablesMove
    BY <1>1, <2>3, StillTables
  <2>5. Acts(b) /\ Shaped' /\ DOMAIN pc = Build /\ nextId \in Nat
    BY <1>1, <1>2, <1>4, ActsAlone DEF IInv, Typed
  <2>6. pc'[b] = "done"
    BY <1>4, <2>5 DEF Goto
  <2>7. PlaceOK(b)'
    BY <1>1, <1>4, <2>6 DEF PlaceOK, InputInv, BuildOK
  <2>8. InputOK(b)'
    BY <1>1, <1>2, <1>4, <2>4, InputKept
  <2> QED BY Zenon, <1>1, <2>3, <2>4, <2>5, <2>6, <2>7, <2>8, UseKept, NotFetching, ActsCombine DEF BuildOK
<1> QED BY <1>3, <1>4 DEF InitializeTaskCache

LEMMA InputCrash ==
  ASSUME IInv, IInv', InputInv, NEW b \in Build, Crash(b)
  PROVE  InputInv'
<1>1. /\ kind' = kind /\ running' = running /\ excused' = excused /\ wrc' = wrc /\ orphans' = orphans
      /\ uses' = uses /\ stale' = stale /\ container' = container /\ nextId' = nextId /\ volume' = volume
      /\ Goto(b, FirstPC) /\ Unlock(b) /\ cur' = [cur EXCEPT ![b] = None] /\ src' = [src EXCEPT ![b] = None]
  BY DEF Crash, rowVars, gcVars, cacheRows
<1>2. RowsMove /\ RowsOK' /\ TablesMove /\ ContainerActs(b)
  BY <1>1, RowsStill, StillTables DEF ContainerActs
<1>3. /\ Acts(b) /\ Shaped' /\ DOMAIN pc = Build /\ DOMAIN src = Build /\ kind \in {"get", "task"}
  <2>1. /\ nextId <= nextId' /\ nextId' \in Nat /\ DOMAIN pc = Build /\ kind \in {"get", "task"}
        /\ DOMAIN src = Build
    BY Zenon, <1>1, SameNextId DEF IInv, Typed, InputInv, Shaped
  <2>2. (\E x : cur' = [cur EXCEPT ![b] = x]) /\ (\E x : src' = [src EXCEPT ![b] = x])
    BY Zenon, <1>1
  <2> QED BY Zenon, <1>1, <1>2, <2>1, <2>2, ActsAlone
<1>4. src'[b] = None /\ pc'[b] = FirstPC
  BY <1>1, <1>3 DEF Goto
<1>5. PlaceOK(b)' /\ InputOK(b)' /\ UseOK(b)'
  BY Zenon, <1>1, <1>3, <1>4 DEF PlaceOK, InputOK, UseOK, FirstPC
<1>6. FillOK(b)' /\ LockOK(b)' /\ AbsentOK(b)'
  BY Zenon, <1>4, NotFetching DEF FirstPC
<1> QED BY Zenon, <1>2, <1>3, <1>5, <1>6, ActsCombine DEF BuildOK

-----------------------------------------------------------------------------
\* The actions of others.
LEMMA InputOthers ==
  ASSUME IInv, IInv', InputInv, TablesMove, RowsOK', pc' = pc, src' = src, cur' = cur, lock' = lock,
         \A b \in Build : ContainerKept(b), DOMAIN container' = Build,
         \A b \in Build : DOMAIN container'[b] = Step
  PROVE  InputInv'
<1>1. \A b \in Build : Undisturbed(b)
  BY Zenon DEF Undisturbed
<1>2. \A b \in Build : BuildOK(b)'
  BY <1>1, Others
<1>3. Shaped'
  <2>1. nextId \in Nat /\ 0 < nextId /\ nextId' \in Nat /\ nextId <= nextId'
    BY Zenon DEF InputInv, Shaped, TablesMove, RowsMove, IInv, Typed
  <2>2. 0 < nextId'
    BY <2>1
  <2> QED BY Zenon, <2>2 DEF InputInv, Shaped
<1> QED BY <1>2, <1>3 DEF InputInv, RowsOK, TablesMove

\* Rows, uses and builds come and go.
LEMMA InputTables ==
  ASSUME IInv, IInv', InputInv,
         \/ \E b \in Build : BuildEnds(b)
         \/ Radar \/ CollectRows \/ ReadOrphans
         \/ \E v \in VolumeId : JobFails(v) \/ DestroyReal(v)
  PROVE  InputInv'
<1> USE DEF BuildEnds, Radar, CollectRows, ReadOrphans, JobFails, DestroyReal, rowVars, procVars, gcVars, ghosts
<1>1. /\ kind' = kind /\ running' \subseteq running /\ excused' = excused /\ wrc' = wrc
      /\ stale' = stale /\ container' = container /\ nextId' = nextId /\ volume' = volume
      /\ pc' = pc /\ src' = src /\ cur' = cur /\ lock' = lock
  BY Zenon
<1>2. UsesMove
  <2>1. CASE CollectRows
    <3>1. uses' = {u \in uses : u[1] \notin Finished} \/ uses' = uses
      BY Zenon, <2>1 DEF CleanUsesForFinishedBuilds, CleanCheckSessions, SelectInvalidCaches,
         SelectUnreferencedConfigs, DeleteUnreferencedConfigs
    <3>2. \A b \in running : b \notin Finished
      BY Zenon DEF Finished
    <3>3. running' = running
      BY Zenon, <2>1
    <3> QED BY Zenon, <1>1, <3>1, <3>2, <3>3 DEF UsesMove
  <2>2. CASE ~CollectRows
    <3>1. uses' = uses
      BY Zenon, <2>2 DEF FindOrCreateCheckSession, SessionExpires, NextInputs, cacheVars, cacheRows
    <3> QED BY Zenon, <1>1, <3>1 DEF UsesMove
  <2> QED BY Zenon, <2>1, <2>2
<1>3. RowsMove /\ RowsOK'
  <2>1. CASE orphans' = orphans
    BY Zenon, <1>1, <2>1, RowsStill
  <2>2. CASE orphans' # orphans
    <3>1. ReadOrphans
      BY Zenon, <2>2
    <3>2. \A v \in orphans' : v \in Volumes /\ Orphaned(v)
      BY Zenon, <3>1
    <3>3. Volumes' = Volumes
      BY Zenon, <1>1 DEF Volumes
    <3>4. RowsMove
      <4>1. \A v \in Volumes : RowMoves(v)
        BY Zenon, <1>1 DEF RowMoves
      <4> QED BY Zenon, <1>1, <3>3, <4>1, StayingRows
    <3>5. RowsOK'
      BY Zenon, <1>1, <3>2, <3>3 DEF InputInv, RowsOK, RowOK, OrphanOK, Orphaned, IInv, Typed
    <3> QED BY Zenon, <3>4, <3>5
  <2> QED BY Zenon, <2>1, <2>2
<1>4. TablesMove
  BY Zenon, <1>1, <1>2, <1>3 DEF TablesMove
<1> QED BY Zenon, <1>1, <1>3, <1>4, InputOthers DEF ContainerKept, InputInv, Shaped

LEMMA InputRows ==
  ASSUME IInv, IInv', InputInv,
         \E v \in VolumeId : MarkDestroying(v) \/ DestroyRow(v) \/ DeleteFailed(v)
  PROVE  InputInv'
<1> USE DEF MarkDestroying, DestroyRow, DeleteFailed, procVars, gcVars, ghosts
<1>1. /\ kind' = kind /\ running' = running /\ excused' = excused /\ wrc' = wrc
      /\ stale' = stale /\ uses' = uses /\ container' = container /\ nextId' = nextId
      /\ pc' = pc /\ src' = src /\ cur' = cur /\ lock' = lock /\ orphans' \subseteq orphans
  BY Zenon DEF cacheVars, cacheRows
<1>2. RowsMove /\ RowsOK'
  <2>1. CASE volume' = volume
    BY Zenon, <1>1, <2>1, RowsStill
  <2>2. ASSUME NEW v, MarkDestroying(v), volume' # volume PROVE RowsMove /\ RowsOK'
    <3>1. v \in orphans /\ v \in Volumes /\ SetState(v, "destroying")
      BY Zenon, <2>2 DEF CanMove
    <3> QED BY Zenon, <1>1, <3>1, RowTransits
  <2>3. ASSUME NEW v, DestroyRow(v) \/ DeleteFailed(v), volume' # volume PROVE RowsMove /\ RowsOK'
    <3>1. v \in Volumes /\ volume[v].state \in {"destroying", "failed"} /\ DeleteVolume(v) /\ orphans' = orphans
      BY Zenon, <2>3
    <3> QED BY Zenon, <1>1, <3>1, RowDeleted
  <2> QED BY Zenon, <2>1, <2>2, <2>3
<1>3. TablesMove
  BY Zenon, <1>1, <1>2, StillTables
<1> QED BY Zenon, <1>1, <1>2, <1>3, InputOthers DEF ContainerKept, InputInv, Shaped

LEMMA InputContainers ==
  ASSUME IInv, IInv', InputInv, NEW b \in Build, NEW s \in Step, MarkContainer(b, s) \/ DeleteContainer(b, s)
  PROVE  InputInv'
<1> USE DEF MarkContainer, DeleteContainer, procVars, gcVars, ghosts
<1>1. /\ kind' = kind /\ running' = running /\ excused' = excused /\ wrc' = wrc
      /\ stale' = stale /\ uses' = uses /\ nextId' = nextId
      /\ pc' = pc /\ src' = src /\ cur' = cur /\ lock' = lock /\ orphans' = orphans
  BY DEF cacheVars, cacheRows
<1>2. /\ DOMAIN container = Build /\ \A a \in Build : DOMAIN container[a] = Step
      /\ \A v \in Volumes : DOMAIN volume[v] = Fields
  BY DEF InputInv, Shaped, IInv, Typed
<1>3. PICK x : container' = [container EXCEPT ![b][s] = x]
  OBVIOUS
<1>4. DOMAIN container' = Build /\ \A a \in Build : DOMAIN container'[a] = Step
  BY <1>2, <1>3
<1>5. b \notin running \/ container[b][s] \notin {"creating", "created"}
  BY DEF Finished
<1>6. \A a \in Build : ContainerKept(a)
  BY <1>1, <1>2, <1>3, <1>5 DEF ContainerKept
<1>7. RowsMove /\ RowsOK'
  <2>1. CASE MarkContainer(b, s)
    BY <1>1, <2>1, RowsStill
  <2>2. CASE DeleteContainer(b, s)
    <3>1. /\ Volumes' = Volumes
          /\ \A v \in Volumes : /\ volume'[v].state = volume[v].state /\ volume'[v].cache = volume[v].cache
                                /\ volume'[v].owner = IF volume[v].owner = <<b, s>> THEN NoOwner ELSE volume[v].owner
      BY <1>2, <2>2 DEF Volumes, Fields
    <3>2. container[b][s] \notin {"creating", "created"}
      BY <2>2
    <3>3. RowsMove
      BY <1>1, <3>1, <3>2 DEF IInv, Typed, RowsMove, RowMoves
    <3>4. RowsOK'
      <4>1. \A a \in Build : <<a, "get">> # NoOwner
        BY DEF NoOwner
      <4> QED BY <1>1, <3>1, <4>1 DEF InputInv, RowsOK, RowOK, OrphanOK
    <3> QED BY <3>3, <3>4
  <2> QED BY <2>1, <2>2
<1>8. TablesMove
  BY <1>1, <1>7, StillTables
<1> QED BY <1>1, <1>4, <1>6, <1>7, <1>8, InputOthers

\* Caches go, unless they are used, and so do those of a worker that changes.
LEMMA InputCaches ==
  ASSUME IInv, IInv', InputInv, References, WorkerChanges \/ CollectCaches
  PROVE  InputInv'
<1> USE DEF procVars, gcVars, ghosts
<1>1. /\ kind' = kind /\ running' = running /\ container' = container
      /\ uses' = uses /\ nextId' = nextId
      /\ pc' = pc /\ src' = src /\ cur' = cur /\ lock' = lock /\ orphans' = orphans /\ excused \subseteq excused'
  BY DEF WorkerChanges, CollectCaches, DeleteInvalidCaches, cacheRows
<1>2. \A v \in Volumes : DOMAIN volume[v] = Fields
  BY Zenon DEF IInv, Typed
<1>3. \A b \in Build : <<b, Target[b]>> \in uses => Target[b] \in UsedCaches /\ Target[b] \in cache
  BY DEF UsedCaches, References
<1>4. CASE WorkerChanges
  <2>1. /\ Volumes' = Volumes /\ wrc' = {} /\ stale' = stale
        /\ \A v \in Volumes : /\ volume'[v].state = volume[v].state /\ volume'[v].owner = volume[v].owner
                              /\ volume'[v].cache = {}
                              /\ volume[v].cache # {} => v \in excused'
    BY <1>2, <1>4 DEF WorkerChanges, Volumes, Fields
  <2>2. RowsMove
    <3>1. \A v \in Volumes : RowMoves(v)
      BY Zenon, <1>1, <2>1 DEF RowMoves
    <3> QED BY Zenon, <1>1, <2>1, <3>1, StayingRows
  <2>3. RowsOK'
    BY Zenon, <1>1, <2>1 DEF InputInv, RowsOK, RowOK, OrphanOK
  <2>4. TablesMove
    BY Zenon, <1>1, <2>1, <2>2 DEF TablesMove, UsesMove
  <2> QED BY Zenon, <1>1, <2>3, <2>4, InputOthers DEF ContainerKept, InputInv, Shaped
<1>5. CASE CollectCaches
  <2>1. /\ Volumes' = Volumes /\ wrc' = wrc \cap cache' /\ excused' = excused
        /\ \A v \in Volumes : /\ volume'[v].state = volume[v].state /\ volume'[v].owner = volume[v].owner
                              /\ volume'[v].cache = volume[v].cache \cap wrc'
        /\ stale' = stale \cup {b \in Build : pc[b] # "use" /\ Target[b] \in cache \ cache'}
    BY <1>2, <1>5 DEF CollectCaches, Volumes, Fields
  <2>2. \A b \in Build : <<b, Target[b]>> \in uses => Target[b] \in cache'
    BY <1>3, <1>5 DEF CollectCaches, DeleteInvalidCaches
  <2>3. RowsMove
    <3>1. ASSUME NEW v \in Volumes PROVE RowMoves(v)
      <4>1. volume[v].cache \subseteq wrc
        BY DEF InputInv, RowOK
      <4>2. \A b \in running' : Target[b] \in volume[v].cache /\ <<b, Target[b]>> \in uses =>
                                   Target[b] \in volume'[v].cache
        <5>1. running' \subseteq Build
          BY <1>1 DEF InputInv
        <5> QED BY Zenon, <2>1, <2>2, <4>1, <5>1
      <4> QED BY Zenon, <2>1, <4>2, <1>1 DEF RowMoves
    <3> QED BY Zenon, <1>1, <2>1, <3>1, StayingRows
  <2>4. RowsOK'
    <3>1. \A v \in Volumes : RowOK(v) /\ (RowOK(v) => RowOK(v)')
      <4>1. \A v \in Volumes : RowOK(v)
        BY Zenon DEF InputInv
      <4>2. \A v \in Volumes : volume'[v].cache \subseteq wrc' /\ volume'[v].cache \subseteq volume[v].cache
        BY Zenon, <2>1
      <4> QED BY Zenon, <2>1, <4>1, <4>2 DEF RowOK
    <3>2. \A v \in orphans : OrphanOK(v)'
      BY Zenon, <1>1, <2>1 DEF InputInv, OrphanOK
    <3> QED BY Zenon, <1>1, <2>1, <3>1, <3>2 DEF RowsOK
  <2>5. UsesMove
    BY Zenon, <1>1, <2>1, <2>2 DEF UsesMove
  <2>6. TablesMove
    BY <1>1, <2>3, <2>5 DEF TablesMove
  <2> QED BY Zenon, <1>1, <2>4, <2>6, InputOthers DEF ContainerKept, InputInv, Shaped
<1> QED BY <1>4, <1>5

-----------------------------------------------------------------------------
LEMMA InputInvInit == Init => InputInv
<1> SUFFICES ASSUME Init PROVE InputInv
  OBVIOUS
<1>1. Volumes = {} /\ orphans = {} /\ running \subseteq Build
  BY DEF Init, Volumes
<1>2. Shaped
  BY DEF Init, Shaped
<1>3. ASSUME NEW b \in Build PROVE BuildOK(b)
  <2>1. pc[b] = FirstPC /\ src[b] = None /\ kind \in {"get", "task"}
    BY DEF Init
  <2> QED BY Zenon, <2>1 DEF BuildOK, PlaceOK, UseOK, FillOK, InputOK, LockOK, AbsentOK, Filling, Fetching, FirstPC
<1> QED BY <1>1, <1>2, <1>3 DEF InputInv

LEMMA InputInvStep == IInv /\ References /\ InputInv /\ [Next]_vars => InputInv'
<1> SUFFICES ASSUME IInv, References, InputInv, [Next]_vars PROVE InputInv'
  OBVIOUS
<1>0. IInv'
  BY IInvStep
<1>1. CASE UNCHANGED vars
  <2>1. /\ volume' = volume /\ nextId' = nextId /\ kind' = kind /\ pc' = pc /\ cur' = cur /\ src' = src
        /\ container' = container /\ lock' = lock /\ running' = running /\ wrc' = wrc
        /\ orphans' = orphans /\ excused' = excused /\ uses' = uses /\ stale' = stale
    BY <1>1 DEF vars, cacheVars, cacheRows, rowVars, procVars, gcVars, ghosts
  <2>2. RowsMove /\ RowsOK'
    BY <2>1, RowsStill
  <2>3. TablesMove
    BY <2>1, <2>2, StillTables
  <2> QED BY Zenon, <1>0, <2>1, <2>2, <2>3, InputOthers DEF ContainerKept, InputInv, Shaped
<1>2. ASSUME NEW b \in Build, BuildStep(b) PROVE InputInv'
  BY Zenon, <1>0, <1>2, InputFind, InputContainer, InputMake, InputRun, InputInit, InputInput, InputRegister,
     InputSwap DEF BuildStep
<1>3. CASE Radar \/ \E b \in Build : BuildEnds(b)
  BY <1>0, <1>3, InputTables
<1>4. CASE Collector
  BY <1>0, <1>4, InputTables, InputRows, InputContainers, InputCaches DEF Collector
<1>5. CASE Faults
  BY <1>0, <1>5, InputTables, InputCaches, InputMake, InputRun, InputCrash DEF Faults
<1> QED BY <1>1, <1>2, <1>3, <1>4, <1>5 DEF Next

LEMMA Invariants == Spec => [](IInv /\ References /\ InputInv)
<1>1. Init => IInv /\ References /\ InputInv
  BY Zenon, InitIInv, InputInvInit DEF Init, CachesInit, References, UsedCaches, TypeOfConfigs
<1>2. IInv /\ References /\ InputInv /\ [Next]_vars => (IInv /\ References /\ InputInv)'
  BY IInvStep, ReferencesStep, InputInvStep
<1> QED BY <1>1, <1>2, PTL DEF Spec

\* The volume that the get step of a running build returned stays in
\* baggageclaim, among any number of builds that fetch the same version and
\* collectors that act on what they read earlier (FindOrCreateResourceCache,
\* FindVolumeForResourceCache, InitializeResourceCache, GetOrphanedVolumes).
THEOREM InputsStay == Spec => []InputStays
<1>1. IInv /\ InputInv => InputStays
  <2> SUFFICES ASSUME IInv, InputInv, NEW b \in running, pc[b] # "failed", src[b] # None, src[b] \notin excused
               PROVE  src[b] \in bc
    BY DEF InputStays
  <2>1. b \in Build
    BY DEF InputInv
  <2>2. Kept(b, src[b])
    BY Zenon, <2>1 DEF InputInv, BuildOK, InputOK
  <2> QED BY <2>2 DEF IInv, BackedInv, Kept
<1> QED BY <1>1, Invariants, PTL

\* Only RunContainer leads a fetch to its end.
LEMMA ToInit ==
  ASSUME IInv, [Next]_vars, NEW b \in Build, pc[b] = "run", pc'[b] = "init"
  PROVE  RunContainer(b)
<1>1. DOMAIN pc = Build /\ kind \in {"get", "task"}
  BY Zenon DEF IInv, Typed
<1>2. \A a \in Build : \A l : Goto(a, l) => a = b /\ l = "init"
  BY <1>1 DEF Goto
<1>3. pc' # pc
  OBVIOUS
<1>4. \A a \in Build : ~Fail(a)
  BY <1>2 DEF Fail
<1>5. CASE \E a \in Build : BuildStep(a) \/ BuildEnds(a)
  <2>1. PICK a \in Build : BuildStep(a)
    BY <1>3, <1>5 DEF BuildEnds, procVars
  <2>2. a = b
    <3>1. \E l : Goto(a, l)
      BY Zenon, <1>3, <1>4, <2>1 DEF BuildStep, UseCache, FindCached, LockFetch, Recheck, GetContainer, MakeVolume,
         MarkVolume, RunContainer, InitializeResourceCache, FindInput, TaskContainer, VolumeRow, FailContainer,
         RegisterTaskCache, InitializeTaskCache
    <3> QED BY <1>2, <3>1
  <2> QED BY Zenon, <2>1, <2>2 DEF BuildStep, UseCache, FindCached, LockFetch, Recheck, GetContainer, MakeVolume,
       MarkVolume, InitializeResourceCache, FindInput, TaskContainer, RegisterTaskCache, InitializeTaskCache
<1>6. CASE Radar \/ Collector
  BY Zenon, <1>3, <1>6 DEF Radar, Collector, CollectCaches, CollectRows, ReadOrphans, MarkContainer, DeleteContainer,
     MarkDestroying, DestroyReal, DestroyRow, DeleteFailed, procVars
<1>7. CASE Faults
  <2>1. FirstPC # "init"
    BY DEF FirstPC
  <2> QED BY <1>2, <1>3, <1>4, <1>7, <2>1 DEF Faults, WorkerChanges, MakeFails, RunFails, Crash, JobFails,
             FailContainer, procVars
<1>8. CASE UNCHANGED vars
  BY <1>3, <1>8 DEF vars, procVars
<1> QED BY Zenon, <1>5, <1>6, <1>7, <1>8 DEF Next

\* No build fetches a version that is on the worker: what the lookup under the
\* lock did not find, nobody else puts there before the fetch ends
\* (resourceInstanceFetchSource.Create under fetchWithLock's lock).
THEOREM FetchedOnce == Spec => FetchOnce
<1>1. ASSUME IInv, InputInv, [Next]_vars, NEW b \in Build, pc[b] = "run", pc'[b] = "init"
      PROVE  CacheVolume(b, Target[b]) = {}
  <2>1. Fetching(b)
    <3>1. DOMAIN pc = Build
      BY <1>1 DEF IInv, Typed
    <3>2. RunContainer(b)
      BY <1>1, <3>1, ToInit
    <3>3. StepOf(b) = "get"
      BY <1>1, <3>1, <3>2 DEF RunContainer, FailContainer, Fail, Goto, StepOf, Step, IInv, Typed
    <3> QED BY <1>1, <3>3 DEF StepOf, Fetching
  <2>2. b \in stale \/ \A v \in Volumes : volume[v].state = "created" => Target[b] \notin volume[v].cache
    BY Zenon, <1>1, <2>1 DEF InputInv, BuildOK, AbsentOK
  <2> QED BY Zenon, <2>2 DEF CacheVolume
<1>2. IInv /\ InputInv /\ [Next]_vars =>
        [\A b \in Build : pc[b] = "run" /\ pc'[b] = "init" => CacheVolume(b, Target[b]) = {}]_vars
  BY Zenon, <1>1
<1> QED BY <1>2, Invariants, PTL DEF FetchOnce, Spec
=============================================================================
