---------------------------- MODULE SchedulerProofs ----------------------------
(***************************************************************************)
(* What Scheduler promises, for every number of ATCs, triggers, jobs and   *)
(* builds. That builds of a job start in order needs no more than the      *)
(* order of the queue (IInv). max_in_flight is respected when no trigger   *)
(* runs beside the scheduling lock, or when no two jobs share a serial     *)
(* group (CountInv); that a build's recorded inputs are those of its plan  *)
(* (InputsInv), and that no version triggers two builds (OnceInv), when no *)
(* trigger does.                                                           *)
(***************************************************************************)
EXTENDS Scheduler, TLAPS

Record ==
  [job : Job, status : Status, scheduled : BOOLEAN, manual : BOOLEAN, inputs : Nat, plan : Nat]

Fields == {"pc", "todo", "queue", "now", "held", "latest", "used", "inputs"}

(* Where a goroutine is while it tries to start a build, and where it is   *)
(* once it has counted the running ones.                                   *)
Past == {"next", "scan", "remap", "determined", "inputs", "paused", "schedule", "use", "create"}
Trying == {"running"} \cup Past

-----------------------------------------------------------------------------
(* Types, and who is where: a runner that is not idle has the lock.        *)
Typed ==
  /\ build \in Seq(Record)
  /\ versions \in Nat /\ version \in {0, versions}
  /\ mapping \in [Job -> Nat]
  /\ DOMAIN groups = Job /\ \A j \in Job : groups[j] \in {{}, SerialGroups[j]}
  /\ DOMAIN proc = Proc
  /\ \A p \in Proc : DOMAIN proc[p] = Fields
  /\ \A p \in Proc : /\ proc[p].queue \subseteq DOMAIN build
                     /\ proc[p].todo \subseteq Job
                     /\ proc[p].latest \in Nat
                     /\ proc[p].inputs \in Nat

LockInv == \A r \in Runner : ~At(r, "idle") => lock = r

(* The build that is tried is the first of the queue, and a pending build  *)
(* older than one of the queue, of its job, is in the queue too.           *)
Closed(queue) ==
  \A b \in queue : \A c \in DOMAIN build :
    (build[c].job = build[b].job /\ c < b /\ build[c].status = "pending") => c \in queue

QueueInv ==
  \A p \in Proc : proc[p].pc \in Trying =>
    FirstBuild(Current(p), proc[p].queue) /\ Closed(proc[p].queue)

(* Only a build that was scheduled is started, and its job's groups are    *)
(* recorded by then.                                                       *)
ScheduledInv ==
  /\ \A b \in DOMAIN build :
       /\ build[b].status = "started" => build[b].scheduled
       /\ build[b].scheduled => groups[build[b].job] = SerialGroups[build[b].job]
  /\ \A p \in Proc :
       /\ proc[p].pc \in Past => groups[JobOf(p)] = SerialGroups[JobOf(p)]
       /\ proc[p].pc \in {"use", "create"} => build[Current(p)].scheduled

IInv == Typed /\ LockInv /\ QueueInv /\ ScheduledInv

-----------------------------------------------------------------------------
(* No two goroutines count the same serial group: only runners do, under   *)
(* the lock, or no job shares its groups.                                  *)
Apart ==
  \/ Trigger = {}
  \/ \A j, k \in Job : j # k => SerialGroups[j] \cap SerialGroups[k] = {}

(* What isMaxInFlightReached counts, once the groups are recorded.         *)
Counted(j) ==
  {b \in DOMAIN build :
     /\ SerialGroups[build[b].job] \cap SerialGroups[j] # {}
     /\ \/ build[b].status = "started"
        \/ build[b].status = "pending" /\ build[b].scheduled}

(* There is room for the build that is tried, as long as it is pending.    *)
Size(S) == Cardinality(S)

Room(p) == Size(Counted(JobOf(p)) \cup {Current(p)}) <= MaxInFlight[JobOf(p)]

CountInv ==
  \A p \in Proc :
    (proc[p].pc \in Past /\ MaxInFlight[JobOf(p)] > 0 /\ build[Current(p)].status = "pending")
      => Room(p)

-----------------------------------------------------------------------------
(* Without triggers, the builds of a queue were not started yet, and what  *)
(* is in a plan was recorded as used.                                      *)
InputsBuilds ==
  \A b \in DOMAIN build :
    /\ (build[b].status = "started" \/ build[b].plan # 0) => build[b].inputs = build[b].plan
    /\ build[b].status = "pending" => build[b].plan = 0

InputsInv ==
  /\ InputsBuilds
  /\ \A p \in Proc :
       /\ proc[p].pc \in Trying =>
            \A b \in proc[p].queue : build[b].status # "started" /\ build[b].plan = 0
       /\ proc[p].pc = "create" => build[Current(p)].inputs = proc[p].inputs

(* At most one build of a job is pending, and no other one has a version   *)
(* in its plan that could become the pending one's.                        *)
OnceBuilds ==
  /\ \A b \in DOMAIN build : ~build[b].manual /\ build[b].plan <= versions
  /\ \A b, c \in DOMAIN build : (b # c /\ build[b].job = build[c].job) =>
       /\ build[b].plan # 0 => build[b].plan # build[c].plan
       /\ build[c].status = "pending" => build[b].status # "pending" /\ build[b].plan < versions

(* What a runner knows once it has loaded the versions: its newest one is  *)
(* not in the plan of a job that has a pending build, nor older than any;  *)
(* it knows what the plans used; the jobs it is done with are mapped to    *)
(* its newest version, and that is what it starts builds with.             *)
Newest(r) ==
  /\ proc[r].latest <= versions
  /\ proc[r].latest # 0 =>
       /\ \A b \in DOMAIN build : build[b].plan <= proc[r].latest
       /\ \A b, c \in DOMAIN build :
            (b # c /\ build[b].job = build[c].job /\ build[c].status = "pending")
              => build[b].plan < proc[r].latest

Mapped(r) ==
  /\ proc[r].pc \in {"jobs", "map", "ensure"} =>
       \A b \in DOMAIN build : build[b].plan # 0 => build[b].inputs \in proc[r].used[build[b].job]
  /\ proc[r].pc = "ensure" => \A j \in proc[r].todo : FirstJob(j, proc[r].todo) =>
       mapping[j] = proc[r].latest /\ proc[r].latest # 0 /\ proc[r].latest \notin proc[r].used[j]
  /\ proc[r].pc \in {"map", "ensure"} \cup Trying =>
       \A j \in Job : j \notin proc[r].todo => mapping[j] = proc[r].latest

Tries(r) ==
  /\ proc[r].pc \in Trying => proc[r].todo = {}
  /\ proc[r].pc \in {"paused", "schedule", "use", "create"} => proc[r].inputs = proc[r].latest
  /\ proc[r].pc \notin {"scan", "remap"}

OnceInv ==
  /\ OnceBuilds
  /\ \A r \in Runner : proc[r].pc \notin {"idle", "versions"} => Newest(r) /\ Mapped(r) /\ Tries(r)

-----------------------------------------------------------------------------
(* Sequences, as functions on an interval.                                 *)
LEMMA LenProperties ==
  ASSUME NEW S, NEW seq \in Seq(S)
  PROVE  /\ Len(seq) \in Nat /\ DOMAIN seq = 1..Len(seq)
         /\ seq \in [1..Len(seq) -> S]
OBVIOUS

LEMMA ElementOfSeq ==
  ASSUME NEW S, NEW seq \in Seq(S), NEW n \in 1..Len(seq)
  PROVE  seq[n] \in S
OBVIOUS

LEMMA EmptySeq == \A S : <<>> \in Seq(S) /\ Len(<<>>) = 0
OBVIOUS

(* The rows of the builds after an UPDATE and after an INSERT.             *)
LEMMA Updated ==
  ASSUME NEW s \in Seq(Record), NEW t, NEW b \in DOMAIN s, NEW e \in Record,
         t = [s EXCEPT ![b] = e]
  PROVE  /\ t \in Seq(Record) /\ DOMAIN t = DOMAIN s
         /\ t[b] = e
         /\ \A c \in DOMAIN s : c # b => t[c] = s[c]
<1>1. DOMAIN s = 1..Len(s)
  BY LenProperties
<1>2. t \in Seq(Record) /\ DOMAIN t = DOMAIN s
  BY <1>1
<1> QED BY <1>2

LEMMA Appended ==
  ASSUME NEW s \in Seq(Record), NEW t, NEW e \in Record, t = Append(s, e)
  PROVE  /\ t \in Seq(Record)
         /\ Len(s) \in Nat
         /\ DOMAIN s = 1..Len(s) /\ DOMAIN t = 1..(Len(s) + 1)
         /\ t[Len(s) + 1] = e
         /\ \A c \in DOMAIN s : t[c] = s[c]
<1>1. DOMAIN s = 1..Len(s) /\ Len(s) \in Nat
  BY LenProperties
<1>2. /\ t \in Seq(Record) /\ Len(t) = Len(s) + 1 /\ t[Len(s) + 1] = e
      /\ \A c \in 1..Len(s) : t[c] = s[c]
  OBVIOUS
<1>3. DOMAIN t = 1..Len(t)
  BY <1>2, LenProperties
<1> QED BY <1>1, <1>2, <1>3

(* What a step may do to the builds: only this build is updated, ...       *)
Only(b) ==
  /\ DOMAIN build' = DOMAIN build
  /\ b \in DOMAIN build
  /\ \A c \in DOMAIN build : c # b => build'[c] = build[c]
  /\ build'[b].job = build[b].job /\ build'[b].manual = build[b].manual

(* ...it ends, it is started or not, it is scheduled, its inputs are       *)
(* recorded, ...                                                           *)
Ends(b) ==
  /\ Only(b)
  /\ build'[b].status = "over" /\ build'[b].scheduled = build[b].scheduled
  /\ build'[b].inputs = build[b].inputs /\ build'[b].plan = build[b].plan

Starts(b, v) ==
  /\ Only(b)
  /\ build[b].status = "pending" /\ build'[b].status = "started"
  /\ build'[b].scheduled = build[b].scheduled
  /\ build'[b].inputs = build[b].inputs /\ build'[b].plan = v

Schedules(b) ==
  /\ Only(b)
  /\ build'[b].status = build[b].status /\ build'[b].scheduled = TRUE
  /\ build'[b].inputs = build[b].inputs /\ build'[b].plan = build[b].plan

Records(b, v) ==
  /\ Only(b)
  /\ build'[b].status = build[b].status /\ build'[b].scheduled = build[b].scheduled
  /\ build'[b].inputs = v /\ build'[b].plan = build[b].plan

(* ...or a build is created.                                               *)
Creates(n, j, manual) ==
  /\ n \in Nat /\ DOMAIN build = 1..n /\ DOMAIN build' = 1..(n + 1)
  /\ \A c \in DOMAIN build : build'[c] = build[c]
  /\ build'[n + 1].job = j /\ build'[n + 1].status = "pending"
  /\ build'[n + 1].scheduled = FALSE /\ build'[n + 1].manual = manual
  /\ build'[n + 1].inputs = 0 /\ build'[n + 1].plan = 0

LEMMA RecordFields ==
  ASSUME NEW e \in Record
  PROVE  /\ e.job \in Job /\ e.status \in Status /\ e.scheduled \in BOOLEAN
         /\ e.manual \in BOOLEAN /\ e.inputs \in Nat /\ e.plan \in Nat
         /\ DOMAIN e = {"job", "status", "scheduled", "manual", "inputs", "plan"}
BY DEF Record

LEMMA EndsRow ==
  ASSUME Typed, NEW b \in DOMAIN build, build' = [build EXCEPT ![b].status = "over"]
  PROVE  build' \in Seq(Record) /\ Ends(b)
<1>1. build \in Seq(Record) /\ build[b] \in Record
  BY LenProperties, ElementOfSeq DEF Typed
<1> DEFINE e == [build[b] EXCEPT !.status = "over"]
<1>2. e \in Record
  BY Zenon, <1>1 DEF Record, Status
<1>3. build' = [build EXCEPT ![b] = e]
  OBVIOUS
<1>4. /\ e.job = build[b].job /\ e.status = "over" /\ e.scheduled = build[b].scheduled
      /\ e.manual = build[b].manual /\ e.inputs = build[b].inputs /\ e.plan = build[b].plan
  BY <1>1, RecordFields
<1> HIDE DEF e
<1> QED BY <1>1, <1>2, <1>3, <1>4, Updated DEF Ends, Only

LEMMA StartsRow ==
  ASSUME Typed, NEW b \in DOMAIN build, build[b].status = "pending", NEW v \in Nat,
         build' = [build EXCEPT ![b].status = "started", ![b].plan = v]
  PROVE  build' \in Seq(Record) /\ Starts(b, v)
<1>1. build \in Seq(Record) /\ build[b] \in Record
  BY LenProperties, ElementOfSeq DEF Typed
<1> DEFINE e == [build[b] EXCEPT !.status = "started", !.plan = v]
<1>2. e \in Record
  BY Zenon, <1>1 DEF Record, Status
<1>3. build' = [build EXCEPT ![b] = e]
  BY Zenon, <1>1, LenProperties
<1>4. /\ e.job = build[b].job /\ e.status = "started" /\ e.scheduled = build[b].scheduled
      /\ e.manual = build[b].manual /\ e.inputs = build[b].inputs /\ e.plan = v
  BY <1>1, RecordFields
<1> HIDE DEF e
<1>5. ASSUME NEW t, t = [build EXCEPT ![b] = e]
      PROVE  /\ t \in Seq(Record) /\ DOMAIN t = DOMAIN build /\ t[b] = e
             /\ \A c \in DOMAIN build : c # b => t[c] = build[c]
  BY Zenon, <1>1, <1>2, <1>5, Updated
<1>6. /\ build' \in Seq(Record) /\ DOMAIN build' = DOMAIN build /\ build'[b] = e
      /\ \A c \in DOMAIN build : c # b => build'[c] = build[c]
  BY Zenon, <1>3, <1>5
<1> QED BY <1>4, <1>6 DEF Starts, Only

LEMMA SchedulesRow ==
  ASSUME Typed, NEW b \in DOMAIN build, build' = [build EXCEPT ![b].scheduled = TRUE]
  PROVE  build' \in Seq(Record) /\ Schedules(b)
<1>1. build \in Seq(Record) /\ build[b] \in Record
  BY LenProperties, ElementOfSeq DEF Typed
<1> DEFINE e == [build[b] EXCEPT !.scheduled = TRUE]
<1>2. e \in Record
  BY Zenon, <1>1 DEF Record
<1>3. build' = [build EXCEPT ![b] = e]
  OBVIOUS
<1>4. /\ e.job = build[b].job /\ e.status = build[b].status /\ e.scheduled = TRUE
      /\ e.manual = build[b].manual /\ e.inputs = build[b].inputs /\ e.plan = build[b].plan
  BY <1>1, RecordFields
<1> HIDE DEF e
<1>5. ASSUME NEW t, t = [build EXCEPT ![b] = e]
      PROVE  /\ t \in Seq(Record) /\ DOMAIN t = DOMAIN build /\ t[b] = e
             /\ \A c \in DOMAIN build : c # b => t[c] = build[c]
  BY Zenon, <1>1, <1>2, <1>5, Updated
<1>6. /\ build' \in Seq(Record) /\ DOMAIN build' = DOMAIN build /\ build'[b] = e
      /\ \A c \in DOMAIN build : c # b => build'[c] = build[c]
  BY Zenon, <1>3, <1>5
<1> QED BY Zenon, <1>4, <1>6 DEF Schedules, Only

LEMMA RecordsRow ==
  ASSUME Typed, NEW b \in DOMAIN build, NEW v \in Nat, build' = [build EXCEPT ![b].inputs = v]
  PROVE  build' \in Seq(Record) /\ Records(b, v)
<1>1. build \in Seq(Record) /\ build[b] \in Record
  BY LenProperties, ElementOfSeq DEF Typed
<1> DEFINE e == [build[b] EXCEPT !.inputs = v]
<1>2. e \in Record
  BY <1>1 DEF Record
<1>3. build' = [build EXCEPT ![b] = e]
  OBVIOUS
<1>4. /\ e.job = build[b].job /\ e.status = build[b].status /\ e.scheduled = build[b].scheduled
      /\ e.manual = build[b].manual /\ e.inputs = v /\ e.plan = build[b].plan
  BY <1>1, RecordFields
<1> HIDE DEF e
<1> QED BY <1>1, <1>2, <1>3, <1>4, Updated DEF Records, Only

LEMMA CreatesRow ==
  ASSUME Typed, NEW j \in Job, NEW manual \in BOOLEAN, build' = Append(build, NewBuild(j, manual))
  PROVE  build' \in Seq(Record) /\ Creates(Len(build), j, manual)
<1>1. NewBuild(j, manual) \in Record /\ build \in Seq(Record)
  BY DEF NewBuild, Record, Status, Typed
<1>2. PICK e : e = NewBuild(j, manual)
  OBVIOUS
<1>3. /\ e.job = j /\ e.status = "pending" /\ e.scheduled = FALSE
      /\ e.manual = manual /\ e.inputs = 0 /\ e.plan = 0
  BY <1>2 DEF NewBuild
<1> QED BY <1>1, <1>2, <1>3, Appended DEF Creates

-----------------------------------------------------------------------------
(* What every step leaves alone: builds stay, with their jobs, what was    *)
(* scheduled stays so, none becomes pending again and new ones are newer.  *)
BuildAges ==
  /\ build' \in Seq(Record)
  /\ DOMAIN build \subseteq DOMAIN build' /\ DOMAIN build \subseteq Nat /\ DOMAIN build' \subseteq Nat
  /\ \A b \in DOMAIN build :
       /\ build'[b].job = build[b].job
       /\ build[b].scheduled => build'[b].scheduled
       /\ build'[b].status = "pending" => build[b].status = "pending"
  /\ \A b \in DOMAIN build' \ DOMAIN build : \A c \in DOMAIN build : c < b

LEMMA BuildIsSeq ==
  ASSUME Typed
  PROVE  /\ build \in Seq(Record) /\ DOMAIN build \subseteq Nat
         /\ \A b \in DOMAIN build : build[b] \in Record
<1>1. build \in Seq(Record) /\ DOMAIN build = 1..Len(build) /\ Len(build) \in Nat
  BY LenProperties DEF Typed
<1> QED BY <1>1, ElementOfSeq

LEMMA SameAges ==
  ASSUME Typed, build' = build
  PROVE  BuildAges
BY BuildIsSeq DEF BuildAges

LEMMA UpdateAges ==
  ASSUME Typed, build' \in Seq(Record), NEW b,
         Ends(b) \/ (\E v : Starts(b, v)) \/ Schedules(b) \/ (\E v : Records(b, v))
  PROVE  BuildAges
<1>1. /\ DOMAIN build' = DOMAIN build /\ DOMAIN build \subseteq Nat
      /\ \A c \in DOMAIN build : c # b => build'[c] = build[c]
      /\ build'[b].job = build[b].job
  BY BuildIsSeq DEF Ends, Starts, Schedules, Records, Only
<1>2. /\ build[b].scheduled => build'[b].scheduled
      /\ build'[b].status = "pending" => build[b].status = "pending"
  BY DEF Ends, Starts, Schedules, Records
<1> QED BY <1>1, <1>2 DEF BuildAges

LEMMA CreateAges ==
  ASSUME Typed, build' \in Seq(Record), NEW n, NEW j, NEW manual, Creates(n, j, manual)
  PROVE  BuildAges
<1>1. n \in Nat /\ DOMAIN build = 1..n /\ DOMAIN build' = 1..(n + 1)
  BY DEF Creates
<1>2. \A c \in DOMAIN build : build'[c] = build[c]
  BY DEF Creates
<1>3. DOMAIN build \subseteq DOMAIN build' /\ DOMAIN build \subseteq Nat /\ DOMAIN build' \subseteq Nat
  BY <1>1
<1>4. \A b \in DOMAIN build' \ DOMAIN build : \A c \in DOMAIN build : c < b
  BY <1>1
<1> HIDE <1>1
<1> QED BY <1>2, <1>3, <1>4 DEF BuildAges

(* build.Start, of a build that a goroutine is trying.                     *)
LEMMA StartEffect ==
  ASSUME Typed, NEW p \in Proc, NEW b \in DOMAIN build, StartBuild(b, p)
  PROVE  build' = build \/ (build' \in Seq(Record) /\ Starts(b, proc[p].inputs))
<1>1. proc[p].inputs \in Nat
  BY DEF Typed
<1> QED BY Zenon, <1>1, StartsRow DEF StartBuild

-----------------------------------------------------------------------------
(* What a step does to the goroutines: only p takes it, and becomes idle,  *)
(* goes on trying the same build, takes the next build, or prepares.       *)
Alone(p) ==
  /\ DOMAIN proc' = Proc /\ DOMAIN proc'[p] = Fields
  /\ \A q \in Proc : q # p => proc'[q] = proc[q]

Idles(p) ==
  /\ Alone(p)
  /\ proc'[p] = Idle
  /\ lock' = IF lock = p THEN None ELSE lock

Walks(p) ==
  /\ Alone(p)
  /\ proc[p].pc \in Trying /\ proc'[p].pc \in Past
  /\ proc'[p].queue = proc[p].queue /\ proc'[p].now = proc[p].now
  /\ proc'[p].todo = proc[p].todo
  /\ proc'[p].latest \in Nat /\ proc'[p].inputs \in Nat
  /\ lock' = lock

GoesOn(p) ==
  /\ Alone(p)
  /\ ~At(p, "idle") /\ proc'[p].pc = "running"
  /\ proc'[p].queue \subseteq DOMAIN build
  /\ FirstBuild(proc'[p].now, proc'[p].queue)
  /\ proc'[p].todo = proc[p].todo /\ proc'[p].latest = proc[p].latest /\ proc'[p].inputs = 0
  /\ lock' = lock

Prepares(p) ==
  /\ Alone(p)
  /\ proc'[p].pc \notin Trying \cup {"idle"}
  /\ proc'[p].queue = proc[p].queue
  /\ proc'[p].todo \subseteq Job
  /\ proc'[p].latest \in Nat /\ proc'[p].inputs \in Nat
  /\ \/ lock' = lock /\ (~At(p, "idle") \/ p \in Trigger)
     \/ lock = None /\ lock' = p

Moves(p) == Idles(p) \/ Walks(p) \/ GoesOn(p) \/ Prepares(p)

LEMMA IdleFields ==
  /\ DOMAIN Idle = Fields
  /\ Idle.pc = "idle" /\ Idle.queue = {} /\ Idle.todo = {} /\ Idle.latest = 0 /\ Idle.inputs = 0
BY DEF Idle, Fields

LEMMA ReturnIdles ==
  ASSUME Typed, NEW p \in Proc, Return(p)
  PROVE  Idles(p)
BY IdleFields DEF Typed, Return, Idles, Alone

LEMMA GotoWalks ==
  ASSUME Typed, NEW p \in Proc, NEW pc \in Past, proc[p].pc \in Trying, Goto(p, pc)
  PROVE  Walks(p) /\ proc'[p].pc = pc /\ proc'[p].inputs = proc[p].inputs
                  /\ proc'[p].latest = proc[p].latest
BY DEF Typed, Goto, Walks, Alone, Fields

LEMMA GoOnMoves ==
  ASSUME Typed, NEW p \in Proc, ~At(p, "idle"), NEW queue \in SUBSET DOMAIN build, GoOn(p, queue)
  PROVE  Idles(p) \/ (GoesOn(p) /\ proc'[p].queue = queue)
<1>1. CASE queue = {} /\ Return(p)
  BY <1>1, ReturnIdles
<1>2. ASSUME NEW b \in queue, FirstBuild(b, queue),
             proc' = [proc EXCEPT ![p].pc = "running", ![p].queue = queue, ![p].now = b,
                                  ![p].inputs = 0],
             lock' = lock
      PROVE  GoesOn(p) /\ proc'[p].queue = queue
  <2>1. /\ Alone(p) /\ proc'[p].pc = "running" /\ proc'[p].queue = queue /\ proc'[p].now = b
        /\ proc'[p].inputs = 0 /\ proc'[p].todo = proc[p].todo
        /\ proc'[p].latest = proc[p].latest
    BY <1>2 DEF Typed, Alone, Fields
  <2> QED BY Zenon, <1>2, <2>1 DEF GoesOn
<1> QED BY Zenon, <1>1, <1>2 DEF GoOn

LEMMA NotStartedMoves ==
  ASSUME Typed, NEW p \in Proc, ~At(p, "idle"), NotStarted(p)
  PROVE  \/ Idles(p)
         \/ GoesOn(p) /\ proc'[p].queue = {b \in proc[p].queue : build[b].job # JobOf(p)}
<1> DEFINE queue == {b \in proc[p].queue : build[b].job # JobOf(p)}
<1>1. queue \in SUBSET DOMAIN build
  BY DEF Typed
<1>2. GoOn(p, queue)
  BY DEF NotStarted
<1> HIDE DEF queue
<1>3. Idles(p) \/ (GoesOn(p) /\ proc'[p].queue = queue)
  BY <1>1, <1>2, GoOnMoves
<1> QED BY <1>3 DEF queue

LEMMA StartedMoves ==
  ASSUME Typed, NEW p \in Proc, ~At(p, "idle"), Started(p)
  PROVE  \/ Idles(p)
         \/ GoesOn(p) /\ proc'[p].queue = proc[p].queue \ {Current(p)}
<1> DEFINE queue == proc[p].queue \ {Current(p)}
<1>1. queue \in SUBSET DOMAIN build
  BY DEF Typed
<1>2. GoOn(p, queue)
  BY DEF Started
<1> HIDE DEF queue
<1>3. Idles(p) \/ (GoesOn(p) /\ proc'[p].queue = queue)
  BY <1>1, <1>2, GoOnMoves
<1> QED BY <1>3 DEF queue

-----------------------------------------------------------------------------
(* The kinds of steps: nobody moves and a build may end; a runner or a     *)
(* trigger prepares, and may create a build; the queue is read; the        *)
(* running builds are counted; the other checks; Schedule; UseInputs;      *)
(* Start or no plan; and a fault.                                          *)
Quiet ==
  /\ proc' = proc /\ lock' = lock /\ groups' = groups
  /\ build' = build \/ \E b : build' \in Seq(Record) /\ Ends(b)

Setup(p) ==
  /\ Prepares(p) /\ groups' = groups
  /\ build' = build \/ \E n, j, manual : build' \in Seq(Record) /\ Creates(n, j, manual)

Fills(p) ==
  /\ build' = build /\ groups' = groups
  /\ \/ Idles(p)
     \/ GoesOn(p) /\ Closed(proc'[p].queue) /\ proc'[p].queue \subseteq AllPendingBuilds

Drops(p) ==
  \/ Idles(p)
  \/ GoesOn(p) /\ proc'[p].queue = {b \in proc[p].queue : build[b].job # JobOf(p)}

Counts(p) ==
  /\ proc[p].pc = "running" /\ build' = build
  /\ DOMAIN groups' = Job
  /\ \A j \in Job : groups'[j] \in {groups[j], SerialGroups[j]}
  /\ \/ Drops(p)
     \/ /\ Walks(p) /\ proc'[p].pc \notin {"use", "create"}
        /\ groups'[JobOf(p)] = SerialGroups[JobOf(p)]
        /\ \/ MaxInFlight[JobOf(p)] = 0
           \/ ~(Cardinality(Running(JobOf(p), groups')) >= MaxInFlight[JobOf(p)])

Checks(p) ==
  /\ proc[p].pc \in Past /\ build' = build /\ groups' = groups
  /\ Drops(p) \/ (Walks(p) /\ proc'[p].pc \notin {"use", "create"})

Claims(p) ==
  /\ proc[p].pc = "schedule" /\ groups' = groups
  /\ build' \in Seq(Record) /\ Schedules(Current(p))
  /\ Walks(p) /\ proc'[p].pc = "use"

Uses(p) ==
  /\ proc[p].pc = "use" /\ groups' = groups
  /\ build' \in Seq(Record) /\ Records(Current(p), proc[p].inputs)
  /\ Walks(p) /\ proc'[p].pc = "create" /\ proc'[p].inputs = proc[p].inputs

Concludes(p) ==
  /\ proc[p].pc = "create" /\ groups' = groups
  /\ \/ build' = build
     \/ build' \in Seq(Record) /\ Starts(Current(p), proc[p].inputs)
     \/ build' \in Seq(Record) /\ Ends(Current(p))
  /\ \/ Drops(p)
     \/ /\ build'[Current(p)].status # "pending"
        /\ Idles(p) \/ (GoesOn(p) /\ proc'[p].queue = proc[p].queue \ {Current(p)})

Breaks(p) == Idles(p) /\ build' = build /\ groups' = groups

Kinds(p) ==
  \/ Setup(p) \/ Fills(p) \/ Counts(p) \/ Checks(p) \/ Claims(p) \/ Uses(p) \/ Concludes(p)
  \/ Breaks(p)

LEMMA OutsideKind ==
  ASSUME IInv,
         \/ \E b \in DOMAIN build : FinishBuild(b) \/ AbortBuild(b)
         \/ FindVersion \/ PausePipeline \/ \E j \in Job : PauseJob(j)
  PROVE  Quiet /\ mapping' = mapping
<1>1. CASE \E b \in DOMAIN build : FinishBuild(b) \/ AbortBuild(b)
  <2>1. PICK b \in DOMAIN build : FinishBuild(b) \/ AbortBuild(b)
    BY <1>1
  <2>2. build' = [build EXCEPT ![b].status = "over"]
    BY <2>1 DEF FinishBuild, AbortBuild
  <2>3. build' \in Seq(Record) /\ Ends(b)
    BY Zenon, <2>2, EndsRow DEF IInv
  <2>4. proc' = proc /\ lock' = lock /\ groups' = groups /\ mapping' = mapping
    BY <2>1 DEF FinishBuild, AbortBuild
  <2> QED BY <2>3, <2>4 DEF Quiet
<1>2. CASE FindVersion \/ PausePipeline \/ \E j \in Job : PauseJob(j)
  BY <1>2 DEF FindVersion, PausePipeline, PauseJob, Quiet
<1> QED BY <1>1, <1>2

LEMMA TickKind ==
  ASSUME IInv, NEW r \in Runner, Tick(r)
  PROVE  Setup(r)
BY SchedulerAssumption DEF IInv, Typed, Tick, At, Setup, Prepares, Alone, Fields, Trying, Past, Proc

LEMMA LoadKind ==
  ASSUME IInv, NEW r \in Runner, LoadVersions(r) \/ LoadJobs(r)
  PROVE  Setup(r)
<1>1. CASE LoadVersions(r)
  <2>1. version \in Nat
    BY DEF IInv, Typed
  <2> QED BY <1>1, <2>1 DEF IInv, Typed, LoadVersions, LoadVersionsDB, At, Setup, Prepares, Alone, Fields,
                 Trying, Past, Proc
<1>2. CASE LoadJobs(r)
  BY <1>2 DEF IInv, Typed, LoadJobs, At, Setup, Prepares, Alone, Fields, Trying, Past, Proc
<1> QED BY <1>1, <1>2

LEMMA MapKind ==
  ASSUME IInv, NEW r \in Runner, MapInputs(r)
  PROVE  Setup(r)
<1>1. PICK j \in proc[r].todo :
        proc' = [proc EXCEPT
            ![r].pc = IF (proc[r].latest # 0 /\ proc[r].latest \notin proc[r].used[j]) /\ j \in Triggered
                      THEN "ensure" ELSE "map",
            ![r].todo = IF (proc[r].latest # 0 /\ proc[r].latest \notin proc[r].used[j]) /\ j \in Triggered
                        THEN @ ELSE @ \ {j}]
  BY Zenon DEF MapInputs
<1>2. /\ Alone(r) /\ proc'[r].pc \in {"ensure", "map"}
      /\ proc'[r].queue = proc[r].queue /\ proc'[r].latest = proc[r].latest
      /\ proc'[r].inputs = proc[r].inputs /\ proc'[r].todo \subseteq proc[r].todo
  BY <1>1 DEF IInv, Typed, Alone, Fields, Proc
<1>3. /\ lock' = lock /\ groups' = groups /\ build' = build /\ ~At(r, "idle")
  BY DEF MapInputs, At
<1>4. proc[r].todo \subseteq Job /\ proc[r].latest \in Nat /\ proc[r].inputs \in Nat
  BY DEF IInv, Typed, Proc
<1> QED BY <1>2, <1>3, <1>4 DEF Setup, Prepares, Trying, Past

LEMMA CreatingKind ==
  ASSUME IInv,
         \/ \E r \in Runner : EnsurePendingBuildExists(r)
         \/ \E t \in Trigger : \E j \in Job : TriggerImmediately(t, j)
  PROVE  \E p \in Proc : Setup(p)
<1>1. ASSUME NEW r \in Runner, EnsurePendingBuildExists(r)
      PROVE  Setup(r)
  <2>1. PICK j \in proc[r].todo :
          /\ build' = build \/ build' = Append(build, NewBuild(j, FALSE))
          /\ proc' = [proc EXCEPT ![r].pc = "map", ![r].todo = @ \ {j}]
    BY Zenon, <1>1 DEF EnsurePendingBuildExists
  <2>2. j \in Job
    BY DEF IInv, Typed, Proc
  <2>3. build' = build \/ (build' \in Seq(Record) /\ Creates(Len(build), j, FALSE))
    BY Zenon, <2>1, <2>2, CreatesRow DEF IInv
  <2>4. /\ Prepares(r) /\ groups' = groups
    BY <1>1, <2>1 DEF IInv, Typed, EnsurePendingBuildExists, At, Prepares, Alone, Fields, Proc, Trying, Past
  <2> QED BY Zenon, <2>3, <2>4 DEF Setup
<1>2. ASSUME NEW t \in Trigger, NEW j \in Job, TriggerImmediately(t, j)
      PROVE  Setup(t)
  <2>1. build' \in Seq(Record) /\ Creates(Len(build), j, TRUE)
    BY Zenon, <1>2, CreatesRow DEF IInv, TriggerImmediately
  <2>2. /\ proc' = [proc EXCEPT ![t].pc = "pending", ![t].todo = {j}, ![t].held = paused]
        /\ groups' = groups /\ lock' = lock
    BY Zenon, <1>2 DEF TriggerImmediately
  <2>3. /\ Alone(t) /\ proc'[t].pc = "pending" /\ proc'[t].todo = {j}
        /\ proc'[t].queue = proc[t].queue /\ proc'[t].latest = proc[t].latest
        /\ proc'[t].inputs = proc[t].inputs
    BY <2>2 DEF IInv, Typed, Alone, Fields, Proc
  <2>4. proc[t].latest \in Nat /\ proc[t].inputs \in Nat
    BY DEF IInv, Typed, Proc
  <2> QED BY Zenon, <2>1, <2>2, <2>3, <2>4 DEF Setup, Prepares, Trying, Past
<1> QED BY <1>1, <1>2 DEF Proc

LEMMA FillKind ==
  ASSUME IInv,
         \/ \E r \in Runner : GetAllPendingBuilds(r)
         \/ \E t \in Trigger : GetPendingBuilds(t)
  PROVE  \E p \in Proc : Fills(p)
<1>1. ASSUME NEW p \in Proc, ~At(p, "idle"), NEW queue, GoOn(p, queue), build' = build, groups' = groups,
             queue = AllPendingBuilds \/ \E j : queue = PendingBuilds(j)
      PROVE  Fills(p)
  <2>1. queue \in SUBSET DOMAIN build /\ Closed(queue) /\ queue \subseteq AllPendingBuilds
    BY <1>1 DEF AllPendingBuilds, PendingBuilds, Closed
  <2>2. Idles(p) \/ (GoesOn(p) /\ proc'[p].queue = queue)
    BY <1>1, <2>1, GoOnMoves DEF IInv
  <2> QED BY <1>1, <2>1, <2>2 DEF Fills
<1> QED BY <1>1 DEF GetAllPendingBuilds, GetPendingBuilds, At, Proc

LEMMA CountKind ==
  ASSUME IInv, NEW p \in Proc, CountRunning(p)
  PROVE  Counts(p)
<1>1. PICK j : j = JobOf(p)
  OBVIOUS
<1>2. /\ proc[p].pc = "running" /\ build' = build /\ ~At(p, "idle") /\ p \in Proc
  BY DEF CountRunning, At
<1>3. j \in Job
  <2>1. Current(p) \in DOMAIN build
    BY Zenon, <1>2 DEF IInv, Typed, QueueInv, Trying, FirstBuild
  <2> QED BY <1>1, <2>1, BuildIsSeq, RecordFields DEF IInv, JobOf
<1>4. /\ DOMAIN groups = Job /\ groups[j] \in {{}, SerialGroups[j]}
      /\ MaxInFlight[j] = 0 <=> SerialGroups[j] = {}
  BY <1>3, SchedulerAssumption DEF IInv, Typed
<1>5. CASE MaxInFlight[j] = 0
  <2>1. /\ groups' = groups
        /\ Goto(p, IF build[Current(p)].manual THEN "scan" ELSE "determined")
    BY <1>1, <1>5 DEF CountRunning
  <2>2. Walks(p) /\ proc'[p].pc \notin {"use", "create"}
    BY <1>2, <2>1, GotoWalks DEF IInv, Trying, Past
  <2>3. groups'[j] = SerialGroups[j]
    BY <1>4, <1>5, <2>1
  <2> QED BY <1>1, <1>2, <1>4, <1>5, <2>1, <2>2, <2>3 DEF Counts
<1>6. CASE MaxInFlight[j] # 0
  <2>1. groups' = [groups EXCEPT ![j] = SerialGroups[j]]
    BY <1>1, <1>6 DEF CountRunning
  <2>2. /\ DOMAIN groups' = Job /\ groups'[j] = SerialGroups[j]
        /\ \A k \in Job : groups'[k] \in {groups[k], SerialGroups[k]}
    BY <1>3, <1>4, <2>1
  <2>3. \/ NotStarted(p)
        \/ Goto(p, "next") /\ ~(Cardinality(Running(j, groups')) >= MaxInFlight[j])
    BY <1>1, <1>6 DEF CountRunning, AtLimit
  <2>4. CASE NotStarted(p)
    <3>1. Drops(p)
      BY <1>2, <2>4, NotStartedMoves DEF IInv, Drops
    <3> QED BY <1>2, <2>2, <3>1 DEF Counts
  <2>5. CASE Goto(p, "next") /\ ~(Cardinality(Running(j, groups')) >= MaxInFlight[j])
    <3>1. Walks(p) /\ proc'[p].pc \notin {"use", "create"}
      BY <1>2, <2>5, GotoWalks DEF IInv, Trying, Past
    <3> QED BY <1>1, <1>2, <2>2, <2>5, <3>1 DEF Counts
  <2> QED BY <2>3, <2>4, <2>5
<1> QED BY <1>5, <1>6

LEMMA CheckKind ==
  ASSUME IInv, NEW p \in Proc,
         \/ IsNextPending(p) \/ Scan(p) \/ Remap(p) \/ InputsDetermined(p) \/ GetNextBuildInputs(p)
         \/ CheckPaused(p)
  PROVE  Checks(p)
<1>1. /\ proc[p].pc \in Past /\ build' = build /\ groups' = groups /\ ~At(p, "idle")
      /\ proc[p].pc \in Trying
  BY DEF IsNextPending, Scan, Remap, InputsDetermined, GetNextBuildInputs, CheckPaused, At, Past, Trying
<1>2. CASE NotStarted(p)
  BY <1>1, <1>2, NotStartedMoves DEF IInv, Drops, Checks
<1>3. CASE \E pc \in Past \ {"use", "create"} : Goto(p, pc)
  BY <1>1, <1>3, GotoWalks DEF IInv, Checks
<1>4. CASE Scan(p)
  <2>1. version \in Nat
    BY DEF IInv, Typed
  <2>2. /\ proc' = [proc EXCEPT ![p].pc = "remap", ![p].latest = version,
                                ![p].used = [j \in Job |-> Used(j)]]
        /\ lock' = lock
    BY <1>4 DEF Scan, LoadVersionsDB
  <2>3. /\ Alone(p) /\ proc'[p].pc = "remap" /\ proc'[p].latest \in Nat
        /\ proc'[p].queue = proc[p].queue /\ proc'[p].now = proc[p].now
        /\ proc'[p].todo = proc[p].todo /\ proc'[p].inputs = proc[p].inputs
    BY <2>1, <2>2 DEF IInv, Typed, Alone, Fields
  <2>4. proc[p].inputs \in Nat
    BY DEF IInv, Typed
  <2> QED BY <1>1, <2>2, <2>3, <2>4 DEF Checks, Walks, Past
<1>5. CASE GetNextBuildInputs(p)
  <2>1. mapping[JobOf(p)] \in Nat
    <3>1. Current(p) \in DOMAIN build
      BY Zenon, <1>1 DEF IInv, Typed, QueueInv, FirstBuild
    <3> QED BY <3>1, BuildIsSeq, RecordFields DEF IInv, JobOf, Typed
  <2>2. /\ proc' = [proc EXCEPT ![p].pc = "paused", ![p].inputs = mapping[JobOf(p)]]
        /\ lock' = lock
    BY <1>5 DEF GetNextBuildInputs
  <2>3. /\ Alone(p) /\ proc'[p].pc = "paused" /\ proc'[p].latest = proc[p].latest
        /\ proc'[p].queue = proc[p].queue /\ proc'[p].now = proc[p].now
        /\ proc'[p].todo = proc[p].todo /\ proc'[p].inputs \in Nat
    BY <2>1, <2>2 DEF IInv, Typed, Alone, Fields
  <2>4. proc[p].latest \in Nat
    BY DEF IInv, Typed
  <2> QED BY <1>1, <2>2, <2>3, <2>4 DEF Checks, Walks, Past
<1> QED BY <1>2, <1>3, <1>4, <1>5 DEF IsNextPending, Remap, InputsDetermined, CheckPaused, Past

LEMMA ClaimKind ==
  ASSUME IInv, NEW p \in Proc, Schedule(p) \/ UseInputs(p)
  PROVE  Claims(p) \/ Uses(p)
<1>1. proc[p].pc \in {"schedule", "use"} /\ proc[p].pc \in Trying /\ groups' = groups
  BY DEF Schedule, UseInputs, At, Trying, Past
<1>2. Current(p) \in DOMAIN build /\ proc[p].inputs \in Nat
  BY Zenon, <1>1 DEF IInv, Typed, QueueInv, FirstBuild
<1>3. CASE Schedule(p)
  <2>1. build' \in Seq(Record) /\ Schedules(Current(p))
    BY Zenon, <1>2, <1>3, SchedulesRow DEF IInv, Schedule
  <2>2. Walks(p) /\ proc'[p].pc = "use"
    BY <1>1, <1>3, GotoWalks DEF IInv, Schedule, Past
  <2> QED BY <1>1, <1>3, <2>1, <2>2 DEF Claims, Schedule, At
<1>4. CASE UseInputs(p)
  <2>1. build' \in Seq(Record) /\ Records(Current(p), proc[p].inputs)
    BY Zenon, <1>2, <1>4, RecordsRow DEF IInv, UseInputs
  <2>2. Walks(p) /\ proc'[p].pc = "create" /\ proc'[p].inputs = proc[p].inputs
    BY <1>1, <1>4, GotoWalks DEF IInv, UseInputs, Past
  <2> QED BY <1>1, <1>4, <2>1, <2>2 DEF Uses, UseInputs, At
<1> QED BY <1>3, <1>4

LEMMA ConcludeKind ==
  ASSUME IInv, NEW p \in Proc, PlanFails(p) \/ CreateBuild(p) \/ CreateBuildFails(p)
  PROVE  Concludes(p)
<1>1. proc[p].pc = "create" /\ proc[p].pc \in Trying /\ groups' = groups /\ ~At(p, "idle")
  BY DEF PlanFails, CreateBuild, CreateBuildFails, At, Trying, Past
<1>2. Current(p) \in DOMAIN build
  BY Zenon, <1>1 DEF IInv, Typed, QueueInv, FirstBuild
<1>3. CASE PlanFails(p)
  <2>1. build' \in Seq(Record) /\ Ends(Current(p))
    BY Zenon, <1>2, <1>3, EndsRow DEF IInv, PlanFails
  <2>2. Drops(p)
    BY <1>1, <1>3, NotStartedMoves DEF IInv, PlanFails, Drops
  <2> QED BY <1>1, <2>1, <2>2 DEF Concludes
<1>4. CASE CreateBuildFails(p)
  <2>1. build' = build \/ (build' \in Seq(Record) /\ Starts(Current(p), proc[p].inputs))
    BY <1>2, <1>4, StartEffect DEF IInv, CreateBuildFails
  <2>2. Drops(p)
    BY <1>1, <1>4, NotStartedMoves DEF IInv, CreateBuildFails, Drops
  <2> QED BY <1>1, <2>1, <2>2 DEF Concludes
<1>5. CASE CreateBuild(p)
  <2>1. build' = build \/ (build' \in Seq(Record) /\ Starts(Current(p), proc[p].inputs))
    BY <1>2, <1>5, StartEffect DEF IInv, CreateBuild
  <2>2. Idles(p) \/ (GoesOn(p) /\ proc'[p].queue = proc[p].queue \ {Current(p)})
    BY <1>1, <1>5, StartedMoves DEF IInv, CreateBuild
  <2>3. build'[Current(p)].status # "pending"
    <3>1. CASE build[Current(p)].status # "pending"
      BY <1>5, <3>1 DEF CreateBuild, StartBuild
    <3>2. CASE build[Current(p)].status = "pending"
      <4>1. build' = [build EXCEPT ![Current(p)].status = "started", ![Current(p)].plan = proc[p].inputs]
        BY <1>5, <3>2 DEF CreateBuild, StartBuild
      <4>2. proc[p].inputs \in Nat
        BY DEF IInv, Typed
      <4>3. Starts(Current(p), proc[p].inputs)
        BY Zenon, <1>2, <3>2, <4>1, <4>2, StartsRow DEF IInv
      <4> QED BY <4>3 DEF Starts
    <3> QED BY <3>1, <3>2
  <2> QED BY <1>1, <2>1, <2>2, <2>3 DEF Concludes
<1> QED BY <1>3, <1>4, <1>5

LEMMA FaultKind ==
  ASSUME IInv, NEW p \in Proc, Fault(p)
  PROVE  Breaks(p)
BY ReturnIdles DEF IInv, Fault, Breaks

(* Every step is of one of these kinds.                                    *)
LEMMA EveryKind ==
  ASSUME IInv, Next
  PROVE  Quiet \/ \E p \in Proc : Kinds(p)
<1>1. CASE \E r \in Runner : Tick(r) \/ LoadVersions(r) \/ LoadJobs(r) \/ MapInputs(r)
  BY <1>1, TickKind, LoadKind, MapKind DEF Proc, Kinds
<1>2. CASE \/ \E r \in Runner : EnsurePendingBuildExists(r)
           \/ \E t \in Trigger : \E j \in Job : TriggerImmediately(t, j)
  BY <1>2, CreatingKind DEF Kinds
<1>3. CASE \/ \E r \in Runner : GetAllPendingBuilds(r)
           \/ \E t \in Trigger : GetPendingBuilds(t)
  BY <1>3, FillKind DEF Kinds
<1>4. CASE \E p \in Proc : StarterStep(p)
  BY <1>4, CountKind, CheckKind, ClaimKind, ConcludeKind DEF StarterStep, Kinds
<1>5. CASE \E p \in Proc : PlanFails(p) \/ CreateBuildFails(p) \/ Fault(p)
  BY <1>5, ConcludeKind, FaultKind DEF Kinds
<1>6. CASE \/ \E b \in DOMAIN build : FinishBuild(b) \/ AbortBuild(b)
           \/ FindVersion \/ PausePipeline \/ \E j \in Job : PauseJob(j)
  BY <1>6, OutsideKind
<1> QED BY <1>1, <1>2, <1>3, <1>4, <1>5, <1>6 DEF Next, RunnerStep

-----------------------------------------------------------------------------
(* The invariant, kind by kind.                                            *)
GroupsAge == DOMAIN groups' = Job /\ \A j \in Job : groups'[j] \in {groups[j], SerialGroups[j]}

LEMMA KindsAge ==
  ASSUME IInv, Quiet \/ \E p \in Proc : Kinds(p)
  PROVE  /\ BuildAges /\ GroupsAge
         /\ (proc' = proc /\ lock' = lock) \/ \E p \in Proc : Moves(p)
<1>1. GroupsAge
  BY Zenon DEF IInv, Typed, GroupsAge, Quiet, Kinds, Setup, Fills, Counts, Checks, Claims, Uses, Concludes, Breaks
<1>2. (proc' = proc /\ lock' = lock) \/ \E p \in Proc : Moves(p)
  BY DEF Moves, Quiet, Kinds, Setup, Fills, Drops, Counts, Checks, Claims, Uses, Concludes, Breaks
<1>3. \/ build' = build
      \/ \E b : build' \in Seq(Record) /\ Ends(b)
      \/ \E b, v : build' \in Seq(Record) /\ Starts(b, v)
      \/ \E b : build' \in Seq(Record) /\ Schedules(b)
      \/ \E b, v : build' \in Seq(Record) /\ Records(b, v)
      \/ \E n, j, manual : build' \in Seq(Record) /\ Creates(n, j, manual)
  BY DEF Quiet, Kinds, Setup, Fills, Counts, Checks, Claims, Uses, Concludes, Breaks
<1>4. BuildAges
  BY Zenon, <1>3, SameAges, UpdateAges, CreateAges DEF IInv
<1> QED BY <1>1, <1>2, <1>4

LEMMA TablesTyped ==
  ASSUME IInv, Next
  PROVE  versions' \in Nat /\ version' \in {0, versions'} /\ mapping' \in [Job -> Nat]
<1>1. versions \in Nat /\ version \in {0, versions} /\ mapping \in [Job -> Nat]
  BY DEF IInv, Typed
<1>2. (versions' = versions /\ version' = version) \/ (versions' = versions + 1 /\ version' \in {0, versions + 1})
  BY Zenon DEF Next, Tick, RunnerStep, LoadVersions, LoadJobs, MapInputs, EnsurePendingBuildExists,
         GetAllPendingBuilds, GetPendingBuilds, TriggerImmediately, StarterStep, CountRunning,
         IsNextPending, Scan, Remap, InputsDetermined, GetNextBuildInputs, CheckPaused, Schedule,
         UseInputs, CreateBuild, PlanFails, CreateBuildFails, Fault, FinishBuild, AbortBuild,
         FindVersion, PauseJob, PausePipeline, outside
<1>3. \/ mapping' = mapping
      \/ \E r \in Runner : MapInputs(r)
      \/ \E p \in Proc : Remap(p)
  BY Zenon DEF Next, Tick, RunnerStep, LoadVersions, LoadJobs, EnsurePendingBuildExists,
         GetAllPendingBuilds, GetPendingBuilds, TriggerImmediately, StarterStep, CountRunning,
         IsNextPending, Scan, InputsDetermined, GetNextBuildInputs, CheckPaused, Schedule,
         UseInputs, CreateBuild, PlanFails, CreateBuildFails, Fault, FinishBuild, AbortBuild,
         FindVersion, PauseJob, PausePipeline
<1>4. mapping' \in [Job -> Nat]
  <2>1. CASE \E r \in Runner : MapInputs(r)
    <3>1. PICK r \in Runner : \E j \in proc[r].todo : mapping' = [mapping EXCEPT ![j] = proc[r].latest]
      BY Zenon, <2>1 DEF MapInputs
    <3>2. proc[r].latest \in Nat
      BY DEF IInv, Typed, Proc
    <3> QED BY Zenon, <1>1, <3>1, <3>2
  <2>2. CASE \E p \in Proc : Remap(p)
    <3>1. PICK p \in Proc : mapping' = [mapping EXCEPT ![JobOf(p)] = proc[p].latest]
      BY Zenon, <2>2 DEF Remap
    <3>2. proc[p].latest \in Nat
      BY DEF IInv, Typed
    <3> QED BY Zenon, <1>1, <3>1, <3>2
  <2> QED BY <1>1, <1>3, <2>1, <2>2
<1> QED BY <1>1, <1>2, <1>4

LEMMA TypedKept ==
  ASSUME IInv, BuildAges, GroupsAge, (proc' = proc /\ lock' = lock) \/ \E p \in Proc : Moves(p),
         versions' \in Nat, version' \in {0, versions'}, mapping' \in [Job -> Nat]
  PROVE  Typed'
<1>1. DOMAIN groups' = Job /\ \A j \in Job : groups'[j] \in {{}, SerialGroups[j]}
  BY DEF IInv, Typed, GroupsAge
<1>2. /\ DOMAIN proc = Proc
      /\ \A p \in Proc : /\ DOMAIN proc[p] = Fields
                         /\ proc[p].queue \subseteq DOMAIN build /\ proc[p].todo \subseteq Job
                         /\ proc[p].latest \in Nat /\ proc[p].inputs \in Nat
  BY DEF IInv, Typed
<1>3. build' \in Seq(Record) /\ DOMAIN build \subseteq DOMAIN build'
  BY DEF BuildAges
<1>4. CASE proc' = proc
  BY <1>1, <1>2, <1>3, <1>4 DEF Typed
<1>5. ASSUME NEW p \in Proc, Moves(p)
      PROVE  Typed'
  <2>1. /\ DOMAIN proc' = Proc /\ DOMAIN proc'[p] = Fields
        /\ \A q \in Proc : q # p => proc'[q] = proc[q]
    BY <1>5 DEF Moves, Idles, Walks, GoesOn, Prepares, Alone
  <2>2. /\ proc'[p].queue \subseteq DOMAIN build /\ proc'[p].todo \subseteq Job
        /\ proc'[p].latest \in Nat /\ proc'[p].inputs \in Nat
    BY <1>2, <1>5, IdleFields DEF Moves, Idles, Walks, GoesOn, Prepares
  <2> QED BY Zenon, <1>1, <1>2, <1>3, <2>1, <2>2 DEF Typed
<1> QED BY <1>4, <1>5

LEMMA LockKept ==
  ASSUME IInv, (proc' = proc /\ lock' = lock) \/ \E p \in Proc : Moves(p)
  PROVE  LockInv'
<1>1. CASE proc' = proc /\ lock' = lock
  BY <1>1 DEF IInv, LockInv, At
<1>2. ASSUME NEW p \in Proc, Moves(p)
      PROVE  LockInv'
  <2>1. \A q \in Proc : q # p => proc'[q] = proc[q]
    BY <1>2 DEF Moves, Idles, Walks, GoesOn, Prepares, Alone
  <2>2. \A r \in Runner : proc[r].pc # "idle" => lock = r
    BY DEF IInv, LockInv, At
  <2>3. CASE Idles(p)
    BY <2>1, <2>2, <2>3, IdleFields DEF Idles, LockInv, At, Proc
  <2>4. CASE Walks(p) \/ GoesOn(p)
    BY <2>1, <2>2, <2>4 DEF Walks, GoesOn, LockInv, At, Proc, Trying, Past
  <2>5. CASE Prepares(p)
    BY <2>1, <2>2, <2>5, SchedulerAssumption DEF Prepares, LockInv, At, Proc
  <2> QED BY <1>2, <2>3, <2>4, <2>5 DEF Moves
<1> QED BY <1>1, <1>2

(* A queue stays closed, and its first build first, as the builds age.     *)
LEMMA QueueAges ==
  ASSUME IInv, BuildAges, NEW queue \in SUBSET DOMAIN build, NEW b, FirstBuild(b, queue), Closed(queue)
  PROVE  FirstBuild(b, queue)' /\ Closed(queue)'
<1>1. /\ DOMAIN build \subseteq Nat /\ DOMAIN build' \subseteq Nat
      /\ \A c \in DOMAIN build : build'[c].job = build[c].job
      /\ \A c \in DOMAIN build : build'[c].status = "pending" => build[c].status = "pending"
      /\ \A c \in DOMAIN build' \ DOMAIN build : \A d \in DOMAIN build : d < c
  BY DEF BuildAges
<1>2. FirstBuild(b, queue)'
  BY <1>1 DEF FirstBuild, FirstJob
<1>3. ASSUME NEW c \in queue, NEW d \in DOMAIN build', build'[d].job = build'[c].job, d < c,
             build'[d].status = "pending"
      PROVE  d \in queue
  <2>1. c \in DOMAIN build /\ c \in Nat /\ d \in Nat
    BY <1>1
  <2>2. d \in DOMAIN build
    BY <1>1, <1>3, <2>1
  <2> QED BY <1>1, <1>3, <2>1, <2>2 DEF Closed
<1> QED BY <1>2, <1>3 DEF Closed

LEMMA SameQueue ==
  ASSUME IInv, BuildAges, NEW q \in Proc, proc[q].pc \in Trying, proc'[q].pc \in Trying,
         proc'[q].queue = proc[q].queue, proc'[q].now = proc[q].now
  PROVE  (FirstBuild(Current(q), proc[q].queue) /\ Closed(proc[q].queue))'
<1>1. PICK b, queue : b = proc[q].now /\ queue = proc[q].queue
  OBVIOUS
<1>2. queue \in SUBSET DOMAIN build /\ FirstBuild(b, queue) /\ Closed(queue)
  BY <1>1 DEF IInv, Typed, QueueInv, Current
<1>3. FirstBuild(b, queue)' /\ Closed(queue)'
  BY <1>2, QueueAges
<1> QED BY <1>1, <1>3 DEF Current

(* A queue that the builds keep closed once this step is done.             *)
LEMMA NewQueue ==
  ASSUME IInv, BuildAges, NEW q \in Proc, GoesOn(q),
         \A c \in proc'[q].queue : \A d \in DOMAIN build :
           (build[d].job = build[c].job /\ d < c /\ build[d].status = "pending" /\ build'[d].status = "pending")
             => d \in proc'[q].queue
  PROVE  (FirstBuild(Current(q), proc[q].queue) /\ Closed(proc[q].queue))'
<1>1. PICK b, queue : b = proc'[q].now /\ queue = proc'[q].queue
  OBVIOUS
<1>2. queue \in SUBSET DOMAIN build /\ FirstBuild(b, queue)
  BY <1>1 DEF GoesOn
<1>3. \A c \in queue : \A d \in DOMAIN build :
        (build[d].job = build[c].job /\ d < c /\ build[d].status = "pending" /\ build'[d].status = "pending") => d \in queue
  BY <1>1
<1>4. /\ DOMAIN build \subseteq Nat /\ DOMAIN build' \subseteq Nat
      /\ \A c \in DOMAIN build : build'[c].job = build[c].job
      /\ \A c \in DOMAIN build : build'[c].status = "pending" => build[c].status = "pending"
      /\ \A c \in DOMAIN build' \ DOMAIN build : \A d \in DOMAIN build : d < c
  BY DEF BuildAges
<1>5. FirstBuild(b, queue)'
  BY <1>2, <1>4 DEF FirstBuild, FirstJob
<1>6. ASSUME NEW c \in queue, NEW d \in DOMAIN build', build'[d].job = build'[c].job, d < c,
             build'[d].status = "pending"
      PROVE  d \in queue
  <2>1. c \in DOMAIN build /\ c \in Nat /\ d \in Nat
    BY <1>2, <1>4
  <2>2. d \in DOMAIN build
    BY <1>4, <1>6, <2>1
  <2> QED BY <1>3, <1>4, <1>6, <2>1, <2>2
<1>7. Closed(queue)'
  BY <1>6 DEF Closed
<1> QED BY <1>1, <1>5, <1>7 DEF Current

LEMMA QueueKept ==
  ASSUME IInv, BuildAges, Quiet \/ \E p \in Proc : Kinds(p)
  PROVE  QueueInv'
<1>1. ASSUME NEW q \in Proc, proc'[q].pc \in Trying, proc'[q] = proc[q]
      PROVE  (FirstBuild(Current(q), proc[q].queue) /\ Closed(proc[q].queue))'
  BY <1>1, SameQueue
<1>2. CASE Quiet
  BY <1>1, <1>2 DEF Quiet, QueueInv
<1>3. ASSUME NEW p \in Proc, Kinds(p)
      PROVE  QueueInv'
  <2>1. \A q \in Proc : q # p => proc'[q] = proc[q]
    BY Zenon, <1>3 DEF Kinds, Setup, Fills, Drops, Counts, Checks, Claims, Uses, Concludes, Breaks,
                Idles, Walks, GoesOn, Prepares, Alone
  <2>2. ASSUME proc'[p].pc \in Trying
        PROVE  (FirstBuild(Current(p), proc[p].queue) /\ Closed(proc[p].queue))'
    <3>1. CASE Idles(p) \/ Prepares(p)
      BY <2>2, <3>1, IdleFields DEF Idles, Prepares, Trying, Past
    <3>2. CASE Walks(p)
      BY <2>2, <3>2, SameQueue DEF Walks
    <3>3. CASE Fills(p) /\ GoesOn(p)
      <4>1. CASE Idles(p)
        BY <3>1, <4>1
      <4>2. CASE Closed(proc'[p].queue)
        BY <3>3, <4>2, NewQueue DEF Closed
      <4> QED BY <3>3, <4>1, <4>2 DEF Fills
    <3>4. CASE /\ GoesOn(p) /\ proc[p].pc \in Trying
               /\ proc'[p].queue = {b \in proc[p].queue : build[b].job # JobOf(p)}
      <4>1. Closed(proc[p].queue)
        BY <3>4 DEF IInv, QueueInv
      <4>2. \A c \in proc'[p].queue : \A d \in DOMAIN build :
              (build[d].job = build[c].job /\ d < c /\ build[d].status = "pending") => d \in proc'[p].queue
        BY <3>4, <4>1 DEF Closed
      <4> QED BY Zenon, <3>4, <4>2, NewQueue
    <3>5. CASE /\ GoesOn(p) /\ proc[p].pc \in Trying /\ build'[Current(p)].status # "pending"
               /\ proc'[p].queue = proc[p].queue \ {Current(p)}
      <4>1. Closed(proc[p].queue)
        BY <3>5 DEF IInv, QueueInv
      <4>2. \A c \in proc'[p].queue : \A d \in DOMAIN build :
              (build[d].job = build[c].job /\ d < c /\ build[d].status = "pending" /\ build'[d].status = "pending")
                => d \in proc'[p].queue
        BY <3>5, <4>1 DEF Closed
      <4> QED BY Zenon, <3>5, <4>2, NewQueue
    <3> QED BY Zenon, <1>3, <3>1, <3>2, <3>3, <3>4, <3>5
            DEF Kinds, Setup, Fills, Drops, Counts, Checks, Claims, Uses, Concludes, Breaks, Trying, Past
  <2> QED BY <1>1, <2>1, <2>2 DEF QueueInv
<1> QED BY <1>2, <1>3

(* Where the build that is tried is, and its job.                          *)
LEMMA Tried ==
  ASSUME IInv, NEW p \in Proc, proc[p].pc \in Trying
  PROVE  /\ Current(p) \in proc[p].queue /\ Current(p) \in DOMAIN build
         /\ JobOf(p) \in Job /\ JobOf(p) = build[Current(p)].job
<1>1. Current(p) \in proc[p].queue /\ Current(p) \in DOMAIN build
  BY Zenon DEF IInv, QueueInv, FirstBuild, Typed
<1> QED BY <1>1, BuildIsSeq, RecordFields DEF IInv, JobOf

LEMMA ScheduledBuilds ==
  ASSUME IInv, BuildAges, GroupsAge, Quiet \/ \E p \in Proc : Kinds(p)
  PROVE  \A b \in DOMAIN build' :
           /\ build'[b].status = "started" => build'[b].scheduled
           /\ build'[b].scheduled => groups'[build'[b].job] = SerialGroups[build'[b].job]
<1>1. \A b \in DOMAIN build :
        /\ build[b].status = "started" => build[b].scheduled
        /\ build[b].scheduled => groups'[build[b].job] = SerialGroups[build[b].job]
        /\ build'[b].job = build[b].job
  <2>1. \A b \in DOMAIN build : build[b].job \in Job
    BY BuildIsSeq, RecordFields DEF IInv
  <2> QED BY <2>1 DEF IInv, ScheduledInv, GroupsAge, BuildAges
<1>2. CASE build' = build
  BY <1>1, <1>2
<1>3. ASSUME NEW b, Ends(b) \/ (\E v : Records(b, v))
      PROVE  \A c \in DOMAIN build' :
               /\ build'[c].status = "started" => build'[c].scheduled
               /\ build'[c].scheduled => groups'[build'[c].job] = SerialGroups[build'[c].job]
  BY <1>1, <1>3 DEF Ends, Records, Only
<1>4. ASSUME NEW n, NEW j, NEW manual, Creates(n, j, manual)
      PROVE  \A c \in DOMAIN build' :
               /\ build'[c].status = "started" => build'[c].scheduled
               /\ build'[c].scheduled => groups'[build'[c].job] = SerialGroups[build'[c].job]
  <2>1. \A c \in DOMAIN build' : c \in DOMAIN build \/ c = n + 1
    BY <1>4 DEF Creates
  <2>2. /\ \A c \in DOMAIN build : build'[c] = build[c]
        /\ build'[n + 1].status = "pending" /\ build'[n + 1].scheduled = FALSE
    BY <1>4 DEF Creates
  <2> QED BY <1>1, <2>1, <2>2
<1>5. ASSUME NEW p \in Proc, Claims(p) \/ (proc[p].pc = "create" /\ \E v : Starts(Current(p), v))
      PROVE  \A c \in DOMAIN build' :
               /\ build'[c].status = "started" => build'[c].scheduled
               /\ build'[c].scheduled => groups'[build'[c].job] = SerialGroups[build'[c].job]
  <2>1. proc[p].pc \in Past /\ proc[p].pc \in Trying
    BY <1>5 DEF Claims, Past, Trying
  <2>2. groups'[JobOf(p)] = SerialGroups[JobOf(p)]
    BY <2>1, Tried DEF IInv, ScheduledInv, GroupsAge
  <2>3. JobOf(p) = build[Current(p)].job
    BY <2>1, Tried
  <2>4. proc[p].pc = "create" => build[Current(p)].scheduled
    BY DEF IInv, ScheduledInv
  <2>5. PICK b : b = Current(p)
    OBVIOUS
  <2>6. /\ DOMAIN build' = DOMAIN build
        /\ \A c \in DOMAIN build : c # b => build'[c] = build[c]
        /\ build'[b].job = build[b].job /\ build'[b].scheduled
    BY <1>5, <2>4, <2>5 DEF Claims, Schedules, Starts, Only
  <2>7. groups'[build'[b].job] = SerialGroups[build'[b].job]
    BY <2>2, <2>3, <2>5, <2>6
  <2> QED BY <1>1, <2>6, <2>7
<1> QED BY Zenon, <1>2, <1>3, <1>4, <1>5
        DEF Quiet, Kinds, Setup, Fills, Counts, Checks, Uses, Concludes, Breaks

LEMMA ScheduledKept ==
  ASSUME IInv, BuildAges, GroupsAge, Quiet \/ \E p \in Proc : Kinds(p)
  PROVE  ScheduledInv'
<1>1. ASSUME NEW q \in Proc, proc[q].pc \in Past, proc'[q].now = proc[q].now
      PROVE  groups'[JobOf(q)'] = SerialGroups[JobOf(q)']
  <2>1. proc[q].pc \in Trying
    BY <1>1 DEF Trying
  <2>2. JobOf(q)' = JobOf(q)
    BY <1>1, <2>1, Tried DEF BuildAges, JobOf, Current
  <2> QED BY <1>1, <2>1, <2>2, Tried DEF IInv, ScheduledInv, GroupsAge
<1>2. ASSUME NEW q \in Proc, proc[q].pc \in {"use", "create"}, proc'[q].now = proc[q].now
      PROVE  build'[Current(q)'].scheduled
  <2>1. proc[q].pc \in Trying
    BY <1>2 DEF Trying, Past
  <2> QED BY <1>2, <2>1, Tried DEF IInv, ScheduledInv, BuildAges, Current
<1>3. CASE Quiet
  BY Zenon, <1>1, <1>2, <1>3, ScheduledBuilds DEF Quiet, ScheduledInv
<1>4. ASSUME NEW p \in Proc, Kinds(p)
      PROVE  ScheduledInv'
  <2>1. \A q \in Proc : q # p => proc'[q] = proc[q]
    BY Zenon, <1>4 DEF Kinds, Setup, Fills, Drops, Counts, Checks, Claims, Uses, Concludes, Breaks,
                Idles, Walks, GoesOn, Prepares, Alone
  <2>2. ASSUME proc'[p].pc \in Past
        PROVE  groups'[JobOf(p)'] = SerialGroups[JobOf(p)']
    <3>1. Walks(p)
      BY Zenon, <1>4, <2>2, IdleFields DEF Kinds, Setup, Fills, Drops, Counts, Checks, Claims, Uses, Concludes, Breaks,
                Idles, GoesOn, Prepares, Past, Trying
    <3>2. CASE proc[p].pc \in Past
      BY <1>1, <3>1, <3>2 DEF Walks
    <3>3. CASE proc[p].pc = "running"
      <4>1. groups'[JobOf(p)] = SerialGroups[JobOf(p)] /\ build' = build
        BY Zenon, <1>4, <2>2, <3>1, <3>3, IdleFields DEF Kinds, Setup, Fills, Drops, Counts, Checks, Claims, Uses, Concludes, Breaks,
                Idles, GoesOn, Prepares, Past, Trying
      <4> QED BY <3>1, <4>1 DEF Walks, JobOf, Current
    <3> QED BY <3>1, <3>2, <3>3 DEF Walks, Trying
  <2>3. ASSUME proc'[p].pc \in {"use", "create"}
        PROVE  build'[Current(p)'].scheduled
    <3>1. CASE Claims(p)
      BY Zenon, <3>1 DEF Claims, Walks, Schedules, Current
    <3>2. CASE Uses(p)
      BY <1>2, <3>2 DEF Uses, Walks
    <3>3. CASE Idles(p) \/ GoesOn(p) \/ Prepares(p)
      BY <2>3, <3>3, IdleFields DEF Idles, GoesOn, Prepares, Past, Trying
    <3> QED BY Zenon, <1>4, <2>3, <3>1, <3>2, <3>3 DEF Kinds, Setup, Fills, Drops, Counts, Checks, Concludes, Breaks
  <2> QED BY <1>1, <1>2, <2>1, <2>2, <2>3, ScheduledBuilds DEF ScheduledInv
<1> QED BY <1>3, <1>4

LEMMA InitIInv ==
  ASSUME Init
  PROVE  IInv
<1>1. /\ build = <<>> /\ DOMAIN build = {} /\ build \in Seq(Record)
  BY EmptySeq DEF Init
<1>2. DOMAIN proc = Proc /\ \A p \in Proc : proc[p] = Idle
  BY DEF Init
<1>3. Typed
  <2>1. versions = 1 /\ version = 1 /\ mapping \in [Job -> Nat] /\ DOMAIN groups = Job
    BY DEF Init
  <2>2. \A j \in Job : groups[j] = {}
    BY DEF Init
  <2> QED BY <1>1, <1>2, <2>1, <2>2, IdleFields DEF Typed
<1>4. LockInv
  BY <1>2, IdleFields DEF LockInv, At, Proc
<1>5. QueueInv
  BY <1>2, IdleFields DEF QueueInv, Trying, Past
<1>6. ScheduledInv
  BY <1>1, <1>2, IdleFields DEF ScheduledInv, Past
<1> QED BY <1>3, <1>4, <1>5, <1>6 DEF IInv

LEMMA StepIInv ==
  ASSUME IInv, [Next]_vars
  PROVE  IInv'
<1>1. CASE Next
  <2>1. Quiet \/ \E p \in Proc : Kinds(p)
    BY <1>1, EveryKind
  <2>2. /\ BuildAges /\ GroupsAge
        /\ (proc' = proc /\ lock' = lock) \/ \E p \in Proc : Moves(p)
    BY <2>1, KindsAge
  <2>3. versions' \in Nat /\ version' \in {0, versions'} /\ mapping' \in [Job -> Nat]
    BY <1>1, TablesTyped
  <2>4. Typed'
    BY <2>2, <2>3, TypedKept
  <2>5. LockInv'
    BY <2>2, LockKept
  <2>6. QueueInv'
    BY <2>1, <2>2, QueueKept
  <2>7. ScheduledInv'
    BY <2>1, <2>2, ScheduledKept
  <2> QED BY <2>4, <2>5, <2>6, <2>7 DEF IInv
<1>2. CASE vars' = vars
  <2> USE DEF IInv
  <2>0. build' = build /\ groups' = groups /\ lock' = lock /\ proc' = proc
    BY <1>2 DEF vars
  <2>1. Typed'
    BY <1>2 DEF vars, Typed
  <2>2. LockInv'
    BY <2>0 DEF LockInv, At
  <2>3. QueueInv'
    <3>1. \A p \in Proc : Current(p)' = Current(p)
      BY <2>0 DEF Current
    <3>2. \A p \in Proc : Closed(proc[p].queue) => Closed(proc[p].queue)'
      BY <2>0 DEF Closed
    <3> QED BY <2>0, <3>1, <3>2 DEF QueueInv, FirstBuild
  <2>4. ScheduledInv'
    <3>1. \A p \in Proc : Current(p)' = Current(p) /\ JobOf(p)' = JobOf(p)
      BY <2>0 DEF Current, JobOf
    <3> QED BY <2>0, <3>1 DEF ScheduledInv
  <2> QED BY <2>1, <2>2, <2>3, <2>4 DEF IInv
<1> QED BY <1>1, <1>2

(* A build becomes started in one way: somebody tried it, as the first of  *)
(* its queue, to the end.                                                  *)
LEMMA StartedByConclusion ==
  ASSUME IInv, [Next]_vars, NEW b \in DOMAIN build, build[b].status # "started", build'[b].status = "started"
  PROVE  /\ Next /\ build[b].status = "pending"
         /\ \E p \in Proc : proc[p].pc = "create" /\ b = Current(p) /\ Starts(b, proc[p].inputs)
<1>1. Next
  BY DEF vars
<1>2. Quiet \/ \E p \in Proc : Kinds(p)
  BY <1>1, EveryKind
<1>3. CASE build' = build
  BY <1>3
<1>4. CASE \/ \E c : Ends(c)
           \/ \E c : Schedules(c)
           \/ \E c, v : Records(c, v)
           \/ \E n, j, manual : Creates(n, j, manual)
  BY <1>4 DEF Ends, Schedules, Records, Creates, Only
<1>5. CASE \E p \in Proc : proc[p].pc = "create" /\ Starts(Current(p), proc[p].inputs)
  <2>1. PICK p \in Proc : proc[p].pc = "create" /\ Starts(Current(p), proc[p].inputs)
    BY <1>5
  <2>2. b = Current(p)
    BY <2>1 DEF Starts, Only
  <2> QED BY <1>1, <2>1, <2>2 DEF Starts
<1> QED BY Zenon, <1>2, <1>3, <1>4, <1>5
        DEF Quiet, Kinds, Setup, Fills, Counts, Checks, Claims, Uses, Concludes, Breaks

(* Whatever runners and triggers do at the same time, the builds of a job  *)
(* are started in the order they were created: tryStartNextPendingBuild    *)
(* works through a queue that holds every older pending build of the job.  *)
THEOREM StartsInOrder == Spec => StartedInOrder
<1>1. ASSUME IInv, [Next]_vars, NEW b \in DOMAIN build,
             build[b].status = "pending", build'[b].status = "started"
      PROVE  \A c \in 1..(b - 1) : build[c].job = build[b].job => build[c].status # "pending"
  <2>1. PICK p \in Proc : proc[p].pc = "create" /\ b = Current(p)
    BY <1>1, StartedByConclusion
  <2>2. proc[p].pc \in Trying
    BY <2>1 DEF Trying, Past
  <2>3. /\ b \in proc[p].queue /\ Closed(proc[p].queue)
        /\ \A c \in proc[p].queue : build[c].job = build[b].job => b <= c
    BY Zenon, <1>1, <2>1, <2>2 DEF IInv, QueueInv, FirstBuild
  <2>4. b \in 1..Len(build) /\ DOMAIN build = 1..Len(build) /\ Len(build) \in Nat
    BY <1>1, LenProperties DEF IInv, Typed
  <2> SUFFICES ASSUME NEW c \in 1..(b - 1), build[c].job = build[b].job, build[c].status = "pending"
               PROVE  FALSE
    OBVIOUS
  <2>5. c \in DOMAIN build /\ c < b /\ ~(b <= c)
    BY <2>4
  <2>6. c \in proc[p].queue
    BY <2>3, <2>5 DEF Closed
  <2> QED BY <2>3, <2>5, <2>6
<1>2. IInv /\ [Next]_vars =>
        [\A b \in DOMAIN build :
           (build[b].status = "pending" /\ build'[b].status = "started") =>
             \A c \in 1..(b - 1) : build[c].job = build[b].job => build[c].status # "pending"]_vars
  BY <1>1
<1>3. Init => IInv
  BY InitIInv
<1>4. IInv /\ [Next]_vars => IInv'
  BY StepIInv
<1> QED BY <1>2, <1>3, <1>4, PTL DEF Spec, StartedInOrder

-----------------------------------------------------------------------------
(* Without triggers, who is not idle has the lock, and is alone.           *)
LEMMA Solo ==
  ASSUME IInv, Trigger = {}, NEW p \in Proc, NEW q \in Proc, ~At(p, "idle"), ~At(q, "idle")
  PROVE  p = q
BY DEF IInv, LockInv, Proc

(* The plans and the recorded inputs after each kind of step.              *)
LEMMA InputsOfBuilds ==
  ASSUME IInv, InputsInv, Quiet \/ \E p \in Proc : Kinds(p)
  PROVE  InputsBuilds'
<1>1. CASE build' = build
  BY Zenon, <1>1 DEF InputsInv, InputsBuilds
<1>2. CASE \E b : Ends(b) \/ Schedules(b)
  BY <1>2 DEF InputsInv, InputsBuilds, Ends, Schedules, Only
<1>3. CASE \E n, j, manual : Creates(n, j, manual)
  <2>1. PICK n, j, manual : Creates(n, j, manual)
    BY <1>3
  <2>2. \A c \in DOMAIN build' : c \in DOMAIN build \/ c = n + 1
    BY <2>1 DEF Creates
  <2>3. /\ \A c \in DOMAIN build : build'[c] = build[c]
        /\ build'[n + 1].status = "pending" /\ build'[n + 1].plan = 0
    BY <2>1 DEF Creates
  <2> QED BY <2>2, <2>3 DEF InputsInv, InputsBuilds
<1>4. ASSUME NEW p \in Proc, Uses(p)
      PROVE  InputsBuilds'
  <2>1. proc[p].pc \in Trying /\ Records(Current(p), proc[p].inputs)
    BY <1>4 DEF Uses, Trying, Past
  <2>2. build[Current(p)].status # "started" /\ build[Current(p)].plan = 0
    BY <2>1, Tried DEF InputsInv
  <2> QED BY <2>1, <2>2 DEF InputsInv, InputsBuilds, Records, Only
<1>5. ASSUME NEW p \in Proc, proc[p].pc = "create", Starts(Current(p), proc[p].inputs)
      PROVE  InputsBuilds'
  <2>1. build[Current(p)].inputs = proc[p].inputs
    BY <1>5 DEF InputsInv
  <2> QED BY <1>5, <2>1 DEF InputsInv, InputsBuilds, Starts, Only
<1> QED BY Zenon, <1>1, <1>2, <1>3, <1>4, <1>5
        DEF Quiet, Kinds, Setup, Fills, Counts, Checks, Claims, Concludes, Breaks

(* The queue of somebody who did not take the step, ...                    *)
LEMMA InputsOfOthers ==
  ASSUME IInv, Trigger = {}, InputsInv, NEW q \in Proc, proc'[q] = proc[q], proc[q].pc \in Trying,
         Quiet \/ \E p \in Proc : p # q /\ Kinds(p)
  PROVE  /\ \A b \in proc'[q].queue : build'[b].status # "started" /\ build'[b].plan = 0
         /\ proc'[q].pc = "create" => build'[Current(q)].inputs = proc'[q].inputs
<1>1. /\ \A b \in proc[q].queue : build[b].status # "started" /\ build[b].plan = 0
      /\ proc[q].pc = "create" => build[Current(q)].inputs = proc[q].inputs
  BY DEF InputsInv
<1>2. proc[q].queue \subseteq DOMAIN build /\ Current(q) \in DOMAIN build
  BY Tried DEF IInv, Typed
<1>3. CASE build' = build
  BY <1>1, <1>3
<1>4. CASE \E b : Ends(b)
  BY <1>1, <1>2, <1>4 DEF Ends, Only
<1>5. CASE \E n, j, manual : Creates(n, j, manual)
  <2>1. \A c \in DOMAIN build : build'[c] = build[c]
    BY <1>5 DEF Creates
  <2> QED BY <1>1, <1>2, <2>1
<1>6. ASSUME NEW p \in Proc, p # q, proc[p].pc \in Trying
      PROVE  FALSE
  BY <1>6, Solo DEF At, Trying, Past
<1> QED BY Zenon, <1>3, <1>4, <1>5, <1>6
        DEF Quiet, Kinds, Setup, Fills, Counts, Checks, Claims, Uses, Concludes, Breaks, Trying, Past

(* ...and of who did.                                                      *)
LEMMA InputsOfMover ==
  ASSUME IInv, InputsInv, InputsBuilds, NEW p \in Proc, Kinds(p), proc'[p].pc \in Trying
  PROVE  /\ \A b \in proc'[p].queue : build'[b].status # "started" /\ build'[b].plan = 0
         /\ proc'[p].pc = "create" => build'[proc'[p].now].inputs = proc'[p].inputs
<1>1. ~Idles(p) /\ ~Prepares(p)
  BY Zenon, IdleFields DEF Idles, Prepares, Trying, Past
<1>2. CASE Fills(p)
  <2>1. GoesOn(p) /\ proc'[p].queue \subseteq AllPendingBuilds /\ build' = build
    BY <1>1, <1>2 DEF Fills
  <2> QED BY <2>1 DEF GoesOn, AllPendingBuilds, InputsBuilds
<1>3. ASSUME proc[p].pc \in Trying
      PROVE  /\ \A b \in proc[p].queue : build[b].status # "started" /\ build[b].plan = 0
             /\ proc[p].queue \subseteq DOMAIN build /\ Current(p) \in proc[p].queue
             /\ Current(p) \in DOMAIN build /\ JobOf(p) = build[Current(p)].job
  BY <1>3, Tried DEF InputsInv, IInv, Typed
<1>4. CASE Counts(p) \/ Checks(p)
  <2>1. proc[p].pc \in Trying /\ build' = build
    BY <1>4 DEF Counts, Checks, Trying
  <2>2. proc'[p].queue \subseteq proc[p].queue /\ proc'[p].pc # "create"
    BY Zenon, <1>1, <1>4 DEF Counts, Checks, Drops, Walks, GoesOn
  <2> QED BY <1>3, <2>1, <2>2
<1>5. CASE Claims(p)
  <2>1. /\ proc[p].pc \in Trying /\ Schedules(Current(p)) /\ proc'[p].queue = proc[p].queue
        /\ proc'[p].pc # "create"
    BY <1>5 DEF Claims, Trying, Past, Walks
  <2> QED BY <1>3, <2>1 DEF Schedules, Only
<1>6. CASE Uses(p)
  <2>1. /\ proc[p].pc \in Trying /\ Records(Current(p), proc[p].inputs) /\ proc'[p].queue = proc[p].queue
        /\ proc'[p].now = Current(p) /\ proc'[p].inputs = proc[p].inputs
    BY <1>6 DEF Uses, Trying, Past, Walks, Current
  <2> QED BY <1>3, <2>1 DEF Records, Only
<1>7. CASE Concludes(p)
  <2>1. proc[p].pc \in Trying /\ GoesOn(p) /\ proc'[p].pc # "create"
    BY Zenon, <1>1, <1>7 DEF Concludes, Drops, Trying, Past, GoesOn
  <2>2. proc'[p].queue \subseteq proc[p].queue /\ Current(p) \notin proc'[p].queue
    BY Zenon, <1>1, <1>3, <1>7, <2>1 DEF Concludes, Drops
  <2>3. \A c \in DOMAIN build : c # Current(p) => build'[c] = build[c]
    BY Zenon, <1>7 DEF Concludes, Starts, Ends, Only
  <2> QED BY <1>3, <2>1, <2>2, <2>3
<1> QED BY Zenon, <1>1, <1>2, <1>4, <1>5, <1>6, <1>7 DEF Kinds, Setup, Breaks

LEMMA StepInputsInv ==
  ASSUME IInv, Trigger = {}, InputsInv, [Next]_vars
  PROVE  InputsInv'
<1>1. CASE vars' = vars
  BY <1>1 DEF vars, InputsInv, InputsBuilds, Current
<1>2. CASE Next
  <2>1. Quiet \/ \E p \in Proc : Kinds(p)
    BY <1>2, EveryKind
  <2>2. InputsBuilds'
    BY <2>1, InputsOfBuilds
  <2>3. ASSUME NEW q \in Proc, proc'[q].pc \in Trying
        PROVE  /\ \A b \in proc'[q].queue : build'[b].status # "started" /\ build'[b].plan = 0
               /\ proc'[q].pc = "create" => build'[proc'[q].now].inputs = proc'[q].inputs
    <3>1. CASE Quiet
      BY <2>3, <3>1, InputsOfOthers DEF Quiet, Current
    <3>2. ASSUME NEW p \in Proc, Kinds(p), p # q
          PROVE  proc'[q] = proc[q]
      BY Zenon, <3>2 DEF Kinds, Setup, Fills, Drops, Counts, Checks, Claims, Uses, Concludes, Breaks,
                Idles, Walks, GoesOn, Prepares, Alone
    <3>3. CASE \E p \in Proc : p # q /\ Kinds(p)
      <4>1. proc'[q] = proc[q]
        BY <3>2, <3>3
      <4> QED BY <2>3, <3>3, <4>1, InputsOfOthers DEF Current
    <3>4. CASE Kinds(q)
      BY <2>3, <3>4, InputsOfMover DEF InputsInv
    <3> QED BY <2>1, <3>1, <3>3, <3>4
  <2> QED BY Zenon, <2>2, <2>3 DEF InputsInv, Current, Trying, Past
<1> QED BY <1>1, <1>2

LEMMA InitInputsInv ==
  ASSUME Init
  PROVE  InputsInv
<1>1. DOMAIN build = {} /\ \A p \in Proc : proc[p] = Idle
  BY EmptySeq DEF Init
<1> QED BY <1>1, IdleFields DEF InputsInv, InputsBuilds, Trying, Past

(* As long as builds are only started under the scheduling lock, a build   *)
(* that runs has recorded the versions its plan fetches: between UseInputs *)
(* and Start nobody records others.                                        *)
THEOREM PlansRecorded == Trigger = {} => (Spec => []InputsAreThePlans)
<1> SUFFICES ASSUME Trigger = {}
             PROVE  Spec => []InputsAreThePlans
  OBVIOUS
<1>1. Init => IInv /\ InputsInv
  BY InitIInv, InitInputsInv
<1>2. IInv /\ InputsInv /\ [Next]_vars => (IInv /\ InputsInv)'
  <2>1. IInv /\ [Next]_vars => IInv'
    BY StepIInv
  <2> QED BY <2>1, StepInputsInv
<1>3. InputsInv => InputsAreThePlans
  BY DEF InputsInv, InputsBuilds, InputsAreThePlans
<1> QED BY <1>1, <1>2, <1>3, PTL DEF Spec

-----------------------------------------------------------------------------
(* Without triggers, the others are idle while a runner takes a step.      *)
RunnerActs(r) ==
  \/ Tick(r) \/ RunnerStep(r) \/ StarterStep(r)
  \/ PlanFails(r) \/ CreateBuildFails(r) \/ Fault(r)

LEMMA OthersIdle ==
  ASSUME IInv, Trigger = {}, NEW r \in Runner, RunnerActs(r), NEW q \in Runner, q # r
  PROVE  At(q, "idle")
<1>1. lock = None \/ ~At(r, "idle")
  BY Zenon DEF RunnerActs, Tick, RunnerStep, LoadVersions, LoadJobs, MapInputs, EnsurePendingBuildExists,
         GetAllPendingBuilds, StarterStep, CountRunning, IsNextPending, Scan, Remap, InputsDetermined,
         GetNextBuildInputs, CheckPaused, Schedule, UseInputs, CreateBuild, PlanFails,
         CreateBuildFails, Fault, At
<1> QED BY <1>1, SchedulerAssumption DEF IInv, LockInv

(* So OnceInv is about the builds and the runner that takes the step.      *)
LEMMA OnceOfMover ==
  ASSUME IInv, Trigger = {}, NEW r \in Runner, RunnerActs(r),
         \A q \in Proc : q # r => proc'[q] = proc[q],
         OnceBuilds',
         proc'[r].pc \notin {"idle", "versions"} => Newest(r)' /\ Mapped(r)' /\ Tries(r)'
  PROVE  OnceInv'
<1>1. \A q \in Runner : q # r => proc'[q].pc = "idle"
  BY OthersIdle DEF At, Proc
<1> QED BY <1>1 DEF OnceInv

LEMMA AloneAmongThem ==
  ASSUME NEW p \in Proc, Moves(p)
  PROVE  \A q \in Proc : q # p => proc'[q] = proc[q]
BY Zenon DEF Moves, Idles, Walks, GoesOn, Prepares, Alone

(* Ending, scheduling and recording inputs touch no plan and make no build *)
(* pending.                                                                *)
Benign ==
  /\ DOMAIN build' = DOMAIN build
  /\ \A b \in DOMAIN build :
       /\ build'[b].plan = build[b].plan /\ build'[b].job = build[b].job
       /\ build'[b].manual = build[b].manual
       /\ build'[b].status = "pending" => build[b].status = "pending"

LEMMA IsBenign ==
  ASSUME \/ build' = build
         \/ \E b : Ends(b) \/ Schedules(b) \/ \E v : Records(b, v)
  PROVE  Benign
BY DEF Benign, Ends, Schedules, Records, Only

LEMMA BuildNumbers ==
  ASSUME IInv
  PROVE  /\ \A b \in DOMAIN build : build[b].plan \in Nat /\ build[b].job \in Job
         /\ versions \in Nat /\ version \in {0, versions}
         /\ \A p \in Proc : proc[p].latest \in Nat
BY Zenon, BuildIsSeq, RecordFields DEF IInv, Typed

LEMMA BenignOnce ==
  ASSUME IInv, OnceBuilds, Benign, versions' \in Nat, versions <= versions'
  PROVE  OnceBuilds'
<1>1. \A b \in DOMAIN build : build[b].plan \in Nat /\ versions \in Nat
  BY BuildNumbers
<1>2. \A b \in DOMAIN build : /\ build[b].plan <= versions => build[b].plan <= versions'
                              /\ build[b].plan < versions => build[b].plan < versions'
  BY <1>1
<1> QED BY <1>2 DEF OnceBuilds, Benign

LEMMA BenignNewest ==
  ASSUME IInv, NEW r \in Runner, Newest(r), Benign, proc'[r].latest = proc[r].latest,
         versions' \in Nat, versions <= versions'
  PROVE  Newest(r)'
<1>1. proc[r].latest \in Nat /\ versions \in Nat
  BY BuildNumbers DEF Proc
<1>2. proc'[r].latest <= versions'
  BY <1>1 DEF Newest
<1> QED BY Zenon, <1>2 DEF Newest, Benign

LEMMA OnceUnchanged ==
  ASSUME OnceBuilds, build' = build, versions' = versions
  PROVE  OnceBuilds'
BY DEF OnceBuilds

LEMMA OnceOutside ==
  ASSUME IInv, Trigger = {}, OnceInv,
         \/ \E b \in DOMAIN build : FinishBuild(b) \/ AbortBuild(b)
         \/ FindVersion \/ PausePipeline \/ \E j \in Job : PauseJob(j)
  PROVE  OnceInv'
<1>1. Quiet /\ mapping' = mapping
  BY OutsideKind
<1>2. versions' \in Nat /\ versions <= versions'
  <2>1. versions' = versions \/ versions' = versions + 1
    BY DEF FinishBuild, AbortBuild, FindVersion, PausePipeline, PauseJob, outside
  <2> QED BY <2>1, BuildNumbers
<1>3. Benign
  BY <1>1, IsBenign DEF Quiet
<1>4. OnceBuilds'
  BY <1>2, <1>3, BenignOnce DEF OnceInv
<1>5. ASSUME NEW r \in Runner, proc'[r].pc \notin {"idle", "versions"}
      PROVE  Newest(r)' /\ Mapped(r)' /\ Tries(r)'
  <2>1. proc' = proc
    BY <1>1 DEF Quiet
  <2>2. Newest(r) /\ Mapped(r) /\ Tries(r)
    BY <1>5, <2>1 DEF OnceInv
  <2>3. Newest(r)'
    BY <1>2, <1>3, <2>1, <2>2, BenignNewest
  <2>4. \A b \in DOMAIN build : build'[b].inputs = build[b].inputs
    BY <1>1 DEF Quiet, Ends, Only
  <2>5. Mapped(r)'
    BY Zenon, <1>1, <1>3, <2>1, <2>2, <2>4 DEF Mapped, Benign, FirstJob
  <2>6. Tries(r)'
    BY Zenon, <2>1, <2>2 DEF Tries
  <2> QED BY <2>3, <2>5, <2>6
<1> QED BY <1>4, <1>5 DEF OnceInv

LEMMA OnceLoads ==
  ASSUME IInv, Trigger = {}, OnceInv, NEW r \in Runner, Tick(r) \/ LoadVersions(r) \/ LoadJobs(r)
  PROVE  OnceInv'
<1>1. Setup(r) /\ RunnerActs(r)
  BY TickKind, LoadKind DEF RunnerActs, RunnerStep
<1>2. \A q \in Proc : q # r => proc'[q] = proc[q]
  <2>1. Moves(r)
    BY <1>1 DEF Setup, Moves
  <2> QED BY <2>1, AloneAmongThem DEF Proc
<1>3. build' = build /\ mapping' = mapping /\ versions' = versions /\ version' = version
  BY DEF Tick, LoadVersions, LoadJobs, outside
<1>4. OnceBuilds'
  BY Zenon, <1>3, OnceUnchanged DEF OnceInv
<1>5. DOMAIN proc = Proc /\ DOMAIN proc[r] = Fields /\ r \in Proc
  BY DEF IInv, Typed, Proc
<1>6. CASE Tick(r)
  <2>1. proc'[r].pc = "versions"
    BY <1>5, <1>6 DEF Tick, Fields
  <2> QED BY <1>1, <1>2, <1>4, <2>1, OnceOfMover
<1>7. CASE LoadVersions(r)
  <2>1. /\ proc'[r].pc = "jobs" /\ proc'[r].latest = version
        /\ proc'[r].used = [j \in Job |-> Used(j)]
    BY <1>5, <1>7 DEF LoadVersions, LoadVersionsDB, Fields
  <2>2. Newest(r)'
    <3>1. versions \in Nat /\ version \in {0, versions}
      BY BuildNumbers
    <3> QED BY <1>3, <2>1, <3>1 DEF OnceInv, OnceBuilds, Newest
  <2>3. Mapped(r)'
    <3>1. \A b \in DOMAIN build : build[b].inputs \in Used(build[b].job)
      BY DEF Used
    <3>2. \A b \in DOMAIN build : build[b].inputs \in proc'[r].used[build[b].job]
      BY <2>1, <3>1, BuildNumbers
    <3> QED BY Zenon, <1>3, <2>1, <3>2 DEF Mapped, Trying, Past
  <2>4. Tries(r)'
    BY <2>1 DEF Tries, Trying, Past
  <2> QED BY <1>1, <1>2, <1>4, <2>2, <2>3, <2>4, OnceOfMover
<1>8. CASE LoadJobs(r)
  <2>1. /\ proc[r].pc = "jobs" /\ proc'[r].pc = "map" /\ proc'[r].latest = proc[r].latest
        /\ proc'[r].used = proc[r].used /\ proc'[r].todo = Job
    BY <1>5, <1>8 DEF LoadJobs, At, Fields
  <2>2. Newest(r) /\ Mapped(r)
    BY <2>1 DEF OnceInv
  <2>3. Newest(r)'
    BY <1>3, <2>1, <2>2 DEF Newest
  <2>4. Mapped(r)'
    BY <1>3, <2>1, <2>2 DEF Mapped
  <2>5. Tries(r)'
    BY <2>1 DEF Tries, Trying, Past
  <2> QED BY <1>1, <1>2, <1>4, <2>3, <2>4, <2>5, OnceOfMover
<1> QED BY <1>6, <1>7, <1>8

LEMMA OnceMaps ==
  ASSUME IInv, Trigger = {}, OnceInv, NEW r \in Runner, MapInputs(r)
  PROVE  OnceInv'
<1>1. Setup(r) /\ RunnerActs(r)
  BY MapKind DEF RunnerActs, RunnerStep
<1>2. \A q \in Proc : q # r => proc'[q] = proc[q]
  <2>1. Moves(r)
    BY <1>1 DEF Setup, Moves
  <2> QED BY <2>1, AloneAmongThem DEF Proc
<1>3. build' = build /\ versions' = versions /\ proc[r].pc = "map"
  BY DEF MapInputs, outside, At
<1>4. OnceBuilds'
  BY Zenon, <1>3, OnceUnchanged DEF OnceInv
<1>5. DOMAIN proc = Proc /\ DOMAIN proc[r] = Fields /\ r \in Proc /\ DOMAIN mapping = Job /\ proc[r].todo \subseteq Job
  BY DEF IInv, Typed, Proc
<1>6. Newest(r) /\ Mapped(r)
  BY <1>3 DEF OnceInv
<1>7. PICK j \in proc[r].todo :
        LET first == proc[r].latest # 0 /\ proc[r].latest \notin proc[r].used[j] IN
        /\ FirstJob(j, proc[r].todo)
        /\ mapping' = [mapping EXCEPT ![j] = proc[r].latest]
        /\ proc' = [proc EXCEPT
             ![r].pc = IF first /\ j \in Triggered THEN "ensure" ELSE "map",
             ![r].todo = IF first /\ j \in Triggered THEN @ ELSE @ \ {j}]
  BY Zenon DEF MapInputs
<1>8. /\ proc'[r].latest = proc[r].latest /\ proc'[r].used = proc[r].used
      /\ \/ /\ proc'[r].pc = "ensure" /\ proc'[r].todo = proc[r].todo
            /\ proc[r].latest # 0 /\ proc[r].latest \notin proc[r].used[j]
         \/ proc'[r].pc = "map" /\ proc'[r].todo = proc[r].todo \ {j}
  BY <1>5, <1>7 DEF Fields
<1>9. /\ mapping'[j] = proc[r].latest
      /\ \A k \in Job : k # j => mapping'[k] = mapping[k]
  BY <1>5, <1>7
<1>10. Newest(r)'
  BY Zenon, <1>3, <1>6, <1>8 DEF Newest
<1>11. \A k \in proc[r].todo : FirstJob(k, proc[r].todo) => k = j
  <2>1. \A k \in Job : JobId[k] \in Nat
    BY SchedulerAssumption
  <2>2. \A k \in proc[r].todo : FirstJob(k, proc[r].todo) => JobId[k] = JobId[j]
    BY <1>5, <1>7, <2>1 DEF FirstJob
  <2> QED BY Zenon, <1>5, <2>2, SchedulerAssumption
<1>12. Mapped(r)'
  <2>1. \A b \in DOMAIN build : build[b].plan # 0 => build[b].inputs \in proc[r].used[build[b].job]
    BY <1>3, <1>6 DEF Mapped
  <2>2. \A k \in Job : k \notin proc[r].todo => mapping[k] = proc[r].latest
    BY <1>3, <1>6 DEF Mapped
  <2>3. \A k \in Job : k \notin proc'[r].todo => mapping'[k] = proc'[r].latest
    BY Zenon, <1>8, <1>9, <2>2
  <2>4. proc'[r].pc = "ensure" => \A k \in proc'[r].todo : FirstJob(k, proc'[r].todo) =>
          mapping'[k] = proc'[r].latest /\ proc'[r].latest # 0 /\ proc'[r].latest \notin proc'[r].used[k]
    BY <1>8, <1>9, <1>11
  <2> QED BY Zenon, <1>3, <1>8, <2>1, <2>3, <2>4 DEF Mapped, FirstJob
<1>13. Tries(r)'
  BY <1>8 DEF Tries, Trying, Past
<1> QED BY <1>1, <1>2, <1>4, <1>10, <1>12, <1>13, OnceOfMover

LEMMA OnceEnsures ==
  ASSUME IInv, Trigger = {}, InputsInv, OnceInv, NEW r \in Runner, EnsurePendingBuildExists(r)
  PROVE  OnceInv'
<1>1. RunnerActs(r)
  BY DEF RunnerActs, RunnerStep
<1>2. versions' = versions /\ mapping' = mapping /\ proc[r].pc = "ensure"
  BY DEF EnsurePendingBuildExists, outside, At
<1>3. DOMAIN proc = Proc /\ DOMAIN proc[r] = Fields /\ r \in Proc /\ proc[r].todo \subseteq Job
  BY DEF IInv, Typed, Proc
<1>4. Newest(r) /\ Mapped(r)
  BY <1>2 DEF OnceInv
<1>5. PICK j \in proc[r].todo :
        /\ FirstJob(j, proc[r].todo)
        /\ build' = IF PendingBuilds(j) # {} \/ Len(build) = MaxBuilds THEN build
                    ELSE Append(build, NewBuild(j, FALSE))
        /\ proc' = [proc EXCEPT ![r].pc = "map", ![r].todo = @ \ {j}]
  BY Zenon DEF EnsurePendingBuildExists
<1>6. /\ \A q \in Proc : q # r => proc'[q] = proc[q]
      /\ proc'[r].pc = "map" /\ proc'[r].todo = proc[r].todo \ {j}
      /\ proc'[r].latest = proc[r].latest /\ proc'[r].used = proc[r].used
  BY <1>3, <1>5 DEF Fields
<1>7. PICK l : l = proc[r].latest
  OBVIOUS
<1>8. /\ mapping[j] = l /\ l # 0 /\ l \notin proc[r].used[j] /\ l \in Nat /\ j \in Job
      /\ l <= versions /\ versions \in Nat
  BY <1>2, <1>3, <1>4, <1>5, <1>7, BuildNumbers DEF Mapped, Newest
<1>9. /\ \A b \in DOMAIN build : build[b].plan # 0 => build[b].inputs \in proc[r].used[build[b].job]
      /\ \A k \in Job : k \notin proc[r].todo => mapping[k] = l
      /\ \A b \in DOMAIN build : build[b].plan <= l
  BY <1>2, <1>4, <1>7, <1>8 DEF Mapped, Newest
<1>10. Tries(r)'
  BY <1>6 DEF Tries, Trying, Past
<1>11. \A k \in Job : k \notin proc'[r].todo => mapping'[k] = proc'[r].latest
  BY <1>2, <1>6, <1>7, <1>8, <1>9
<1>12. CASE build' = build
  <2>1. OnceBuilds'
    BY Zenon, <1>2, <1>12, OnceUnchanged DEF OnceInv
  <2>2. Newest(r)'
    BY Zenon, <1>2, <1>4, <1>6, <1>12 DEF Newest
  <2>3. Mapped(r)'
    BY Zenon, <1>6, <1>9, <1>11, <1>12 DEF Mapped
  <2> QED BY Zenon, <1>1, <1>6, <1>10, <2>1, <2>2, <2>3, OnceOfMover
<1>13. CASE PendingBuilds(j) = {} /\ build' = Append(build, NewBuild(j, FALSE))
  <2>1. PICK n : Creates(n, j, FALSE)
    BY Zenon, <1>8, <1>13, CreatesRow DEF IInv
  <2>2. /\ \A c \in DOMAIN build' : c \in DOMAIN build \/ c = n + 1
        /\ n + 1 \notin DOMAIN build
    BY <2>1 DEF Creates
  <2>3. /\ \A c \in DOMAIN build : build'[c] = build[c]
        /\ build'[n + 1].job = j /\ build'[n + 1].status = "pending"
        /\ ~build'[n + 1].manual /\ build'[n + 1].plan = 0
    BY <2>1 DEF Creates
  <2>4. \A b \in DOMAIN build : build[b].job = j => build[b].status # "pending"
    BY <1>13 DEF PendingBuilds
  <2>5. \A b \in DOMAIN build : build[b].job = j => build[b].plan < l
    <3> SUFFICES ASSUME NEW b \in DOMAIN build, build[b].job = j
                 PROVE  build[b].plan < l
      OBVIOUS
    <3>1. build[b].plan # 0 => build[b].inputs = build[b].plan
      BY DEF InputsInv, InputsBuilds
    <3>2. build[b].plan # l
      BY <1>8, <1>9, <3>1
    <3> QED BY <1>8, <1>9, <3>2, BuildNumbers
  <2>6. \A b \in DOMAIN build : build[b].job = j => build[b].plan < versions
    BY <1>8, <2>5, BuildNumbers
  <2>7. OnceBuilds'
    <3>1. \A b \in DOMAIN build' : ~build'[b].manual /\ build'[b].plan <= versions
      BY <1>8, <2>2, <2>3 DEF OnceInv, OnceBuilds
    <3>2. ASSUME NEW b \in DOMAIN build', NEW c \in DOMAIN build', b # c, build'[b].job = build'[c].job
          PROVE  /\ build'[b].plan # 0 => build'[b].plan # build'[c].plan
                 /\ build'[c].status = "pending" => build'[b].status # "pending" /\ build'[b].plan < versions
      <4>1. CASE b \in DOMAIN build /\ c \in DOMAIN build
        BY <2>3, <3>2, <4>1 DEF OnceInv, OnceBuilds
      <4>2. CASE b = n + 1
        BY <2>2, <2>3, <2>4, <3>2, <4>2
      <4>3. CASE c = n + 1
        BY <2>2, <2>3, <2>4, <2>6, <3>2, <4>3
      <4> QED BY <2>2, <4>1, <4>2, <4>3
    <3> QED BY Zenon, <1>2, <3>1, <3>2 DEF OnceBuilds
  <2>8. Newest(r)'
    <3>1. \A b \in DOMAIN build' : build'[b].plan <= l
      BY <1>8, <1>9, <2>2, <2>3
    <3>2. ASSUME NEW b \in DOMAIN build', NEW c \in DOMAIN build', b # c, build'[b].job = build'[c].job,
                 build'[c].status = "pending"
          PROVE  build'[b].plan < l
      <4>1. CASE b \in DOMAIN build /\ c \in DOMAIN build
        BY <1>4, <1>7, <1>8, <2>3, <3>2, <4>1 DEF Newest
      <4>2. CASE b = n + 1
        BY <2>2, <2>3, <2>4, <3>2, <4>2
      <4>3. CASE c = n + 1
        BY <2>2, <2>3, <2>5, <3>2, <4>3
      <4> QED BY <2>2, <4>1, <4>2, <4>3
    <3> QED BY <1>2, <1>6, <1>7, <1>8, <3>1, <3>2 DEF Newest
  <2>9. Mapped(r)'
    <3>1. \A b \in DOMAIN build' : build'[b].plan # 0 => build'[b].inputs \in proc'[r].used[build'[b].job]
      BY Zenon, <1>6, <1>9, <2>2, <2>3
    <3> QED BY <1>6, <1>11, <3>1 DEF Mapped
  <2> QED BY Zenon, <1>1, <1>6, <1>10, <2>7, <2>8, <2>9, OnceOfMover
<1> QED BY Zenon, <1>5, <1>12, <1>13

LEMMA OnceFills ==
  ASSUME IInv, Trigger = {}, OnceInv, NEW r \in Runner, GetAllPendingBuilds(r)
  PROVE  OnceInv'
<1>1. RunnerActs(r) /\ r \in Proc
  BY DEF RunnerActs, RunnerStep, Proc
<1>2. /\ build' = build /\ versions' = versions /\ mapping' = mapping
      /\ proc[r].pc = "map" /\ proc[r].todo = {} /\ ~At(r, "idle") /\ GoOn(r, AllPendingBuilds)
  BY DEF GetAllPendingBuilds, outside, At
<1>3. Idles(r) \/ GoesOn(r)
  <2>1. PICK queue : queue = AllPendingBuilds
    OBVIOUS
  <2>2. queue \in SUBSET DOMAIN build
    BY <2>1 DEF AllPendingBuilds
  <2> QED BY <1>1, <1>2, <2>1, <2>2, GoOnMoves DEF IInv
<1>4. \A q \in Proc : q # r => proc'[q] = proc[q]
  <2>1. Moves(r)
    BY <1>3 DEF Moves
  <2> QED BY <2>1, AloneAmongThem DEF Proc
<1>5. OnceBuilds'
  BY Zenon, <1>2, OnceUnchanged DEF OnceInv
<1>6. CASE Idles(r)
  BY Zenon, <1>1, <1>4, <1>5, <1>6, OnceOfMover, IdleFields DEF Idles
<1>7. CASE GoesOn(r)
  <2>1. /\ proc'[r].pc = "running" /\ proc'[r].todo = {} /\ proc'[r].latest = proc[r].latest
    BY <1>2, <1>7 DEF GoesOn
  <2>2. Newest(r) /\ Mapped(r)
    BY <1>2 DEF OnceInv
  <2>3. Newest(r)'
    BY Zenon, <1>2, <2>1, <2>2 DEF Newest
  <2>4. Mapped(r)'
    BY Zenon, <1>2, <2>1, <2>2 DEF Mapped
  <2>5. Tries(r)'
    BY <2>1 DEF Tries, Trying, Past
  <2> QED BY <1>1, <1>4, <1>5, <2>3, <2>4, <2>5, OnceOfMover
<1> QED BY <1>3, <1>6, <1>7

(* A runner that tries builds that nobody triggered keeps its versions,    *)
(* and takes the inputs of a build from the mapping.                       *)
Plods(p) ==
  /\ proc'[p].latest = proc[p].latest /\ proc'[p].todo = proc[p].todo
  /\ proc'[p].pc \in Trying \ {"scan", "remap"}
  /\ proc'[p].pc \in {"paused", "schedule", "use", "create"} =>
       \/ proc'[p].inputs = mapping[JobOf(p)]
       \/ proc[p].pc \in {"paused", "schedule", "use"} /\ proc'[p].inputs = proc[p].inputs

Attempts(p) == StarterStep(p) \/ PlanFails(p) \/ CreateBuildFails(p)

LEMMA Plodding ==
  ASSUME IInv, NEW p \in Proc, Attempts(p), proc[p].pc \notin {"scan", "remap"},
         ~build[Current(p)].manual
  PROVE  /\ mapping' = mapping /\ versions' = versions /\ proc[p].pc \in Trying
         /\ Idles(p) \/ Plods(p)
<1>1. /\ mapping' = mapping /\ versions' = versions
      /\ proc[p].pc \in {"running", "next", "determined", "inputs", "paused", "schedule", "use", "create"}
  BY DEF Attempts, StarterStep, CountRunning, IsNextPending, Scan, Remap, InputsDetermined,
         GetNextBuildInputs, CheckPaused, Schedule, UseInputs, CreateBuild, PlanFails,
         CreateBuildFails, outside, At
<1>2. proc[p].pc \in Trying /\ ~At(p, "idle")
  BY <1>1 DEF Trying, Past, At
<1>3. CASE NotStarted(p) \/ Started(p)
  <2>1. Idles(p) \/ GoesOn(p)
    BY Zenon, <1>2, <1>3, NotStartedMoves, StartedMoves DEF IInv
  <2> QED BY <1>1, <1>2, <2>1 DEF GoesOn, Plods, Trying
<1>4. CASE \E pc \in {"next", "determined", "inputs"} : Goto(p, pc)
  <2>1. PICK pc \in {"next", "determined", "inputs"} : Goto(p, pc)
    BY <1>4
  <2>2. pc \in Past
    BY DEF Past
  <2>3. Walks(p) /\ proc'[p].pc = pc /\ proc'[p].latest = proc[p].latest
    BY <1>2, <2>1, <2>2, GotoWalks DEF IInv
  <2> QED BY Zenon, <1>1, <1>2, <2>1, <2>2, <2>3 DEF Walks, Plods, Trying
<1>5. CASE /\ proc[p].pc \in {"paused", "schedule", "use"}
           /\ \E pc \in {"schedule", "use", "create"} : Goto(p, pc)
  <2>1. PICK pc \in {"schedule", "use", "create"} : Goto(p, pc)
    BY <1>5
  <2>2. pc \in Past
    BY DEF Past
  <2>3. Walks(p) /\ proc'[p].pc = pc /\ proc'[p].latest = proc[p].latest /\ proc'[p].inputs = proc[p].inputs
    BY <1>2, <2>1, <2>2, GotoWalks DEF IInv
  <2> QED BY Zenon, <1>1, <1>2, <1>5, <2>1, <2>2, <2>3 DEF Walks, Plods, Trying
<1>6. CASE GetNextBuildInputs(p)
  <2>1. /\ proc'[p].pc = "paused" /\ proc'[p].inputs = mapping[JobOf(p)]
        /\ proc'[p].latest = proc[p].latest /\ proc'[p].todo = proc[p].todo
    BY <1>6 DEF GetNextBuildInputs, IInv, Typed, Fields
  <2> QED BY Zenon, <1>1, <1>2, <2>1 DEF Plods, Trying, Past
<1>7. \/ NotStarted(p) \/ Started(p)
      \/ \E pc \in {"next", "determined", "inputs"} : Goto(p, pc)
      \/ /\ proc[p].pc \in {"paused", "schedule", "use"}
         /\ \E pc \in {"schedule", "use", "create"} : Goto(p, pc)
      \/ GetNextBuildInputs(p)
  <2>1. CASE CountRunning(p) \/ IsNextPending(p)
    BY Zenon, <2>1 DEF CountRunning, IsNextPending
  <2>2. CASE InputsDetermined(p) \/ CheckPaused(p)
    BY Zenon, <2>2 DEF InputsDetermined, CheckPaused, At
  <2>3. CASE Schedule(p) \/ UseInputs(p)
    BY <2>3 DEF Schedule, UseInputs, At
  <2>4. CASE CreateBuild(p) \/ PlanFails(p) \/ CreateBuildFails(p)
    BY <2>4 DEF CreateBuild, PlanFails, CreateBuildFails
  <2> QED BY Zenon, <1>1, <2>1, <2>2, <2>3, <2>4 DEF Attempts, StarterStep, Scan, Remap, At
<1> QED BY Zenon, <1>1, <1>2, <1>3, <1>4, <1>5, <1>6, <1>7

(* Starting the pending build of a job with the runner's newest version.   *)
LEMMA OnceBuildsStart ==
  ASSUME IInv, OnceInv, NEW r \in Runner, NEW b, NEW v, v = proc[r].latest,
         Newest(r), Starts(b, v), versions' = versions
  PROVE  OnceBuilds'
<1>1. /\ DOMAIN build' = DOMAIN build /\ b \in DOMAIN build
      /\ \A c \in DOMAIN build : c # b => build'[c] = build[c]
      /\ build'[b].job = build[b].job /\ build'[b].manual = build[b].manual
      /\ build[b].status = "pending" /\ build'[b].status = "started" /\ build'[b].plan = v
  BY DEF Starts, Only
<1>2. v \in Nat /\ versions \in Nat /\ v <= versions
  BY BuildNumbers DEF Newest, Proc
<1>3. \A c \in DOMAIN build : ~build[c].manual /\ build[c].plan <= versions /\ build[c].plan \in Nat
  BY BuildNumbers DEF OnceInv, OnceBuilds
<1>4. \A c, d \in DOMAIN build : (c # d /\ build[c].job = build[d].job) =>
        /\ build[c].plan # 0 => build[c].plan # build[d].plan
        /\ build[d].status = "pending" => build[c].status # "pending" /\ build[c].plan < versions
  BY Zenon DEF OnceInv, OnceBuilds
<1>5. v # 0 => /\ \A c \in DOMAIN build : build[c].plan <= v
               /\ \A c, d \in DOMAIN build :
                    (c # d /\ build[c].job = build[d].job /\ build[d].status = "pending") => build[c].plan < v
  BY DEF Newest
<1>6. \A c \in DOMAIN build : (c # b /\ build[c].job = build[b].job) =>
        build[c].status # "pending" /\ (v # 0 => build[c].plan < v)
  BY <1>1, <1>4, <1>5
<1>7. OnceBuilds'
  <2>1. \A c \in DOMAIN build' : ~build'[c].manual /\ build'[c].plan <= versions
    BY <1>1, <1>2, <1>3
  <2>2. ASSUME NEW c \in DOMAIN build', NEW d \in DOMAIN build', c # d, build'[c].job = build'[d].job
        PROVE  /\ build'[c].plan # 0 => build'[c].plan # build'[d].plan
               /\ build'[d].status = "pending" => build'[c].status # "pending" /\ build'[c].plan < versions
    <3>1. CASE c # b /\ d # b
      BY <1>1, <1>4, <2>2, <3>1
    <3>2. CASE c = b
      <4>1. build[d].status # "pending" /\ (v # 0 => build[d].plan < v) /\ build'[d] = build[d]
        BY <1>1, <1>6, <2>2, <3>2
      <4>2. v # 0 => v # build[d].plan
        BY <1>1, <1>2, <1>3, <2>2, <4>1
      <4> QED BY <1>1, <3>2, <4>1, <4>2
    <3>3. CASE d = b
      <4>1. (v # 0 => build[c].plan < v) /\ build'[c] = build[c]
        BY <1>1, <1>6, <2>2, <3>3
      <4>2. build[c].plan # 0 => build[c].plan # v
        BY <1>1, <1>2, <1>3, <2>2, <4>1
      <4> QED BY <1>1, <3>3, <4>1, <4>2
    <3> QED BY <3>1, <3>2, <3>3
  <2> QED BY <2>1, <2>2 DEF OnceBuilds
<1> QED BY <1>7

LEMMA OnceNewestStart ==
  ASSUME IInv, OnceInv, NEW r \in Runner, NEW b, NEW v, v = proc[r].latest,
         Newest(r), Starts(b, v), versions' = versions, proc'[r].latest = proc[r].latest
  PROVE  Newest(r)'
<1>1. /\ DOMAIN build' = DOMAIN build /\ b \in DOMAIN build
      /\ \A c \in DOMAIN build : c # b => build'[c] = build[c]
      /\ build'[b].job = build[b].job /\ build'[b].manual = build[b].manual
      /\ build[b].status = "pending" /\ build'[b].status = "started" /\ build'[b].plan = v
  BY DEF Starts, Only
<1>2. v \in Nat /\ versions \in Nat /\ v <= versions
  BY BuildNumbers DEF Newest, Proc
<1>4. \A c, d \in DOMAIN build : (c # d /\ build[c].job = build[d].job) =>
        /\ build[c].plan # 0 => build[c].plan # build[d].plan
        /\ build[d].status = "pending" => build[c].status # "pending" /\ build[c].plan < versions
  BY Zenon DEF OnceInv, OnceBuilds
<1>5. v # 0 => /\ \A c \in DOMAIN build : build[c].plan <= v
               /\ \A c, d \in DOMAIN build :
                    (c # d /\ build[c].job = build[d].job /\ build[d].status = "pending") => build[c].plan < v
  BY DEF Newest
<1>6. \A c \in DOMAIN build : (c # b /\ build[c].job = build[b].job) =>
        build[c].status # "pending" /\ (v # 0 => build[c].plan < v)
  BY <1>1, <1>4, <1>5
<1>7. v # 0 => \A c \in DOMAIN build' : build'[c].plan <= v
  BY <1>1, <1>2, <1>5
<1>8. ASSUME v # 0, NEW c \in DOMAIN build', NEW d \in DOMAIN build', c # d,
             build'[c].job = build'[d].job, build'[d].status = "pending"
      PROVE  build'[c].plan < v
  <2>1. CASE c # b /\ d # b
    BY <1>1, <1>5, <1>8, <2>1
  <2>2. CASE c = b
    BY <1>1, <1>6, <1>8, <2>2
  <2>3. CASE d = b
    BY <1>1, <1>8, <2>3
  <2> QED BY <2>1, <2>2, <2>3
<1> QED BY <1>2, <1>7, <1>8 DEF Newest

LEMMA OnceTries ==
  ASSUME IInv, Trigger = {}, OnceInv, NEW r \in Runner, Attempts(r)
  PROVE  OnceInv'
<1>1. RunnerActs(r) /\ r \in Proc
  BY DEF RunnerActs, Attempts, Proc
<1>2. Counts(r) \/ Checks(r) \/ Claims(r) \/ Uses(r) \/ Concludes(r)
  BY <1>1, CountKind, CheckKind, ClaimKind, ConcludeKind DEF Attempts, StarterStep
<1>3. proc[r].pc \in Trying /\ proc[r].pc \notin {"idle", "versions"}
  BY Zenon, <1>2 DEF Counts, Checks, Claims, Uses, Concludes, Trying, Past
<1>4. Newest(r) /\ Mapped(r) /\ Tries(r)
  BY <1>3 DEF OnceInv
<1>5. Current(r) \in DOMAIN build /\ JobOf(r) \in Job
  BY <1>1, <1>3, Tried
<1>6. proc[r].pc \notin {"scan", "remap"} /\ ~build[Current(r)].manual
  BY Zenon, <1>4, <1>5 DEF Tries, OnceInv, OnceBuilds
<1>7. mapping' = mapping /\ versions' = versions /\ (Idles(r) \/ Plods(r))
  BY Zenon, <1>1, <1>6, Plodding
<1>8. \A q \in Proc : q # r => proc'[q] = proc[q]
  <2>1. Moves(r)
    BY Zenon, <1>2 DEF Counts, Checks, Claims, Uses, Concludes, Drops, Moves
  <2> QED BY <2>1, AloneAmongThem DEF Proc
<1>9. proc[r].todo = {} /\ \A j \in Job : mapping[j] = proc[r].latest
  BY Zenon, <1>3, <1>4 DEF Tries, Mapped
<1>10. ASSUME Plods(r)
       PROVE  Mapped(r)' /\ Tries(r)'
  <2>1. /\ proc'[r].pc \in Trying \ {"scan", "remap"}
        /\ proc'[r].latest = proc[r].latest /\ proc'[r].todo = {}
    BY <1>9, <1>10 DEF Plods
  <2>2. proc'[r].pc \in {"paused", "schedule", "use", "create"} => proc'[r].inputs = proc[r].latest
    BY <1>4, <1>5, <1>9, <1>10 DEF Plods, Tries
  <2>3. Mapped(r)'
    BY Zenon, <1>7, <1>9, <2>1 DEF Mapped, Trying, Past
  <2>4. Tries(r)'
    BY <2>1, <2>2 DEF Tries
  <2> QED BY <2>3, <2>4
<1>11. versions \in Nat /\ versions <= versions'
  BY <1>7, BuildNumbers
<1>12. CASE Benign
  <2>1. OnceBuilds'
    BY Zenon, <1>7, <1>11, <1>12, BenignOnce DEF OnceInv
  <2>2. Plods(r) => Newest(r)'
    BY Zenon, <1>4, <1>7, <1>11, <1>12, BenignNewest DEF Plods
  <2> QED BY Zenon, <1>1, <1>7, <1>8, <1>10, <2>1, <2>2, OnceOfMover, IdleFields DEF Idles
<1>13. CASE proc[r].pc = "create" /\ Starts(Current(r), proc[r].inputs)
  <2>1. PICK b, v : b = Current(r) /\ v = proc[r].latest
    OBVIOUS
  <2>2. Starts(b, v)
    BY Zenon, <1>4, <1>13, <2>1 DEF Tries
  <2>3. CASE Plods(r)
    <3>1. OnceBuilds' /\ Newest(r)'
      BY Zenon, <1>4, <1>7, <2>1, <2>2, <2>3, OnceBuildsStart, OnceNewestStart DEF Plods
    <3> QED BY Zenon, <1>1, <1>8, <1>10, <2>3, <3>1, OnceOfMover
  <2>4. CASE Idles(r)
    <3>1. OnceBuilds'
      BY <1>4, <1>7, <2>1, <2>2, OnceBuildsStart
    <3> QED BY Zenon, <1>1, <1>8, <2>4, <3>1, OnceOfMover, IdleFields DEF Idles
  <2> QED BY <1>7, <2>3, <2>4
<1>14. Benign \/ (proc[r].pc = "create" /\ Starts(Current(r), proc[r].inputs))
  BY Zenon, <1>2, IsBenign DEF Counts, Checks, Claims, Uses, Concludes
<1> QED BY <1>12, <1>13, <1>14

LEMMA StepOnceInv ==
  ASSUME IInv, Trigger = {}, InputsInv, OnceInv, [Next]_vars
  PROVE  OnceInv'
<1>1. CASE vars' = vars
  <2>1. build' = build /\ versions' = versions /\ proc' = proc /\ mapping' = mapping
    BY <1>1 DEF vars
  <2>2. OnceBuilds'
    BY Zenon, <2>1, OnceUnchanged DEF OnceInv
  <2>3. ASSUME NEW r \in Runner, proc'[r].pc \notin {"idle", "versions"}
        PROVE  Newest(r)' /\ Mapped(r)' /\ Tries(r)'
    <3>1. Newest(r) /\ Mapped(r) /\ Tries(r)
      BY <2>1, <2>3 DEF OnceInv
    <3>2. Newest(r)'
      BY Zenon, <2>1, <3>1 DEF Newest
    <3>3. Mapped(r)'
      BY Zenon, <2>1, <3>1 DEF Mapped, FirstJob
    <3>4. Tries(r)'
      BY Zenon, <2>1, <3>1 DEF Tries
    <3> QED BY <3>2, <3>3, <3>4
  <2> QED BY <2>2, <2>3 DEF OnceInv
<1>2. CASE \/ \E b \in DOMAIN build : FinishBuild(b) \/ AbortBuild(b)
           \/ FindVersion \/ PausePipeline \/ \E j \in Job : PauseJob(j)
  BY <1>2, OnceOutside
<1>3. CASE \E r \in Runner : Tick(r) \/ RunnerStep(r)
  BY <1>3, OnceLoads, OnceMaps, OnceEnsures, OnceFills DEF RunnerStep
<1>4. CASE \E p \in Proc : Attempts(p)
  BY <1>4, OnceTries DEF Proc
<1>5. CASE \E p \in Proc : Fault(p)
  <2>1. PICK r \in Runner : Fault(r)
    BY <1>5 DEF Proc
  <2>2. RunnerActs(r) /\ r \in Proc /\ build' = build /\ versions' = versions
    BY <2>1 DEF RunnerActs, Proc, Fault
  <2>3. Idles(r)
    BY <2>1, <2>2, FaultKind DEF Breaks
  <2>4. OnceBuilds'
    BY Zenon, <2>2, OnceUnchanged DEF OnceInv
  <2>5. proc'[r].pc = "idle" /\ \A q \in Proc : q # r => proc'[q] = proc[q]
    BY <2>3, IdleFields DEF Idles, Alone
  <2> QED BY Zenon, <2>2, <2>4, <2>5, OnceOfMover
<1> QED BY <1>1, <1>2, <1>3, <1>4, <1>5 DEF Next, Attempts

LEMMA InitOnceInv ==
  ASSUME Init
  PROVE  OnceInv
<1>1. DOMAIN build = {} /\ \A p \in Proc : proc[p] = Idle
  BY EmptySeq DEF Init
<1> QED BY <1>1, IdleFields DEF OnceInv, OnceBuilds, Proc

(* As long as builds are only created and started under the scheduling     *)
(* lock, no two builds of a job have the same version in their plans:      *)
(* EnsurePendingBuildExists creates one only for a version that no build   *)
(* has used, and versions only become newer until it is started.           *)
THEOREM VersionsTriggerOnce == Trigger = {} => (Spec => []NoVersionTriggersTwice)
<1> SUFFICES ASSUME Trigger = {}
             PROVE  Spec => []NoVersionTriggersTwice
  OBVIOUS
<1>1. Init => IInv /\ InputsInv /\ OnceInv
  BY InitIInv, InitInputsInv, InitOnceInv
<1>2. IInv /\ InputsInv /\ OnceInv /\ [Next]_vars => (IInv /\ InputsInv /\ OnceInv)'
  <2>1. IInv /\ [Next]_vars => IInv'
    BY StepIInv
  <2>2. IInv /\ InputsInv /\ [Next]_vars => InputsInv'
    BY StepInputsInv
  <2>3. IInv /\ InputsInv /\ OnceInv /\ [Next]_vars => OnceInv'
    BY StepOnceInv
  <2> QED BY <2>1, <2>2, <2>3
<1>3. OnceInv => NoVersionTriggersTwice
  BY DEF OnceInv, OnceBuilds, NoVersionTriggersTwice
<1> QED BY <1>1, <1>2, <1>3, PTL DEF Spec

-----------------------------------------------------------------------------
(* Counting. A step other than Schedule counts nothing new.                *)
LEMMA CountedShrinks ==
  ASSUME IInv, IInv', [Next]_vars, \A p \in Proc : ~Claims(p), NEW j
  PROVE  Counted(j)' \subseteq Counted(j)
<1>1. build' = build \/ Next
  BY DEF vars
<1>2. build' = build \/ Quiet \/ \E p \in Proc : Kinds(p)
  BY <1>1, EveryKind
<1>3. CASE build' = build
  BY <1>3 DEF Counted
<1>4. CASE \E b : Ends(b)
  BY <1>4 DEF Ends, Only, Counted
<1>5. CASE \E b, v : Records(b, v)
  BY <1>5 DEF Records, Only, Counted
<1>6. CASE \E n, k, manual : Creates(n, k, manual)
  <2>1. PICK n, k, manual : Creates(n, k, manual)
    BY <1>6
  <2>2. \A c \in DOMAIN build' : c \in DOMAIN build \/ c = n + 1
    BY <2>1 DEF Creates
  <2>3. /\ \A c \in DOMAIN build : build'[c] = build[c]
        /\ build'[n + 1].status = "pending" /\ build'[n + 1].scheduled = FALSE
    BY <2>1 DEF Creates
  <2> QED BY <2>2, <2>3 DEF Counted
<1>7. CASE \E p \in Proc : proc[p].pc = "create" /\ Starts(Current(p), proc[p].inputs)
  <2>1. PICK p \in Proc : proc[p].pc = "create" /\ Starts(Current(p), proc[p].inputs)
    BY <1>7
  <2>2. build[Current(p)].scheduled
    BY Zenon, <2>1 DEF IInv, ScheduledInv
  <2> QED BY <2>1, <2>2 DEF Starts, Only, Counted
<1> QED BY Zenon, <1>2, <1>3, <1>4, <1>5, <1>6, <1>7
        DEF Quiet, Kinds, Setup, Fills, Counts, Checks, Uses, Concludes, Breaks

(* Two goroutines that try pending builds of one job try the same one.     *)
LEMMA SameBuildTried ==
  ASSUME IInv, NEW p \in Proc, NEW q \in Proc, proc[p].pc \in Trying, proc[q].pc \in Trying,
         JobOf(p) = JobOf(q),
         build[Current(p)].status = "pending", build[Current(q)].status = "pending"
  PROVE  Current(p) = Current(q)
<1>1. /\ Current(p) \in DOMAIN build /\ Current(q) \in DOMAIN build
      /\ build[Current(p)].job = build[Current(q)].job
      /\ Current(p) \in proc[p].queue /\ Current(q) \in proc[q].queue
  BY Tried
<1>2. Current(p) \in Nat /\ Current(q) \in Nat
  BY <1>1, BuildIsSeq DEF IInv
<1>3. /\ Closed(proc[p].queue) /\ Closed(proc[q].queue)
      /\ \A c \in proc[p].queue : build[c].job = build[Current(p)].job => Current(p) <= c
      /\ \A c \in proc[q].queue : build[c].job = build[Current(q)].job => Current(q) <= c
  BY Zenon DEF IInv, QueueInv, FirstBuild
<1>4. ~(Current(q) < Current(p))
  <2> SUFFICES ASSUME Current(q) < Current(p)
               PROVE  FALSE
    OBVIOUS
  <2>1. Current(q) \in proc[p].queue
    BY Zenon, <1>1, <1>3 DEF Closed
  <2> QED BY <1>1, <1>2, <1>3, <2>1
<1>5. ~(Current(p) < Current(q))
  <2> SUFFICES ASSUME Current(p) < Current(q)
               PROVE  FALSE
    OBVIOUS
  <2>1. Current(p) \in proc[q].queue
    BY <1>1, <1>3 DEF Closed
  <2> QED BY <1>1, <1>2, <1>3, <2>1
<1> QED BY <1>2, <1>4, <1>5

(* Schedule counts the build that is tried, which had its room already.    *)
LEMMA ClaimsOwnRoom ==
  ASSUME IInv, Apart, NEW p \in Proc, Claims(p), NEW q \in Proc, proc[q].pc \in Past,
         build[Current(q)].status = "pending", NEW j, j = JobOf(q)
  PROVE  Counted(j)' \subseteq Counted(j) \cup {Current(q)}
<1>1. proc[p].pc \in Trying /\ proc[q].pc \in Trying /\ Schedules(Current(p))
  BY DEF Claims, Trying, Past
<1>2. JobOf(p) \in Job /\ j \in Job /\ JobOf(p) = build[Current(p)].job
  BY <1>1, Tried
<1>3. /\ DOMAIN build' = DOMAIN build
      /\ \A c \in DOMAIN build : c # Current(p) => build'[c] = build[c]
      /\ build'[Current(p)].job = build[Current(p)].job
      /\ build'[Current(p)].status = build[Current(p)].status
  BY Zenon, <1>1 DEF Schedules, Only
<1>4. CASE p = q
  BY Zenon, <1>3, <1>4 DEF Counted
<1>5. CASE p # q
  <2>1. ~(Trigger = {})
    <3> SUFFICES ASSUME Trigger = {}
                 PROVE  FALSE
      OBVIOUS
    <3>1. p \in Runner /\ q \in Runner /\ ~At(p, "idle") /\ ~At(q, "idle")
      BY <1>1 DEF Proc, At, Trying, Past
    <3>2. lock = p /\ lock = q
      BY <3>1 DEF IInv, LockInv
    <3> QED BY <1>5, <3>2
  <2>2. SerialGroups[JobOf(p)] \cap SerialGroups[j] # {} => JobOf(p) = j
    BY <1>2, <2>1 DEF Apart
  <2>3. (JobOf(p) = j /\ build[Current(p)].status = "pending") => Current(p) = Current(q)
    BY <1>1, SameBuildTried
  <2> QED BY Zenon, <1>2, <1>3, <2>2, <2>3 DEF Counted
<1> QED BY <1>4, <1>5

(* The facts about finite sets come last, since every step after them has  *)
(* them in its context. They bring their own Cardinality: it is Size.      *)
LEMMA SizeDefined ==
  ASSUME NEW S
  PROVE  Size(S) = LET CS[T \in SUBSET S] == IF T = {} THEN 0
                                             ELSE 1 + CS[T \ {CHOOSE x : x \in T}]
                   IN  CS[S]
BY DEF Size, Cardinality

LOCAL INSTANCE FiniteSetTheorems

LEMMA SizeIsCardinality == ASSUME NEW S PROVE Size(S) = Cardinality(S)
BY Zenon, SizeDefined DEF Cardinality

LEMMA SizeAdds ==
  ASSUME NEW S, NEW x, IsFiniteSet(S)
  PROVE  /\ IsFiniteSet(S \cup {x}) /\ Size(S) \in Nat /\ Size(S \cup {x}) \in Nat
         /\ Size(S \cup {x}) <= Size(S) + 1
         /\ x \notin S => Size(S \cup {x}) = Size(S) + 1
<1>1. Cardinality(S) \in Nat
  BY FS_CardinalityType
<1>2. /\ IsFiniteSet(S \cup {x})
      /\ Cardinality(S \cup {x}) = IF x \in S THEN Cardinality(S) ELSE Cardinality(S) + 1
  BY FS_AddElement
<1> QED BY <1>1, <1>2, SizeIsCardinality

(* Whatever is counted is a finite set.                                    *)
LEMMA CountedFinite ==
  ASSUME IInv, NEW S, S \subseteq DOMAIN build
  PROVE  IsFiniteSet(S)
<1>1. DOMAIN build = 1..Len(build) /\ Len(build) \in Nat
  BY LenProperties DEF IInv, Typed
<1>2. IsFiniteSet(1..Len(build))
  BY <1>1, FS_Interval
<1> QED BY <1>1, <1>2, FS_Subset

LEMMA SmallerFits ==
  ASSUME NEW S, NEW T, IsFiniteSet(T), S \subseteq T
  PROVE  Size(S) \in Nat /\ Size(T) \in Nat /\ Size(S) <= Size(T)
<1>1. IsFiniteSet(S) /\ Cardinality(S) <= Cardinality(T)
  BY FS_Subset
<1>2. Cardinality(S) \in Nat /\ Cardinality(T) \in Nat
  BY <1>1, FS_CardinalityType
<1> QED BY <1>1, <1>2, SizeIsCardinality

(* Who still tries a build keeps its room.                                 *)
LEMMA RoomKept ==
  ASSUME IInv, IInv', Apart, CountInv, [Next]_vars, NEW q \in Proc, proc[q].pc \in Past,
         proc'[q].now = proc[q].now, MaxInFlight[JobOf(q)] > 0, build'[Current(q)].status = "pending"
  PROVE  Room(q)'
<1>1. PICK j, b : j = JobOf(q) /\ b = Current(q)
  OBVIOUS
<1>2. proc[q].pc \in Trying
  BY DEF Trying
<1>3. b \in DOMAIN build /\ j = build[b].job /\ j \in Job
  BY <1>1, <1>2, Tried
<1>4. BuildAges
  <2>1. CASE Next
    BY <2>1, EveryKind, KindsAge
  <2>2. CASE vars' = vars
    BY <2>2, SameAges DEF vars, IInv
  <2> QED BY <2>1, <2>2
<1>5. build[b].status = "pending" /\ build'[b].job = j
  BY <1>1, <1>3, <1>4 DEF BuildAges
<1>6. Size(Counted(j) \cup {b}) <= MaxInFlight[j]
  BY <1>1, <1>5 DEF CountInv, Room
<1>7. Counted(j)' \subseteq Counted(j) \cup {b}
  <2>1. CASE \E p \in Proc : Claims(p)
    BY <1>1, <1>5, <2>1, ClaimsOwnRoom
  <2>2. CASE \A p \in Proc : ~Claims(p)
    BY <2>2, CountedShrinks
  <2> QED BY Zenon, <2>1, <2>2
<1>8. IsFiniteSet(Counted(j) \cup {b})
  <2>1. Counted(j) \cup {b} \subseteq DOMAIN build
    BY <1>3 DEF Counted
  <2> QED BY <2>1, CountedFinite
<1>9. MaxInFlight[j] \in Nat
  BY <1>3, SchedulerAssumption
<1>10. Size(Counted(j)' \cup {b}) <= MaxInFlight[j]
  <2>1. Counted(j)' \cup {b} \subseteq Counted(j) \cup {b}
    BY Zenon, <1>7
  <2>2. /\ Size(Counted(j)' \cup {b}) \in Nat /\ Size(Counted(j) \cup {b}) \in Nat
        /\ Size(Counted(j)' \cup {b}) <= Size(Counted(j) \cup {b})
    BY <1>8, <2>1, SmallerFits
  <2>3. PICK m, n, k : m = Size(Counted(j)' \cup {b}) /\ n = Size(Counted(j) \cup {b}) /\ k = MaxInFlight[j]
    OBVIOUS
  <2>4. m \in Nat /\ n \in Nat /\ k \in Nat /\ m <= n /\ n <= k
    BY <1>6, <1>9, <2>2, <2>3
  <2>5. m <= k
    BY <2>4
  <2> QED BY Zenon, <2>3, <2>5
<1>11. Current(q)' = b /\ JobOf(q)' = j
  BY Zenon, <1>1, <1>5 DEF Current, JobOf
<1> QED BY <1>10, <1>11 DEF Room, Counted

(* The count finds every build that counts.                                *)
LEMMA RoomFound ==
  ASSUME IInv, NEW p \in Proc, Counts(p), Walks(p), MaxInFlight[JobOf(p)] > 0
  PROVE  Room(p)'
<1>1. PICK j, b : j = JobOf(p) /\ b = Current(p)
  OBVIOUS
<1>2. proc[p].pc = "running" /\ proc[p].pc \in Trying /\ proc'[p].pc \in Past /\ build' = build
  BY Zenon DEF Counts, Trying, Walks
<1>3. j \in Job
  BY Zenon, <1>1, <1>2, Tried
<1>4. MaxInFlight[j] \in Nat /\ MaxInFlight[j] # 0
  <2>1. MaxInFlight[j] \in Nat /\ 0 \in Nat
    BY <1>3, SchedulerAssumption
  <2>2. MaxInFlight[j] > 0
    BY <1>1
  <2> QED BY <2>1, <2>2
<1>5. PICK gs : gs = groups'
  OBVIOUS
<1>6. ~(Size(Running(j, gs)) >= MaxInFlight[j])
  <2>1. ~Idles(p) /\ ~GoesOn(p)
    BY Zenon, <1>2, IdleFields DEF Idles, GoesOn, Past
  <2>2. MaxInFlight[JobOf(p)] # 0
    BY <1>1, <1>4
  <2> QED BY Zenon, <1>1, <1>5, <2>1, <2>2 DEF Counts, Drops, Size
<1>7. Counted(j) \subseteq Running(j, gs)
  <2>1. \A c \in DOMAIN build : build[c].scheduled => gs[build[c].job] = SerialGroups[build[c].job]
    <3>1. \A c \in DOMAIN build : build[c].job \in Job
      BY BuildIsSeq, RecordFields DEF IInv
    <3> QED BY Zenon, <1>5, <3>1 DEF IInv, ScheduledInv, Counts
  <2>2. \A c \in DOMAIN build : build[c].status = "started" => build[c].scheduled
    BY Zenon DEF IInv, ScheduledInv
  <2> QED BY Zenon, <2>1, <2>2 DEF Counted, Running
<1>8. IsFiniteSet(Running(j, gs)) /\ IsFiniteSet(Counted(j))
  <2>1. Running(j, gs) \subseteq DOMAIN build /\ Counted(j) \subseteq DOMAIN build
    BY DEF Running, Counted
  <2> QED BY <2>1, CountedFinite
<1>9. /\ Size(Counted(j)) \in Nat /\ Size(Running(j, gs)) \in Nat
      /\ Size(Counted(j)) <= Size(Running(j, gs))
  BY <1>7, <1>8, SmallerFits
<1>10. Size(Counted(j) \cup {b}) \in Nat /\ Size(Counted(j) \cup {b}) <= Size(Counted(j)) + 1
  BY <1>8, SizeAdds
<1>11. Size(Counted(j) \cup {b}) <= MaxInFlight[j]
  BY <1>4, <1>6, <1>9, <1>10
<1>12. Current(p)' = b /\ JobOf(p)' = j /\ Counted(j)' = Counted(j)
  BY Zenon, <1>1, <1>2 DEF Current, JobOf, Walks, Counted
<1> QED BY Zenon, <1>11, <1>12 DEF Room, Counted

LEMMA StepCountInv ==
  ASSUME IInv, IInv', Apart, CountInv, [Next]_vars
  PROVE  CountInv'
<1> SUFFICES ASSUME NEW q \in Proc, proc'[q].pc \in Past, MaxInFlight[JobOf(q)'] > 0,
                    build'[Current(q)'].status = "pending"
             PROVE  Room(q)'
  BY Zenon DEF CountInv
<1>1. ASSUME proc[q].pc \in Past, proc'[q].now = proc[q].now, BuildAges
      PROVE  Room(q)'
  <2>1. proc[q].pc \in Trying
    BY <1>1 DEF Trying
  <2>2. Current(q)' = Current(q) /\ JobOf(q)' = JobOf(q)
    BY <1>1, <2>1, Tried DEF Current, JobOf, BuildAges
  <2> QED BY <1>1, <2>2, RoomKept
<1>2. CASE vars' = vars
  <2>1. BuildAges
    BY <1>2, SameAges DEF vars, IInv
  <2> QED BY <1>1, <1>2, <2>1 DEF vars
<1>3. CASE Next
  <2>1. Quiet \/ \E p \in Proc : Kinds(p)
    BY <1>3, EveryKind
  <2>2. BuildAges
    BY <2>1, KindsAge
  <2>3. CASE Quiet
    BY <1>1, <2>2, <2>3 DEF Quiet
  <2>4. ASSUME NEW p \in Proc, Kinds(p)
        PROVE  Room(q)'
    <3>1. CASE q # p
      <4>1. proc'[q] = proc[q]
        BY Zenon, <2>4, <3>1 DEF Kinds, Setup, Fills, Drops, Counts, Checks, Claims, Uses, Concludes, Breaks,
                Idles, Walks, GoesOn, Prepares, Alone
      <4> QED BY <1>1, <2>2, <4>1
    <3>2. CASE q = p
      <4>1. Walks(p)
        BY Zenon, <2>4, <3>2, IdleFields DEF Kinds, Setup, Fills, Drops, Counts, Checks, Claims, Uses, Concludes, Breaks,
                Idles, GoesOn, Prepares, Past, Trying
      <4>2. CASE proc[p].pc \in Past
        BY Zenon, <1>1, <2>2, <3>2, <4>1, <4>2 DEF Walks
      <4>3. CASE proc[p].pc = "running"
        <5>1. Counts(p)
          BY Zenon, <2>4, <3>2, <4>1, <4>3, IdleFields DEF Kinds, Setup, Fills, Drops, Checks, Claims, Uses, Concludes, Breaks,
                Idles, GoesOn, Prepares, Past, Trying
        <5>2. JobOf(p)' = JobOf(p)
          BY Zenon, <4>1, <5>1 DEF Counts, Walks, JobOf, Current
        <5> QED BY <3>2, <4>1, <5>1, <5>2, RoomFound
      <4> QED BY <4>1, <4>2, <4>3 DEF Walks, Trying
    <3> QED BY <3>1, <3>2
  <2> QED BY <2>1, <2>3, <2>4
<1> QED BY <1>2, <1>3

(* When no trigger runs beside the scheduling lock, or no two jobs share a *)
(* serial group, a build is started only while fewer builds of its serial  *)
(* groups are running than max_in_flight: between isMaxInFlightReached and *)
(* Start nobody else takes the room it found.                              *)
THEOREM LimitsKept == Apart => (Spec => MaxInFlightRespected)
<1> SUFFICES ASSUME Apart
             PROVE  Spec => MaxInFlightRespected
  OBVIOUS
<1>1. ASSUME IInv, CountInv, [Next]_vars, NEW b \in DOMAIN build,
             build[b].status # "started", build'[b].status = "started", MaxInFlight[build[b].job] > 0
      PROVE  Size(InFlight(build[b].job)) < MaxInFlight[build[b].job]
  <2>1. PICK p \in Proc : proc[p].pc = "create" /\ b = Current(p) /\ build[b].status = "pending"
    BY <1>1, StartedByConclusion
  <2>2. proc[p].pc \in Past /\ proc[p].pc \in Trying
    BY <2>1 DEF Past, Trying
  <2>3. PICK j : j = build[b].job
    OBVIOUS
  <2>4. JobOf(p) = j /\ j \in Job
    BY <1>1, <2>1, <2>2, <2>3, Tried
  <2>5. Size(Counted(j) \cup {b}) <= MaxInFlight[j]
    BY <1>1, <2>1, <2>2, <2>3, <2>4 DEF CountInv, Room
  <2>6. InFlight(j) \cup {b} \subseteq Counted(j) \cup {b}
    BY DEF InFlight, Counted
  <2>7. b \notin InFlight(j)
    BY <2>1 DEF InFlight
  <2>8. IsFiniteSet(Counted(j) \cup {b}) /\ IsFiniteSet(InFlight(j))
    <3>1. Counted(j) \cup {b} \subseteq DOMAIN build /\ InFlight(j) \subseteq DOMAIN build
      BY <1>1 DEF InFlight, Counted
    <3> QED BY <1>1, <3>1, CountedFinite
  <2>9. /\ Size(InFlight(j) \cup {b}) \in Nat /\ Size(Counted(j) \cup {b}) \in Nat
        /\ Size(InFlight(j) \cup {b}) <= Size(Counted(j) \cup {b}) /\ MaxInFlight[j] \in Nat
    BY <2>4, <2>6, <2>8, SmallerFits, SchedulerAssumption
  <2>10. Size(InFlight(j) \cup {b}) = Size(InFlight(j)) + 1 /\ Size(InFlight(j)) \in Nat
    BY Zenon, <2>7, <2>8, SizeAdds
  <2> QED BY <2>3, <2>5, <2>9, <2>10
<1>2. IInv /\ CountInv /\ [Next]_vars =>
        [\A b \in DOMAIN build :
           LET j == build[b].job IN
           (build[b].status # "started" /\ build'[b].status = "started" /\ MaxInFlight[j] > 0)
             => Size(InFlight(j)) < MaxInFlight[j]]_vars
  BY <1>1
<1>3. Init => IInv /\ CountInv
  <2>1. Init => IInv
    BY InitIInv
  <2>2. Init => CountInv
    BY IdleFields DEF Init, CountInv, Past
  <2> QED BY <2>1, <2>2
<1>4. IInv /\ CountInv /\ [Next]_vars => (IInv /\ CountInv)'
  <2>1. IInv /\ [Next]_vars => IInv'
    BY StepIInv
  <2> QED BY <2>1, StepCountInv
<1> QED BY <1>2, <1>3, <1>4, PTL DEF Spec, MaxInFlightRespected, Size

==============================================================================
