------------------------- MODULE BuildEngineProofs -------------------------
(***************************************************************************)
(* Proofs about BuildEngine, for any ATCs, builds and bounds.              *)
(*                                                                         *)
(* A step does at most one query on a build and moves at most one process  *)
(* (or ends those of one ATC). The proofs follow that cut: BuildStep says  *)
(* what a query may do to the builds, LockStep what a step may do to the   *)
(* processes and their locks, and NextShape shows that every action does   *)
(* both. The theorems then follow from BuildStep and LockStep alone.       *)
(***************************************************************************)
EXTENDS BuildEngine, TLAPS

-----------------------------------------------------------------------------
(* The builds.                                                             *)
BuildType ==
  /\ status \in [Build -> Status]
  /\ completed \in [Build -> BOOLEAN]
  /\ engine \in [Build -> Engine]
  /\ stream \in [Build -> Seq(Event)]

(* What keeps StreamWellFormed inductive: nothing was written before a     *)
(* build starts, and an active build is not completed.                     *)
ActiveInv ==
  \A b \in Build :
    /\ status[b] = "pending" => stream[b] = <<>> /\ engine[b] = ""
    /\ status[b] \in Active \cup {"gone"} => ~completed[b]

BuildInv == BuildType /\ ActiveInv /\ StreamWellFormed /\ StatusExplained

(* The matrices of the two action properties.                              *)
FinalStep ==
  \A b \in Build : completed[b] =>
    status'[b] = "gone" \/ (completed'[b] /\ stream'[b] = stream[b])
AbortedStep == \A b \in Build : status[b] = "aborted" => status'[b] \notin Active

PendingStep == \A b \in Build : status'[b] = "pending" => status[b] = "pending"

BuildStep == BuildInv' /\ FinalStep /\ AbortedStep /\ PendingStep

USE DEF Terminal, Outcome, Active

LEMMA BuildsStutter ==
  ASSUME BuildInv, UNCHANGED buildVars
  PROVE  BuildStep
BY Zenon DEF BuildInv, BuildType, ActiveInv, StreamWellFormed, StatusExplained, BuildStep,
   FinalStep, AbortedStep, PendingStep, buildVars

(* What appending an event to a stream that has no terminal event does.    *)
LEMMA AppendEvent ==
  ASSUME NEW s \in Seq(Event), NEW e \in Event
  PROVE  /\ Append(s, e) \in Seq(Event)
         /\ Len(Append(s, e)) = Len(s) + 1
         /\ Append(s, e)[Len(s) + 1] = e
         /\ \A i \in 1..Len(s) : Append(s, e)[i] = s[i]
         /\ Len(s) \in Nat
         /\ Append(s, e) # <<>>
OBVIOUS

(* A step that changes build b only, and appends at most one event to it:  *)
(* BuildInv is kept if what it claims of b is.                             *)
Extends(b, e) ==
  /\ \A c \in Build \ {b} :
       /\ status'[c] = status[c] /\ completed'[c] = completed[c]
       /\ engine'[c] = engine[c] /\ stream'[c] = stream[c]
  /\ stream'[b] = Append(stream[b], e)
  /\ status[b] # "gone" /\ ~completed[b]
  /\ e = "started" => stream[b] = <<>>
  /\ status'[b] = "pending" => FALSE
  /\ IF e \in Terminal
     THEN completed'[b] /\ status'[b] = e
     ELSE ~completed'[b] /\ status'[b] # "gone"
  /\ status'[b] \in Active => status[b] # "aborted"

LEMMA ExtendsStep ==
  ASSUME BuildInv, BuildType', NEW b \in Build, NEW e \in Event, Extends(b, e)
  PROVE  BuildStep
<1> stream[b] \in Seq(Event)
  BY DEF BuildInv, BuildType
<1>1. /\ stream'[b] = Append(stream[b], e)
      /\ Len(stream'[b]) = Len(stream[b]) + 1 /\ Len(stream[b]) \in Nat
      /\ stream'[b][Len(stream[b]) + 1] = e
      /\ \A i \in 1..Len(stream[b]) : stream'[b][i] = stream[b][i]
      /\ stream'[b] # <<>>
  BY AppendEvent DEF Extends
<1>2. ActiveInv'
  BY Zenon DEF BuildInv, ActiveInv, Extends, Event
<1>3. StreamWellFormed'
  <2> SUFFICES ASSUME NEW c \in Build, NEW i \in 1..Len(stream'[c])
               PROVE  /\ stream'[c][i] \in Terminal => completed'[c] /\ i = Len(stream'[c])
                      /\ completed'[c] /\ i = Len(stream'[c]) => stream'[c][i] \in Terminal
                      /\ stream'[c][i] = "started" => i = 1
    BY DEF StreamWellFormed
  <2>1. CASE c # b
    BY <2>1 DEF BuildInv, StreamWellFormed, Extends
  <2>2. CASE c = b /\ i = Len(stream[b]) + 1
    <3>1. stream[b] = <<>> => Len(stream[b]) = 0
      OBVIOUS
    <3> QED BY <1>1, <2>2, <3>1 DEF Extends, Event
  <2>3. CASE c = b /\ i \in 1..Len(stream[b])
    <3>1. stream[b][i] \notin Terminal /\ (stream[b][i] = "started" => i = 1)
      BY <2>3 DEF BuildInv, StreamWellFormed, Extends
    <3> QED BY <1>1, <2>3, <3>1
  <2> QED BY <1>1, <2>1, <2>2, <2>3
<1>4. StatusExplained'
  <2> SUFFICES ASSUME NEW c \in Build, completed'[c]
               PROVE  stream'[c] # <<>> /\ status'[c] \in {stream'[c][Len(stream'[c])], "aborted"}
    BY DEF StatusExplained
  <2>1. CASE c # b
    BY <2>1 DEF BuildInv, StatusExplained, Extends
  <2>2. CASE c = b
    BY <1>1, <2>2 DEF Extends
  <2> QED BY <2>1, <2>2
<1>5. FinalStep /\ AbortedStep /\ PendingStep
  BY DEF Extends, FinalStep, AbortedStep, PendingStep
<1> QED BY <1>2, <1>3, <1>4, <1>5 DEF BuildStep, BuildInv

(* SaveEvent of anything but a status event keeps the stream well formed.  *)
LEMMA SaveEventStep ==
  ASSUME BuildInv, NEW b \in Build, NEW e \in {"error", "log"}, status[b] # "pending",
         SaveEvent(b, e)
  PROVE  BuildStep
<1>1. CASE ~Saves(b)
  BY <1>1, BuildsStutter, Zenon DEF SaveEvent, buildVars
<1>2. CASE Saves(b)
  <2>1. e \in Event /\ stream[b] \in Seq(Event)
    BY DEF Event, BuildInv, BuildType
  <2>2. BuildType'
    BY <1>2, <2>1, AppendEvent DEF SaveEvent, BuildInv, BuildType
  <2>3. Extends(b, e)
    BY <1>2, <2>1 DEF SaveEvent, Saves, BuildInv, BuildType, Extends
  <2> QED BY <2>1, <2>2, <2>3, ExtendsStep
<1> QED BY <1>1, <1>2

(* Finish appends the one terminal event, or changes nothing.              *)
LEMMA FinishStep ==
  ASSUME BuildInv, NEW b \in Build, NEW s \in Terminal, Finish(b, s)
  PROVE  BuildStep
<1>1. CASE ~Saves(b)
  BY <1>1, BuildsStutter DEF Finish
<1>2. CASE Saves(b)
  <2>1. s \in Event /\ s \in Status /\ stream[b] \in Seq(Event)
    BY DEF Event, Status, BuildInv, BuildType
  <2>a. Append(stream[b], s) \in Seq(Event)
    BY <2>1, AppendEvent
  <2>2. BuildType'
    <3>1. status' \in [Build -> Status] /\ stream' \in [Build -> Seq(Event)] /\ engine' = engine
      BY Zenon, <1>2, <2>1, <2>a DEF Finish, BuildInv, BuildType
    <3>2. completed' \in [Build -> BOOLEAN]
      BY <1>2, Zenon DEF Finish, BuildInv, BuildType
    <3> QED BY <3>1, <3>2, Zenon DEF BuildInv, BuildType
  <2>3. Extends(b, s)
    BY <1>2, <2>1 DEF Finish, Saves, BuildInv, BuildType, Extends
  <2> QED BY <2>1, <2>2, <2>3, ExtendsStep
<1> QED BY <1>1, <1>2

(* Start writes the first event of a build.                                *)
LEMMA StartTxStep ==
  ASSUME BuildInv, NEW b \in Build, StartTx(b)
  PROVE  BuildStep
<1>1. "started" \in Event /\ "started" \in Status /\ "exec.v2" \in Engine /\ stream[b] \in Seq(Event)
  BY Zenon DEF Event, Status, Engine, BuildInv, BuildType
<1>2. BuildType'
  BY <1>1, AppendEvent DEF StartTx, BuildInv, BuildType
<1>3. Extends(b, "started")
  BY Zenon, <1>1 DEF StartTx, BuildInv, BuildType, ActiveInv, Extends
<1> QED BY <1>1, <1>2, <1>3, ExtendsStep

LEMMA MarkStep ==
  ASSUME BuildInv, NEW b \in Build, MarkAsAborted(b)
  PROVE  BuildStep
<1>1. BuildType'
  BY DEF MarkAsAborted, BuildInv, BuildType, Status
<1>2. ActiveInv'
  BY Zenon DEF MarkAsAborted, BuildInv, BuildType, ActiveInv
<1>3. StreamWellFormed'
  BY DEF MarkAsAborted, BuildInv, StreamWellFormed
<1>4. StatusExplained'
  BY DEF MarkAsAborted, BuildInv, BuildType, StatusExplained
<1>5. FinalStep /\ AbortedStep /\ PendingStep
  BY DEF MarkAsAborted, BuildInv, BuildType, FinalStep, AbortedStep, PendingStep
<1> QED BY <1>1, <1>2, <1>3, <1>4, <1>5 DEF BuildStep, BuildInv

LEMMA DestroyStep ==
  ASSUME BuildInv, NEW b \in Build, Destroy(b)
  PROVE  BuildStep
<1>1. <<>> \in Seq(Event) /\ Len(<<>>) = 0 /\ "gone" \in Status /\ "" \in Engine
  BY DEF Status, Engine
<1>2. BuildType'
  BY Zenon, <1>1 DEF Destroy, BuildInv, BuildType
<1>3. ActiveInv'
  BY Zenon DEF Destroy, BuildInv, BuildType, ActiveInv
<1>4. StreamWellFormed'
  <2> SUFFICES ASSUME NEW c \in Build, NEW i \in 1..Len(stream'[c])
               PROVE  /\ stream'[c][i] \in Terminal => completed'[c] /\ i = Len(stream'[c])
                      /\ completed'[c] /\ i = Len(stream'[c]) => stream'[c][i] \in Terminal
                      /\ stream'[c][i] = "started" => i = 1
    BY DEF StreamWellFormed
  <2>1. c # b
    <3>1. CASE c = b
      <4>1. stream'[b] = <<>> BY Zenon DEF Destroy, BuildInv, BuildType
      <4>2. i \in 1..0 BY <3>1, <4>1, <1>1, Zenon
      <4> QED BY <4>2
    <3> QED BY <3>1
  <2>2. stream'[c] = stream[c] /\ completed'[c] = completed[c]
    BY <2>1, Zenon DEF Destroy, BuildInv, BuildType
  <2> QED BY <2>2 DEF BuildInv, StreamWellFormed
<1>5. StatusExplained'
  BY Zenon DEF Destroy, BuildInv, BuildType, StatusExplained
<1>6. FinalStep /\ AbortedStep /\ PendingStep
  BY Zenon DEF Destroy, BuildInv, BuildType, FinalStep, AbortedStep, PendingStep
<1> QED BY <1>2, <1>3, <1>4, <1>5, <1>6 DEF BuildStep, BuildInv

-----------------------------------------------------------------------------
(* The processes and their locks.                                          *)
ProcType ==
  /\ pc \in [Proc -> PC]
  /\ lost \in SUBSET Proc
  /\ draining \in SUBSET ATC
  /\ requests \in 0..MaxRequests /\ faults \in 0..MaxFaults /\ drains \in 0..MaxDrains

(* Of two processes that think they have the lock of a build, one lost it, *)
(* and they are in different ATCs.                                         *)
ExclusiveInv ==
  /\ \A p \in lost : Holding(p)
  /\ \A p, q \in Proc :
       (p # q /\ p[3] = q[3] /\ Holding(p) /\ Holding(q))
         => (p[1] # q[1] /\ (p \in lost \/ q \in lost))

(* Only a build that was started is tracked.                               *)
TrackInv == \A p \in Proc : Tracking(p) => status[p[3]] # "pending"

LockInv == ProcType /\ ExclusiveInv

IInv == BuildInv /\ LockInv /\ TrackInv

(* What a step may do to the locks.                                        *)
Keeps == lost' = lost /\ \A p \in Proc : (pc'[p] \in LockedPC) = (pc[p] \in LockedPC)

Takes(p) ==
  /\ ~Holding(p)
  /\ pc' = [pc EXCEPT ![p] = "locked"]
  /\ \A q \in Rivals(p) : q[1] # p[1]
  /\ (Rivals(p) \subseteq lost /\ lost' = lost) \/ lost' = lost \cup {p}

Drops(p) == Holding(p) /\ pc' = [pc EXCEPT ![p] = "idle"] /\ lost' = lost \ {p}

Loses(p) == Holding(p) /\ pc' = pc /\ lost' = lost \cup {p}

Ends(a) ==
  /\ pc' = [p \in Proc |-> IF p[1] = a THEN "idle" ELSE pc[p]]
  /\ lost' = {p \in lost : p[1] # a}

LockStep ==
  \/ Keeps
  \/ \E p \in Proc : Takes(p) \/ Drops(p) \/ Loses(p)
  \/ \E a \in ATC : Ends(a)

(* A process begins to track only what it saw started.                     *)
TrackStep == \A p \in Proc : pc'[p] \in {"running", "killed"} => status[p[3]] # "pending"

StepShape == BuildStep /\ LockStep /\ ProcType' /\ TrackStep

LEMMA FaultType ==
  ASSUME ProcType, Fault \/ UNCHANGED bounds
  PROVE  requests' \in 0..MaxRequests /\ faults' \in 0..MaxFaults /\ drains' \in 0..MaxDrains
BY EngineBounds DEF ProcType, Fault, bounds

(* A process moves without taking or leaving the lock.                     *)
LEMMA GotoKeeps ==
  ASSUME IInv, NEW p \in Proc, NEW l \in PC, Goto(p, l),
         (l \in LockedPC) = (pc[p] \in LockedPC),
         l \in {"running", "killed"} => status[p[3]] # "pending",
         UNCHANGED <<lost, draining>>, Fault \/ UNCHANGED bounds
  PROVE  LockStep /\ ProcType' /\ TrackStep
<1>1. pc' \in [Proc -> PC] /\ pc'[p] = l /\ \A q \in Proc \ {p} : pc'[q] = pc[q]
  BY DEF IInv, LockInv, ProcType, Goto
<1>2. ProcType'
  BY <1>1, FaultType DEF IInv, LockInv, ProcType
<1>3. Keeps
  BY <1>1, Zenon DEF Keeps
<1>4. TrackStep
  BY <1>1 DEF IInv, TrackInv, TrackStep, Tracking
<1> QED BY <1>2, <1>3, <1>4 DEF LockStep

(* Acquire, and the move to the locked section.                            *)
LEMMA AcquireTakes ==
  ASSUME IInv, NEW p \in Proc, ~Holding(p), Acquire(p), Goto(p, "locked"), UNCHANGED draining
  PROVE  LockStep /\ ProcType' /\ TrackStep
<1>1. pc' \in [Proc -> PC] /\ pc'[p] = "locked" /\ \A q \in Proc \ {p} : pc'[q] = pc[q]
  BY DEF IInv, LockInv, ProcType, Goto, PC, LockedPC
<1>2. Fault \/ UNCHANGED bounds
  BY DEF Acquire
<1>3. lost' \in SUBSET Proc
  BY DEF Acquire, IInv, LockInv, ProcType
<1>4. ProcType'
  BY <1>1, <1>2, <1>3, FaultType DEF IInv, LockInv, ProcType
<1>5. Takes(p)
  BY DEF Takes, Acquire, Goto
<1>6. TrackStep
  BY <1>1 DEF IInv, TrackInv, TrackStep, Tracking
<1> QED BY <1>4, <1>5, <1>6 DEF LockStep

(* The end of a process.                                                   *)
LEMMA EndProcessEnds ==
  ASSUME IInv, NEW a \in ATC, EndProcess(a), Fault \/ UNCHANGED bounds
  PROVE  StepShape
<1>1. "idle" \in PC
  BY DEF PC
<1>2. /\ pc' \in [Proc -> PC] /\ lost' \in SUBSET Proc /\ draining' \in SUBSET ATC
      /\ \A p \in Proc : pc'[p] \in {"idle", pc[p]}
  BY <1>1 DEF EndProcess, IInv, LockInv, ProcType
<1>3. ProcType'
  BY <1>2, FaultType DEF IInv, LockInv, ProcType
<1>4. Ends(a)
  BY DEF EndProcess, Ends
<1>5. TrackStep
  BY <1>2 DEF IInv, TrackInv, TrackStep, Tracking
<1>6. BuildStep
  BY BuildsStutter DEF EndProcess, IInv
<1> QED BY <1>3, <1>4, <1>5, <1>6 DEF LockStep, StepShape

-----------------------------------------------------------------------------
(* One lemma per group of actions: each has the shape.                     *)
LEMMA ProcFacts ==
  ASSUME NEW a \in ATC, NEW b \in Build
  PROVE  /\ <<a, "start", b>> \in Proc /\ <<a, "track", b>> \in Proc /\ <<a, "abort", b>> \in Proc
         /\ <<a, "start", b>>[3] = b /\ <<a, "track", b>>[3] = b /\ <<a, "abort", b>>[3] = b
         /\ <<a, "start", b>> # <<a, "track", b>>
BY DEF Proc, Kind

LEMMA StartShape ==
  ASSUME IInv, NEW a \in ATC, NEW b \in Build, Start(a, b) \/ Track(a, b)
  PROVE  StepShape
<1> DEFINE p == <<a, "start", b>>
           t == <<a, "track", b>>
<1>p. p \in Proc /\ t \in Proc /\ p # t
  BY Zenon, ProcFacts
<1>pc. pc[p] \in PC /\ pc[t] \in PC
  BY <1>p DEF IInv, LockInv, ProcType
<1>t. BuildInv
  BY DEF IInv
<1>l. /\ "idle" \in PC /\ "loaded" \in PC /\ "spawned" \in PC
      /\ "idle" \notin LockedPC /\ "loaded" \notin LockedPC /\ "spawned" \notin LockedPC
  BY DEF PC, LockedPC
<1> HIDE DEF p, t
<1>1. CASE LoadPending(a, b)
  <2>1. BuildStep
    BY <1>1, <1>t, BuildsStutter DEF LoadPending
  <2>2. pc[p] = "idle" /\ Goto(p, "loaded") /\ UNCHANGED <<lost, draining>> /\ UNCHANGED bounds
    BY <1>1 DEF LoadPending, p
  <2> QED BY <2>1, <2>2, <1>p, <1>l, GotoKeeps DEF StepShape
<1>2. CASE CreateBuild(a, b)
  <2>a. pc[p] = "loaded" /\ UNCHANGED <<lost, draining>> /\ (Fault \/ UNCHANGED bounds)
    BY <1>2 DEF CreateBuild, QueryFails, p
  <2>1. BuildStep
    <3>1. StartTx(b) \/ UNCHANGED buildVars
      BY <1>2 DEF CreateBuild, QueryFails
    <3> QED BY <3>1, <1>t, StartTxStep, BuildsStutter
  <2>2. CASE Goto(p, "idle")
    BY <2>a, <2>1, <2>2, <1>p, <1>l, GotoKeeps DEF StepShape
  <2>3. CASE pc' = [pc EXCEPT ![p] = "idle", ![t] = IF @ = "idle" THEN "spawned" ELSE @]
    <3>1. /\ pc' \in [Proc -> PC] /\ pc'[p] = "idle"
          /\ pc'[t] = IF pc[t] = "idle" THEN "spawned" ELSE pc[t]
          /\ \A q \in Proc \ {p, t} : pc'[q] = pc[q]
      BY <2>3, <1>p, <1>pc, <1>l DEF IInv, LockInv, ProcType
    <3>2. ProcType'
      BY <2>a, <3>1, FaultType DEF IInv, LockInv, ProcType
    <3>3. Keeps
      <4> SUFFICES ASSUME NEW q \in Proc PROVE (pc'[q] \in LockedPC) = (pc[q] \in LockedPC)
        BY <2>a DEF Keeps
      <4> QED BY <2>a, <3>1, <1>l, <1>p
    <3>4. TrackStep
      BY <3>1, <1>p DEF IInv, TrackInv, TrackStep, Tracking
    <3> QED BY <2>1, <3>2, <3>3, <3>4 DEF LockStep, StepShape
  <2> QED BY <1>2, <2>2, <2>3 DEF CreateBuild, p, t
<1>3. CASE PlanFails(a, b)
  <2>1. BuildStep
    <3>1. Finish(b, "errored") \/ UNCHANGED buildVars
      BY <1>3 DEF PlanFails, QueryFails
    <3> QED BY <3>1, <1>t, FinishStep, BuildsStutter
  <2>2. /\ pc[p] = "loaded" /\ Goto(p, "idle") /\ UNCHANGED <<lost, draining>>
        /\ Fault \/ UNCHANGED bounds
    BY <1>3 DEF PlanFails, QueryFails, p
  <2> QED BY <2>1, <2>2, <1>p, <1>l, GotoKeeps DEF StepShape
<1>4. CASE Track(a, b)
  <2>1. BuildStep
    BY <1>4, <1>t, BuildsStutter DEF Track
  <2>2. pc[t] = "idle" /\ Goto(t, "spawned") /\ UNCHANGED <<lost, draining>> /\ UNCHANGED bounds
    BY <1>4 DEF Track, t
  <2> QED BY <2>1, <2>2, <1>p, <1>l, GotoKeeps DEF StepShape
<1> QED BY <1>1, <1>2, <1>3, <1>4 DEF Start

LEMMA ResumeShape ==
  ASSUME IInv, NEW a \in ATC, NEW b \in Build, Resume(a, b)
  PROVE  StepShape
<1> DEFINE t == <<a, "track", b>>
<1>t. t \in Proc /\ t[3] = b /\ BuildInv
  BY Zenon, ProcFacts DEF IInv
<1>l. /\ {"locked", "running", "erring", "done"} \subseteq PC \cap LockedPC
      /\ "idle" \in PC /\ "idle" \notin LockedPC /\ "spawned" \notin LockedPC
  BY DEF PC, LockedPC
<1> HIDE DEF t
<1>1. CASE ResumeLock(a, b)
  <2>1. BuildStep
    BY <1>1, <1>t, BuildsStutter DEF ResumeLock, QueryFails
  <2>2. pc[t] = "spawned" /\ UNCHANGED draining
    BY <1>1 DEF ResumeLock, t
  <2>3. CASE Acquire(t) /\ Goto(t, "locked")
    BY <2>1, <2>2, <2>3, <1>t, <1>l, AcquireTakes DEF Holding, StepShape
  <2>4. CASE Goto(t, "idle") /\ UNCHANGED lost /\ (Fault \/ UNCHANGED bounds)
    BY <2>1, <2>2, <2>4, <1>t, <1>l, GotoKeeps DEF StepShape
  <2> QED BY <1>1, <2>3, <2>4 DEF ResumeLock, QueryFails, t
<1>2. CASE ResumeCheck(a, b)
  <2>1. pc[t] = "locked" /\ UNCHANGED <<lost, draining>> /\ (Fault \/ UNCHANGED bounds)
    BY Zenon, <1>2 DEF ResumeCheck, QueryFails, t
  <2>2. CASE UNCHANGED buildVars /\ Goto(t, "done")
    <3>1. BuildStep
      BY <2>2, <1>t, BuildsStutter
    <3> QED BY <2>1, <2>2, <3>1, <1>t, <1>l, GotoKeeps DEF StepShape
  <2>3. CASE engine[b] # "" /\ UNCHANGED buildVars /\ Goto(t, "running")
    <3>1. BuildStep
      BY Zenon, <2>3, <1>t, BuildsStutter
    <3>2. status[b] # "pending"
      BY Zenon, <2>3, <1>t DEF BuildInv, ActiveInv
    <3> QED BY Zenon, <2>1, <2>3, <3>1, <3>2, <1>t, <1>l, GotoKeeps DEF StepShape
  <2>4. CASE engine[b] # "" /\ SaveEvent(b, "error") /\ Goto(t, "erring")
    <3>1. status[b] # "pending"
      BY Zenon, <2>4, <1>t DEF BuildInv, ActiveInv
    <3>2. BuildStep
      BY Zenon, <2>4, <3>1, <1>t, SaveEventStep
    <3> QED BY Zenon, <2>1, <2>4, <3>2, <1>t, <1>l, GotoKeeps DEF StepShape
  <2> QED BY Zenon, <1>2, <2>2, <2>3, <2>4 DEF ResumeCheck, QueryFails, t
<1>3. CASE FinishError(a, b)
  <2>1. BuildStep
    <3>1. Finish(b, "errored") \/ UNCHANGED buildVars
      BY <1>3 DEF FinishError, QueryFails
    <3> QED BY <3>1, <1>t, FinishStep, BuildsStutter
  <2>2. /\ pc[t] = "erring" /\ Goto(t, "done") /\ UNCHANGED <<lost, draining>>
        /\ Fault \/ UNCHANGED bounds
    BY <1>3 DEF FinishError, QueryFails, t
  <2> QED BY <2>1, <2>2, <1>t, <1>l, GotoKeeps DEF StepShape
<1> QED BY <1>1, <1>2, <1>3 DEF Resume

LEMMA RunShape ==
  ASSUME IInv, NEW a \in ATC, NEW b \in Build,
         \/ Log(a, b) \/ AbortSeen(a, b) \/ ExitOnRelease(a, b)
         \/ \E s \in Terminal : Exit(a, b, s)
  PROVE  StepShape
<1> DEFINE t == <<a, "track", b>>
<1>t. t \in Proc /\ t[3] = b /\ BuildInv
  BY Zenon, ProcFacts DEF IInv
<1>s. Tracking(t) => status[b] # "pending"
  BY <1>t DEF IInv, TrackInv
<1>l. {"running", "killed", "done"} \subseteq PC \cap LockedPC
  BY DEF PC, LockedPC
<1> HIDE DEF t
<1>1. CASE Log(a, b)
  <2>1. BuildStep
    BY <1>1, <1>t, <1>s, SaveEventStep DEF Log, t
  <2>2. UNCHANGED <<pc, lost, draining, bounds>>
    BY <1>1 DEF Log
  <2>3. Keeps /\ ProcType' /\ TrackStep
    BY <2>2, Zenon DEF Keeps, IInv, LockInv, ProcType, TrackInv, TrackStep, Tracking, bounds
  <2> QED BY <2>1, <2>3 DEF LockStep, StepShape
<1>2. CASE AbortSeen(a, b)
  <2>1. BuildStep
    BY <1>2, <1>t, BuildsStutter DEF AbortSeen
  <2>2. /\ pc[t] = "running" /\ status[b] # "pending" /\ Goto(t, "killed")
        /\ UNCHANGED <<lost, draining>> /\ UNCHANGED bounds
    BY <1>2 DEF AbortSeen, t
  <2> QED BY <2>1, <2>2, <1>t, <1>l, GotoKeeps DEF StepShape
<1>3. CASE ExitOnRelease(a, b)
  <2>1. BuildStep
    BY <1>3, <1>t, BuildsStutter DEF ExitOnRelease
  <2>2. /\ pc[t] \in {"running", "killed"} /\ Goto(t, "done")
        /\ UNCHANGED <<lost, draining>> /\ UNCHANGED bounds
    BY <1>3 DEF ExitOnRelease, Tracking, t
  <2> QED BY <2>1, <2>2, <1>t, <1>l, GotoKeeps DEF StepShape
<1>4. ASSUME NEW s \in Terminal, Exit(a, b, s) PROVE StepShape
  <2>1. BuildStep
    <3>1. Finish(b, s) \/ UNCHANGED buildVars
      BY <1>4 DEF Exit, QueryFails
    <3> QED BY <3>1, <1>t, FinishStep, BuildsStutter
  <2>2. /\ pc[t] \in {"running", "killed"} /\ Goto(t, "done")
        /\ UNCHANGED <<lost, draining>> /\ (Fault \/ UNCHANGED bounds)
    BY <1>4 DEF Exit, QueryFails, Tracking, t
  <2> QED BY <2>1, <2>2, <1>t, <1>l, GotoKeeps DEF StepShape
<1> QED BY <1>1, <1>2, <1>3, <1>4

LEMMA AbortShape ==
  ASSUME IInv, NEW a \in ATC, NEW b \in Build, AbortBuild(a, b) \/ Abort(a, b)
  PROVE  StepShape
<1> DEFINE p == <<a, "abort", b>>
<1>t. p \in Proc /\ p[3] = b /\ BuildInv
  BY Zenon, ProcFacts DEF IInv
<1>l. /\ {"locked", "marked", "done"} \subseteq PC \cap LockedPC
      /\ {"idle", "spawned", "refused"} \subseteq PC \ LockedPC
  BY DEF PC, LockedPC
<1> HIDE DEF p
<1>1. CASE AbortBuild(a, b)
  <2>1. BuildStep
    BY <1>1, <1>t, BuildsStutter DEF AbortBuild
  <2>2. /\ pc[p] = "idle" /\ Goto(p, "spawned") /\ UNCHANGED <<lost, draining>>
        /\ requests < MaxRequests /\ requests' = requests + 1
        /\ UNCHANGED <<faults, drains>>
    BY <1>1 DEF AbortBuild, p
  <2>3. pc' \in [Proc -> PC] /\ pc'[p] = "spawned" /\ \A q \in Proc \ {p} : pc'[q] = pc[q]
    BY <2>2, <1>t, <1>l DEF IInv, LockInv, ProcType, Goto
  <2>4. ProcType'
    BY <2>2, <2>3, EngineBounds DEF IInv, LockInv, ProcType
  <2>5. Keeps
    <3>1. pc[p] \notin LockedPC /\ pc'[p] \notin LockedPC
      BY <2>2, <2>3, <1>l
    <3>2. \A q \in Proc : (pc'[q] \in LockedPC) = (pc[q] \in LockedPC)
      BY <2>3, <3>1
    <3> QED BY <2>2, <3>2 DEF Keeps
  <2>6. TrackStep
    BY <2>3 DEF IInv, TrackInv, TrackStep, Tracking
  <2> QED BY <2>1, <2>4, <2>5, <2>6 DEF LockStep, StepShape
<1>2. CASE AbortLock(a, b)
  <2>1. BuildStep
    BY <1>2, <1>t, BuildsStutter DEF AbortLock, QueryFails
  <2>2. pc[p] = "spawned" /\ UNCHANGED draining
    BY <1>2 DEF AbortLock, p
  <2>3. CASE Acquire(p) /\ Goto(p, "locked")
    BY <2>1, <2>2, <2>3, <1>t, <1>l, AcquireTakes DEF Holding, StepShape
  <2>4. ASSUME NEW l \in {"idle", "refused"}, Goto(p, l), UNCHANGED lost, Fault \/ UNCHANGED bounds
        PROVE  StepShape
    BY <2>1, <2>2, <2>4, <1>t, <1>l, GotoKeeps DEF StepShape
  <2> QED BY <1>2, <2>3, <2>4 DEF AbortLock, QueryFails, p
<1>3. CASE AbortMark(a, b)
  <2>1. BuildStep
    <3>1. MarkAsAborted(b) \/ UNCHANGED buildVars
      BY <1>3 DEF AbortMark, QueryFails
    <3> QED BY <3>1, <1>t, MarkStep, BuildsStutter
  <2>2. UNCHANGED <<lost, draining>> /\ (Fault \/ UNCHANGED bounds)
    BY <1>3 DEF AbortMark, QueryFails
  <2>3. \/ pc[p] = "refused" /\ Goto(p, "idle")
        \/ pc[p] = "locked" /\ (Goto(p, "marked") \/ Goto(p, "done"))
    BY <1>3 DEF AbortMark, p
  <2> QED BY <2>1, <2>2, <2>3, <1>t, <1>l, GotoKeeps DEF StepShape
<1>4. CASE AbortAct(a, b)
  <2>1. BuildStep
    <3>1. Finish(b, "aborted") \/ UNCHANGED buildVars
      BY Zenon, <1>4 DEF AbortAct, QueryFails
    <3> QED BY <3>1, <1>t, FinishStep, BuildsStutter
  <2>2. /\ pc[p] = "marked" /\ Goto(p, "done") /\ UNCHANGED <<lost, draining>>
        /\ Fault \/ UNCHANGED bounds
    BY Zenon, <1>4 DEF AbortAct, QueryFails, p
  <2> QED BY <2>1, <2>2, <1>t, <1>l, GotoKeeps DEF StepShape
<1> QED BY <1>1, <1>2, <1>3, <1>4 DEF Abort

LEMMA OtherShape ==
  ASSUME IInv,
         \/ \E p \in Proc : Release(p) \/ LoseLock(p)
         \/ \E b \in Build : Destroy(b)
         \/ \E a \in ATC : Crash(a) \/ ReleaseAll(a) \/ Drained(a)
  PROVE  StepShape
<1>t. BuildInv /\ ProcType /\ TrackInv
  BY DEF IInv, LockInv
<1>1. ASSUME NEW p \in Proc, Release(p) PROVE StepShape
  <2>1. BuildStep
    BY <1>1, <1>t, BuildsStutter DEF Release
  <2>2. pc' \in [Proc -> PC] /\ pc'[p] = "idle" /\ \A q \in Proc \ {p} : pc'[q] = pc[q]
    BY <1>1, <1>t DEF ProcType, Release, Goto, PC
  <2>3. ProcType'
    BY <1>1, <2>2, <1>t, FaultType DEF ProcType, Release
  <2>4. Drops(p)
    BY <1>1 DEF Release, Drops, Goto, Holding, LockedPC
  <2>5. TrackStep
    BY <2>2, <1>t DEF TrackInv, TrackStep, Tracking
  <2> QED BY <2>1, <2>3, <2>4, <2>5 DEF LockStep, StepShape
<1>2. ASSUME NEW p \in Proc, LoseLock(p) PROVE StepShape
  <2>1. BuildStep
    BY <1>2, <1>t, BuildsStutter DEF LoseLock
  <2>2. pc' = pc /\ Loses(p) /\ draining' = draining /\ Fault
    BY <1>2 DEF LoseLock, Loses
  <2>3. ProcType'
    BY <1>2, <2>2, <1>t, FaultType DEF ProcType, Loses
  <2>4. TrackStep
    BY <2>2, <1>t DEF TrackInv, TrackStep, Tracking
  <2> QED BY <2>1, <2>2, <2>3, <2>4 DEF LockStep, StepShape
<1>3. ASSUME UNCHANGED <<pc, lost>> PROVE Keeps /\ TrackStep
  BY <1>3, <1>t, Zenon DEF Keeps, TrackInv, TrackStep, Tracking
<1>4. ASSUME NEW b \in Build, Destroy(b) PROVE StepShape
  <2>1. UNCHANGED <<pc, lost, draining, bounds>>
    BY Zenon, <1>4 DEF Destroy
  <2>2. ProcType'
    BY <2>1, <1>t, FaultType DEF ProcType
  <2> QED BY <1>4, <1>t, <1>3, <2>1, <2>2, DestroyStep DEF LockStep, StepShape
<1>5. ASSUME NEW a \in ATC, ReleaseAll(a) PROVE StepShape
  <2>1. BuildStep
    BY <1>5, <1>t, BuildsStutter DEF ReleaseAll
  <2>2. ProcType'
    BY <1>5, <1>t, EngineBounds DEF ReleaseAll, ProcType
  <2> QED BY <1>5, <1>3, <2>1, <2>2 DEF ReleaseAll, LockStep, StepShape
<1>6. ASSUME NEW a \in ATC, Crash(a) \/ Drained(a) PROVE StepShape
  BY <1>6, EndProcessEnds DEF Crash, Drained
<1> QED BY <1>1, <1>2, <1>4, <1>5, <1>6

LEMMA NextShape ==
  ASSUME IInv, Next
  PROVE  StepShape
BY StartShape, ResumeShape, RunShape, AbortShape, OtherShape DEF Next

-----------------------------------------------------------------------------
(* Taking and losing locks by LockStep keeps them exclusive.               *)
LEMMA LockStepExclusive ==
  ASSUME IInv, ProcType', LockStep
  PROVE  ExclusiveInv'
<1> DEFINE H(p) == pc[p] \in LockedPC
<1>0. /\ \A p \in lost : H(p)
      /\ \A p, q \in Proc : (p # q /\ p[3] = q[3] /\ H(p) /\ H(q))
                              => (p[1] # q[1] /\ (p \in lost \/ q \in lost))
      /\ pc \in [Proc -> PC] /\ lost \subseteq Proc
  BY DEF IInv, LockInv, ProcType, ExclusiveInv, Holding
<1>1. CASE Keeps
  <2>1. /\ \A p \in lost' : pc'[p] \in LockedPC
        /\ \A p, q \in Proc : (p # q /\ p[3] = q[3] /\ pc'[p] \in LockedPC /\ pc'[q] \in LockedPC)
                              => (p[1] # q[1] /\ (p \in lost' \/ q \in lost'))
    BY <1>0, <1>1 DEF Keeps
  <2> QED BY <2>1 DEF ExclusiveInv, Holding
<1>2. ASSUME NEW t \in Proc, Takes(t) PROVE ExclusiveInv'
  <2>1. pc'[t] = "locked" /\ \A q \in Proc \ {t} : pc'[q] = pc[q]
    BY <1>0, <1>2 DEF Takes
  <2>2. /\ \A q \in Proc : (q[3] = t[3] /\ H(q)) => q[1] # t[1]
        /\ (lost' = lost /\ \A q \in Proc : (q[3] = t[3] /\ H(q)) => q \in lost) \/ lost' = lost \cup {t}
    BY <1>2 DEF Takes, Rivals, Holding
  <2>3. "locked" \in LockedPC
    BY DEF LockedPC
  <2>4. \A p \in lost' : pc'[p] \in LockedPC
    BY <1>0, <2>1, <2>2, <2>3
  <2>5. ASSUME NEW p \in Proc, NEW q \in Proc, p # q, p[3] = q[3],
               pc'[p] \in LockedPC, pc'[q] \in LockedPC
        PROVE  p[1] # q[1] /\ (p \in lost' \/ q \in lost')
    BY <1>0, <2>1, <2>2, <2>5
  <2> QED BY <2>4, <2>5 DEF ExclusiveInv, Holding
<1>3. ASSUME NEW t \in Proc, Drops(t) PROVE ExclusiveInv'
  <2>1. pc'[t] = "idle" /\ (\A q \in Proc \ {t} : pc'[q] = pc[q]) /\ lost' = lost \ {t}
    BY <1>0, <1>3 DEF Drops
  <2>2. "idle" \notin LockedPC
    BY DEF LockedPC
  <2> QED BY <1>0, <2>1, <2>2 DEF ExclusiveInv, Holding
<1>4. ASSUME NEW t \in Proc, Loses(t) PROVE ExclusiveInv'
  BY <1>0, <1>4 DEF Loses, ExclusiveInv, Holding
<1>5. ASSUME NEW a \in ATC, Ends(a) PROVE ExclusiveInv'
  <2>1. /\ \A q \in Proc : pc'[q] = IF q[1] = a THEN "idle" ELSE pc[q]
        /\ lost' = {p \in lost : p[1] # a}
    BY <1>5 DEF Ends
  <2>2. "idle" \notin LockedPC
    BY DEF LockedPC
  <2> QED BY <1>0, <2>1, <2>2 DEF ExclusiveInv, Holding
<1> QED BY <1>1, <1>2, <1>3, <1>4, <1>5 DEF LockStep

LEMMA InitIInv == Init => IInv
<1> SUFFICES ASSUME Init PROVE IInv
  OBVIOUS
<1>1. /\ \A b \in Build : engine[b] \in {"", "unknown"}
      /\ \A b \in Build : /\ status[b] \in Active /\ completed[b] = FALSE
                          /\ status[b] = "pending" => engine[b] = "" /\ stream[b] = <<>>
                          /\ stream[b] \in {<<>>, <<"started">>}
      /\ \A p \in Proc : pc[p] = "idle"
  BY Zenon DEF Init
<1>2. <<>> \in Seq(Event) /\ <<"started">> \in Seq(Event) /\ Len(<<>>) = 0 /\ Len(<<"started">>) = 1
      /\ <<"started">>[1] = "started"
  BY DEF Event
<1>3. BuildType
  <2>1. engine \in [Build -> Engine]
    BY Zenon DEF Init, Engine
  <2>2. status \in [Build -> Status]
    BY Zenon DEF Init, Status
  <2>3. completed \in [Build -> BOOLEAN]
    BY Zenon DEF Init
  <2>4. stream \in [Build -> Seq(Event)]
    BY Zenon, <1>2 DEF Init
  <2> QED BY <2>1, <2>2, <2>3, <2>4 DEF BuildType
<1>4. ActiveInv /\ StatusExplained
  BY Zenon, <1>1 DEF ActiveInv, StatusExplained
<1>5. StreamWellFormed
  <2> SUFFICES ASSUME NEW b \in Build, NEW i \in 1..Len(stream[b])
               PROVE  stream[b][i] = "started" /\ i = 1 /\ ~completed[b]
    BY DEF StreamWellFormed
  <2>1. CASE stream[b] = <<>>
    <3>1. i \in 1..0 BY <2>1, <1>2, Zenon
    <3> QED BY <3>1
  <2>2. CASE stream[b] = <<"started">>
    <3>1. i \in 1..1 BY <2>2, <1>2, Zenon
    <3>2. i = 1 BY <3>1
    <3> QED BY <2>2, <3>2, <1>1, <1>2, Zenon
  <2> QED BY Zenon, <1>1, <2>1, <2>2
<1>6. ProcType
  <2>1. pc \in [Proc -> PC]
    BY Zenon DEF Init, PC
  <2>2. lost \in SUBSET Proc /\ draining \in SUBSET ATC
    BY Zenon DEF Init
  <2>3. requests \in 0..MaxRequests /\ faults \in 0..MaxFaults /\ drains \in 0..MaxDrains
    <3>1. requests = 0 /\ faults = 0 /\ drains = 0
      BY Zenon DEF Init
    <3> QED BY <3>1, EngineBounds
  <2> QED BY <2>1, <2>2, <2>3 DEF ProcType
<1>7. ExclusiveInv /\ TrackInv
  BY Zenon, <1>1 DEF Init, ExclusiveInv, Holding, LockedPC, TrackInv, Tracking
<1> QED BY <1>3, <1>4, <1>5, <1>6, <1>7 DEF IInv, BuildInv, LockInv

LEMMA NextIInv == IInv /\ [Next]_vars => IInv'
<1> SUFFICES ASSUME IInv, [Next]_vars PROVE IInv'
  OBVIOUS
<1>1. CASE Next
  <2>1. StepShape
    BY <1>1, NextShape
  <2>2. ExclusiveInv'
    BY <2>1, LockStepExclusive DEF StepShape
  <2>3. TrackInv'
    BY <2>1 DEF StepShape, BuildStep, PendingStep, TrackStep, TrackInv, Tracking, Proc
  <2> QED BY <2>1, <2>2, <2>3 DEF StepShape, BuildStep, IInv, LockInv
<1>2. CASE UNCHANGED vars
  <2>1. BuildInv'
    BY <1>2, BuildsStutter DEF vars, IInv, BuildStep
  <2>2. LockInv' /\ TrackInv'
    BY <1>2, Zenon DEF vars, buildVars, bounds, IInv, LockInv, ProcType, ExclusiveInv, TrackInv,
       Holding, Tracking
  <2> QED BY <2>1, <2>2 DEF IInv
<1> QED BY <1>1, <1>2

-----------------------------------------------------------------------------
(* The inductive invariant holds of every behaviour.                       *)
THEOREM EngineInvariant == Spec => []IInv
BY InitIInv, NextIInv, PTL DEF Spec

(* Every variable has its type.                                            *)
THEOREM TypeCorrect == Spec => []TypeOK
<1>1. IInv => TypeOK
  BY DEF IInv, BuildInv, BuildType, LockInv, ProcType, TypeOK
<1> QED BY <1>1, EngineInvariant, PTL

(* A build's plan is run by one ATC at a time unless a lock was lost.      *)
THEOREM OneTracker == Spec => []SingleTracker
<1>1. IInv => SingleTracker
  BY DEF IInv, LockInv, ExclusiveInv, SingleTracker, Holding, Tracking, LockedPC
<1> QED BY <1>1, EngineInvariant, PTL

(* The event stream ends once, with the status the build finished with.    *)
THEOREM StreamsEndOnce == Spec => [](StreamWellFormed /\ StatusExplained)
<1>1. IInv => StreamWellFormed /\ StatusExplained
  BY DEF IInv, BuildInv
<1> QED BY <1>1, EngineInvariant, PTL

(* Completed builds do not change any more.                                *)
THEOREM CompletedStays == Spec => CompletedIsFinal
<1>1. IInv /\ [Next]_vars => [FinalStep]_vars
  BY NextShape DEF StepShape, BuildStep
<1> QED BY <1>1, EngineInvariant, PTL DEF Spec, CompletedIsFinal, FinalStep

(* Aborted builds are not started any more.                                *)
THEOREM AbortWins == Spec => AbortedNeverStarts
<1>1. IInv /\ [Next]_vars => [AbortedStep]_vars
  BY NextShape DEF StepShape, BuildStep
<1> QED BY <1>1, EngineInvariant, PTL DEF Spec, AbortedNeverStarts, AbortedStep

-----------------------------------------------------------------------------
(* The refinement. A lock object of LeaseLock is a process, paired the     *)
(* other way round.                                                        *)
Object == ATC \X (Kind \X Build)
ProcOf(h) == <<h[1], h[2][1], h[2][2]>>
ObjectOf(p) == <<p[1], <<p[2], p[3]>>>>

LEMMA ObjectFacts ==
  /\ \A h \in Object : ProcOf(h) \in Proc /\ ObjectOf(ProcOf(h)) = h /\ h[2][2] \in Build
  /\ \A p \in Proc : ObjectOf(p) \in Object /\ ProcOf(ObjectOf(p)) = p /\ p[3] \in Build
BY DEF Object, ProcOf, ObjectOf, Proc

LEMMA HoldOfFacts ==
  /\ holdOf = [h \in Object |-> IF pc[ProcOf(h)] \in LockedPC THEN h[2][2] ELSE None]
  /\ holdOf' = [h \in Object |-> IF pc'[ProcOf(h)] \in LockedPC THEN h[2][2] ELSE None]
  /\ lostOf = {h \in Object : ProcOf(h) \in lost}
  /\ lostOf' = {h \in Object : ProcOf(h) \in lost'}
BY Zenon DEF holdOf, lostOf, Holding, ProcOf, Object

(* Acquiring is Take.                                                      *)
LEMMA TakesTake ==
  ASSUME IInv, NEW p \in Proc, Takes(p)
  PROVE  Lease!LeaseNext
<1> DEFINE h == ObjectOf(p)
<1>0. /\ h \in Object /\ ProcOf(h) = p /\ h[1] = p[1] /\ h[2][2] = p[3] /\ p[3] \in Build
      /\ \A g \in Object : ProcOf(g) = p => g = h
  BY ObjectFacts DEF ObjectOf
<1>1. /\ pc[p] \notin LockedPC /\ pc'[p] \in LockedPC
      /\ \A q \in Proc \ {p} : pc'[q] = pc[q]
  BY DEF Takes, Holding, LockedPC, IInv, LockInv, ProcType
<1>2. \A q \in Proc : (q[3] = p[3] /\ pc[q] \in LockedPC) => q[1] # p[1]
  BY DEF Takes, Rivals, Holding
<1>3. \/ lost' = lost /\ \A q \in Proc : (q[3] = p[3] /\ pc[q] \in LockedPC) => q \in lost
      \/ lost' = lost \cup {p}
  BY DEF Takes, Rivals, Holding
<1> HIDE DEF h
<1>4. holdOf[h] = None
  BY <1>0, <1>1, HoldOfFacts
<1>5. holdOf' = [holdOf EXCEPT ![h] = p[3]]
  BY <1>0, <1>1, HoldOfFacts, ObjectFacts
<1>6. \A g \in Object : holdOf[g] = p[3] => pc[ProcOf(g)] \in LockedPC /\ ProcOf(g)[3] = p[3] /\ ProcOf(g)[1] = g[1]
  BY <1>0, HoldOfFacts, NoneIsNoBuild DEF ProcOf
<1>7. \A g \in Object : holdOf[g] = p[3] => g[1] # h[1]
  BY <1>0, <1>2, <1>6, ObjectFacts
<1>8. \/ (\A g \in Object : holdOf[g] = p[3] => g \in lostOf) /\ lostOf' = lostOf
      \/ lostOf' = lostOf \cup {h}
  <2>1. CASE lost' = lost /\ \A q \in Proc : (q[3] = p[3] /\ pc[q] \in LockedPC) => q \in lost
    BY <2>1, <1>6, HoldOfFacts, ObjectFacts
  <2>2. CASE lost' = lost \cup {p}
    BY <2>2, <1>0, HoldOfFacts, ObjectFacts
  <2> QED BY <1>3, <2>1, <2>2
<1>9. Lease!Take(h, p[3])
  BY <1>0, <1>4, <1>5, <1>7, <1>8 DEF Lease!Take, Lease!Holders, Lease!LeaseHandle, Object
<1> QED BY <1>0, <1>9 DEF Lease!LeaseNext, Lease!LeaseHandle, Object

(* Ending the critical sections of a set of processes is LetGo, or nothing *)
(* at all if none of them had a lock.                                      *)
LEMMA DropsLetGo ==
  ASSUME IInv, NEW P \in SUBSET Proc,
         \A q \in Proc : IF q \in P THEN pc'[q] \notin LockedPC ELSE pc'[q] = pc[q],
         lost' = lost \ P
  PROVE  Lease!LeaseNext \/ UNCHANGED Lease!leaseVars
<1> DEFINE H == {h \in Object : ProcOf(h) \in P /\ pc[ProcOf(h)] \in LockedPC}
<1>0. \A q \in lost : pc[q] \in LockedPC
  BY DEF IInv, LockInv, ExclusiveInv, Holding
<1>1. \A h \in H : holdOf[h] # None
  BY HoldOfFacts, ObjectFacts, NoneIsNoBuild
<1>2. holdOf' = [h \in Object |-> IF h \in H THEN None ELSE holdOf[h]]
  BY HoldOfFacts, ObjectFacts
<1>3. lostOf' = lostOf \ H
  BY <1>0, HoldOfFacts, ObjectFacts
<1>4. H \subseteq Object
  OBVIOUS
<1> HIDE DEF H
<1>5. CASE H = {}
  <2>1. lostOf' = lostOf
    BY <1>3, <1>5
  <2>2. holdOf' = holdOf
    BY <1>2, <1>5, HoldOfFacts
  <2> QED BY <2>1, <2>2 DEF Lease!leaseVars
<1>6. CASE H # {}
  <2>1. Lease!LetGo(H)
    BY <1>1, <1>2, <1>3, <1>6 DEF Lease!LetGo, Lease!LeaseHandle, Object
  <2> QED BY <2>1, <1>4 DEF Lease!LeaseNext, Lease!LeaseHandle, Object
<1> QED BY <1>5, <1>6

LEMMA LosesLose ==
  ASSUME IInv, NEW p \in Proc, Loses(p)
  PROVE  Lease!LeaseNext
<1> DEFINE h == ObjectOf(p)
<1>0. /\ h \in Object /\ ProcOf(h) = p /\ h[2][2] \in Build
      /\ \A g \in Object : ProcOf(g) = p => g = h
  BY ObjectFacts
<1> HIDE DEF h
<1>1. pc[p] \in LockedPC /\ pc' = pc /\ lost' = lost \cup {p}
  BY DEF Loses, Holding
<1>2. holdOf[h] # None
  BY <1>0, <1>1, HoldOfFacts, NoneIsNoBuild
<1>3. holdOf' = holdOf
  BY <1>1, HoldOfFacts
<1>4. lostOf' = lostOf \cup {h}
  BY <1>0, <1>1, HoldOfFacts
<1>5. Lease!Lose({h})
  BY <1>2, <1>3, <1>4 DEF Lease!Lose
<1>6. {h} \in SUBSET Object
  BY <1>0
<1> QED BY <1>5, <1>6 DEF Lease!LeaseNext, Lease!LeaseHandle, Object

LEMMA LockStepLease ==
  ASSUME IInv, LockStep
  PROVE  Lease!LeaseNext \/ UNCHANGED Lease!leaseVars
<1>t. pc \in [Proc -> PC] /\ lost \in SUBSET Proc
  BY DEF IInv, LockInv, ProcType
<1>i. "idle" \notin LockedPC
  BY DEF LockedPC
<1>1. CASE Keeps
  <2>1. \A h \in Object : (pc'[ProcOf(h)] \in LockedPC) = (pc[ProcOf(h)] \in LockedPC)
    BY <1>1, ObjectFacts, Zenon DEF Keeps
  <2>2. holdOf' = holdOf
    BY <2>1, HoldOfFacts
  <2>3. lostOf' = lostOf
    BY <1>1, HoldOfFacts DEF Keeps
  <2> QED BY <2>2, <2>3 DEF Lease!leaseVars
<1>2. ASSUME NEW p \in Proc, Drops(p) PROVE Lease!LeaseNext \/ UNCHANGED Lease!leaseVars
  <2>1. /\ \A q \in Proc : IF q \in {p} THEN pc'[q] \notin LockedPC ELSE pc'[q] = pc[q]
        /\ lost' = lost \ {p}
    BY <1>2, <1>t, <1>i DEF Drops
  <2>2. {p} \in SUBSET Proc
    OBVIOUS
  <2> QED BY Zenon, <2>1, <2>2, DropsLetGo
<1>3. ASSUME NEW a \in ATC, Ends(a) PROVE Lease!LeaseNext \/ UNCHANGED Lease!leaseVars
  <2> DEFINE P == {q \in Proc : q[1] = a}
  <2>1. /\ \A q \in Proc : IF q \in P THEN pc'[q] \notin LockedPC ELSE pc'[q] = pc[q]
        /\ lost' = lost \ P
    BY <1>3, <1>t, <1>i DEF Ends
  <2>2. P \in SUBSET Proc
    OBVIOUS
  <2> HIDE DEF P
  <2> QED BY <2>1, <2>2, DropsLetGo
<1> QED BY <1>1, <1>2, <1>3, TakesTake, LosesLose DEF LockStep

(* The engine uses the tracking lock as LeaseLock, which the lock          *)
(* factories implement, allows.                                            *)
THEOREM EngineUsesLease == Spec => UsesLease
<1>1. Init => Lease!LeaseInit
  <2> SUFFICES ASSUME Init PROVE Lease!LeaseInit
    OBVIOUS
  <2>1. lost = {} /\ \A p \in Proc : pc[p] \notin LockedPC
    BY Zenon DEF Init, LockedPC
  <2>2. lostOf = {}
    BY <2>1, HoldOfFacts
  <2>3. holdOf = [h \in Object |-> None]
    BY <2>1, HoldOfFacts, ObjectFacts
  <2> QED BY <2>2, <2>3 DEF Lease!LeaseInit, Lease!LeaseHandle, Object
<1>2. IInv /\ [Next]_vars => [Lease!LeaseNext]_(Lease!leaseVars)
  <2> SUFFICES ASSUME IInv, [Next]_vars PROVE Lease!LeaseNext \/ UNCHANGED Lease!leaseVars
    OBVIOUS
  <2>1. CASE Next
    BY <2>1, NextShape, LockStepLease DEF StepShape
  <2>2. CASE UNCHANGED vars
    <3>1. pc' = pc /\ lost' = lost
      BY <2>2 DEF vars
    <3>2. holdOf' = holdOf /\ lostOf' = lostOf
      BY <3>1, HoldOfFacts
    <3> QED BY <3>2 DEF Lease!leaseVars
  <2> QED BY <2>1, <2>2
<1> QED BY <1>1, <1>2, EngineInvariant, PTL DEF Spec, UsesLease, Lease!LeaseSpec
=============================================================================
