----------------------------- MODULE BuildEngine -----------------------------
(***************************************************************************)
(* The life of a build: the rows of `builds` and its event stream          *)
(* (db/build.go), the ATCs that start, track, abort and finish it          *)
(* (engine/db_engine.go, engine/exec_engine.go, builds/tracker.go), and    *)
(* the tracking lock that decides which of them may.                       *)
(*                                                                         *)
(* A process is <<atc, kind, build>>: a caller of CreateBuild ("start"), a *)
(* goroutine in Resume ("track"), a request in Abort ("abort"). Every step *)
(* of one is one query or transaction of the code. The lock is the lease   *)
(* of LeaseLock: exclusive unless its holder lost it without knowing.      *)
(***************************************************************************)
EXTENDS Naturals, Sequences

CONSTANTS
  ATC,          \* the ATC processes that share the database
  Build,        \* build ids
  None,         \* no lock
  MaxRequests,  \* bound: abort requests
  MaxFaults,    \* bound: failed queries, lost locks and crashes
  MaxDrains,    \* bound: graceful shutdowns
  MaxEvents     \* bound: events of a build before its steps stop logging

ASSUME NoneIsNoBuild == None \notin Build
ASSUME EngineBounds ==
  MaxRequests \in Nat /\ MaxFaults \in Nat /\ MaxDrains \in Nat /\ MaxEvents \in Nat

VARIABLES
  status,     \* status[b]: builds.status, "gone" when the row is deleted
  completed,  \* completed[b]: builds.completed
  engine,     \* engine[b]: builds.engine
  stream,     \* stream[b]: the build's events in event_id order
  pc,         \* pc[p]: where the process is
  lost,       \* processes whose tracking lock others can take
  draining,   \* ATCs whose engine is in ReleaseAll
  requests, faults, drains  \* what the bounds count

buildVars == <<status, completed, engine, stream>>
bounds == <<requests, faults, drains>>
vars == <<buildVars, pc, lost, draining, bounds>>

Kind == {"start", "track", "abort"}
Proc == ATC \X Kind \X Build
Outcome == {"succeeded", "failed", "errored"}
Terminal == Outcome \cup {"aborted"}
Active == {"pending", "started"}
Status == Active \cup Terminal \cup {"gone"}
Event == Terminal \cup {"started", "error", "log"}
Engine == {"", "exec.v2", "unknown"}

(* Between Acquire and the deferred Release.                               *)
LockedPC == {"locked", "marked", "running", "killed", "erring", "done"}
PC == LockedPC \cup {"idle", "loaded", "spawned", "refused"}
Holding(p) == pc[p] \in LockedPC
Tracking(p) == pc[p] \in {"running", "killed"}

(* A build is created pending; a build that an older ATC started may name  *)
(* an engine that this one does not have.                                  *)
Init ==
  /\ engine \in [Build -> {"", "unknown"}]
  /\ status = [b \in Build |-> IF engine[b] = "" THEN "pending" ELSE "started"]
  /\ completed = [b \in Build |-> FALSE]
  /\ stream = [b \in Build |-> IF engine[b] = "" THEN <<>> ELSE <<"started">>]
  /\ pc = [p \in Proc |-> "idle"]
  /\ lost = {}
  /\ draining = {}
  /\ requests = 0 /\ faults = 0 /\ drains = 0

-----------------------------------------------------------------------------
(* Queries. Each one may fail and change nothing.                          *)
Fault == faults < MaxFaults /\ faults' = faults + 1 /\ UNCHANGED <<requests, drains>>

QueryFails == Fault /\ UNCHANGED buildVars

(* SaveEvent: nextval of the build's sequence fails once Finish dropped it.*)
Saves(b) == status[b] # "gone" /\ ~completed[b]

SaveEvent(b, e) ==
  /\ stream' = IF Saves(b) THEN [stream EXCEPT ![b] = Append(@, e)] ELSE stream
  /\ UNCHANGED <<status, completed, engine>>

(* Finish: the row is updated whatever its status, but a build that is     *)
(* completed has no sequence, and the transaction is rolled back.          *)
FinishOverwrites(b, s) ==
  /\ status' = [status EXCEPT ![b] = IF @ = "gone" THEN @ ELSE s]
  /\ completed' = [completed EXCEPT ![b] = status[b] # "gone"]
  /\ stream' = IF status[b] = "gone" THEN stream ELSE [stream EXCEPT ![b] = Append(@, s)]
  /\ UNCHANGED engine

Finish(b, s) ==
  IF Saves(b)
  THEN /\ status' = [status EXCEPT ![b] = s]
       /\ completed' = [completed EXCEPT ![b] = TRUE]
       /\ stream' = [stream EXCEPT ![b] = Append(@, s)]
       /\ UNCHANGED engine
  ELSE UNCHANGED buildVars

(* MarkAsAborted: whatever the status; the notification is AbortSeen.      *)
MarkAsAborted(b) ==
  /\ status' = [status EXCEPT ![b] = IF @ = "gone" THEN @ ELSE "aborted"]
  /\ UNCHANGED <<completed, engine, stream>>

(* Start: the transaction, which only a pending row passes.                *)
StartTx(b) ==
  /\ status[b] = "pending"
  /\ status' = [status EXCEPT ![b] = "started"]
  /\ engine' = [engine EXCEPT ![b] = "exec.v2"]
  /\ stream' = [stream EXCEPT ![b] = Append(@, "started")]
  /\ UNCHANGED completed

-----------------------------------------------------------------------------
(* The tracking lock.                                                      *)
Rivals(p) == {q \in Proc : q[3] = p[3] /\ Holding(q)}

(* AcquireTrackingLock can return true: no process of this ATC has the     *)
(* lock, and those of others lost it, or this one loses it at once.        *)
Acquire(p) ==
  /\ \A q \in Rivals(p) : q[1] # p[1]
  /\ \/ Rivals(p) \subseteq lost /\ lost' = lost /\ UNCHANGED bounds
     \/ Fault /\ lost' = lost \cup {p}

Refused(p) == ~(Rivals(p) \subseteq lost) \/ \E q \in Rivals(p) : q[1] = p[1]

Goto(p, l) == pc' = [pc EXCEPT ![p] = l]

-----------------------------------------------------------------------------
(* CreateBuild and its callers. The caller (the scheduler, or the API for  *)
(* a one-off build) loads a pending build...                               *)
LoadPending(a, b) ==
  /\ pc[<<a, "start", b>>] = "idle"
  /\ status[b] = "pending"
  /\ Goto(<<a, "start", b>>, "loaded")
  /\ UNCHANGED <<buildVars, lost, draining, bounds>>

(* ...and calls CreateBuild, then `go Resume`, even if the build could not *)
(* be started; not after an error, which may come after the commit.        *)
CreateBuild(a, b) ==
  LET p == <<a, "start", b>>
      t == <<a, "track", b>>
      Spawn == pc' = [pc EXCEPT ![p] = "idle", ![t] = IF @ = "idle" THEN "spawned" ELSE @]
  IN
  /\ pc[p] = "loaded"
  /\ \/ StartTx(b) /\ Spawn /\ UNCHANGED bounds
     \/ StartTx(b) /\ Goto(p, "idle") /\ Fault
     \/ status[b] # "pending" /\ Spawn /\ UNCHANGED <<buildVars, bounds>>
     \/ QueryFails /\ Goto(p, "idle")
  /\ UNCHANGED <<lost, draining>>

(* ...or fails to make a plan of it and finishes it as errored.            *)
PlanFails(a, b) ==
  LET p == <<a, "start", b>> IN
  /\ pc[p] = "loaded"
  /\ Goto(p, "idle")
  /\ \/ Finish(b, "errored") /\ UNCHANGED bounds
     \/ QueryFails
  /\ UNCHANGED <<lost, draining>>

(* Tracker.Track, for one of GetAllStartedBuilds. The runner and the       *)
(* drainer get the signal to stop in parallel: it may still tick.          *)
TrackPending(a, b) ==
  LET p == <<a, "track", b>> IN
  /\ pc[p] = "idle"
  /\ status[b] = "pending"
  /\ Goto(p, "spawned")
  /\ UNCHANGED <<buildVars, lost, draining, bounds>>

Track(a, b) ==
  LET p == <<a, "track", b>> IN
  /\ pc[p] = "idle"
  /\ status[b] = "started"
  /\ Goto(p, "spawned")
  /\ UNCHANGED <<buildVars, lost, draining, bounds>>

-----------------------------------------------------------------------------
(* dbBuild.Resume: take the lock or return.                                *)
ResumeUnlocked(a, b) ==
  LET p == <<a, "track", b>> IN
  /\ pc[p] = "spawned"
  /\ Goto(p, "locked")
  /\ UNCHANGED <<buildVars, lost, draining, bounds>>

ResumeLock(a, b) ==
  LET p == <<a, "track", b>> IN
  /\ pc[p] = "spawned"
  /\ \/ Acquire(p) /\ Goto(p, "locked") /\ UNCHANGED buildVars
     \/ Refused(p) /\ Goto(p, "idle") /\ UNCHANGED <<buildVars, lost, bounds>>
     \/ QueryFails /\ Goto(p, "idle") /\ UNCHANGED lost
  /\ UNCHANGED draining

(* Reload under the lock, and the checks on what it finds. FinishWithError *)
(* of an unknown engine begins with an event.                              *)
ResumeCheck(a, b) ==
  LET p == <<a, "track", b>>
      runnable == engine[b] # "" /\ status[b] \in Active
  IN
  /\ pc[p] = "locked"
  /\ \/ ~runnable /\ Goto(p, "done") /\ UNCHANGED <<buildVars, bounds>>
     \/ runnable /\ engine[b] = "exec.v2" /\ Goto(p, "running")
          /\ UNCHANGED <<buildVars, bounds>>
     \/ runnable /\ engine[b] = "unknown" /\ SaveEvent(b, "error") /\ Goto(p, "erring")
          /\ UNCHANGED bounds
     \/ QueryFails /\ Goto(p, "done")
  /\ UNCHANGED <<lost, draining>>

(* The second transaction of FinishWithError.                              *)
FinishError(a, b) ==
  LET p == <<a, "track", b>> IN
  /\ pc[p] = "erring"
  /\ Goto(p, "done")
  /\ \/ Finish(b, "errored") /\ UNCHANGED bounds
     \/ QueryFails
  /\ UNCHANGED <<lost, draining>>

(* A step of the running plan saves an event.                              *)
Log(a, b) ==
  /\ Tracking(<<a, "track", b>>)
  /\ Len(stream[b]) < MaxEvents
  /\ SaveEvent(b, "log")
  /\ UNCHANGED <<pc, lost, draining, bounds>>

(* The AbortNotifier fires and the running plan is signalled.              *)
AbortMissed(a, b) ==
  LET p == <<a, "track", b>> IN
  /\ pc[p] = "running"
  /\ status[b] = "aborted"
  /\ completed[b]
  /\ Goto(p, "killed")
  /\ UNCHANGED <<buildVars, lost, draining, bounds>>

AbortSeen(a, b) ==
  LET p == <<a, "track", b>> IN
  /\ pc[p] = "running"
  /\ status[b] = "aborted"
  /\ Goto(p, "killed")
  /\ UNCHANGED <<buildVars, lost, draining, bounds>>

(* execBuild.Resume: the plan exits, and delegate.Finish saves its status. *)
Exit(a, b, s) ==
  LET p == <<a, "track", b>> IN
  /\ Tracking(p)
  /\ IF pc[p] = "killed" THEN s = "aborted" ELSE s \in Outcome
  /\ Goto(p, "done")
  /\ \/ Finish(b, s) /\ UNCHANGED bounds
     \/ QueryFails
  /\ UNCHANGED <<lost, draining>>

(* ...or the engine is being released, and the build is left running.      *)
ExitOnRelease(a, b) ==
  LET p == <<a, "track", b>> IN
  /\ Tracking(p)
  /\ a \in draining
  /\ Goto(p, "done")
  /\ UNCHANGED <<buildVars, lost, draining, bounds>>

(* The deferred lock.Release of Resume and Abort.                          *)
Release(p) ==
  /\ pc[p] = "done"
  /\ Goto(p, "idle")
  /\ lost' = lost \ {p}
  /\ UNCHANGED <<buildVars, draining, bounds>>

-----------------------------------------------------------------------------
(* A request to abort an existing build...                                 *)
AbortBuild(a, b) ==
  /\ pc[<<a, "abort", b>>] = "idle"
  /\ status[b] # "gone"
  /\ requests < MaxRequests
  /\ requests' = requests + 1
  /\ Goto(<<a, "abort", b>>, "spawned")
  /\ UNCHANGED <<buildVars, lost, draining, faults, drains>>

(* ...calls dbBuild.Abort: take the lock, if nobody tracks the build...    *)
AbortLock(a, b) ==
  LET p == <<a, "abort", b>> IN
  /\ pc[p] = "spawned"
  /\ \/ Acquire(p) /\ Goto(p, "locked") /\ UNCHANGED buildVars
     \/ Refused(p) /\ Goto(p, "refused") /\ UNCHANGED <<buildVars, lost, bounds>>
     \/ QueryFails /\ Goto(p, "idle") /\ UNCHANGED lost
  /\ UNCHANGED draining

(* ...save the status, which is all there is to do if somebody does...     *)
AbortMark(a, b) ==
  LET p == <<a, "abort", b>> IN
  /\ pc[p] \in {"locked", "refused"}
  /\ \/ MarkAsAborted(b) /\ UNCHANGED bounds
          /\ Goto(p, IF pc[p] = "locked" THEN "marked" ELSE "idle")
     \/ QueryFails /\ Goto(p, IF pc[p] = "locked" THEN "done" ELSE "idle")
  /\ UNCHANGED <<lost, draining>>

(* ...reload, and finish a build that has no engine yet. The engine build  *)
(* that is looked up otherwise is a new object: the signal it is sent      *)
(* reaches nobody.                                                         *)
AbortAct(a, b) ==
  LET p == <<a, "abort", b>> IN
  /\ pc[p] = "marked"
  /\ Goto(p, "done")
  /\ \/ engine[b] = "" /\ Finish(b, "aborted") /\ UNCHANGED bounds
     \/ engine[b] # "" /\ UNCHANGED <<buildVars, bounds>>
     \/ QueryFails
  /\ UNCHANGED <<lost, draining>>

-----------------------------------------------------------------------------
(* pipeline.Destroy deletes the build and its events.                      *)
Destroy(b) ==
  /\ status[b] # "gone"
  /\ status' = [status EXCEPT ![b] = "gone"]
  /\ completed' = [completed EXCEPT ![b] = FALSE]
  /\ engine' = [engine EXCEPT ![b] = ""]
  /\ stream' = [stream EXCEPT ![b] = <<>>]
  /\ UNCHANGED <<pc, lost, draining, bounds>>

(* The session behind a tracking lock ends.                                *)
LoseLock(p) ==
  /\ Holding(p)
  /\ p \notin lost
  /\ lost' = lost \cup {p}
  /\ Fault
  /\ UNCHANGED <<buildVars, pc, draining>>

(* The process ends, and its locks with it; a new one takes its place.     *)
EndProcess(a) ==
  /\ pc' = [p \in Proc |-> IF p[1] = a THEN "idle" ELSE pc[p]]
  /\ lost' = {p \in lost : p[1] # a}
  /\ draining' = draining \ {a}
  /\ UNCHANGED buildVars

Crash(a) == EndProcess(a) /\ Fault

(* Tracker.Release, ReleaseAll: close releaseCh, and wait for the builds.  *)
ReleaseAll(a) ==
  /\ a \notin draining
  /\ drains < MaxDrains
  /\ drains' = drains + 1
  /\ draining' = draining \cup {a}
  /\ UNCHANGED <<buildVars, pc, lost, requests, faults>>

Drained(a) ==
  /\ a \in draining
  /\ \A b \in Build : pc[<<a, "track", b>>] = "idle"
  /\ EndProcess(a)
  /\ UNCHANGED bounds

Start(a, b) == LoadPending(a, b) \/ CreateBuild(a, b) \/ PlanFails(a, b)

Resume(a, b) == ResumeLock(a, b) \/ ResumeCheck(a, b) \/ FinishError(a, b)

Abort(a, b) == AbortLock(a, b) \/ AbortMark(a, b) \/ AbortAct(a, b)

Next ==
  \/ \E a \in ATC, b \in Build :
       \/ Start(a, b)
       \/ Track(a, b)
       \/ Resume(a, b)
       \/ Log(a, b)
       \/ AbortSeen(a, b)
       \/ \E s \in Terminal : Exit(a, b, s)
       \/ ExitOnRelease(a, b)
       \/ AbortBuild(a, b)
       \/ Abort(a, b)
  \/ \E p \in Proc : Release(p) \/ LoseLock(p)
  \/ \E b \in Build : Destroy(b)
  \/ \E a \in ATC : Crash(a) \/ ReleaseAll(a) \/ Drained(a)

Spec == Init /\ [][Next]_vars

(* Goroutines run on, the tracker of an ATC that is not shutting down      *)
(* ticks, a killed plan exits, and a released ATC is replaced: WaitGroup   *)
(* wakes its waiter once the count is zero, even if Resume is called       *)
(* again. Nothing makes a caller start a build or a plan that nobody       *)
(* killed exit.                                                            *)
Fairness ==
  \A a \in ATC :
    /\ SF_vars(Drained(a))
    /\ \A b \in Build :
         /\ WF_vars(a \notin draining /\ Track(a, b))
         /\ WF_vars(Resume(a, b))
         /\ WF_vars(AbortSeen(a, b))
         /\ WF_vars(Exit(a, b, "aborted"))
         /\ WF_vars(ExitOnRelease(a, b))
         /\ WF_vars(Abort(a, b))
         /\ WF_vars(Release(<<a, "track", b>>))
         /\ WF_vars(Release(<<a, "abort", b>>))

FairSpec == Spec /\ Fairness

-----------------------------------------------------------------------------
TypeOK ==
  /\ status \in [Build -> Status]
  /\ completed \in [Build -> BOOLEAN]
  /\ engine \in [Build -> Engine]
  /\ stream \in [Build -> Seq(Event)]
  /\ pc \in [Proc -> PC]
  /\ lost \in SUBSET Proc
  /\ draining \in SUBSET ATC
  /\ requests \in 0..MaxRequests /\ faults \in 0..MaxFaults /\ drains \in 0..MaxDrains

(* The plan of a build is run by one ATC at a time, unless one of the two  *)
(* lost its tracking lock without knowing.                                 *)
SingleTracker ==
  \A p, q \in Proc :
    (p # q /\ p[3] = q[3] /\ Tracking(p) /\ Tracking(q)) => (p \in lost \/ q \in lost)

(* The stream of a build that watchers follow to its end: it ends with one *)
(* terminal status, exactly when the build is completed, whoever finished  *)
(* it and however many trackers and aborters tried; "started" is first.    *)
StreamWellFormed ==
  \A b \in Build : \A i \in 1..Len(stream[b]) :
    /\ stream[b][i] \in Terminal => completed[b] /\ i = Len(stream[b])
    /\ completed[b] /\ i = Len(stream[b]) => stream[b][i] \in Terminal
    /\ stream[b][i] = "started" => i = 1

(* A completed build shows the status it finished with, or "aborted" if    *)
(* it was aborted when it was already over; never pending or started, so   *)
(* that neither Start nor Track picks it up again.                         *)
StatusExplained ==
  \A b \in Build : completed[b] =>
    /\ stream[b] # <<>>
    /\ status[b] \in {stream[b][Len(stream[b])], "aborted"}

(* Once completed, a build stays completed and its stream does not change, *)
(* even if a tracker that lost its lock goes on logging and finishes.      *)
CompletedIsFinal ==
  [][\A b \in Build : completed[b] =>
       status'[b] = "gone" \/ (completed'[b] /\ stream'[b] = stream[b])]_vars

(* "first save the status so that CreateBuild will see a conflict": a      *)
(* build that was aborted is never started afterwards.                     *)
AbortedNeverStarts ==
  [][\A b \in Build : status[b] = "aborted" => status'[b] \notin Active]_vars

(* Whatever happens to the ATC that tracks it, a started build is again    *)
(* run by somebody, or is started no more.                                 *)
StartedBuildsAreTracked ==
  \A b \in Build :
    status[b] = "started" ~> (status[b] # "started" \/ \E a \in ATC : Tracking(<<a, "track", b>>))

(* Aborting a build that nobody started completes it, and so does aborting *)
(* one whose plan is running, as its tracker is told; unless a query fails *)
(* or an ATC goes away in the middle of it.                                *)
AbortsComplete ==
  \A b \in Build :
    (status[b] = "aborted" /\ (engine[b] = "" \/ \E a \in ATC : Tracking(<<a, "track", b>>)))
      ~> (completed[b] \/ status[b] = "gone" \/ faults > 0 \/ drains > 0)

(* What the comments of Abort promise of every build: the aborted event is *)
(* put into the event stream.                                              *)
AbortedBuildsComplete ==
  \A b \in Build : status[b] = "aborted" ~> (completed[b] \/ status[b] = "gone")

-----------------------------------------------------------------------------
(* The engine's use of the lock, as LeaseLock sees it.                     *)
holdOf == [h \in ATC \X (Kind \X Build) |->
             IF Holding(<<h[1], h[2][1], h[2][2]>>) THEN h[2][2] ELSE None]
lostOf == {h \in ATC \X (Kind \X Build) : <<h[1], h[2][1], h[2][2]>> \in lost}

Lease == INSTANCE LeaseLock
           WITH Slot <- Kind \X Build, LockID <- Build, hold <- holdOf, lost <- lostOf

(* The engine never holds or frees the tracking lock other than the lock   *)
(* factory lets it.                                                        *)
UsesLease == Lease!LeaseSpec
=============================================================================
