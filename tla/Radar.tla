------------------------------- MODULE Radar ---------------------------------
(***************************************************************************)
(* Checking for new versions: the syncer that runs a pipeline's radar on   *)
(* every ATC (pipelines/syncer.go), the radar runner that starts a scanner *)
(* goroutine for each resource and resource type (radar/runner.go,         *)
(* radar/interval_runner.go), the scans those goroutines and the API's     *)
(* check requests make (radar/resource_scanner.go,                         *)
(* radar/resource_type_scanner.go) under the checking locks                *)
(* (db/pipeline_locks.go), and builds that put versions meanwhile.         *)
(*                                                                         *)
(* One pipeline with one resource, "res", of a custom resource type,       *)
(* "type", of a base type.  A source has versions 1, 2, 3, ... in this     *)
(* order.  The resource's configuration has the version of its type in it  *)
(* and the checking lock is one of the configuration: scans that saw       *)
(* different versions of the type do not exclude each other.               *)
(*                                                                         *)
(* A signal reaches a runner when it is sent, and a goroutine whose timer  *)
(* and whose cancelled context are both ready stops: the runtime may let   *)
(* it scan once more.  What a transaction saves it saves in one step.      *)
(***************************************************************************)
EXTENDS Naturals, Sequences, SequencesExt

CONSTANTS
  Atc,          \* ATCs
  Scanner,      \* goroutines that scan, [atc, of, kind, nr]: kind "runner" or "request"
  MaxVersions,  \* bound: versions of a source
  MaxEvents     \* bound: what users, builds and sources do, crashes, failing calls

Thing == {"res", "type"}
Version == 1..MaxVersions
Runner == {s \in Scanner : s.kind = "runner"}
Request == Scanner \ Runner

ASSUME RadarAssumption ==
  /\ MaxVersions \in Nat \ {0} /\ MaxEvents \in Nat
  /\ Scanner \subseteq [atc : Atc, of : Thing, kind : {"runner", "request"}, nr : Nat]
  /\ \A s \in Request : s.of = "res"

VARIABLES
  source,       \* source[t]: the newest version of t's source
  putting,      \* versions that builds put, not yet saved
  saved,        \* the resource's versions by check_order
  typeVersion,  \* resource_types.version; 0: NULL
  pipeline,     \* "active", "paused" or "gone"
  resPaused,    \* resources.paused
  due,          \* due[t]: the interval since last_checked is over
  held,         \* held locks: [key, by, leaked], leaked if the scan went on without
  process,      \* process[a]: the syncer's: "none", "starting", "up" or "exited"
  renamed,      \* ATCs whose process runs under the pipeline's former name
  scanning,     \* scanning[a]: the runner's map of what has a scanner
  scan,         \* scan[s]: where the goroutine or request is
  events

sourceVars == <<source, putting>>
dbVars == <<saved, typeVersion>>
rowVars == <<pipeline, resPaused>>
lockVars == <<due, held>>
runnerVars == <<process, renamed, scanning>>
vars == <<source, putting, saved, typeVersion, pipeline, resPaused, due, held, process, renamed, scanning,
          scan, events>>

(* live: the context is not cancelled.  on: what is being scanned, the type *)
(* inside a scan of the resource too.  via: the type's version in the       *)
(* resource's configuration.  from, got: the versions of the check.         *)
Off == [pc |-> "off", live |-> FALSE, on |-> "res", via |-> 0, from |-> 0, got |-> <<>>, quiet |-> FALSE]
Present == pipeline # "gone"
KeyOf(r) == [of |-> r.on, via |-> r.via]
IsFree(key) == \A h \in held : h.key # key

(* mustComplete: the scan is a request, or inside the scan of the resource. *)
MustComplete(s) == s.kind = "request" \/ scan[s].on # s.of

Init ==
  /\ source \in [Thing -> {1}] /\ putting = {}
  /\ saved = <<>> /\ typeVersion = 0
  /\ pipeline = "active" /\ resPaused = FALSE
  /\ due = [t \in Thing |-> TRUE] /\ held = {}
  /\ process = [a \in Atc |-> "none"] /\ renamed = {} /\ scanning = [a \in Atc |-> {}]
  /\ scan = [s \in Scanner |-> Off]
  /\ events = 0

Event == events < MaxEvents /\ events' = events + 1

-----------------------------------------------------------------------------
(* The syncer and the runner.                                              *)

(* The goroutines of a's runner lose their context.                        *)
Cancelled(a) == [s \in Scanner |-> IF s \in Runner /\ s.atc = a THEN [scan[s] EXCEPT !.live = FALSE] ELSE scan[s]]

(* Mutant: the process is forgotten and not signalled.                      *)
SyncQuietly(a) ==
  LET running == process[a] \in {"starting", "up"}
      stopped == running /\ (pipeline # "active" \/ a \in renamed)
  IN /\ ~running \/ stopped
     /\ process' = [process EXCEPT ![a] = IF pipeline = "active" THEN "starting" ELSE "none"]
     /\ process' # process \/ stopped
     /\ UNCHANGED scan
     /\ scanning' = [scanning EXCEPT ![a] = {}]
     /\ renamed' = renamed \ {a}
     /\ UNCHANGED <<events, sourceVars, dbVars, rowVars, lockVars>>

(* A process that exited is forgotten; one of a pipeline that is paused,    *)
(* gone or renamed is signalled and forgotten; and an active pipeline that  *)
(* has none gets one, with a new map.                                       *)
Sync(a) ==
  LET running == process[a] \in {"starting", "up"}
      stopped == running /\ (pipeline # "active" \/ a \in renamed)
  IN /\ ~running \/ stopped
     /\ process' = [process EXCEPT ![a] = IF pipeline = "active" THEN "starting" ELSE "none"]
     /\ process' # process \/ stopped
     /\ scan' = IF stopped THEN Cancelled(a) ELSE scan
     /\ scanning' = [scanning EXCEPT ![a] = {}]
     /\ renamed' = renamed \ {a}
     /\ UNCHANGED <<events, sourceVars, dbVars, rowVars, lockVars>>

(* Things to scan that the map does not have, each with a free goroutine.   *)
Missing(a) == IF Present THEN Thing \ scanning[a] ELSE {}
Spawned(a) ==
  {s \in Runner : /\ s.atc = a /\ s.of \in Missing(a) /\ scan[s].pc = "off"
                  /\ \A z \in Runner : z.atc = a /\ z.of = s.of /\ z.nr < s.nr => scan[z].pc # "off"}

(* tick looks every thing up in the map and starts the missing goroutines;  *)
(* it is the goroutine that stores the thing in the map.                    *)
Tick(a) ==
  /\ process[a] \in {"starting", "up"}
  /\ process[a] = "starting" \/ Spawned(a) # {}
  /\ process' = [process EXCEPT ![a] = "up"]
  /\ scan' = [s \in Scanner |-> IF s \in Spawned(a) THEN [Off EXCEPT !.pc = "spawned", !.live = TRUE] ELSE scan[s]]
  /\ UNCHANGED <<events, sourceVars, dbVars, rowVars, lockVars, renamed, scanning>>

(* The first tick fails: the runner returns, and with it the process.       *)
TickFails(a) ==
  /\ process[a] = "starting"
  /\ process' = [process EXCEPT ![a] = "exited"]
  /\ Event /\ UNCHANGED <<sourceVars, dbVars, rowVars, lockVars, renamed, scanning, scan>>

(* The map, if it is still that of the goroutine's runner.                  *)
Stored(s) == IF scan[s].live THEN [scanning EXCEPT ![s.atc] = @ \cup {s.of}] ELSE scanning
Deleted(s) == IF scan[s].live THEN [scanning EXCEPT ![s.atc] = @ \ {s.of}] ELSE scanning

Store(s) ==
  /\ scan[s].pc = "spawned"
  /\ scan' = [scan EXCEPT ![s].pc = "wait"]
  /\ scanning' = Stored(s)
  /\ UNCHANGED <<events, sourceVars, dbVars, rowVars, lockVars, process, renamed>>

(* The interval runner returns: its context is cancelled.                   *)
Cancel(s) ==
  /\ scan[s].pc = "wait" /\ ~scan[s].live
  /\ scan' = [scan EXCEPT ![s] = Off]
  /\ UNCHANGED <<events, sourceVars, dbVars, rowVars, lockVars, runnerVars>>

-----------------------------------------------------------------------------
(* A scan.                                                                 *)

(* It returns no error, or ErrFailedToAcquireLock: the goroutine goes on.   *)
GoesOn(s) ==
  /\ scan' = [scan EXCEPT ![s] = IF s \in Runner THEN [Off EXCEPT !.pc = "wait", !.live = scan[s].live] ELSE Off]
  /\ UNCHANGED scanning

(* It returns another error: the goroutine deletes its thing and ends.      *)
Ends(s) ==
  /\ scan' = [scan EXCEPT ![s] = Off]
  /\ scanning' = IF s \in Runner THEN Deleted(s) ELSE scanning

Release(s) == held' = {h \in held : h.by # s \/ h.leaked}

(* Mutant: the type is scanned until it has a version.                      *)
OnceVersioned(s, tv) ==
  /\ scan' = [scan EXCEPT ![s].pc = "acquire", ![s].on = IF tv = 0 THEN "type" ELSE "res", ![s].via = tv,
                          ![s].got = <<>>]
  /\ UNCHANGED scanning

(* From the scan of a type inside that of the resource: the resource types  *)
(* are read again, and the resource's configuration is found.               *)
OnWithResource(s, tv) ==
  /\ scan' = [scan EXCEPT ![s].pc = "acquire", ![s].on = "res", ![s].via = tv, ![s].got = <<>>]
  /\ UNCHANGED scanning

(* A scan returns no error; tv is the type's version then.                  *)
Returns(s, tv) == IF scan[s].on # s.of THEN OnWithResource(s, tv) ELSE GoesOn(s)

(* The beginning of scan, up to the lock: the rows are read, and a type     *)
(* that has no version yet is scanned first.  A scan of the type keeps the  *)
(* version it reads here.                                                   *)
Started(s, from, live) ==
  [Off EXCEPT !.pc = "acquire", !.live = live, !.quiet = resPaused,
              !.on = IF s.of = "res" /\ typeVersion = 0 THEN "type" ELSE s.of,
              !.via = IF s.of = "res" THEN typeVersion ELSE 0,
              !.from = IF s.of = "res" THEN from ELSE typeVersion]

Begin(s) ==
  /\ s \in Runner /\ scan[s].pc = "wait" /\ scan[s].live
  /\ IF Present
     THEN scan' = [scan EXCEPT ![s] = Started(s, 0, TRUE)] /\ UNCHANGED scanning
     ELSE Ends(s)
  /\ UNCHANGED <<events, sourceVars, dbVars, rowVars, lockVars, process, renamed>>

(* The API is asked to check from a version, or from the latest, which the  *)
(* handler reads; a build triggered by hand scans too, from no version.     *)
Ask(s, from) ==
  /\ s \in Request /\ scan[s].pc = "off" /\ Present
  /\ scan' = [scan EXCEPT ![s] = Started(s, from, FALSE)]
  /\ Event /\ UNCHANGED <<sourceVars, dbVars, rowVars, lockVars, runnerVars>>

(* Acquire...CheckingLockWithIntervalCheck: the lock, and the update of     *)
(* last_checked, which finds no row when the interval is not over or the    *)
(* pipeline is gone.  A scan that must complete tries again.                *)
Acquire(s) ==
  LET on == scan[s].on
      key == KeyOf(scan[s])
      updates == Present /\ (MustComplete(s) \/ due[on])
  IN /\ scan[s].pc = "acquire"
     /\ \/ /\ IsFree(key) /\ updates
           /\ held' = held \cup {[key |-> key, by |-> s, leaked |-> FALSE]}
           /\ due' = [due EXCEPT ![on] = FALSE]
           /\ scan' = [scan EXCEPT ![s].pc = "from"]
           /\ UNCHANGED scanning
        \/ /\ ~(IsFree(key) /\ updates)
           /\ ~MustComplete(s)
           /\ GoesOn(s)
           /\ UNCHANGED lockVars
     /\ UNCHANGED <<events, sourceVars, dbVars, rowVars, process, renamed>>

(* The update fails.  The lock of a resource is released, the lock of a     *)
(* type is not.  The error is ErrFailedToAcquireLock.                       *)
LeftLocked(s) == IF scan[s].on = "type" THEN {[key |-> KeyOf(scan[s]), by |-> s, leaked |-> TRUE]} ELSE {}
AcquireFails(s) ==
  /\ scan[s].pc = "acquire" /\ IsFree(KeyOf(scan[s]))
  /\ held' = held \cup LeftLocked(s)
  /\ GoesOn(s)
  /\ Event /\ UNCHANGED <<sourceVars, dbVars, rowVars, due, process, renamed>>

(* A scan of the resource from no version reads the latest under the lock.  *)
Latest == IF saved = <<>> THEN 0 ELSE Last(saved)
From(s) ==
  /\ scan[s].pc = "from"
  /\ scan' = [scan EXCEPT ![s].pc = "check",
                          ![s].from = IF scan[s].on = "res" /\ @ = 0 THEN Latest ELSE @]
  /\ UNCHANGED <<events, sourceVars, dbVars, rowVars, lockVars, runnerVars>>

(* What a check script prints: the newest version, or all from a given one. *)
Found(t, from) ==
  IF from = 0 THEN <<source[t]>> ELSE [i \in 1..(source[t] - from + 1) |-> from + i - 1]

(* check, up to the script's answer.  A pipeline that is gone is an error;  *)
(* `quiet` is the resource's paused as the scan first read it.              *)
Check(s) ==
  LET on == scan[s].on
      from == IF on # s.of THEN 0 ELSE scan[s].from
      got == Found(on, from)
      idle == pipeline = "paused" \/ (on = "res" /\ scan[s].quiet) \/ got = <<from>>
  IN /\ scan[s].pc = "check"
     /\ \/ ~Present /\ Ends(s) /\ Release(s)
        \/ Present /\ idle /\ Returns(s, typeVersion) /\ Release(s)
        \/ /\ Present /\ ~idle
           /\ scan' = [scan EXCEPT ![s].pc = "save", ![s].got = got]
           /\ UNCHANGED <<held, scanning>>
     /\ UNCHANGED <<events, sourceVars, dbVars, rowVars, due, process, renamed>>

(* Mutant: the lock is not released.                                        *)
CheckFailsLocked(s) ==
  /\ scan[s].pc \in {"from", "check"} /\ Present
  /\ (scan[s].pc = "check" /\ Returns(s, typeVersion)) \/ Ends(s)
  /\ UNCHANGED held
  /\ Event /\ UNCHANGED <<sourceVars, dbVars, rowVars, due, process, renamed>>

(* The script fails, which is no error of the scan, or another call does.   *)
CheckFails(s) ==
  /\ scan[s].pc \in {"from", "check"} /\ Present
  /\ (scan[s].pc = "check" /\ Returns(s, typeVersion)) \/ Ends(s)
  /\ Release(s)
  /\ Event /\ UNCHANGED <<sourceVars, dbVars, rowVars, due, process, renamed>>

(* Mutant: a version that is known keeps its check_order.                   *)
SavedIfNew(s) == saved \o SelectSeq(s, LAMBDA v : v \notin ToSet(saved))

(* Each version of the list, in turn, becomes the one with the highest      *)
(* check_order, known already or not.                                       *)
SavedInOrder(s) == SelectSeq(saved, LAMBDA v : v \notin ToSet(s)) \o s

(* Mutant: the type gets the first version that the check found.           *)
SaveFirst(s) ==
  LET got == scan[s].got
  IN /\ scan[s].pc = "save"
     /\ Release(s)
     /\ \/ scan[s].on = "res" /\ Present /\ saved' = SavedInOrder(got) /\ GoesOn(s) /\ UNCHANGED typeVersion
        \/ scan[s].on = "type" /\ Present /\ typeVersion' = Head(got) /\ Returns(s, Head(got)) /\ UNCHANGED saved
        \/ ~Present /\ (IF scan[s].on = "res" THEN GoesOn(s) ELSE Ends(s)) /\ UNCHANGED dbVars
     /\ UNCHANGED <<events, sourceVars, rowVars, due, process, renamed>>

(* The versions are saved, or the last one as the type's.  With no row,     *)
(* saving a resource's versions fails, which is only logged; saving a       *)
(* type's is an error.                                                      *)
Save(s) ==
  LET got == scan[s].got
  IN /\ scan[s].pc = "save"
     /\ Release(s)
     /\ \/ scan[s].on = "res" /\ Present /\ saved' = SavedInOrder(got) /\ GoesOn(s) /\ UNCHANGED typeVersion
        \/ scan[s].on = "type" /\ Present /\ typeVersion' = Last(got) /\ Returns(s, Last(got)) /\ UNCHANGED saved
        \/ ~Present /\ (IF scan[s].on = "res" THEN GoesOn(s) ELSE Ends(s)) /\ UNCHANGED dbVars
     /\ UNCHANGED <<events, sourceVars, rowVars, due, process, renamed>>

SaveFails(s) ==
  /\ scan[s].pc = "save" /\ Present
  /\ IF scan[s].on = "res" THEN GoesOn(s) ELSE Ends(s)
  /\ Release(s)
  /\ Event /\ UNCHANGED <<sourceVars, dbVars, rowVars, due, process, renamed>>

-----------------------------------------------------------------------------
(* Sources, builds, users, time and crashes.                               *)

(* An interval is longer than a check and the second that a scan which must *)
(* complete sleeps before it tries again.                                   *)
Elapse(t) ==
  /\ ~due[t] /\ due' = [due EXCEPT ![t] = TRUE]
  /\ \A s \in Scanner : ~(scan[s].pc = "acquire" /\ scan[s].on = t /\ MustComplete(s))
  /\ UNCHANGED <<events, sourceVars, dbVars, rowVars, held, runnerVars, scan>>

NewVersion(t) ==
  /\ source[t] < MaxVersions
  /\ source' = [source EXCEPT ![t] = @ + 1]
  /\ Event /\ UNCHANGED <<putting, dbVars, rowVars, lockVars, runnerVars, scan>>

(* A build's put makes a version, and saves it as an output afterwards: at  *)
(* the end of the order, unless the version is known already.               *)
Put ==
  /\ source["res"] < MaxVersions
  /\ source' = [source EXCEPT !["res"] = @ + 1]
  /\ putting' = putting \cup {source'["res"]}
  /\ Event /\ UNCHANGED <<dbVars, rowVars, lockVars, runnerVars, scan>>

SaveOutput(v) ==
  /\ v \in putting /\ putting' = putting \ {v}
  /\ saved' = IF Present /\ v \notin ToSet(saved) THEN Append(saved, v) ELSE saved
  /\ UNCHANGED <<events, source, typeVersion, rowVars, lockVars, runnerVars, scan>>

Toggle ==
  /\ \/ Present /\ pipeline' = (IF pipeline = "active" THEN "paused" ELSE "active") /\ UNCHANGED resPaused
     \/ Present /\ resPaused' = ~resPaused /\ UNCHANGED pipeline
  /\ Event /\ UNCHANGED <<sourceVars, dbVars, lockVars, runnerVars, scan>>

Rename ==
  /\ Present
  /\ renamed' = {a \in Atc : process[a] # "none"}
  /\ Event /\ UNCHANGED <<sourceVars, dbVars, rowVars, lockVars, process, scanning, scan>>

Destroy ==
  /\ Present /\ pipeline' = "gone"
  /\ saved' = <<>> /\ typeVersion' = 0
  /\ Event /\ UNCHANGED <<sourceVars, resPaused, lockVars, runnerVars, scan>>

(* The ATC's goroutines are gone, and its locks with its connection.        *)
Crash(a) ==
  /\ process' = [process EXCEPT ![a] = "none"]
  /\ renamed' = renamed \ {a}
  /\ scanning' = [scanning EXCEPT ![a] = {}]
  /\ scan' = [s \in Scanner |-> IF s.atc = a THEN Off ELSE scan[s]]
  /\ held' = {h \in held : h.by.atc # a}
  /\ Event /\ UNCHANGED <<sourceVars, dbVars, rowVars, due>>

ScanStep(s) == Store(s) \/ Cancel(s) \/ Begin(s) \/ Acquire(s) \/ From(s) \/ Check(s) \/ Save(s)
ScanFails(s) == AcquireFails(s) \/ CheckFails(s) \/ SaveFails(s)

Next ==
  \/ \E a \in Atc : Sync(a) \/ Tick(a) \/ TickFails(a) \/ Crash(a)
  \/ \E s \in Scanner : ScanStep(s) \/ ScanFails(s)
  \/ \E s \in Scanner, from \in {0} \cup ToSet(saved) : Ask(s, from)
  \/ \E t \in Thing : Elapse(t) \/ NewVersion(t)
  \/ Put \/ (\E v \in putting : SaveOutput(v))
  \/ Toggle \/ Rename \/ Destroy

Spec == Init /\ [][Next]_vars

(* Goroutines run, tickers tick, time passes and builds save what they put. *)
FairSpec ==
  /\ Spec
  /\ \A a \in Atc : WF_vars(Sync(a)) /\ WF_vars(Tick(a))
  /\ \A s \in Scanner : WF_vars(ScanStep(s))
  /\ \A t \in Thing : WF_vars(Elapse(t))
  /\ WF_vars(\E v \in putting : SaveOutput(v))

-----------------------------------------------------------------------------
Record == [pc : {"off", "spawned", "wait", "acquire", "from", "check", "save"}, live : BOOLEAN, on : Thing,
           via : 0..MaxVersions, from : 0..MaxVersions, got : Seq(Version), quiet : BOOLEAN]

(* Every variable keeps to its type, and no version of the resource has     *)
(* two rows: neither a check nor the output of a put inserts a version      *)
(* that is known (saveVersionedResource).                                   *)
TypeOK ==
  /\ source \in [Thing -> Version] /\ putting \subseteq Version
  /\ saved \in Seq(Version) /\ IsInjective(saved) /\ typeVersion \in 0..MaxVersions
  /\ pipeline \in {"active", "paused", "gone"} /\ resPaused \in BOOLEAN
  /\ due \in [Thing -> BOOLEAN]
  /\ process \in [Atc -> {"none", "starting", "up", "exited"}] /\ renamed \subseteq Atc
  /\ scanning \in [Atc -> SUBSET Thing]
  /\ scan \in [Scanner -> Record]
  /\ events \in 0..MaxEvents

Leaked == {h \in held : h.leaked}

(* A checking lock is held by one scan, from the time it has the lock to    *)
(* its end, whichever error ends it (defer lock.Release() in scan); the     *)
(* only locks without a scan are those that                                 *)
(* AcquireResourceTypeCheckingLockWithIntervalCheck leaves locked when its  *)
(* query fails.                                                             *)
LocksAreScans ==
  /\ \A h, i \in held : h.key = i.key => h = i
  /\ \A h \in held \ Leaked : KeyOf(scan[h.by]) = h.key
  /\ {s \in Scanner : scan[s].pc \in {"from", "check", "save"}} = {h.by : h \in held \ Leaked}
  /\ \A h \in Leaked : h.key.of = "type"

(* The version of a resource type never goes back to an older one,          *)
(* although a scan checks from the version it read before it waited for     *)
(* the lock (resource_type_scanner.go), while others saved newer ones.      *)
TypeNeverGoesBack == [][typeVersion' >= typeVersion \/ pipeline' = "gone"]_vars

(* Once nothing else happens, the type's version and the resource's latest  *)
(* one are the newest that their sources have, in spite of failed checks,   *)
(* crashes, restarted runners, and checks that put an older version at the  *)
(* end of the order because a put, or a check under the lock of another     *)
(* configuration, overtook them.  Not while the pipeline or the resource    *)
(* is paused, nor if the lock of the type was left locked.                  *)
CatchesUp ==
  <>[](\/ pipeline # "active" \/ Leaked # {}
       \/ typeVersion = source["type"] /\ (resPaused \/ Latest = source["res"]))

(* A check that the API, or a build triggered by hand, asks for comes to    *)
(* an end, whatever holds the lock or fails meanwhile: mustComplete loops   *)
(* for as long as others have the lock.  It would loop for ever if the      *)
(* lock was left locked, or the pipeline is gone by the time it has the     *)
(* lock.                                                                    *)
RequestsEnd ==
  \A s \in Request : scan[s].pc # "off" ~> (scan[s].pc = "off" \/ ~Present \/ Leaked # {})

(* When a pipeline stays paused, the goroutines that scan it end on every   *)
(* ATC (Sync signals the process, the runner cancels the context), those    *)
(* of a runner that was replaced before included.                           *)
StopsWhenPaused ==
  <>[](pipeline = "paused" /\ Leaked = {}) => <>[](\A s \in Runner : scan[s].pc = "off")
=============================================================================
