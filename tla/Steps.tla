------------------------------- MODULE Steps ---------------------------------
(***************************************************************************)
(* The steps of a build: the plan that scheduler/factory makes of a job's  *)
(* configuration, the steps that the engine makes of the plan              *)
(* (engine/build_step.go), and how they run (exec): hooks, attempts,       *)
(* timeouts, parallel steps, and the signal that an abort sends.           *)
(*                                                                         *)
(* A step is a node of a tree and is named by its path, the sequence of    *)
(* the places of its ancestors and itself. The build, the member of an     *)
(* aggregate and the step under a timeout are processes of their own       *)
(* (ifrit): each has a channel of signals that the step of it which runs   *)
(* listens to, and tells that it is ready once its first step is.          *)
(*                                                                         *)
(* An error is "interrupted" (ErrInterrupted), "wrapped" (another error    *)
(* whose text says so) or "other". Scripts run in containers, which        *)
(* outlive the ATC, as does what they hold of the script (`saved`). An     *)
(* aborted build is not resumed (module BuildEngine), so none restarts.    *)
(***************************************************************************)
EXTENDS Naturals, Sequences, FiniteSets, SequencesExt

CONSTANTS
  Configs,     \* configurations of jobs
  MaxRestarts  \* bound: restarts of the ATC

VARIABLES
  tree,      \* the kind of every step, by path
  node,      \* how far it is: st, err and ok
  ready,     \* the steps that closed the channel they were given for that
  pend,      \* the signals that wait in the channels of processes
  forwarded, \* timeouts that passed a signal on
  timedOut,  \* timeouts that passed
  script,    \* the scripts in containers
  saved,     \* the exit statuses kept in containers
  aborted,   \* execBuild.Resume was told
  status,    \* of the build
  restarts, swallowed

nodes == <<node, ready, pend, forwarded, timedOut>>
vars == <<tree, nodes, script, saved, aborted, status, restarts, swallowed>>

-----------------------------------------------------------------------------
(* scheduler/factory. A configuration is                                   *)
(*   [kind, steps, attempts, timeout, abort, failure, success, ensure]     *)
(* and each hook is a sequence of at most one.                             *)
T(kind, kids) == [kind |-> kind, kids |-> kids]

(* buildDoStep: on success of each step, the rest.                         *)
Do(kids) == FoldRight(LAMBDA kid, rest : T("success", <<kid, rest>>), kids, T("identity", <<>>))

Hook(kind, hook, plan) == IF hook = <<>> THEN plan ELSE T(kind, <<plan, hook[1]>>)

RECURSIVE Plan(_)
Plan(c) ==
  LET Plans(cs) == [i \in DOMAIN cs |-> Plan(cs[i])]
      core == CASE c.kind = "do" -> Do(Plans(c.steps))
                [] c.kind = "put" -> T("success", <<T("put", <<>>), T("get", <<>>)>>)
                [] c.kind \in {"try", "aggregate"} -> T(c.kind, Plans(c.steps))
                [] c.kind \in {"task", "hang", "get"} -> T(c.kind, <<>>)
      unhooked == IF c.timeout THEN T("timeout", <<core>>) ELSE core
      plan == IF c.attempts = 0 THEN unhooked ELSE T("retry", [i \in 1..c.attempts |-> unhooked])
  IN  Hook("ensure", Plans(c.ensure),
        Hook("success", Plans(c.success),
          Hook("failure", Plans(c.failure),
            Hook("abort", Plans(c.abort), plan))))

RECURSIVE Paths(_)
Paths(t) == {<<>>} \cup UNION {{<<i>> \o p : p \in Paths(t.kids[i])} : i \in DOMAIN t.kids}

Kind(t, p) == FoldLeft(LAMBDA s, i : s.kids[i], t, p).kind

Kids(p) == {q \in DOMAIN tree : Len(q) = Len(p) + 1 /\ IsPrefix(p, q)}
Kid(p, i) == Append(p, i)

Leaf(p) == tree[p] \in {"task", "hang", "put", "get"}

(* Processes, and the one that a step runs in.                             *)
IsProcess(p) == p = <<>> \/ tree[Front(p)] \in {"timeout", "aggregate"}
Process(p) ==
  LET above == {q \in DOMAIN tree : IsPrefix(q, p) /\ IsProcess(q)}
  IN  CHOOSE q \in above : \A r \in above : Len(r) <= Len(q)

NewNodes(t) == [p \in DOMAIN t |-> [st |-> "new", err |-> "none", ok |-> FALSE]]

Init ==
  /\ tree \in {LET plan == Plan(c) IN [p \in Paths(plan) |-> Kind(plan, p)] : c \in Configs}
  /\ node = [NewNodes(tree) EXCEPT ![<<>>].st = "run"]
  /\ ready = {} /\ forwarded = {} /\ timedOut = {}
  /\ pend = [p \in {q \in DOMAIN tree : IsProcess(q)} |-> 0]
  /\ script = [p \in {q \in DOMAIN tree : Leaf(q)} |-> "none"]
  /\ saved = [p \in DOMAIN script |-> "none"]
  /\ aborted = FALSE /\ status = "started"
  /\ restarts = 0 /\ swallowed = FALSE

IsNew(p) == node[p].st = "new"
Runs(p, kind) == node[p].st = "run" /\ tree[p] = kind
IsDone(p) == node[p].st = "done"
Err(p) == node[p].err
Interrupted(e) == e \in {"interrupted", "wrapped"}

IsLastAttempt(q) == ~IsNew(q) /\ \A r \in Kids(Front(q)) : Last(r) > Last(q) => IsNew(r)

(* Step.Succeeded.                                                         *)
RECURSIVE Succeeded(_)
Succeeded(p) ==
  CASE Leaf(p) -> node[p].ok
    [] tree[p] \in {"identity", "try"} -> TRUE
    [] tree[p] \in {"success", "ensure", "aggregate"} -> \A q \in Kids(p) : Succeeded(q)
    [] tree[p] \in {"failure", "abort"} -> Succeeded(Kid(p, 1))
    [] tree[p] = "timeout" -> p \notin timedOut /\ Succeeded(Kid(p, 1))
    [] tree[p] = "retry" -> \E q \in Kids(p) : IsLastAttempt(q) /\ Succeeded(q)

(* The channel that says so is handed to the first step.                   *)
RECURSIVE IsReady(_)
IsReady(p) ==
  \/ p \in ready
  \/ tree[p] \in {"success", "failure", "abort", "ensure", "try"} /\ IsReady(Kid(p, 1))

Start(p) ==
  /\ node' = [node EXCEPT ![p].st = "run"]
  /\ ready' = IF tree[p] = "retry" THEN ready \cup {p} ELSE ready
  /\ UNCHANGED swallowed

Return(p, e) ==
  /\ node' = [node EXCEPT ![p].st = "done", ![p].err = e]
  /\ UNCHANGED <<ready, swallowed>>

-----------------------------------------------------------------------------
(* Steps that run other steps. Their first step runs at once.              *)
RunFirst(p) ==
  /\ node[p].st = "run" /\ tree[p] \in {"success", "failure", "abort", "ensure", "try", "retry", "timeout"}
  /\ IsNew(Kid(p, 1)) /\ Start(Kid(p, 1))

OnSuccess(p) ==
  /\ Runs(p, "success")
  /\ \/ /\ IsDone(Kid(p, 1)) /\ IsNew(Kid(p, 2))
        /\ IF Err(Kid(p, 1)) = "none" /\ Succeeded(Kid(p, 1)) THEN Start(Kid(p, 2)) ELSE Return(p, Err(Kid(p, 1)))
     \/ IsDone(Kid(p, 2)) /\ Return(p, Err(Kid(p, 2)))

(* Mutant: the error of the hook is dropped.                               *)
OnFailureQuietly(p) ==
  /\ Runs(p, "failure")
  /\ \/ /\ IsDone(Kid(p, 1)) /\ IsNew(Kid(p, 2))
        /\ IF Err(Kid(p, 1)) = "none" /\ ~Succeeded(Kid(p, 1)) THEN Start(Kid(p, 2)) ELSE Return(p, Err(Kid(p, 1)))
     \/ IsDone(Kid(p, 2)) /\ Return(p, "none")
OnFailure(p) ==
  /\ Runs(p, "failure")
  /\ \/ /\ IsDone(Kid(p, 1)) /\ IsNew(Kid(p, 2))
        /\ IF Err(Kid(p, 1)) = "none" /\ ~Succeeded(Kid(p, 1)) THEN Start(Kid(p, 2)) ELSE Return(p, Err(Kid(p, 1)))
     \/ IsDone(Kid(p, 2)) /\ Return(p, Err(Kid(p, 2)))

(* multierror.Append                                                       *)
Joined(errs) ==
  IF \E e \in errs : Interrupted(e) THEN "wrapped" ELSE IF "other" \in errs THEN "other" ELSE "none"

OnAbort(p) ==
  /\ Runs(p, "abort")
  /\ \/ /\ IsDone(Kid(p, 1)) /\ IsNew(Kid(p, 2))
        /\ IF Interrupted(Err(Kid(p, 1))) THEN Start(Kid(p, 2)) ELSE Return(p, Err(Kid(p, 1)))
     \/ IsDone(Kid(p, 2)) /\ Return(p, "wrapped")

(* Mutant: the error of the hook is dropped.                               *)
EnsureQuietly(p) ==
  /\ Runs(p, "ensure")
  /\ \/ IsDone(Kid(p, 1)) /\ IsNew(Kid(p, 2)) /\ Start(Kid(p, 2))
     \/ IsDone(Kid(p, 2)) /\ Return(p, Err(Kid(p, 1)))
Ensure(p) ==
  /\ Runs(p, "ensure")
  /\ \/ IsDone(Kid(p, 1)) /\ IsNew(Kid(p, 2)) /\ Start(Kid(p, 2))
     \/ IsDone(Kid(p, 2)) /\ Return(p, Joined({Err(Kid(p, 1)), Err(Kid(p, 2))}))

(* Mutant: every error is returned.                                        *)
TryReturning(p) == Runs(p, "try") /\ IsDone(Kid(p, 1)) /\ Return(p, Err(Kid(p, 1)))

(* An error that only says "interrupted" is ignored as any other.          *)
Try(p) ==
  /\ Runs(p, "try")
  /\ IsDone(Kid(p, 1))
  /\ node' = [node EXCEPT ![p].st = "done",
                          ![p].err = IF Err(Kid(p, 1)) = "interrupted" THEN "interrupted" ELSE "none"]
  /\ swallowed' = (swallowed \/ Err(Kid(p, 1)) = "wrapped")
  /\ UNCHANGED ready

Retry(p) ==
  /\ Runs(p, "retry")
  /\ \E q \in Kids(p) :
       /\ IsLastAttempt(q) /\ IsDone(q)
       /\ IF \/ Err(q) = "interrupted"
             \/ Err(q) = "none" /\ Succeeded(q)
             \/ Last(q) = Cardinality(Kids(p))
          THEN Return(p, Err(q))
          ELSE /\ node' = [node EXCEPT ![Kid(p, Last(q) + 1)].st = "run"]
               /\ swallowed' = (swallowed \/ Err(q) = "wrapped")
               /\ UNCHANGED ready

Identity(p) == Runs(p, "identity") /\ Return(p, "none")

Sequential(p) ==
  /\ \/ RunFirst(p) \/ OnSuccess(p) \/ OnFailure(p) \/ OnAbort(p) \/ Ensure(p) \/ Try(p) \/ Retry(p) \/ Identity(p)
  /\ UNCHANGED <<tree, pend, forwarded, timedOut, script, saved, aborted, status, restarts>>

-----------------------------------------------------------------------------
(* Steps that wait for processes. They listen to signals, and to the       *)
(* timer, only when those are ready.                                       *)
Up(qs) == [q \in DOMAIN pend |-> IF q \in qs THEN pend[q] + 1 ELSE pend[q]]

Listen(p) ==
  /\ node[p].st = "run" /\ tree[p] \in {"timeout", "aggregate"}
  /\ p \notin ready
  /\ \A q \in Kids(p) : IsReady(q) \/ IsDone(q)
  /\ ready' = ready \cup {p}
  /\ UNCHANGED <<node, pend, forwarded, timedOut, swallowed>>

(* Mutant: the signal goes to one of the members.                          *)
ForwardToOne(p) ==
  /\ node[p].st = "run" /\ tree[p] \in {"timeout", "aggregate"} /\ p \in ready
  /\ tree[p] = "aggregate" => p \notin forwarded
  /\ pend[Process(p)] > 0
  /\ \E q \in Kids(p) : pend' = [Up({q}) EXCEPT ![Process(p)] = @ - 1]
  /\ forwarded' = forwarded \cup {p}
  /\ UNCHANGED <<node, ready, timedOut, swallowed>>
Forward(p) ==
  /\ node[p].st = "run" /\ tree[p] \in {"timeout", "aggregate"} /\ p \in ready
  /\ tree[p] = "aggregate" => p \notin forwarded
  /\ pend[Process(p)] > 0
  /\ pend' = [Up(Kids(p)) EXCEPT ![Process(p)] = @ - 1]
  /\ forwarded' = forwarded \cup {p}
  /\ UNCHANGED <<node, ready, timedOut, swallowed>>

TimerFires(p) ==
  /\ Runs(p, "timeout") /\ p \in ready \ timedOut
  /\ timedOut' = timedOut \cup {p}
  /\ pend' = Up(Kids(p))
  /\ UNCHANGED <<node, ready, forwarded, swallowed>>

(* A signal that the step did not take before it returned is gone.         *)
TimeoutReturns(p) ==
  /\ Runs(p, "timeout") /\ p \in ready /\ IsDone(Kid(p, 1))
  /\ LET e == IF p \in timedOut THEN "none" ELSE Err(Kid(p, 1))
     IN  /\ node' = [node EXCEPT ![p].st = "done", ![p].err = e]
         /\ swallowed' = (swallowed \/ (p \in forwarded /\ ~Interrupted(e)))
  /\ UNCHANGED <<ready, pend, forwarded, timedOut>>

RunAll(p) ==
  /\ Runs(p, "aggregate") /\ \A q \in Kids(p) : IsNew(q)
  /\ node' = [q \in DOMAIN node |-> IF q \in Kids(p) THEN [node[q] EXCEPT !.st = "run"] ELSE node[q]]
  /\ ready' = ready \cup {q \in Kids(p) : tree[q] = "retry"}
  /\ UNCHANGED <<pend, forwarded, timedOut, swallowed>>

(* Mutant: the first error is returned at once.                            *)
AggregateReturnsFirst(p) ==
  /\ Runs(p, "aggregate") /\ p \in ready
  /\ (\A q \in Kids(p) : IsDone(q)) \/ (\E q \in Kids(p) : Err(q) # "none")
  /\ Return(p, IF p \in forwarded THEN "interrupted" ELSE Joined({Err(q) : q \in Kids(p)}))
  /\ UNCHANGED <<pend, forwarded, timedOut>>
AggregateReturns(p) ==
  /\ Runs(p, "aggregate") /\ p \in ready /\ \A q \in Kids(p) : IsDone(q)
  /\ Return(p, IF p \in forwarded THEN "interrupted" ELSE Joined({Err(q) : q \in Kids(p)}))
  /\ UNCHANGED <<pend, forwarded, timedOut>>

Parallel(p) ==
  /\ \/ Listen(p) \/ Forward(p) \/ TimerFires(p) \/ TimeoutReturns(p) \/ RunAll(p) \/ AggregateReturns(p)
  /\ UNCHANGED <<tree, script, saved, aborted, status, restarts>>

-----------------------------------------------------------------------------
(* Steps that run a script: ActionsStep. A container that holds a result   *)
(* gives it, and then the step does not say that it is ready.              *)
Ends(p, e, ok) ==
  /\ node' = [node EXCEPT ![p] = [st |-> "done", err |-> e, ok |-> ok]]
  /\ UNCHANGED <<ready, forwarded, timedOut, aborted, status, restarts>>

Resumes(p) ==
  /\ node[p].st = "run" /\ p \notin ready /\ saved[p] # "none"
  /\ Ends(p, "none", saved[p] = "ok")
  /\ UNCHANGED <<pend, script, saved, swallowed>>

(* The script starts, or the step attaches to it. Only a task is started   *)
(* again after it was stopped.                                             *)
RunScript(p) ==
  /\ node[p].st = "run" /\ p \notin ready /\ saved[p] = "none"
  /\ script[p] = "stopped" => tree[p] \in {"task", "hang"}
  /\ ready' = ready \cup {p}
  /\ script' = [script EXCEPT ![p] = IF @ \in {"none", "stopped"} THEN "running" ELSE @]
  /\ UNCHANGED <<node, pend, forwarded, timedOut, saved, aborted, status, restarts, swallowed>>

(* Only a task keeps the status of a script that failed.                   *)
Exits(p) ==
  /\ node[p].st = "run" /\ p \in ready /\ tree[p] # "hang"
  /\ \E ok \in BOOLEAN :
       /\ script[p] = "failed" => ~ok
       /\ Ends(p, "none", ok)
       /\ saved' = [saved EXCEPT ![p] = IF ok THEN "ok" ELSE IF tree[p] = "task" THEN "failed" ELSE "none"]
       /\ script' = [script EXCEPT ![p] = IF ok THEN "none" ELSE "failed"]
  /\ UNCHANGED <<pend, swallowed>>

Fails(p) ==
  /\ node[p].st = "run"
  /\ Ends(p, "other", FALSE)
  /\ UNCHANGED <<pend, script, saved, swallowed>>

(* A signal: before the script runs the step may wait for something, and   *)
(* then it is stopped. Tasks register their outputs first; when this       *)
(* fails the script is left running and the error is not the interrupt.    *)
TakesSignal(p) ==
  /\ node[p].st = "run" /\ pend[Process(p)] > 0
  /\ pend' = [pend EXCEPT ![Process(p)] = @ - 1]
  /\ \/ /\ Ends(p, "interrupted", FALSE)
        /\ script' = [script EXCEPT ![p] = IF p \in ready THEN "stopped" ELSE @]
        /\ UNCHANGED swallowed
     \/ /\ p \in ready /\ tree[p] \in {"task", "hang"}
        /\ Ends(p, "other", FALSE)
        /\ swallowed' = TRUE
        /\ UNCHANGED script
  /\ UNCHANGED saved

RunsScript(p) ==
  /\ Leaf(p)
  /\ Resumes(p) \/ RunScript(p) \/ Exits(p) \/ TakesSignal(p)
  /\ UNCHANGED tree

Errs(p) == Leaf(p) /\ Fails(p) /\ UNCHANGED tree

-----------------------------------------------------------------------------
(* execBuild.Resume and Abort, and a new ATC that resumes the build.       *)
Abort ==
  /\ status = "started" /\ ~aborted
  /\ aborted' = TRUE
  /\ pend' = Up({<<>>})
  /\ UNCHANGED <<tree, node, ready, forwarded, timedOut, script, saved, status, restarts, swallowed>>

Finish ==
  /\ status = "started" /\ IsDone(<<>>)
  /\ status' = IF aborted THEN "aborted"
               ELSE IF Err(<<>>) # "none" THEN "errored"
               ELSE IF Succeeded(<<>>) THEN "succeeded" ELSE "failed"
  /\ UNCHANGED <<tree, nodes, script, saved, aborted, restarts, swallowed>>

Restart ==
  /\ status = "started" /\ ~aborted /\ restarts < MaxRestarts
  /\ restarts' = restarts + 1
  /\ node' = [NewNodes(tree) EXCEPT ![<<>>].st = "run"]
  /\ ready' = {} /\ forwarded' = {} /\ timedOut' = {}
  /\ pend' = [p \in DOMAIN pend |-> 0]
  /\ UNCHANGED <<tree, script, saved, aborted, status, swallowed>>

Next ==
  \/ \E p \in DOMAIN tree : Sequential(p) \/ Parallel(p) \/ RunsScript(p) \/ Errs(p)
  \/ Abort \/ Finish \/ Restart

(* Goroutines go on, timers fire, containers are created and scripts that  *)
(* end do so. No fairness for errors.                                      *)
Fairness ==
  /\ WF_vars(\E p \in DOMAIN tree : Sequential(p) \/ Parallel(p) \/ RunsScript(p))
  /\ WF_vars(Finish)

Spec == Init /\ [][Next]_vars
FairSpec == Spec /\ Fairness

-----------------------------------------------------------------------------
(* Every variable has its type.                                            *)
TypeOK ==
  /\ \A p \in DOMAIN node : /\ node[p].st \in {"new", "run", "done"}
                            /\ node[p].err \in {"none", "interrupted", "wrapped", "other"}
                            /\ node[p].ok \in BOOLEAN
  /\ ready \cup forwarded \cup timedOut \subseteq DOMAIN tree
  /\ pend \in [{p \in DOMAIN tree : IsProcess(p)} -> 0..2]
  /\ status \in {"started", "succeeded", "failed", "errored", "aborted"}

(* What a plan means: of the results of the steps that ran scripts, the    *)
(* one of the build.                                                       *)
RECURSIVE Meaning(_)
Meaning(p) ==
  LET M(i) == Meaning(Kid(p, i))
      all == {Meaning(q) : q \in {r \in Kids(p) : ~IsNew(r)}}
  IN  CASE Leaf(p) -> IF Err(p) # "none" THEN "errored" ELSE IF node[p].ok THEN "succeeded" ELSE "failed"
        [] tree[p] \in {"identity", "try"} -> "succeeded"
        [] tree[p] = "success" -> IF M(1) = "succeeded" THEN M(2) ELSE M(1)
        [] tree[p] = "failure" -> IF M(1) = "failed" /\ M(2) = "errored" THEN "errored" ELSE M(1)
        [] tree[p] = "abort" -> M(1)
        [] tree[p] = "timeout" -> IF p \in timedOut THEN "failed" ELSE M(1)
        [] tree[p] = "retry" -> IF "succeeded" \in all THEN "succeeded" ELSE M(Cardinality(Kids(p)))
        [] tree[p] \in {"ensure", "aggregate"} ->
             IF "errored" \in all THEN "errored" ELSE IF "failed" \in all THEN "failed" ELSE "succeeded"

(* A build that was not aborted gets the status that its plan means, for   *)
(* whatever its scripts do and wherever it was resumed (execBuild.Resume   *)
(* and the Run and Succeeded of every step).                               *)
OutcomeRight == status \notin {"started", "aborted"} => status = Meaning(<<>>)

(* No Succeeded meets a step that was never made: OnSuccess and Ensure     *)
(* make their second step, and Retry knows its last attempt, only when     *)
(* they run them.                                                          *)
RECURSIVE HasAnswer(_)
HasAnswer(p) ==
  CASE tree[p] \in {"success", "ensure"} ->
         /\ HasAnswer(Kid(p, 1))
         /\ Succeeded(Kid(p, 1)) => ~IsNew(Kid(p, 2)) /\ HasAnswer(Kid(p, 2))
    [] tree[p] \in {"failure", "abort"} -> HasAnswer(Kid(p, 1))
    [] tree[p] = "timeout" -> p \in timedOut \/ HasAnswer(Kid(p, 1))
    [] tree[p] = "aggregate" -> \A q \in Kids(p) : HasAnswer(q)
    [] tree[p] = "retry" -> \E q \in Kids(p) : IsLastAttempt(q) /\ HasAnswer(q)
    [] OTHER -> TRUE

Asked(p) ==
  /\ IsDone(p)
  /\ IF p = <<>> THEN status = "started" /\ ~aborted
     ELSE /\ node[Front(p)].st = "run" /\ Err(p) = "none"
          /\ tree[Front(p)] = "retry" \/ (tree[Front(p)] \in {"success", "failure"} /\ Last(p) = 1)

Answerable == \A p \in DOMAIN tree : Asked(p) => HasAnswer(p)

(* When the build has finished none of its steps runs, whichever were      *)
(* running when one of them failed or the build was aborted, and every     *)
(* step with an ensure hook was followed by it ("regardless of whether the *)
(* first step fails or errors", exec/ensure_step.go).                      *)
Finished ==
  status # "started" =>
    \A p \in DOMAIN tree :
      /\ node[p].st # "run"
      /\ tree[p] = "ensure" /\ ~IsNew(Kid(p, 1)) => IsDone(Kid(p, 2))

(* Once a step has taken the signal of an abort only hooks start. The      *)
(* exceptions are an attempt or a try that sees an error which is not      *)
(* ErrInterrupted itself, a step under a timeout that returns without      *)
(* taking the signal, and a task that fails to register its outputs.       *)
InHook(p) == \E q \in DOMAIN tree : IsPrefix(q, p) /\ q # <<>> /\ Last(q) = 2 /\ tree[Front(q)] \in {"ensure", "abort"}

AbortStops ==
  [][\A p \in DOMAIN script :
       /\ IsNew(p) /\ node'[p].st = "run"
       /\ aborted /\ \A q \in DOMAIN pend : IsPrefix(q, p) => pend[q] = 0
       => InHook(p) \/ swallowed]_vars

(* "Steps should return ErrInterrupted if they received a signal that      *)
(* caused them to stop" (exec/step.go), which is what the steps around     *)
(* them go by: none but hooks start after that.                            *)
AbortAlwaysStops ==
  [][\A p \in DOMAIN script :
       /\ IsNew(p) /\ node'[p].st = "run"
       /\ aborted /\ \A q \in DOMAIN pend : IsPrefix(q, p) => pend[q] = 0
       => InHook(p)]_vars

(* A build ends when its scripts do or are under a timeout, and an aborted *)
(* one always: unless the signal was lost as above, or a step that waits   *)
(* for a process to be ready waits for one that resumed a finished script. *)
Bounded == \A p \in DOMAIN tree : tree[p] = "hang" => p # <<>> /\ tree[Front(p)] = "timeout"

Deaf == \E p, q \in DOMAIN tree :
          /\ node[p].st = "run" /\ tree[p] \in {"timeout", "aggregate"} /\ p \notin ready
          /\ IsPrefix(p, q) /\ Leaf(q) /\ IsDone(q) /\ q \notin ready

BuildEnds ==
  /\ Bounded ~> status # "started" \/ Deaf
  /\ aborted ~> status # "started" \/ swallowed \/ Deaf
=============================================================================
