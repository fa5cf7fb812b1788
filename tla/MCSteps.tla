------------------------------ MODULE MCSteps --------------------------------
(* Steps for TLC: jobs with hooks, attempts, timeouts and parallel steps.   *)
EXTENDS Steps

Step(kind, steps) ==
  [kind |-> kind, steps |-> steps, attempts |-> 0, timeout |-> FALSE,
   abort |-> <<>>, failure |-> <<>>, success |-> <<>>, ensure |-> <<>>]

Task == Step("task", <<>>)
Hang == Step("hang", <<>>)

MCConfigs ==
  {\* a put, and a hook that may time out
   [Step("do", <<Step("put", <<>>)>>) EXCEPT !.failure = <<[Hang EXCEPT !.timeout = TRUE]>>],
   \* a task that is tried twice and may time out each time
   [Task EXCEPT !.timeout = TRUE, !.attempts = 2, !.success = <<Task>>],
   \* parallel steps, one that never ends and one that may fail
   Step("aggregate", <<[Hang EXCEPT !.ensure = <<Task>>], Step("try", <<[Task EXCEPT !.abort = <<Task>>]>>)>>),
   \* a step that may fail, and one after it
   [Step("do", <<Step("try", <<[Task EXCEPT !.ensure = <<Task>>]>>), Hang>>) EXCEPT !.timeout = TRUE]}
=============================================================================
