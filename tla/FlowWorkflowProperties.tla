----------------------- MODULE FlowWorkflowProperties -----------------------
(***************************************************************************)
(* What must be true of every walk of GenericFlowWorkflow over a graph.     *)
(* The properties are stated from the graph's edges, not from the operators *)
(* the interpreter itself evaluates.                                       *)
(***************************************************************************)
EXTENDS GenericFlowWorkflow

Settled(n) == statuses[n] # "PENDING"

(* Edge e is live: its source succeeded and, if it is a condition, took the *)
(* port e leaves from.                                                     *)
LiveEdge(e) ==
  /\ statuses[e.source] = "SUCCESS"
  /\ flow.type[e.source] = "condition" => branch[e.source] = e.handle

(* n is the node the coroutine is in the middle of running. *)
Working(n) == n = node /\ pc \in NodePc \cup {"mark_failed"}

-----------------------------------------------------------------------------
(* A node is not begun, finished or skipped before everything upstream of   *)
(* it has settled: a join waits for all its branches (workflows.py:108).    *)
UpstreamFirst ==
  \A e \in flow.edges :
    Settled(e.target) \/ Working(e.target) => Settled(e.source)

(* A node runs exactly when some edge into it is live, and is skipped       *)
(* exactly when none is; the choice stays right after later nodes settle    *)
(* (workflows.py:111-123).                                                 *)
BranchesRespected ==
  \A n \in flow.nodes :
    LET into == {e \in flow.edges : e.target = n} IN
    /\ statuses[n] = "SUCCESS" \/ Working(n) =>
         into = {} \/ \E e \in into : LiveEdge(e)
    /\ statuses[n] = "SKIPPED" => into # {} /\ \A e \in into : ~LiveEdge(e)

(* Only a graph with a cycle ends a run with "made no progress"            *)
(* (workflows.py:183-195).                                                 *)
NeverStuck == pc = "mark_stuck" => ~Acyclic(flow)

(* A run that succeeds has run an End node, so it has an output to report   *)
(* (workflows.py:165-170).                                                 *)
SuccessHasOutput ==
  result = "SUCCESS" /\ ValidFlow(flow) =>
    \E n \in flow.nodes : flow.type[n] = "end" /\ statuses[n] = "SUCCESS"

(* A node that has settled is not visited again: its status, its output and *)
(* its attempts stay as they are for the rest of the run.                  *)
SettledIsFinal ==
  [][\A n \in flow.nodes : Settled(n) =>
        /\ statuses'[n] = statuses[n]
        /\ branch'[n] = branch[n]
        /\ attempts'[n] = attempts[n]]_wfVars

(* A graph with a cycle does not pass for a success (workflows.py:183-195). *)
CycleNeverSucceeds == result = "SUCCESS" => Acyclic(flow)

(* The run keeps the promise of FlowPromise.                               *)
Promise == INSTANCE FlowPromise WITH cancelled <- cancel # "none"
KeepsPromise == Promise!PromiseSpec
-----------------------------------------------------------------------------
(* Temporal drives the coroutine, its timers and its activities to an end;  *)
(* nothing makes an operator or a partner answer.                          *)
WfFairSpec ==
  /\ WfSpec
  /\ WF_wfVars(Coroutine) /\ WF_wfVars(ActivityAnswers)
  /\ WF_wfVars(SleepEnds) /\ WF_wfVars(CancelDelivered)

(* The operator's or partner's signal for the node being waited for has     *)
(* been stored.                                                            *)
SignalStored == manualSignals[node] # "none" \/ node \in callbackSignals

(* A run ends unless somebody leaves it waiting for good: the scan always   *)
(* finds the next node, polls end, a stored signal is consumed, and no      *)
(* signal stored early is forgotten (workflows.py:98-195).                 *)
EndsUnlessWaiting ==
  <>(pc = "closed") \/ <>[](pc = "wait_signal" /\ ~SignalStored)

=============================================================================
