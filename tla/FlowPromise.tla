---------------------------- MODULE FlowPromise ----------------------------
(***************************************************************************)
(* What a run of a flow promises, whatever order its nodes are visited in:  *)
(* a node runs after everything upstream of it, when at least one edge into *)
(* it is live; it is skipped when none is; the run succeeds when every node *)
(* has run or been skipped, and fails only over a node that was due to run  *)
(* or over a graph with a cycle.                                           *)
(* GenericFlowWorkflow implements this specification.                       *)
(***************************************************************************)
EXTENDS FlowGraph

VARIABLES
  flow,
  statuses,
  branch,       \* the branch a finished condition has taken
  cancelled,    \* an operator asked for the run's cancellation
  result

promiseVars == <<flow, statuses, branch, cancelled, result>>

PromiseInit ==
  /\ IsFlow(flow) /\ EdgesConnectPorts(flow)
  /\ statuses = [n \in flow.nodes |-> "PENDING"]
  /\ branch = [n \in flow.nodes |-> "none"]
  /\ cancelled = FALSE
  /\ result = "none"

Open == result = "none"

(* Edge e leaves a node that succeeded, through the port its output chose.  *)
Live(e) ==
  /\ statuses[e.source] = "SUCCESS"
  /\ flow.type[e.source] = "condition" => e.handle = branch[e.source]

Settled(n) == statuses[n] # "PENDING"

Due(n) ==
  /\ ~Settled(n)
  /\ \A e \in flow.edges : e.target = n => Settled(e.source)

Wanted(n) ==
  \/ \A e \in flow.edges : e.target # n
  \/ \E e \in flow.edges : e.target = n /\ Live(e)

Finish(n, b) ==
  /\ Open /\ Due(n) /\ Wanted(n)
  /\ b \in Ports(flow.type[n]) \/ (Ports(flow.type[n]) = {} /\ b = "output")
  /\ statuses' = [statuses EXCEPT ![n] = "SUCCESS"]
  /\ branch' = [branch EXCEPT ![n] = b]
  /\ UNCHANGED <<flow, cancelled, result>>

Skip(n) ==
  /\ Open /\ Due(n) /\ ~Wanted(n)
  /\ statuses' = [statuses EXCEPT ![n] = "SKIPPED"]
  /\ UNCHANGED <<flow, branch, cancelled, result>>

Succeed ==
  /\ Open
  /\ \A n \in flow.nodes : Settled(n)
  /\ result' = "SUCCESS"
  /\ UNCHANGED <<flow, statuses, branch, cancelled>>

Fail ==
  /\ Open
  /\ (\E n \in flow.nodes : Due(n) /\ Wanted(n)) \/ ~Acyclic(flow)
  /\ result' = "FAILED"
  /\ UNCHANGED <<flow, statuses, branch, cancelled>>

AskCancel ==
  /\ Open
  /\ cancelled' = TRUE
  /\ UNCHANGED <<flow, statuses, branch, result>>

Cancel ==
  /\ Open /\ cancelled
  /\ result' = "CANCELLED"
  /\ UNCHANGED <<flow, statuses, branch, cancelled>>

PromiseNext ==
  \/ \E n \in flow.nodes : (\E b \in Handle : Finish(n, b)) \/ Skip(n)
  \/ Succeed \/ Fail
  \/ AskCancel \/ Cancel

PromiseSpec == PromiseInit /\ [][PromiseNext]_promiseVars

=============================================================================
