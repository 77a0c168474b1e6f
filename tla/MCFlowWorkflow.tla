--------------------------- MODULE MCFlowWorkflow ---------------------------
(* The interpreter alone, over every valid flow of up to four plain and      *)
(* condition nodes, every flow of that size whose only fault is a cycle,    *)
(* and flows that wait and poll.                                           *)
EXTENDS FlowWorkflowProperties, MCFlows

Ids == 1..6

PlainTypes == {"start", "end", "task", "condition"}

WalkedFlows ==
  UNION {ValidFlows(1..k, PlainTypes) : k \in 2..4}
    \cup UNION {CyclicFlows(1..k, PlainTypes) : k \in 3..4}
    \cup ValidFlows(1..4, {"start", "end", "manual_approval", "http_poll"})
    \cup {WaitsBehindCondition, PollThenTwoWaits}

=============================================================================
