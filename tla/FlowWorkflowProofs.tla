------------------------- MODULE FlowWorkflowProofs -------------------------
(***************************************************************************)
(* The interpreter's safety properties, proved for every set of flows.      *)
(*                                                                         *)
(* None of the properties is inductive.  What carries them is Inv: where    *)
(* the coroutine stands (CoroutineInv), what each settled node owes to its  *)
(* edges (SettledInv), and that settled nodes never close a cycle           *)
(* (OrderInv).                                                             *)
(***************************************************************************)
EXTENDS FlowWorkflowProperties, TLAPS

AtNode == pc \in NodePc \cup {"mark_failed"}

CoroutineInv ==
  /\ pc \in {"create_scheduled_run", "mark_running"} => node = 0 /\ ~progressed
  /\ pc = "scan" /\ ~progressed => node = 0
  /\ AtNode =>
       /\ node \in flow.nodes
       /\ statuses[node] = "PENDING"
       /\ UpstreamDone(flow, statuses, node)
       /\ Executable(flow, statuses, branch, node)
  /\ pc \in {"create_wait", "wait_signal", "complete_wait"} => IsWait(node)
  /\ pc = "sleep" => attempts[node] < MaxPolls
  /\ \A n \in flow.nodes :
       statuses[n] = "PENDING" /\ attempts[n] # 0 => n = node /\ (AtNode \/ pc = "closed")
  /\ pc = "mark_stuck" => node = 0 /\ Ahead = {} /\ ~AllTerminal
  /\ pc = "mark_success" \/ result = "SUCCESS" => AllTerminal
  /\ result # "none" => pc = "closed"

SettledInv ==
  \A n \in flow.nodes : statuses[n] # "PENDING" =>
    /\ UpstreamDone(flow, statuses, n)
    /\ statuses[n] = "SUCCESS" => Executable(flow, statuses, branch, n)
    /\ statuses[n] = "SKIPPED" => ~Executable(flow, statuses, branch, n)
    /\ statuses[n] = "SUCCESS" /\ flow.type[n] = "condition" =>
         branch[n] \in {"true", "false"}

NoCycleIn(S) ==
  /\ \E n \in S : \A e \in Incoming(flow, n) : e.source \notin S
  /\ \E n \in S : \A e \in Outgoing(flow, n) : e.target \notin S

OrderInv ==
  \A S \in SUBSET flow.nodes :
    S # {} /\ (\A n \in S : statuses[n] # "PENDING") => NoCycleIn(S)

Inv == TypeOK /\ CoroutineInv /\ SettledInv /\ OrderInv

-----------------------------------------------------------------------------
(* The two ends of an edge of a flow are nodes of the flow. *)
LEMMA EdgeEnds ==
  ASSUME TypeOK, NEW e \in flow.edges
  PROVE  /\ e.source \in flow.nodes
         /\ e.target \in flow.nodes
         /\ e.handle \in Ports(flow.type[e.source])
BY DEF TypeOK, EdgesConnectPorts

(* Nodes are positive numbers. *)
LEMMA NodesPositive ==
  ASSUME TypeOK, NEW n \in flow.nodes
  PROVE  n \in Nat /\ n # 0
BY NodeAssumption DEF TypeOK, IsFlow

(* A node that settles after its upstream leaves every other node's view of *)
(* its own upstream as it was.                                             *)
LEMMA SettleKeepsOthers ==
  ASSUME TypeOK, SettledInv,
         NEW n \in flow.nodes, statuses[n] = "PENDING",
         NEW s \in {"SUCCESS", "SKIPPED"}, NEW b,
         NEW m \in flow.nodes, UpstreamDone(flow, statuses, m)
  PROVE  /\ UpstreamDone(flow, [statuses EXCEPT ![n] = s], m)
         /\ Executable(flow, [statuses EXCEPT ![n] = s], [branch EXCEPT ![n] = b], m)
              <=> Executable(flow, statuses, branch, m)
         /\ Executable(flow, [statuses EXCEPT ![n] = s], branch, m)
              <=> Executable(flow, statuses, branch, m)
<1>1. \A e \in Incoming(flow, m) : e.source \in flow.nodes /\ e.source # n
  BY EdgeEnds DEF UpstreamDone, Incoming, TerminalSuccess
<1>2. statuses \in [flow.nodes -> Status] /\ branch \in [flow.nodes -> Handle \cup {"none"}]
  BY DEF TypeOK
<1>3. \A e \in Incoming(flow, m) :
        /\ [statuses EXCEPT ![n] = s][e.source] = statuses[e.source]
        /\ [branch EXCEPT ![n] = b][e.source] = branch[e.source]
  BY <1>1, <1>2
<1> QED
  BY <1>3 DEF UpstreamDone, Executable, ActiveEdge

(* A node that settles after its upstream closes no cycle of settled nodes. *)
LEMMA SettleKeepsOrder ==
  ASSUME TypeOK, SettledInv, OrderInv,
         NEW n \in flow.nodes, statuses[n] = "PENDING",
         UpstreamDone(flow, statuses, n),
         NEW s \in {"SUCCESS", "SKIPPED"},
         NEW S \in SUBSET flow.nodes, S # {},
         \A m \in S : [statuses EXCEPT ![n] = s][m] # "PENDING"
  PROVE  NoCycleIn(S)
<1>1. statuses \in [flow.nodes -> Status]
  BY DEF TypeOK
<1>2. \A m \in S \ {n} : statuses[m] # "PENDING"
  BY <1>1
<1>3. \A m \in S \ {n} : UpstreamDone(flow, statuses, m)
  BY <1>2 DEF SettledInv
<1>4. \A m \in S : \A e \in Incoming(flow, m) : e.source # n
  BY <1>3 DEF UpstreamDone, TerminalSuccess
<1>5. CASE n \notin S
  BY <1>2, <1>5 DEF OrderInv
<1>6. CASE n \in S
  <2>1. \A e \in Outgoing(flow, n) : e.target \notin S
    BY <1>4 DEF Incoming, Outgoing
  <2>2. CASE S = {n}
    BY <1>4, <2>1, <2>2 DEF NoCycleIn
  <2>3. CASE S \ {n} # {}
    <3>1. NoCycleIn(S \ {n})
      BY <1>2, <2>3 DEF OrderInv
    <3>2. PICK m \in S \ {n} : \A e \in Incoming(flow, m) : e.source \notin S \ {n}
      BY <3>1 DEF NoCycleIn
    <3>3. \A e \in Incoming(flow, m) : e.source \notin S
      BY <1>4, <3>2
    <3> QED
      BY <1>6, <2>1, <3>3 DEF NoCycleIn
  <2> QED
    BY <1>6, <2>2, <2>3
<1> QED
  BY <1>5, <1>6

(* What SkipNode and Succeed do to a node keeps SettledInv and OrderInv. *)
LEMMA Settle ==
  ASSUME TypeOK, SettledInv, OrderInv,
         NEW n \in flow.nodes, statuses[n] = "PENDING",
         UpstreamDone(flow, statuses, n),
         NEW s \in {"SUCCESS", "SKIPPED"}, NEW b,
         s = "SUCCESS" <=> Executable(flow, statuses, branch, n),
         flow.type[n] = "condition" /\ s = "SUCCESS" => b \in {"true", "false"},
         flow' = flow,
         statuses' = [statuses EXCEPT ![n] = s],
         branch' = [branch EXCEPT ![n] = b] \/ (branch' = branch /\ s = "SKIPPED")
  PROVE  SettledInv' /\ OrderInv'
<1>1. statuses \in [flow.nodes -> Status] /\ branch \in [flow.nodes -> Handle \cup {"none"}]
  BY DEF TypeOK
<1>2. OrderInv'
  <2>1. \A S \in SUBSET flow.nodes :
          S # {} /\ (\A m \in S : [statuses EXCEPT ![n] = s][m] # "PENDING") => NoCycleIn(S)
    BY SettleKeepsOrder
  <2>2. \A S : NoCycleIn(S)' <=> NoCycleIn(S)
    BY DEF NoCycleIn, Incoming, Outgoing
  <2> QED
    BY <2>1, <2>2 DEF OrderInv
<1>3. SettledInv'
  <2> SUFFICES ASSUME NEW m \in flow.nodes, statuses'[m] # "PENDING"
               PROVE  /\ UpstreamDone(flow, statuses', m)
                      /\ statuses'[m] = "SUCCESS" => Executable(flow, statuses', branch', m)
                      /\ statuses'[m] = "SKIPPED" => ~Executable(flow, statuses', branch', m)
                      /\ statuses'[m] = "SUCCESS" /\ flow.type[m] = "condition" =>
                           branch'[m] \in {"true", "false"}
    BY DEF SettledInv
  <2>1. UpstreamDone(flow, statuses, m)
    BY <1>1 DEF SettledInv
  <2>2. /\ UpstreamDone(flow, statuses', m)
        /\ Executable(flow, statuses', branch', m) <=> Executable(flow, statuses, branch, m)
    <3>1. /\ UpstreamDone(flow, [statuses EXCEPT ![n] = s], m)
          /\ Executable(flow, [statuses EXCEPT ![n] = s], [branch EXCEPT ![n] = b], m)
               <=> Executable(flow, statuses, branch, m)
          /\ Executable(flow, [statuses EXCEPT ![n] = s], branch, m)
               <=> Executable(flow, statuses, branch, m)
      BY <2>1, SettleKeepsOthers
    <3>2. CASE branch' = [branch EXCEPT ![n] = b]
      BY <3>1, <3>2, Zenon
    <3>3. CASE branch' = branch
      BY <3>1, <3>3, Zenon
    <3> QED
      BY <3>2, <3>3
  <2>3. CASE m = n
    BY <1>1, <2>2, <2>3
  <2>4. CASE m # n
    <3>1. statuses'[m] = statuses[m] /\ branch'[m] = branch[m]
      BY <1>1, <2>4
    <3> QED
      BY <2>2, <3>1 DEF SettledInv
  <2> QED
    BY <2>3, <2>4
<1> QED
  BY <1>2, <1>3

(* Steps that leave the walk's own state alone keep what is said of it. *)
LEMMA Untouched ==
  ASSUME Inv, UNCHANGED <<flow, statuses, branch>>
  PROVE  SettledInv' /\ OrderInv'
<1>1. \A S : NoCycleIn(S)' <=> NoCycleIn(S)
  BY DEF NoCycleIn, Incoming, Outgoing
<1>2. OrderInv'
  BY <1>1 DEF Inv, OrderInv
<1>3. SettledInv'
  BY DEF Inv, SettledInv
<1> QED
  BY <1>2, <1>3
-----------------------------------------------------------------------------
(* The interpreter starts in Inv. *)
LEMMA InitInv == WfInit => Inv
<1> SUFFICES ASSUME WfInit PROVE Inv
  OBVIOUS
<1>1. IsFlow(flow) /\ EdgesConnectPorts(flow)
  BY FlowsAssumption DEF WfInit
<1>2. \A n \in flow.nodes : statuses[n] = "PENDING" /\ attempts[n] = 0
  BY DEF WfInit
<1>3. TypeOK
  <2>1. /\ statuses \in [flow.nodes -> Status]
        /\ branch \in [flow.nodes -> Handle \cup {"none"}]
        /\ manualSignals \in [flow.nodes -> Decision \cup {"none"}]
    BY DEF WfInit, Status
  <2>2. attempts \in [flow.nodes -> 0..MaxPolls]
    BY MaxPollsAssumption DEF WfInit
  <2>3. pc \in Pc /\ result \in Result
    BY DEF WfInit, Pc, ActivityPc, Result
  <2>4. /\ node \in flow.nodes \cup {0}
        /\ progressed \in BOOLEAN
        /\ callbackSignals \subseteq flow.nodes
        /\ signal \in Decision \cup {"none"}
        /\ cancel \in {"none", "requested", "delivered"}
    BY DEF WfInit
  <2> QED
    BY <1>1, <2>1, <2>2, <2>3, <2>4 DEF TypeOK
<1>4. CoroutineInv
  BY <1>2 DEF WfInit, CoroutineInv, AtNode, NodePc, NodeActivityPc
<1>5. SettledInv
  BY <1>2 DEF SettledInv
<1>6. OrderInv
  BY <1>2 DEF OrderInv
<1> QED
  BY <1>3, <1>4, <1>5, <1>6 DEF Inv
-----------------------------------------------------------------------------
(* Only SkipNode and Succeed settle a node; everything else leaves the walk *)
(* where it was.                                                           *)
LEMMA SettledStep ==
  ASSUME Inv, [WfNext]_wfVars
  PROVE  SettledInv' /\ OrderInv'
<1>1. TypeOK /\ CoroutineInv /\ SettledInv /\ OrderInv
  BY DEF Inv
<1>2. ASSUME NEW n \in flow.nodes, SkipNode(n)
      PROVE  SettledInv' /\ OrderInv'
  <2>1. /\ statuses[n] = "PENDING"
        /\ UpstreamDone(flow, statuses, n)
        /\ ~Executable(flow, statuses, branch, n)
        /\ flow' = flow
        /\ statuses' = [statuses EXCEPT ![n] = "SKIPPED"]
        /\ branch' = branch
    BY <1>2 DEF SkipNode, NextStop, Ahead
  <2> QED
    BY <1>1, <2>1, Settle
<1>3. ASSUME NEW b \in Branches(node), AtNode, Succeed(b)
      PROVE  SettledInv' /\ OrderInv'
  <2>1. /\ node \in flow.nodes
        /\ statuses[node] = "PENDING"
        /\ UpstreamDone(flow, statuses, node)
        /\ Executable(flow, statuses, branch, node)
    BY <1>1, <1>3 DEF CoroutineInv
  <2>2. /\ flow' = flow
        /\ statuses' = [statuses EXCEPT ![node] = "SUCCESS"]
        /\ branch' = [branch EXCEPT ![node] = b]
    BY <1>3 DEF Succeed
  <2>3. flow.type[node] = "condition" => b \in {"true", "false"}
    BY <1>3 DEF Branches
  <2> QED
    BY <1>1, <2>1, <2>2, <2>3, Settle
<1>4. ASSUME UNCHANGED <<flow, statuses, branch>>
      PROVE  SettledInv' /\ OrderInv'
  BY <1>4, Untouched
<1>5. CASE Coroutine
  BY <1>2, <1>4, <1>5 DEF Coroutine, StartNode, PassEnds, SignalConsumed
<1>6. ASSUME NEW b \in Handle, NodeExecuted(b)
      PROVE  SettledInv' /\ OrderInv'
  BY <1>3, <1>6 DEF NodeExecuted, AtNode, NodePc, NodeActivityPc
<1>7. CASE WaitCompleted
  <2>1. AtNode
    BY <1>7 DEF WaitCompleted, AtNode, NodePc, NodeActivityPc
  <2>2. "output" \in Branches(node)
    BY <1>1, <1>7 DEF WaitCompleted, CoroutineInv, IsWait, Branches
  <2> QED
    BY <1>3, <1>7, <2>1, <2>2 DEF WaitCompleted
<1>8. CASE ActivityAnswers
  BY <1>4, <1>6, <1>7, <1>8
  DEF ActivityAnswers, ScheduledRunCreated, RunMarkedRunning, NodeSkipped, PollPending,
      NodeRaised, WaitCreated, NodeMarkedFailed, RunMarkedSuccess, RunMarkedStuck,
      Close, local
<1>9. CASE SleepEnds \/ CancelDelivered
  BY <1>4, <1>9 DEF SleepEnds, CancelDelivered, Close, local
<1>10. CASE Callers
  BY <1>4, <1>10 DEF Callers, ResumeManual, ReceiveCallback, RequestCancel, local
<1>11. CASE UNCHANGED wfVars
  BY <1>4, <1>11 DEF wfVars, local
<1> QED
  BY <1>5, <1>8, <1>9, <1>10, <1>11 DEF WfNext

(* Every step keeps the types. *)
LEMMA TypeStep ==
  ASSUME Inv, [WfNext]_wfVars
  PROVE  TypeOK'
<1> USE DEF TypeOK
<1>1. TypeOK /\ CoroutineInv
  BY DEF Inv
<1>2. ASSUME UNCHANGED flow
      PROVE  (IsFlow(flow) /\ EdgesConnectPorts(flow))'
  BY <1>1, <1>2
<1>3. ASSUME NEW n \in flow.nodes, SkipNode(n)
      PROVE  TypeOK'
  BY <1>1, <1>2, <1>3 DEF SkipNode, inbox, Pc, ActivityPc, Status
<1>4. ASSUME NEW n \in flow.nodes, StartNode(n)
      PROVE  TypeOK'
  <2>1. pc = "scan" /\ statuses[n] = "PENDING"
    BY <1>4 DEF StartNode, NextStop, Ahead
  <2>2. attempts[n] = 0
    BY <1>1, <2>1 DEF CoroutineInv, AtNode, NodePc, NodeActivityPc
  <2>3. attempts' \in [flow.nodes -> 0..MaxPolls]
    BY <1>1, <1>4, <2>2, MaxPollsAssumption DEF StartNode
  <2> QED
    BY <1>1, <1>2, <1>4, <2>3 DEF StartNode, inbox, Pc, ActivityPc
<1>5. CASE PassEnds
  BY <1>1, <1>2, <1>5 DEF PassEnds, inbox, Pc, ActivityPc
<1>6. CASE SignalConsumed
  <2>1. pc' \in Pc
    BY <1>6 DEF SignalConsumed, Pc, ActivityPc
  <2>2. /\ signal' \in Decision \cup {"none"}
        /\ manualSignals' \in [flow.nodes -> Decision \cup {"none"}]
        /\ callbackSignals' \subseteq flow.nodes
    <3>1. node \in flow.nodes
      BY <1>1, <1>6 DEF SignalConsumed, CoroutineInv, AtNode, NodePc
    <3> QED
      BY <1>1, <1>6, <3>1 DEF SignalConsumed
  <2> QED
    BY <1>1, <1>2, <1>6, <2>1, <2>2 DEF SignalConsumed
<1>7. ASSUME NEW b \in Handle, Succeed(b)
      PROVE  TypeOK'
  BY <1>1, <1>2, <1>7 DEF Succeed, inbox, Pc, Status
<1>8. CASE SleepEnds
  <2>1. node \in flow.nodes /\ attempts[node] < MaxPolls
    BY <1>1, <1>8 DEF SleepEnds, CoroutineInv, AtNode, NodePc
  <2>2. attempts' \in [flow.nodes -> 0..MaxPolls]
    BY <1>1, <1>8, <2>1, MaxPollsAssumption DEF SleepEnds
  <2> QED
    BY <1>1, <1>2, <1>8, <2>2 DEF SleepEnds, inbox, Pc, ActivityPc
<1>9. CASE ActivityAnswers
  BY <1>1, <1>2, <1>7, <1>9
  DEF ActivityAnswers, ScheduledRunCreated, RunMarkedRunning, NodeSkipped, NodeExecuted,
      PollPending, NodeRaised, WaitCreated, WaitCompleted, NodeMarkedFailed,
      RunMarkedSuccess, RunMarkedStuck, Close, local, inbox, Pc, ActivityPc, NodePc,
      NodeActivityPc, Handle, Result
<1>10. CASE CancelDelivered
  BY <1>1, <1>2, <1>10 DEF CancelDelivered, Close, local, inbox, Pc, ActivityPc, Result
<1>11. CASE Callers
  BY <1>1, <1>2, <1>11 DEF Callers, ResumeManual, ReceiveCallback, RequestCancel, local, inbox
<1>12. CASE UNCHANGED wfVars
  BY <1>1, <1>2, <1>12 DEF wfVars, local, inbox
<1> QED
  BY <1>3, <1>4, <1>5, <1>6, <1>8, <1>9, <1>10, <1>11, <1>12 DEF WfNext, Coroutine

(* Every step leaves the coroutine where CoroutineInv says it can be. *)
LEMMA CoroutineStep ==
  ASSUME Inv, [WfNext]_wfVars
  PROVE  CoroutineInv'
<1> USE DEF CoroutineInv, AtNode, NodePc, NodeActivityPc
<1>1. TypeOK /\ CoroutineInv
  BY DEF Inv
<1>2. /\ statuses \in [flow.nodes -> Status]
      /\ attempts \in [flow.nodes -> 0..MaxPolls]
  BY <1>1 DEF TypeOK
<1>3. ASSUME NEW n \in flow.nodes, SkipNode(n)
      PROVE  CoroutineInv'
  <2>1. /\ \A m \in flow.nodes : statuses'[m] = "PENDING" => statuses[m] = "PENDING"
        /\ result = "none"
    BY <1>1, <1>2, <1>3 DEF SkipNode
  <2> QED
    BY <1>1, <1>3, <2>1 DEF SkipNode
<1>4. ASSUME NEW n \in flow.nodes, StartNode(n)
      PROVE  CoroutineInv'
  <2>1. /\ statuses[n] = "PENDING"
        /\ UpstreamDone(flow, statuses, n)
    BY <1>4 DEF StartNode, NextStop, Ahead
  <2>2. /\ pc' = IF IsWait(n) THEN "create_wait" ELSE "execute"
        /\ Executable(flow, statuses, branch, n)
        /\ node' = n /\ UNCHANGED <<flow, statuses, branch, result>>
        /\ \A m \in flow.nodes : m # n => attempts'[m] = attempts[m]
        /\ result = "none"
    BY <1>1, <1>2, <1>4 DEF StartNode
  <2>3. pc' \in {"create_wait", "wait_signal", "complete_wait"} => IsWait(node)'
    BY <2>2 DEF IsWait
  <2> QED
    BY <1>1, <1>4, <2>1, <2>2, <2>3 DEF StartNode
<1>5. CASE PassEnds
  <2>1. CASE AllTerminal /\ pc' = "mark_success" /\ UNCHANGED <<node, progressed>>
    BY <1>1, <1>5, <2>1 DEF PassEnds, AllTerminal
  <2>2. CASE ~AllTerminal /\ ~progressed /\ pc' = "mark_stuck" /\ UNCHANGED <<node, progressed>>
    BY <1>1, <1>5, <2>2 DEF PassEnds, AllTerminal, Ahead
  <2>3. CASE ~AllTerminal /\ progressed /\ node' = 0 /\ progressed' = FALSE /\ UNCHANGED pc
    BY <1>1, <1>5, <2>3 DEF PassEnds
  <2> QED
    BY <1>5, <2>1, <2>2, <2>3 DEF PassEnds
<1>6. CASE SignalConsumed
  BY <1>1, <1>6 DEF SignalConsumed, IsWait
<1>7. CASE \E b \in Handle : NodeExecuted(b)
  BY <1>1, <1>2, <1>7 DEF NodeExecuted, Succeed
<1>8. CASE WaitCompleted
  BY <1>1, <1>2, <1>8 DEF WaitCompleted, Succeed
<1>9. CASE SleepEnds
  BY <1>1, <1>2, <1>9 DEF SleepEnds
<1>10. CASE \/ ScheduledRunCreated \/ RunMarkedRunning \/ NodeSkipped
            \/ PollPending \/ NodeRaised \/ WaitCreated
  BY <1>1, <1>10
  DEF ScheduledRunCreated, RunMarkedRunning, NodeSkipped, PollPending, NodeRaised,
      WaitCreated, local, IsWait
<1>11. CASE NodeMarkedFailed \/ RunMarkedSuccess \/ RunMarkedStuck
  BY <1>1, <1>11
  DEF NodeMarkedFailed, RunMarkedSuccess, RunMarkedStuck, Close, local, AllTerminal
<1>12. CASE CancelDelivered
  BY <1>1, <1>12 DEF CancelDelivered, Close, local
<1>13. CASE Callers
  BY <1>1, <1>13
  DEF Callers, ResumeManual, ReceiveCallback, RequestCancel, local, AllTerminal, Ahead, IsWait
<1>14. CASE UNCHANGED wfVars
  BY <1>1, <1>14 DEF wfVars, local, AllTerminal, Ahead, IsWait
<1> QED
  BY <1>3, <1>4, <1>5, <1>6, <1>7, <1>8, <1>9, <1>10, <1>11, <1>12, <1>13, <1>14
  DEF WfNext, Coroutine, ActivityAnswers
-----------------------------------------------------------------------------
(* Inv is inductive. *)
THEOREM Invariance == WfSpec => []Inv
<1>1. Inv /\ [WfNext]_wfVars => Inv'
  BY TypeStep, CoroutineStep, SettledStep DEF Inv
<1> QED
  BY InitInv, <1>1, PTL DEF WfSpec

(* The interpreter's variables keep their types: in particular no node is   *)
(* attempted more often than MaxPolls allows.                              *)
THEOREM TypeCorrect == WfSpec => []TypeOK
<1>1. Inv => TypeOK
  BY DEF Inv
<1> QED
  BY Invariance, <1>1, PTL

(* No node is begun, finished or skipped before its upstream has settled. *)
THEOREM UpstreamAlwaysFirst == WfSpec => []UpstreamFirst
<1>1. Inv => UpstreamFirst
  <2> SUFFICES ASSUME Inv, NEW e \in flow.edges,
                      Settled(e.target) \/ Working(e.target)
               PROVE  Settled(e.source)
    BY DEF UpstreamFirst
  <2>1. e.target \in flow.nodes /\ e \in Incoming(flow, e.target)
    BY EdgeEnds DEF Inv, Incoming
  <2>2. UpstreamDone(flow, statuses, e.target)
    BY <2>1 DEF Inv, SettledInv, CoroutineInv, Settled, Working, AtNode
  <2> QED
    BY <2>1, <2>2 DEF UpstreamDone, Settled, TerminalSuccess
<1> QED
  BY Invariance, <1>1, PTL

(* A node runs only over a live edge, and is skipped only for want of one. *)
THEOREM BranchesAlwaysRespected == WfSpec => []BranchesRespected
<1>1. Inv => BranchesRespected
  <2> SUFFICES ASSUME Inv, NEW n \in flow.nodes
               PROVE  LET into == {e \in flow.edges : e.target = n} IN
                      /\ statuses[n] = "SUCCESS" \/ Working(n) =>
                           into = {} \/ \E e \in into : LiveEdge(e)
                      /\ statuses[n] = "SKIPPED" => into # {} /\ \A e \in into : ~LiveEdge(e)
    BY DEF BranchesRespected
  <2>1. Executable(flow, statuses, branch, n) <=>
          \/ {e \in flow.edges : e.target = n} = {}
          \/ \E e \in {e \in flow.edges : e.target = n} : LiveEdge(e)
    BY DEF Executable, Incoming, ActiveEdge, LiveEdge
  <2>2. statuses[n] = "SUCCESS" \/ Working(n) => Executable(flow, statuses, branch, n)
    BY DEF Inv, SettledInv, CoroutineInv, Working, AtNode
  <2>3. statuses[n] = "SKIPPED" => ~Executable(flow, statuses, branch, n)
    BY DEF Inv, SettledInv
  <2> QED
    BY <2>1, <2>2, <2>3
<1> QED
  BY Invariance, <1>1, PTL

(* Without a cycle the scan always finds a node: were every pending node    *)
(* behind another pending one, they would hold one.                        *)
LEMMA StuckOnlyOnCycle == Inv => NeverStuck
<1> SUFFICES ASSUME Inv, pc = "mark_stuck", Acyclic(flow)
             PROVE  FALSE
  BY DEF NeverStuck
<1> DEFINE Pending == {n \in flow.nodes : statuses[n] = "PENDING"}
<1>1. TypeOK /\ node = 0 /\ Ahead = {} /\ ~AllTerminal
  BY DEF Inv, CoroutineInv
<1>2. Pending # {}
  BY <1>1 DEF AllTerminal, TerminalSuccess, TypeOK, Status
<1>3. PICK n \in Pending : \A e \in Incoming(flow, n) : e.source \notin Pending
  BY <1>2 DEF Acyclic
<1>4. \A e \in Incoming(flow, n) : statuses[e.source] \in {"SUCCESS", "SKIPPED"}
  BY <1>1, <1>3, EdgeEnds DEF Incoming, TypeOK, Status
<1>5. n > node
  BY <1>1, NodesPositive
<1>6. n \in Ahead
  BY <1>4, <1>5 DEF Ahead, UpstreamDone, TerminalSuccess
<1> QED
  BY <1>1, <1>6

(* Only a graph with a cycle ends a run with "made no progress". *)
THEOREM NeverStuckWithoutCycle == WfSpec => []NeverStuck
BY Invariance, StuckOnlyOnCycle, PTL

(* Once every node has settled, following live edges from the start leads   *)
(* to an end that has run.                                                 *)
LEMMA FinishedHasOutput ==
  ASSUME Inv, AllTerminal, ValidFlow(flow)
  PROVE  \E n \in flow.nodes : flow.type[n] = "end" /\ statuses[n] = "SUCCESS"
<1> SUFFICES ASSUME \A n \in flow.nodes : statuses[n] = "SUCCESS" => flow.type[n] # "end"
             PROVE  FALSE
  OBVIOUS
<1> DEFINE Ran == {n \in flow.nodes : statuses[n] = "SUCCESS"}
<1>1. TypeOK /\ SettledInv /\ \A n \in flow.nodes : statuses[n] \in {"SUCCESS", "SKIPPED"}
  BY DEF Inv, AllTerminal, TerminalSuccess
<1>2. PICK s \in flow.nodes : flow.type[s] = "start"
  BY DEF ValidFlow, StartAndEnds
<1>3. Executable(flow, statuses, branch, s)
  BY <1>2 DEF ValidFlow, NodesAreConnected, Executable
<1>4. Ran # {}
  BY <1>1, <1>3 DEF SettledInv
<1>5. PICK n \in Ran : \A e \in Outgoing(flow, n) : e.target \notin Ran
  BY <1>4 DEF ValidFlow, Acyclic
<1>6. PICK e \in Outgoing(flow, n) : ActiveEdge(flow, statuses, branch, e)
  <2>1. flow.type[n] # "end" /\ Outgoing(flow, n) # {}
    BY DEF ValidFlow, NodesAreConnected
  <2>2. CASE flow.type[n] = "condition"
    <3>1. branch[n] \in {"true", "false"}
      BY <1>1, <2>2 DEF SettledInv
    <3>2. \E e \in Outgoing(flow, n) : e.handle = branch[n]
      BY <2>2, <3>1 DEF ValidFlow, NodesAreConnected
    <3> QED
      BY <3>2 DEF ActiveEdge, Outgoing
  <2>3. CASE flow.type[n] # "condition"
    BY <2>1, <2>3 DEF ActiveEdge, Outgoing
  <2> QED
    BY <2>2, <2>3
<1>7. e.target \in flow.nodes /\ e \in Incoming(flow, e.target)
  BY <1>1, EdgeEnds DEF Outgoing, Incoming
<1>8. Executable(flow, statuses, branch, e.target)
  BY <1>6, <1>7 DEF Executable
<1>9. e.target \in Ran
  BY <1>1, <1>7, <1>8 DEF SettledInv
<1> QED
  BY <1>5, <1>9

(* Settled nodes never hold a cycle. *)
LEMMA FinishedIsAcyclic == ASSUME Inv, AllTerminal PROVE Acyclic(flow)
  BY DEF Inv, OrderInv, NoCycleIn, Acyclic, AllTerminal, TerminalSuccess

(* A successful run of a valid flow has run an End node. *)
THEOREM SuccessAlwaysHasOutput == WfSpec => []SuccessHasOutput
<1>1. Inv => SuccessHasOutput
  BY FinishedHasOutput DEF Inv, CoroutineInv, SuccessHasOutput
<1> QED
  BY Invariance, <1>1, PTL

(* A graph with a cycle cannot succeed. *)
THEOREM CyclesNeverSucceed == WfSpec => []CycleNeverSucceeds
<1>1. Inv => CycleNeverSucceeds
  BY FinishedIsAcyclic DEF Inv, CoroutineInv, CycleNeverSucceeds
<1> QED
  BY Invariance, <1>1, PTL
-----------------------------------------------------------------------------
(* A settled node keeps its status, its output and its attempts. *)
THEOREM SettledStaysFinal == WfSpec => SettledIsFinal
<1> DEFINE Kept == \A n \in flow.nodes : Settled(n) =>
                     /\ statuses'[n] = statuses[n]
                     /\ branch'[n] = branch[n]
                     /\ attempts'[n] = attempts[n]
<1>1. ASSUME Inv, WfNext
      PROVE  Kept
  <2>1. /\ statuses \in [flow.nodes -> Status]
        /\ branch \in [flow.nodes -> Handle \cup {"none"}]
        /\ attempts \in [flow.nodes -> 0..MaxPolls]
        /\ AtNode => statuses[node] = "PENDING"
    BY <1>1 DEF Inv, TypeOK, CoroutineInv
  <2>2. CASE Coroutine
    BY <2>1, <2>2
    DEF Coroutine, SkipNode, StartNode, NextStop, Ahead, PassEnds, SignalConsumed, Settled
  <2>3. CASE ActivityAnswers
    BY <2>1, <2>3
    DEF ActivityAnswers, ScheduledRunCreated, RunMarkedRunning, NodeSkipped, NodeExecuted,
        PollPending, NodeRaised, WaitCreated, WaitCompleted, NodeMarkedFailed,
        RunMarkedSuccess, RunMarkedStuck, Succeed, Close, local, Settled,
        AtNode, NodePc, NodeActivityPc
  <2>4. CASE SleepEnds
    BY <2>1, <2>4 DEF SleepEnds, Settled, AtNode, NodePc
  <2>5. CASE CancelDelivered \/ Callers
    BY <2>5 DEF CancelDelivered, Callers, ResumeManual, ReceiveCallback, RequestCancel, Close,
               local
  <2> QED
    BY <1>1, <2>2, <2>3, <2>4, <2>5 DEF WfNext
<1>2. Inv /\ [WfNext]_wfVars => [Kept]_wfVars
  BY <1>1
<1> QED
  BY Invariance, <1>2, PTL DEF WfSpec, SettledIsFinal
-----------------------------------------------------------------------------
(* What the promise calls due and wanted is what the interpreter calls      *)
(* upstream done and executable.                                           *)
LEMMA SameWords ==
  ASSUME TypeOK, NEW n \in flow.nodes
  PROVE  /\ statuses[n] = "PENDING" /\ UpstreamDone(flow, statuses, n) <=> Promise!Due(n)
         /\ Executable(flow, statuses, branch, n) <=> Promise!Wanted(n)
<1>1. \A e \in flow.edges : statuses[e.source] \in Status
  BY EdgeEnds DEF TypeOK
<1>2. statuses[n] = "PENDING" /\ UpstreamDone(flow, statuses, n) <=> Promise!Due(n)
  BY <1>1 DEF UpstreamDone, Incoming, TerminalSuccess, Status, Promise!Due, Promise!Settled
<1>3. Executable(flow, statuses, branch, n) <=> Promise!Wanted(n)
  BY DEF Executable, ActiveEdge, Incoming, Promise!Wanted, Promise!Live
<1> QED
  BY <1>2, <1>3

(* Every step of the interpreter is a step of the promise, or none. *)
LEMMA PromiseStep ==
  ASSUME Inv, [WfNext]_wfVars
  PROVE  [Promise!PromiseNext]_(Promise!promiseVars)
<1> USE DEF Promise!promiseVars, Promise!Open
<1>1. TypeOK /\ CoroutineInv /\ (pc # "closed" => result = "none")
  BY DEF Inv, CoroutineInv
<1>2. ASSUME UNCHANGED <<flow, statuses, branch, cancel, result>>
      PROVE  UNCHANGED Promise!promiseVars
  BY <1>2
<1>3. AtNode => node \in flow.nodes /\ Promise!Due(node) /\ Promise!Wanted(node)
  BY <1>1, SameWords DEF CoroutineInv
<1>4. ASSUME NEW n \in flow.nodes, SkipNode(n)
      PROVE  Promise!PromiseNext
  <2>1. Promise!Due(n) /\ ~Promise!Wanted(n)
    BY <1>1, <1>4, SameWords DEF SkipNode, NextStop, Ahead
  <2>2. Promise!Skip(n)
    BY <1>1, <1>4, <2>1 DEF SkipNode, Promise!Skip
  <2> QED
    BY <2>2 DEF Promise!PromiseNext
<1>5. ASSUME NEW b \in Branches(node), AtNode, pc # "closed", Succeed(b)
      PROVE  Promise!PromiseNext
  <2>1. b \in Handle
    BY <1>5 DEF Branches, Handle
  <2>2. \/ b \in Promise!Ports(flow.type[node])
        \/ Promise!Ports(flow.type[node]) = {} /\ b = "output"
    BY <1>5 DEF Branches, Promise!Ports
  <2>3. Promise!Finish(node, b)
    BY <1>1, <1>3, <1>5, <2>2 DEF Succeed, Promise!Finish
  <2> QED
    BY <1>3, <1>5, <2>1, <2>3 DEF Promise!PromiseNext, Promise!Handle, Handle
<1>6. ASSUME NEW b \in Handle, NodeExecuted(b)
      PROVE  Promise!PromiseNext
  BY <1>5, <1>6 DEF NodeExecuted, AtNode, NodePc, NodeActivityPc
<1>7. CASE WaitCompleted
  <2>1. AtNode /\ pc # "closed"
    BY <1>7 DEF WaitCompleted, AtNode, NodePc, NodeActivityPc
  <2>2. "output" \in Branches(node)
    BY <1>1, <1>7 DEF WaitCompleted, CoroutineInv, IsWait, Branches
  <2> QED
    BY <1>5, <1>7, <2>1, <2>2 DEF WaitCompleted
<1>8. CASE NodeMarkedFailed
  BY <1>1, <1>3, <1>8
  DEF NodeMarkedFailed, Close, local, AtNode, Promise!PromiseNext, Promise!Fail
<1>9. CASE RunMarkedSuccess
  BY <1>1, <1>9
  DEF RunMarkedSuccess, Close, local, CoroutineInv, AllTerminal, TerminalSuccess,
      Promise!PromiseNext, Promise!Succeed, Promise!Settled
<1>10. CASE RunMarkedStuck
  <2>1. ~Acyclic(flow)
    BY <1>10, StuckOnlyOnCycle DEF RunMarkedStuck, NeverStuck
  <2>2. ~Promise!Acyclic(flow)
    BY <2>1 DEF Acyclic, Incoming, Outgoing, Promise!Acyclic, Promise!Incoming, Promise!Outgoing
  <2> QED
    BY <1>1, <1>10, <2>2
    DEF RunMarkedStuck, Close, local, Promise!PromiseNext, Promise!Fail
<1>11. CASE CancelDelivered
  BY <1>1, <1>11
  DEF CancelDelivered, Close, local, Promise!PromiseNext, Promise!Cancel
<1>12. CASE RequestCancel
  BY <1>1, <1>12 DEF RequestCancel, local, Promise!PromiseNext, Promise!AskCancel
<1>13. CASE Coroutine
  BY <1>2, <1>4, <1>13 DEF Coroutine, StartNode, PassEnds, SignalConsumed
<1>14. CASE ActivityAnswers
  BY <1>2, <1>6, <1>7, <1>8, <1>9, <1>10, <1>14
  DEF ActivityAnswers, ScheduledRunCreated, RunMarkedRunning, NodeSkipped, PollPending,
      NodeRaised, WaitCreated, local
<1>15. CASE SleepEnds \/ Callers \/ UNCHANGED wfVars
  BY <1>2, <1>12, <1>15
  DEF SleepEnds, Callers, ResumeManual, ReceiveCallback, wfVars, local
<1> QED
  BY <1>11, <1>13, <1>14, <1>15 DEF WfNext

(* The interpreter implements FlowPromise. *)
THEOREM InterpreterKeepsPromise == WfSpec => KeepsPromise
<1>1. WfInit => Promise!PromiseInit
  <2> SUFFICES ASSUME WfInit PROVE Promise!PromiseInit
    OBVIOUS
  <2>1. IsFlow(flow) /\ EdgesConnectPorts(flow)
    BY FlowsAssumption DEF WfInit
  <2>2. Promise!IsFlow(flow) /\ Promise!EdgesConnectPorts(flow)
    BY <2>1
    DEF IsFlow, NodeType, Edge, Handle, EdgesConnectPorts, Ports, Promise!IsFlow,
        Promise!NodeType, Promise!Edge, Promise!Handle, Promise!EdgesConnectPorts, Promise!Ports
  <2> QED
    BY <2>2 DEF WfInit, Promise!PromiseInit
<1>2. Inv /\ [WfNext]_wfVars => [Promise!PromiseNext]_(Promise!promiseVars)
  BY PromiseStep
<1> QED
  BY Invariance, <1>1, <1>2, PTL DEF WfSpec, KeepsPromise, Promise!PromiseSpec

=============================================================================
