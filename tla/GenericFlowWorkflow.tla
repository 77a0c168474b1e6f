------------------------ MODULE GenericFlowWorkflow ------------------------
(***************************************************************************)
(* The Temporal workflow of backend/app/temporal/workflows.py, which walks  *)
(* one flow for one run.  The coroutine is single threaded: between two     *)
(* awaits nothing else happens to its state, so pc names the await it is    *)
(* suspended at (or "scan" while it is inside the for loop).  What answers  *)
(* an await - an activity's result, a timer, a signal, the cancellation -   *)
(* is left open here; RunProjection supplies the activities.                *)
(***************************************************************************)
EXTENDS FlowGraph

CONSTANTS
  Flows,        \* the graphs a run may be pinned to
  MaxPolls,     \* maxPolls in the configuration of http_poll nodes
  Decision      \* what an operator may answer to a manual approval

(* The payload is a flow whose edges join its own nodes, or building the    *)
(* incoming and outgoing dictionaries raises; nothing more is checked here. *)
ASSUME FlowsAssumption == \A f \in Flows : IsFlow(f) /\ EdgesConnectPorts(f)
ASSUME MaxPollsAssumption == MaxPolls \in 1..1000
ASSUME DecisionAssumption == "none" \notin Decision

VARIABLES
  flow,             \* payload["flow_content"]
  statuses,         \* statuses[n]: "PENDING", "SUCCESS" or "SKIPPED"
  branch,           \* outputs[n]["branch"], "none" before n has an output
  attempts,         \* attempts[n]
  pc,               \* the await the coroutine is suspended at
  node,             \* the for loop's node_id; 0 before the first of a pass
  progressed,
  manualSignals,    \* _manual_signals: the decision stored for n, or "none"
  callbackSignals,  \* _callback_signals: the nodes with a stored payload
  signal,           \* the decision _execute_node has popped, or "none"
  cancel,           \* the workflow's cancellation: "none", "requested", "delivered"
  result            \* how the workflow execution closed

local == <<flow, statuses, branch, attempts, node, progressed, signal>>
inbox == <<manualSignals, callbackSignals>>
wfVars == <<local, inbox, pc, cancel, result>>
-----------------------------------------------------------------------------
Status == {"PENDING", "SUCCESS", "SKIPPED"}
Result == {"none", "SUCCESS", "FAILED", "CANCELLED"}

(* The awaits of an activity, named after it. *)
ActivityPc == {"create_scheduled_run", "mark_running", "mark_skipped",
               "execute", "create_wait", "complete_wait", "mark_failed",
               "mark_success", "mark_stuck"}

(* The awaits inside _execute_node that answer to `except Exception`. *)
NodeActivityPc == {"execute", "create_wait", "complete_wait"}

(* The awaits at which the coroutine works on one node. *)
NodePc == NodeActivityPc \cup {"wait_signal", "sleep"}

Pc == ActivityPc \cup NodePc \cup {"scan", "closed"}

IsWait(n) == flow.type[n] \in {"manual_approval", "http_callback"}

Branches(n) == IF flow.type[n] = "condition" THEN {"true", "false"} ELSE {"output"}

(* Type invariant. *)
TypeOK ==
  /\ IsFlow(flow) /\ EdgesConnectPorts(flow)
  /\ statuses \in [flow.nodes -> Status]
  /\ branch \in [flow.nodes -> Handle \cup {"none"}]
  /\ attempts \in [flow.nodes -> 0..MaxPolls]
  /\ pc \in Pc
  /\ node \in flow.nodes \cup {0}
  /\ progressed \in BOOLEAN
  /\ manualSignals \in [flow.nodes -> Decision \cup {"none"}]
  /\ callbackSignals \subseteq flow.nodes
  /\ signal \in Decision \cup {"none"}
  /\ cancel \in {"none", "requested", "delivered"}
  /\ result \in Result

WfInit ==
  /\ flow \in Flows
  /\ statuses = [n \in flow.nodes |-> "PENDING"]
  /\ branch = [n \in flow.nodes |-> "none"]
  /\ attempts = [n \in flow.nodes |-> 0]
  /\ pc \in {"create_scheduled_run", "mark_running"}
  /\ node = 0
  /\ progressed = FALSE
  /\ manualSignals = [n \in flow.nodes |-> "none"]
  /\ callbackSignals = {}
  /\ signal = "none"
  /\ cancel = "none"
  /\ result = "none"
-----------------------------------------------------------------------------
(* The two activities that precede the loop. *)

ScheduledRunCreated ==
  /\ pc = "create_scheduled_run"
  /\ pc' = "mark_running"
  /\ UNCHANGED <<local, inbox, cancel, result>>

RunMarkedRunning ==
  /\ pc = "mark_running"
  /\ pc' = "scan"
  /\ UNCHANGED <<local, inbox, cancel, result>>
-----------------------------------------------------------------------------
(* One pass of `for node_id in sorted(nodes)`.  Nodes that are not PENDING  *)
(* or whose upstream is not done are passed over without a state change, so *)
(* the loop's next stop is the least node still ahead that is neither.      *)

(* Wrong variant: settled nodes are not passed over. *)
SettledAhead == {n \in flow.nodes : n > node /\ UpstreamDone(flow, statuses, n)}

Ahead ==
  {n \in flow.nodes : /\ n > node
                      /\ statuses[n] = "PENDING"
                      /\ UpstreamDone(flow, statuses, n)}

NextStop(n) == n \in Ahead /\ \A m \in Ahead : n <= m

SkipNode(n) ==
  /\ pc = "scan"
  /\ NextStop(n)
  /\ ~Executable(flow, statuses, branch, n)
  /\ statuses' = [statuses EXCEPT ![n] = "SKIPPED"]
  /\ node' = n
  /\ pc' = "mark_skipped"
  /\ UNCHANGED <<flow, branch, attempts, progressed, signal, inbox, cancel, result>>

StartNode(n) ==
  /\ pc = "scan"
  /\ NextStop(n)
  /\ Executable(flow, statuses, branch, n)
  /\ attempts' = [attempts EXCEPT ![n] = @ + 1]
  /\ node' = n
  /\ pc' = IF IsWait(n) THEN "create_wait" ELSE "execute"
  /\ UNCHANGED <<flow, statuses, branch, progressed, signal, inbox, cancel, result>>

(* Wrong variants: success when nothing can go on; a pass that does not     *)
(* forget the progress of the one before.                                  *)
NothingAhead == Ahead = {}

AllTerminal == \A n \in flow.nodes : statuses[n] \in TerminalSuccess

PassEndsInProgress ==
  /\ pc = "scan" /\ Ahead = {}
  /\ pc' = CASE AllTerminal -> "mark_success"
             [] ~AllTerminal /\ progressed -> "scan"
             [] ~AllTerminal /\ ~progressed -> "mark_stuck"
  /\ node' = IF pc' = "scan" THEN 0 ELSE node
  /\ UNCHANGED <<flow, statuses, branch, attempts, progressed, signal, inbox, cancel, result>>

PassEnds ==
  /\ pc = "scan"
  /\ Ahead = {}
  /\ \/ /\ AllTerminal
        /\ pc' = "mark_success"
        /\ UNCHANGED <<node, progressed>>
     \/ /\ ~AllTerminal /\ ~progressed
        /\ pc' = "mark_stuck"
        /\ UNCHANGED <<node, progressed>>
     \/ /\ ~AllTerminal /\ progressed
        /\ node' = 0
        /\ progressed' = FALSE
        /\ UNCHANGED pc
  /\ UNCHANGED <<flow, statuses, branch, attempts, signal, inbox, cancel, result>>
-----------------------------------------------------------------------------
(* The end of a node, and the awaits that lead there. *)

(* Wrong variant: a pass that only skips counts as no progress. *)
NodeSkippedUnnoticed ==
  /\ pc = "mark_skipped"
  /\ pc' = "scan"
  /\ UNCHANGED <<local, inbox, cancel, result>>

NodeSkipped ==
  /\ pc = "mark_skipped"
  /\ progressed' = TRUE
  /\ pc' = "scan"
  /\ UNCHANGED <<flow, statuses, branch, attempts, node, signal, inbox, cancel, result>>

Succeed(b) ==
  /\ statuses' = [statuses EXCEPT ![node] = "SUCCESS"]
  /\ branch' = [branch EXCEPT ![node] = b]
  /\ progressed' = TRUE
  /\ signal' = "none"
  /\ pc' = "scan"
  /\ UNCHANGED <<flow, attempts, node, inbox, cancel, result>>

NodeExecuted(b) ==
  /\ pc = "execute"
  /\ b \in Branches(node)
  /\ Succeed(b)

(* Wrong variant: one poll too many. *)
PollPendingPastLast ==
  /\ pc = "execute"
  /\ flow.type[node] = "http_poll"
  /\ attempts[node] <= MaxPolls
  /\ pc' = "sleep"
  /\ UNCHANGED <<local, inbox, cancel, result>>

(* The http_poll handler answers PollPending only before its last poll. *)
PollPending ==
  /\ pc = "execute"
  /\ flow.type[node] = "http_poll"
  /\ attempts[node] < MaxPolls
  /\ pc' = "sleep"
  /\ UNCHANGED <<local, inbox, cancel, result>>

SleepEnds ==
  /\ pc = "sleep"
  /\ attempts' = [attempts EXCEPT ![node] = @ + 1]
  /\ pc' = "execute"
  /\ UNCHANGED <<flow, statuses, branch, node, progressed, signal, inbox, cancel, result>>

NodeRaised ==
  /\ pc = "execute"
  /\ pc' = "mark_failed"
  /\ UNCHANGED <<local, inbox, cancel, result>>

WaitCreated ==
  /\ pc = "create_wait"
  /\ pc' = "wait_signal"
  /\ UNCHANGED <<local, inbox, cancel, result>>

(* The condition of wait_condition holds: the stored payload is popped and handed over. *)
SignalConsumed ==
  /\ pc = "wait_signal"
  /\ \/ /\ flow.type[node] = "manual_approval"
        /\ manualSignals[node] # "none"
        /\ signal' = manualSignals[node]
        /\ manualSignals' = [manualSignals EXCEPT ![node] = "none"]
        /\ UNCHANGED callbackSignals
     \/ /\ flow.type[node] = "http_callback"
        /\ node \in callbackSignals
        /\ callbackSignals' = callbackSignals \ {node}
        /\ UNCHANGED <<manualSignals, signal>>
  /\ pc' = "complete_wait"
  /\ UNCHANGED <<flow, statuses, branch, attempts, node, progressed, cancel, result>>

WaitCompleted ==
  /\ pc = "complete_wait"
  /\ Succeed("output")
-----------------------------------------------------------------------------
(* The three returns of run(). *)

Close(r) ==
  /\ result' = r
  /\ pc' = "closed"
  /\ UNCHANGED <<local, inbox>>

(* Wrong variant: a failed node is passed over like a skipped one. *)
NodeFailurePassedOver ==
  /\ pc = "mark_failed"
  /\ pc' = "scan"
  /\ statuses' = [statuses EXCEPT ![node] = "SKIPPED"]
  /\ progressed' = TRUE
  /\ UNCHANGED <<flow, branch, attempts, node, signal, inbox, cancel, result>>

NodeMarkedFailed == pc = "mark_failed"  /\ Close("FAILED")  /\ UNCHANGED cancel
RunMarkedSuccess == pc = "mark_success" /\ Close("SUCCESS") /\ UNCHANGED cancel
RunMarkedStuck   == pc = "mark_stuck"   /\ Close("FAILED")  /\ UNCHANGED cancel
-----------------------------------------------------------------------------
(* What reaches the execution from outside while it is open.  A signal for  *)
(* a node of another type would stay in its dictionary unread.             *)

ResumeManual(n, d) ==
  /\ pc # "closed"
  /\ flow.type[n] = "manual_approval"
  /\ manualSignals' = [manualSignals EXCEPT ![n] = d]
  /\ UNCHANGED <<local, callbackSignals, pc, cancel, result>>

ReceiveCallback(n) ==
  /\ pc # "closed"
  /\ flow.type[n] = "http_callback"
  /\ callbackSignals' = callbackSignals \cup {n}
  /\ UNCHANGED <<local, manualSignals, pc, cancel, result>>

RequestCancel ==
  /\ pc # "closed"
  /\ cancel = "none"
  /\ cancel' = "requested"
  /\ UNCHANGED <<local, inbox, pc, result>>

(* Temporal cancels the main task once, at the await it is suspended at.    *)
(* An activity await raises ActivityError, which _execute_node's caller     *)
(* takes for a failed node; any other await ends the execution.             *)
CancelDelivered ==
  /\ cancel = "requested"
  /\ pc \notin {"scan", "closed"}
  /\ cancel' = "delivered"
  /\ \/ /\ pc \in NodeActivityPc
        /\ pc' = "mark_failed"
        /\ UNCHANGED <<local, inbox, result>>
     \/ /\ pc \notin NodeActivityPc
        /\ Close("CANCELLED")
-----------------------------------------------------------------------------
(* The coroutine's own steps, the answers to its awaits, and its callers.   *)

Coroutine ==
  \/ \E n \in flow.nodes : SkipNode(n) \/ StartNode(n)
  \/ PassEnds
  \/ SignalConsumed

ActivityAnswers ==
  \/ ScheduledRunCreated \/ RunMarkedRunning
  \/ NodeSkipped
  \/ \E b \in Handle : NodeExecuted(b)
  \/ PollPending \/ NodeRaised
  \/ WaitCreated \/ WaitCompleted
  \/ NodeMarkedFailed \/ RunMarkedSuccess \/ RunMarkedStuck

Callers ==
  \/ \E n \in flow.nodes : \E d \in Decision : ResumeManual(n, d)
  \/ \E n \in flow.nodes : ReceiveCallback(n)
  \/ RequestCancel

WfNext ==
  \/ Coroutine
  \/ ActivityAnswers
  \/ SleepEnds
  \/ CancelDelivered
  \/ Callers

WfSpec == WfInit /\ [][WfNext]_wfVars

=============================================================================
