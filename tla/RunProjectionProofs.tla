------------------------ MODULE RunProjectionProofs ------------------------
(***************************************************************************)
(* Proofs about the composition of a run: whatever workers, callers and     *)
(* failures do, the workflow inside it takes only steps of its own          *)
(* specification.  So everything FlowWorkflowProofs shows of the            *)
(* interpreter holds of every run.                                         *)
(***************************************************************************)
EXTENDS RunProjectionProperties, FlowWorkflowProofs, FiniteSetTheorems

(* A signal on its way to the workflow names a node of the run's flow and,  *)
(* from an operator, a decision.                                           *)
CallsInv ==
  \A c \in calls :
    /\ c.kind \in {"resume", "callback"} => c.node \in flow.nodes
    /\ c.kind = "resume" => c.decision \in Decision

(* Where an attempt's answer is taken, the answer is a step of the workflow; *)
(* where it is not, the workflow does not notice.                          *)
LEMMA CommitIsAnswer ==
  ASSUME NEW a, ActivityCommits(a)
  PROVE  [ActivityAnswers]_wfVars
<1>1. CASE CreateScheduledRunActivity(a)
  BY <1>1 DEF CreateScheduledRunActivity, Unheard, Abandoned, AnswerLost, Raises, ActivityAnswers
<1>2. CASE MarkRunActivity(a)
  BY <1>2 DEF MarkRunActivity, Unheard, Abandoned, AnswerLost, Raises, ActivityAnswers
<1>3. CASE MarkNodeSkippedActivity(a) \/ MarkNodeFailedActivity(a)
  BY <1>3 DEF MarkNodeSkippedActivity, MarkNodeFailedActivity,
       Unheard, Abandoned, AnswerLost, Raises, ActivityAnswers
<1>4. CASE ExecuteNodeActivity(a)
  BY <1>4 DEF ExecuteNodeActivity, Unheard, Abandoned, AnswerLost, Raises, ActivityAnswers
<1>5. CASE CreateManualWaitActivity(a) \/ CompleteManualWaitActivity(a)
  BY <1>5 DEF CreateManualWaitActivity, CompleteManualWaitActivity,
       Unheard, Abandoned, AnswerLost, Raises, ActivityAnswers
<1>6. CASE CreateCallbackWaitActivity(a) \/ CompleteCallbackWaitActivity(a)
  BY <1>6 DEF CreateCallbackWaitActivity, CompleteCallbackWaitActivity,
       Unheard, Abandoned, AnswerLost, Raises, ActivityAnswers
<1> QED
  BY <1>1, <1>2, <1>3, <1>4, <1>5, <1>6 DEF ActivityCommits

(* A dispatched attempt answers the await the workflow stands at. *)
LEMMA DispatchAdds ==
  ASSUME Dispatch
  PROVE  /\ current'.act = pc /\ current'.node = node
         /\ working' = working \cup {current'}
         /\ pc = "execute" => current'.try = tries' /\ tries' = tries + 1 /\ tries < MaxTries(node)
<1>1. /\ working' = working \cup {current'}
      /\ \E t : current' = AttemptOf(t) /\ (pc = "execute" => t = tries')
      /\ pc = "execute" => tries' = tries + 1 /\ tries < MaxTries(node)
  BY DEF Dispatch
<1>2. \A t : AttemptOf(t).act = pc /\ AttemptOf(t).node = node /\ AttemptOf(t).try = t
  BY DEF AttemptOf
<1> QED BY <1>1, <1>2

(* What the workflow does without a caller. *)
OwnStep == Coroutine \/ ActivityAnswers \/ SleepEnds \/ CancelDelivered

(* Only a delivered call reaches the workflow from outside. *)
LEMMA OwnOrDelivered ==
  ASSUME [Next]_vars
  PROVE  [OwnStep]_wfVars \/ \E c \in calls : Deliver(c)
<1> USE DEF OwnStep
<1>1. CASE WorkflowStep \/ WorkflowCancelled
  BY <1>1 DEF WorkflowStep, WorkflowCancelled
<1>2. CASE Dispatch \/ GiveUp
  BY <1>2 DEF Dispatch, GiveUp, ActivityAnswers
<1>3. ASSUME NEW a \in working, EnterHandler(a) \/ ActivityCommits(a)
      PROVE  [OwnStep]_wfVars
  BY <1>3, CommitIsAnswer DEF EnterHandler
<1>4. CASE Api
  BY <1>4 DEF Api, CreateRun, CancelRun, ResumeNode, CallbackAccepted, CallbackExpired, Configure
<1>5. CASE Failures
  BY <1>5 DEF Failures, Crash, Overrun, CallLost
<1>6. CASE UNCHANGED vars
  BY <1>6 DEF vars
<1> QED
  BY <1>1, <1>2, <1>3, <1>4, <1>5, <1>6 DEF Next, Workers

(* Every step of the composition is a step of the workflow, or none. *)
LEMMA RunStepIsWorkflowStep == CallsInv /\ [Next]_vars => [WfNext]_wfVars
<1> SUFFICES ASSUME CallsInv, [Next]_vars PROVE [WfNext]_wfVars
  OBVIOUS
<1>1. CASE [OwnStep]_wfVars
  BY <1>1 DEF OwnStep, WfNext
<1>2. ASSUME NEW c \in calls, Deliver(c)
      PROVE  [WfNext]_wfVars
  <2>1. c.kind = "resume" => c.node \in flow.nodes /\ c.decision \in Decision
    BY DEF CallsInv
  <2>2. c.kind = "callback" => c.node \in flow.nodes
    BY DEF CallsInv
  <2> QED
    BY <1>2, <2>1, <2>2 DEF Deliver, WfNext, Callers
<1> QED
  BY <1>1, <1>2, OwnOrDelivered

(* The run stays pinned to its flow. *)
LEMMA FlowStays == [WfNext]_wfVars => flow' = flow
BY DEF WfNext, Coroutine, ActivityAnswers, Callers, SkipNode, StartNode, PassEnds,
     SignalConsumed, ScheduledRunCreated, RunMarkedRunning, NodeSkipped, NodeExecuted,
     Succeed, PollPending, NodeRaised, WaitCreated, WaitCompleted, NodeMarkedFailed,
     RunMarkedSuccess, RunMarkedStuck, Close, SleepEnds, CancelDelivered, ResumeManual,
     ReceiveCallback, RequestCancel, wfVars, local

(* Only the API's handlers add a call. *)
LEMMA CallsStep == CallsInv /\ [Next]_vars => CallsInv'
<1> SUFFICES ASSUME CallsInv, [Next]_vars PROVE CallsInv'
  OBVIOUS
<1>1. flow' = flow
  BY RunStepIsWorkflowStep, FlowStays
<1>2. CASE calls' \subseteq calls
  BY <1>1, <1>2 DEF CallsInv
<1>3. CASE CreateRun \/ CancelRun
  BY <1>1, <1>3 DEF CreateRun, CancelRun, CallsInv
<1>4. ASSUME NEW n \in flow.nodes, NEW d \in Decision, ResumeNode(n, d)
      PROVE  CallsInv'
  BY <1>1, <1>4 DEF ResumeNode, CallsInv
<1>5. ASSUME NEW n \in flow.nodes, CallbackAccepted(n)
      PROVE  CallsInv'
  BY <1>1, <1>5 DEF CallbackAccepted, CallsInv
<1>6. ASSUME NEW a, ActivityCommits(a)
      PROVE  calls' \subseteq calls
  BY <1>6 DEF ActivityCommits, CreateScheduledRunActivity, MarkRunActivity,
       MarkNodeSkippedActivity, MarkNodeFailedActivity, ExecuteNodeActivity,
       CreateManualWaitActivity, CompleteManualWaitActivity,
       CreateCallbackWaitActivity, CompleteCallbackWaitActivity, MayCommit
<1>7. CASE Workers
  BY <1>2, <1>6, <1>7 DEF Workers, Dispatch, GiveUp, EnterHandler
<1>8. CASE WorkflowStep \/ WorkflowCancelled \/ Failures \/ UNCHANGED vars
  BY <1>2, <1>8 DEF WorkflowStep, WorkflowCancelled, Failures, Crash, Overrun, CallLost, vars
<1>9. CASE \E c \in calls : Deliver(c)
  BY <1>2, <1>9 DEF Deliver
<1>10. CASE Api
  BY <1>2, <1>3, <1>4, <1>5, <1>10 DEF Api, CallbackExpired, Configure
<1> QED
  BY <1>7, <1>8, <1>9, <1>10 DEF Next

(* Every run, with its activities, callers and failures, is a run of the    *)
(* workflow (activities.py, group_api.py and callback_api.py reach it only  *)
(* by answers, signals and cancellation).                                  *)
THEOREM RunIsWorkflow == Spec => WfSpec
<1>1. Init => WfInit /\ CallsInv
  BY DEF Init, CallsInv
<1> QED
  BY <1>1, RunStepIsWorkflowStep, CallsStep, PTL DEF Spec, WfSpec

(* Through crashes, repeated attempts and lost calls, no node of a run is   *)
(* begun, finished or skipped before its upstream has settled.             *)
THEOREM RunKeepsOrder == Spec => []UpstreamFirst
BY RunIsWorkflow, UpstreamAlwaysFirst, PTL

(* Every run keeps the promise of FlowPromise. *)
THEOREM RunKeepsPromise == Spec => KeepsPromise
BY RunIsWorkflow, InterpreterKeepsPromise, PTL

-----------------------------------------------------------------------------
(* The workflow, as the rows need to know it.                               *)

Begun(n) == attempts[n] # 0

(* A node is begun once its upstream is done, and then it is not skipped.   *)
StandInv ==
  /\ AtNode => Begun(node)
  /\ pc \in {"execute", "sleep"} => ~IsWait(node)
  /\ pc = "mark_skipped" => node \in flow.nodes /\ statuses[node] = "SKIPPED"
  /\ \A n \in flow.nodes :
       /\ statuses[n] = "SKIPPED" => ~Begun(n)
       /\ Begun(n) => UpstreamDone(flow, statuses, n)

(* What a step of the workflow does for good: nodes that have settled or    *)
(* begun have done so.                                                      *)
LEMMA WalkForward ==
  ASSUME Inv, [WfNext]_wfVars, NEW n \in flow.nodes
  PROVE  /\ Begun(n) => Begun(n)'
         /\ statuses[n] # "PENDING" => statuses'[n] = statuses[n]
<1>1. TypeOK /\ CoroutineInv
  BY DEF Inv
<1>2. /\ statuses \in [flow.nodes -> Status]
      /\ attempts \in [flow.nodes -> 0..MaxPolls]
      /\ MaxPolls \in Nat
  BY <1>1, MaxPollsAssumption DEF TypeOK
<1>3. CASE UNCHANGED <<statuses, attempts>>
  BY <1>3 DEF Begun
<1>4. ASSUME NEW m \in flow.nodes, SkipNode(m)
      PROVE  UNCHANGED attempts /\ statuses[m] = "PENDING" /\ statuses' = [statuses EXCEPT ![m] = "SKIPPED"]
  BY <1>4 DEF SkipNode, NextStop, Ahead
<1>5. ASSUME NEW m \in flow.nodes, StartNode(m)
      PROVE  UNCHANGED statuses /\ attempts' = [attempts EXCEPT ![m] = @ + 1]
  BY <1>5 DEF StartNode
<1>6. ASSUME NEW b, NodeExecuted(b) \/ WaitCompleted
      PROVE  /\ UNCHANGED attempts /\ statuses[node] = "PENDING"
             /\ statuses' = [statuses EXCEPT ![node] = "SUCCESS"]
  BY <1>1, <1>6 DEF NodeExecuted, WaitCompleted, Succeed, CoroutineInv, AtNode, NodePc, NodeActivityPc
<1>7. CASE SleepEnds
  BY <1>2, <1>7 DEF SleepEnds, Begun
<1>8. CASE Coroutine
  BY <1>2, <1>3, <1>4, <1>5, <1>8 DEF Coroutine, PassEnds, SignalConsumed, Begun
<1>9. CASE ActivityAnswers
  BY <1>2, <1>3, <1>6, <1>9
  DEF ActivityAnswers, ScheduledRunCreated, RunMarkedRunning, NodeSkipped, PollPending, NodeRaised,
      WaitCreated, NodeMarkedFailed, RunMarkedSuccess, RunMarkedStuck, Close, local, Begun
<1>10. CASE Callers \/ CancelDelivered \/ UNCHANGED wfVars
  BY <1>3, <1>10 DEF Callers, ResumeManual, ReceiveCallback, RequestCancel, CancelDelivered, Close, wfVars, local
<1> QED BY <1>7, <1>8, <1>9, <1>10 DEF WfNext

LEMMA UpstreamStaysDone ==
  ASSUME Inv, [WfNext]_wfVars, NEW n \in flow.nodes, UpstreamDone(flow, statuses, n)
  PROVE  UpstreamDone(flow', statuses', n)
<1>1. TypeOK
  BY DEF Inv
<1>2. flow' = flow
  BY FlowStays
<1>3. ASSUME NEW e \in Incoming(flow, n)
      PROVE  statuses'[e.source] \in TerminalSuccess
  <2>1. e.source \in flow.nodes /\ statuses[e.source] \in TerminalSuccess
    BY <1>1, EdgeEnds DEF Incoming, UpstreamDone
  <2> QED BY <2>1, WalkForward DEF TerminalSuccess
<1> QED BY <1>2, <1>3 DEF UpstreamDone

LEMMA StandInductive ==
  ASSUME Inv, StandInv, [WfNext]_wfVars
  PROVE  StandInv'
<1> USE DEF AtNode, NodePc, NodeActivityPc
<1>1. TypeOK /\ CoroutineInv /\ SettledInv
  BY DEF Inv
<1>2. /\ statuses \in [flow.nodes -> Status]
      /\ attempts \in [flow.nodes -> 0..MaxPolls]
      /\ MaxPolls \in Nat
      /\ flow' = flow
  BY <1>1, MaxPollsAssumption, FlowStays DEF TypeOK
<1>3. \A n \in flow.nodes : UpstreamDone(flow, statuses, n) => UpstreamDone(flow', statuses', n)
  BY UpstreamStaysDone
<1>4. ASSUME UNCHANGED <<statuses, attempts>>,
             pc' \in NodePc \cup {"mark_failed"} => AtNode /\ node' = node,
             pc' \in {"execute", "sleep"} => pc \in {"execute", "sleep"},
             pc' = "mark_skipped" => pc = "mark_skipped" /\ node' = node
      PROVE  StandInv'
  BY <1>2, <1>3, <1>4 DEF StandInv, Begun, IsWait
<1>5. ASSUME NEW m \in flow.nodes, SkipNode(m)
      PROVE  StandInv'
  <2>1. statuses[m] = "PENDING" /\ pc = "scan" /\ attempts[m] = 0
    BY <1>1, <1>5 DEF SkipNode, NextStop, Ahead, CoroutineInv
  <2> QED BY <1>2, <1>3, <1>5, <2>1 DEF SkipNode, StandInv, Begun
<1>6. ASSUME NEW m \in flow.nodes, StartNode(m)
      PROVE  StandInv'
  <2>1. statuses[m] = "PENDING" /\ pc = "scan" /\ UpstreamDone(flow, statuses, m)
    BY <1>6 DEF StartNode, NextStop, Ahead
  <2> QED BY <1>2, <1>3, <1>6, <2>1 DEF StartNode, StandInv, Begun, IsWait
<1>7. ASSUME NEW b, NodeExecuted(b) \/ WaitCompleted
      PROVE  StandInv'
  BY <1>1, <1>2, <1>3, <1>7 DEF NodeExecuted, WaitCompleted, Succeed, StandInv, Begun, CoroutineInv
<1>8. CASE SleepEnds
  <2>1. node \in flow.nodes /\ UpstreamDone(flow, statuses, node)
    BY <1>1, <1>8 DEF SleepEnds, CoroutineInv
  <2> QED BY <1>2, <1>3, <1>8, <2>1 DEF SleepEnds, StandInv, Begun, IsWait
<1>9. CASE PassEnds \/ SignalConsumed
  BY <1>1, <1>4, <1>9 DEF PassEnds, SignalConsumed, CoroutineInv
<1>10. CASE ActivityAnswers
  BY <1>4, <1>7, <1>10
  DEF ActivityAnswers, ScheduledRunCreated, RunMarkedRunning, NodeSkipped, PollPending, NodeRaised,
      WaitCreated, NodeMarkedFailed, RunMarkedSuccess, RunMarkedStuck, Close, local
<1>11. CASE Callers \/ CancelDelivered \/ UNCHANGED wfVars
  BY <1>4, <1>11 DEF Callers, ResumeManual, ReceiveCallback, RequestCancel, CancelDelivered, Close, wfVars, local
<1> QED BY <1>5, <1>6, <1>8, <1>9, <1>10, <1>11 DEF WfNext, Coroutine


-----------------------------------------------------------------------------
(* The attempts and the calls, whatever has become of the rows.             *)

(* The types of the composition, without the bounds on its counters. *)
RunTypes ==
  /\ runRow \in RunStatus \cup {"absent"}
  /\ cancelRequested \in BOOLEAN
  /\ nodeRow \in [flow.nodes -> NodeRunStatus]
  /\ task \in [flow.nodes -> Decision \cup {"absent", "PENDING"}]
  /\ wait \in [flow.nodes -> {"absent", "WAITING", "RECEIVED", "EXPIRED"}]
  /\ orphans \in Nat
  /\ missing \subseteq LookedUp
  /\ started \in BOOLEAN
  /\ requests \in [flow.nodes -> Nat]
  /\ tries \in Nat
  /\ working \subseteq Attempt /\ IsFiniteSet(working)
  /\ current \in working \cup {NoAttempt}
  /\ holding \subseteq {a \in working : a.act = "execute"}
  /\ calls \subseteq Call
  /\ faults \in [FaultKind -> Nat]

(* What every commit does to the attempts, whichever activity it ends. *)
LEMMA CommitEndsAttempt ==
  ASSUME NEW a, ActivityCommits(a)
  PROVE  /\ MayCommit(a)
         /\ current' = IF a = current THEN NoAttempt ELSE current
         /\ \/ UNCHANGED tries
            \/ tries' = 0 /\ a = current
         /\ \/ UNCHANGED faults
            \/ Fault("lost_answer") /\ a = current /\ UNCHANGED wfVars
         /\ a # current => UNCHANGED wfVars
<1> USE DEF Answered, Unheard, Abandoned, AnswerLost, Raises
<1>1. CASE CreateScheduledRunActivity(a)
  BY <1>1 DEF CreateScheduledRunActivity
<1>2. CASE MarkRunActivity(a)
  BY <1>2 DEF MarkRunActivity
<1>3. CASE MarkNodeSkippedActivity(a) \/ MarkNodeFailedActivity(a)
  BY <1>3 DEF MarkNodeSkippedActivity, MarkNodeFailedActivity
<1>4. CASE ExecuteNodeActivity(a)
  BY <1>4 DEF ExecuteNodeActivity
<1>5. CASE CreateManualWaitActivity(a) \/ CompleteManualWaitActivity(a)
  BY <1>5 DEF CreateManualWaitActivity, CompleteManualWaitActivity
<1>6. CASE CreateCallbackWaitActivity(a) \/ CompleteCallbackWaitActivity(a)
  BY <1>6 DEF CreateCallbackWaitActivity, CompleteCallbackWaitActivity
<1> QED
  BY <1>1, <1>2, <1>3, <1>4, <1>5, <1>6 DEF ActivityCommits

(* The rows a commit may write, and what it may write there. *)
LEMMA CommitWrites ==
  ASSUME NEW a, ActivityCommits(a)
  PROVE  \/ /\ a.act = "create_scheduled_run"
            /\ \/ a = current /\ ScheduledRunCreated /\ runRow' = "PENDING" /\ UNCHANGED orphans
               \/ UNCHANGED <<wfVars, runRow>> /\ orphans' = orphans + 1
            /\ UNCHANGED <<nodeRow, task, wait>>
         \/ /\ a.act = "mark_running" /\ runRow' = "RUNNING"
            /\ UNCHANGED <<nodeRow, task, wait, orphans>>
         \/ /\ a.act = "mark_success" /\ runRow' = "SUCCESS"
            /\ UNCHANGED <<nodeRow, task, wait, orphans>>
         \/ /\ a.act = "mark_stuck" /\ runRow' = "FAILED"
            /\ UNCHANGED <<nodeRow, task, wait, orphans>>
         \/ /\ a.act = "mark_skipped" /\ nodeRow' = [nodeRow EXCEPT ![a.node] = "SKIPPED"]
            /\ UNCHANGED <<runRow, task, wait, orphans>>
         \/ /\ a.act = "mark_failed" /\ nodeRow' = [nodeRow EXCEPT ![a.node] = "FAILED"]
            /\ runRow' = "FAILED" /\ UNCHANGED <<task, wait, orphans>>
         \/ /\ a.act = "execute"
            /\ \/ nodeRow' = [nodeRow EXCEPT ![a.node] = "SUCCESS"]
               \/ /\ nodeRow' = [nodeRow EXCEPT ![a.node] = "POLL_WAIT"]
                  /\ UNCHANGED wfVars \/ PollPending
               \/ /\ nodeRow' = [nodeRow EXCEPT ![a.node] = "FAILED"]
                  /\ UNCHANGED wfVars
            /\ UNCHANGED <<runRow, task, wait, orphans>>
         \/ /\ a.act = "create_wait" /\ flow.type[a.node] = "manual_approval"
            /\ nodeRow' = [nodeRow EXCEPT ![a.node] = "WAITING"] /\ runRow' = "WAITING"
            /\ task' = [task EXCEPT ![a.node] = IF @ = "absent" THEN "PENDING" ELSE @]
            /\ UNCHANGED <<wait, orphans>>
         \/ /\ a.act = "create_wait" /\ flow.type[a.node] = "http_callback"
            /\ wait[a.node] = "absent" /\ wait' = [wait EXCEPT ![a.node] = "WAITING"]
            /\ nodeRow' = [nodeRow EXCEPT ![a.node] = "WAITING_CALLBACK"]
            /\ runRow' = "WAITING_CALLBACK" /\ UNCHANGED <<task, orphans>>
         \/ /\ a.act \in {"create_scheduled_run", "create_wait"}
            /\ UNCHANGED <<wfVars, runRow, nodeRow, task, wait, orphans>>
         \/ /\ a.act = "complete_wait"
            /\ flow.type[a.node] \in {"manual_approval", "http_callback"}
            /\ nodeRow' = [nodeRow EXCEPT ![a.node] = "SUCCESS"] /\ runRow' = "RUNNING"
            /\ UNCHANGED <<task, wait, orphans>>
<1> USE DEF Answered, Unheard, Abandoned, AnswerLost, Raises
<1>1. CASE CreateScheduledRunActivity(a)
  BY <1>1 DEF CreateScheduledRunActivity
<1>2. CASE MarkRunActivity(a)
  BY <1>2 DEF MarkRunActivity
<1>3. CASE MarkNodeSkippedActivity(a) \/ MarkNodeFailedActivity(a)
  BY <1>3 DEF MarkNodeSkippedActivity, MarkNodeFailedActivity
<1>4. CASE ExecuteNodeActivity(a)
  BY <1>4 DEF ExecuteNodeActivity
<1>5. CASE CreateManualWaitActivity(a) \/ CompleteManualWaitActivity(a)
  BY <1>5 DEF CreateManualWaitActivity, CompleteManualWaitActivity
<1>6. CASE CreateCallbackWaitActivity(a) \/ CompleteCallbackWaitActivity(a)
  BY <1>6 DEF CreateCallbackWaitActivity, CompleteCallbackWaitActivity
<1> QED
  BY <1>1, <1>2, <1>3, <1>4, <1>5, <1>6 DEF ActivityCommits

LEMMA RunTypesInit == Init => RunTypes
<1> SUFFICES ASSUME Init PROVE RunTypes
  OBVIOUS
<1>1. IsFiniteSet(working)
  BY FS_EmptySet DEF Init
<1> QED BY <1>1 DEF Init, RunTypes, RunStatus, NodeRunStatus, Attempt

LEMMA RunTypesStep ==
  ASSUME Inv, CallsInv, RunTypes, [Next]_vars
  PROVE  RunTypes'
<1>1. TypeOK /\ flow' = flow /\ flow.nodes \subseteq Node /\ LookedUp' = LookedUp
  BY RunStepIsWorkflowStep, FlowStays DEF Inv, TypeOK, IsFlow, LookedUp
<1> USE DEF RunTypes
<1>2. ASSUME UNCHANGED vars
      PROVE  RunTypes'
  BY <1>1, <1>2 DEF vars, rows, server, wfVars, local
<1>3. CASE WorkflowStep
  BY <1>1, <1>3 DEF WorkflowStep, rows, server
<1>4. CASE WorkflowCancelled
  BY <1>1, <1>4 DEF WorkflowCancelled, rows
<1>5. CASE Dispatch
  <2>1. PICK t \in Nat \ {0} :
          /\ current' = AttemptOf(t) /\ working' = working \cup {AttemptOf(t)}
          /\ tries' \in Nat
    BY <1>5, MaxFaultsAssumption DEF Dispatch
  <2>2. AttemptOf(t) \in Attempt
    BY <1>1, <1>5, MaxPollsAssumption DEF Dispatch, AttemptOf, TypeOK, Attempt
  <2>3. IsFiniteSet(working \cup {AttemptOf(t)})
    BY FS_AddElement
  <2> QED BY <1>1, <1>5, <2>1, <2>2, <2>3 DEF Dispatch, rows
<1>6. CASE GiveUp
  BY <1>1, <1>6 DEF GiveUp, rows
<1>7. ASSUME NEW a \in working, EnterHandler(a)
      PROVE  RunTypes'
  <2>1. requests' \in [flow.nodes -> Nat]
    BY <1>7, \A n \in flow.nodes : requests[n] \in Nat /\ requests[n] + 1 \in Nat DEF EnterHandler
  <2> QED BY <1>1, <1>7, <2>1 DEF EnterHandler, rows
<1>8. ASSUME NEW a \in working, working' = working \ {a}, holding' = holding \ {a},
             current' = IF a = current THEN NoAttempt ELSE current
      PROVE  /\ working' \subseteq Attempt /\ IsFiniteSet(working')
             /\ current' \in working' \cup {NoAttempt}
             /\ holding' \subseteq {b \in working' : b.act = "execute"}
  <2>1. IsFiniteSet(working \ {a})
    BY FS_RemoveElement
  <2> QED BY <1>8, <2>1
<1>9. ASSUME NEW k, Fault(k)
      PROVE  faults' \in [FaultKind -> Nat]
  BY <1>9, \A j \in FaultKind : faults[j] \in Nat /\ faults[j] + 1 \in Nat DEF Fault
<1>10. ASSUME NEW a \in working, ActivityCommits(a)
       PROVE  RunTypes'
  <2>1. /\ MayCommit(a)
        /\ current' = IF a = current THEN NoAttempt ELSE current
        /\ tries' \in Nat /\ faults' \in [FaultKind -> Nat]
    BY <1>9, <1>10, CommitEndsAttempt
  <2>2. /\ runRow' \in RunStatus \cup {"absent"}
        /\ nodeRow' \in [flow.nodes -> NodeRunStatus]
        /\ task' \in [flow.nodes -> Decision \cup {"absent", "PENDING"}]
        /\ wait' \in [flow.nodes -> {"absent", "WAITING", "RECEIVED", "EXPIRED"}]
        /\ orphans' \in Nat
    BY <1>10, CommitWrites DEF RunStatus, NodeRunStatus
  <2> QED BY <1>1, <1>8, <2>1, <2>2 DEF MayCommit
<1>11. ASSUME NEW n \in flow.nodes, NEW d \in Decision, ResumeNode(n, d)
       PROVE  RunTypes'
  BY <1>1, <1>11 DEF ResumeNode, server, Call
<1>12. ASSUME NEW n \in flow.nodes, CallbackAccepted(n) \/ CallbackExpired(n)
       PROVE  RunTypes'
  BY <1>1, <1>12 DEF CallbackAccepted, CallbackExpired, server, Call, RunStatus, NodeRunStatus
<1>13. CASE CreateRun \/ CancelRun
  <2>1. [kind |-> "start"] \in Call /\ [kind |-> "cancel"] \in Call
    BY DEF Call
  <2>2. /\ runRow' \in RunStatus /\ cancelRequested' \in BOOLEAN
        /\ calls' \subseteq Call
    BY <1>13, <2>1 DEF CreateRun, CancelRun, RunStatus
  <2> QED BY <1>1, <1>13, <2>2 DEF CreateRun, CancelRun, server
<1>14. ASSUME NEW c \in calls, Deliver(c) \/ CallLost(c)
       PROVE  RunTypes'
  BY <1>1, <1>9, <1>14 DEF Deliver, CallLost, rows, server
<1>15. ASSUME NEW a \in working, Crash(a)
       PROVE  RunTypes'
  BY <1>1, <1>8, <1>9, <1>15 DEF Crash, rows
<1>16. CASE Overrun
  BY <1>1, <1>9, <1>16 DEF Overrun, rows
<1>17. CASE Configure
  <2>1. missing' \subseteq LookedUp
    <3>1. CASE SwitchSchedule
      BY <3>1 DEF SwitchSchedule, LookedUp
    <3>2. ASSUME NEW n \in flow.nodes, CreateApprovalGroup(n) \/ SwitchCredential(n)
          PROVE  missing' \subseteq LookedUp
      <4>1. missing' \subseteq missing \cup {n}
        BY <3>2 DEF CreateApprovalGroup, SwitchCredential
      <4>2. n \in LookedUp
        BY <3>2 DEF CreateApprovalGroup, SwitchCredential, LookedUp
      <4> QED BY <4>1, <4>2
    <3> QED BY <1>17, <3>1, <3>2 DEF Configure
  <2> QED BY <1>1, <1>17, <2>1 DEF Configure, server
<1> QED
  BY <1>2, <1>3, <1>4, <1>5, <1>6, <1>7, <1>10, <1>11, <1>12, <1>13, <1>14, <1>15, <1>16, <1>17
  DEF Next, Workers, Api, Failures

(* The attempt Temporal waits for answers the workflow's await; whatever    *)
(* else still executes was dispatched for a node that had begun, or that    *)
(* had been skipped.                                                       *)
AttemptInv ==
  /\ current # NoAttempt => current.act = pc /\ current.node = node
  /\ \A a \in working :
       /\ a.act \in NodeActivityPc \cup {"mark_failed"} =>
            a.node \in flow.nodes /\ Begun(a.node)
       /\ a.act = "execute" => ~IsWait(a.node)
       /\ a.act \in {"create_wait", "complete_wait"} => IsWait(a.node)
       /\ a.act = "mark_skipped" =>
            a.node \in flow.nodes /\ statuses[a.node] = "SKIPPED"

LEMMA AttemptStep ==
  ASSUME Inv, CallsInv, StandInv, RunTypes, AttemptInv, [Next]_vars
  PROVE  AttemptInv'
<1>1. TypeOK /\ CoroutineInv /\ [WfNext]_wfVars /\ flow' = flow
  BY RunStepIsWorkflowStep, FlowStays DEF Inv
<1>2. \A n \in flow.nodes :
        /\ Begun(n) => Begun(n)'
        /\ statuses[n] # "PENDING" => statuses'[n] = statuses[n]
  BY <1>1, WalkForward
<1>3. ASSUME working' \subseteq working,
             current' # NoAttempt => current' = current /\ pc' = pc /\ node' = node
      PROVE  AttemptInv'
  BY <1>1, <1>2, <1>3 DEF AttemptInv, IsWait
<1>4. current # NoAttempt => current.act \in ActivityPc
  BY DEF RunTypes, Attempt
<1>5. CASE WorkflowStep
  <2>1. pc \notin ActivityPc
    BY <1>5 DEF WorkflowStep, Coroutine, SkipNode, StartNode, PassEnds, SignalConsumed,
         SleepEnds, ActivityPc
  <2> QED BY <1>3, <1>4, <1>5, <2>1 DEF WorkflowStep, server, AttemptInv
<1>6. CASE WorkflowCancelled \/ GiveUp
  BY <1>3, <1>6 DEF WorkflowCancelled, GiveUp
<1>7. CASE Dispatch
  <2>1. PICK a : a.act = pc /\ a.node = node /\ current' = a /\ working' = working \cup {a}
    BY <1>7, DispatchAdds
  <2>2. UNCHANGED <<pc, node, statuses, attempts>>
    BY <1>7 DEF Dispatch, wfVars, local
  <2>3. /\ pc \in NodeActivityPc \cup {"mark_failed"} => node \in flow.nodes /\ Begun(node)
        /\ pc = "execute" => ~IsWait(node)
        /\ pc \in {"create_wait", "complete_wait"} => IsWait(node)
        /\ pc = "mark_skipped" => node \in flow.nodes /\ statuses[node] = "SKIPPED"
    BY <1>1 DEF StandInv, CoroutineInv, AtNode, NodePc
  <2> QED BY <1>1, <2>1, <2>2, <2>3 DEF AttemptInv, Begun, IsWait
<1>8. ASSUME NEW a \in working, EnterHandler(a)
      PROVE  AttemptInv'
  BY <1>3, <1>8 DEF EnterHandler, wfVars, local
<1>9. ASSUME NEW a \in working, ActivityCommits(a)
      PROVE  AttemptInv'
  BY <1>3, <1>9, CommitEndsAttempt DEF MayCommit, wfVars, local
<1>10. CASE Api \/ UNCHANGED vars
  BY <1>3, <1>10
  DEF Api, CreateRun, CancelRun, ResumeNode, CallbackAccepted, CallbackExpired, Configure, vars, server, wfVars, local
<1>11. ASSUME NEW c \in calls, Deliver(c)
       PROVE  AttemptInv'
  BY <1>3, <1>11 DEF Deliver, RequestCancel, ResumeManual, ReceiveCallback, wfVars, local
<1>12. CASE Failures
  BY <1>3, <1>12 DEF Failures, Crash, Overrun, CallLost, server, wfVars, local
<1> QED
  BY <1>5, <1>6, <1>7, <1>8, <1>9, <1>10, <1>11, <1>12 DEF Next, Workers

-----------------------------------------------------------------------------
(* The rows of a node are written only once the node has begun, or to skip  *)
(* it; and each kind of waiting belongs to its kind of node.               *)
Touched(n) == nodeRow[n] \notin {"PENDING", "SKIPPED"} \/ task[n] # "absent" \/ wait[n] # "absent"

RowsInv ==
  \A n \in flow.nodes :
    /\ Touched(n) => Begun(n)
    /\ nodeRow[n] = "SKIPPED" => statuses[n] = "SKIPPED"
    /\ nodeRow[n] = "WAITING" => Manual(n) /\ task[n] # "absent"
    /\ nodeRow[n] = "WAITING_CALLBACK" => Callback(n)
    /\ wait[n] # "absent" => Callback(n)

LEMMA RowsStep ==
  ASSUME Inv, CallsInv, StandInv, RunTypes, AttemptInv, RowsInv, [Next]_vars
  PROVE  RowsInv'
<1>1. [WfNext]_wfVars /\ flow' = flow
  BY RunStepIsWorkflowStep, FlowStays DEF Inv
<1>2. \A n \in flow.nodes :
        /\ Begun(n) => Begun(n)'
        /\ statuses[n] # "PENDING" => statuses'[n] = statuses[n]
  BY <1>1, WalkForward
<1> USE DEF Touched, Manual, Callback
<1>3. ASSUME UNCHANGED <<nodeRow, task, wait>>
      PROVE  RowsInv'
  BY <1>1, <1>2, <1>3 DEF RowsInv
<1>4. ASSUME NEW a \in working, ActivityCommits(a)
      PROVE  RowsInv'
  <2>1. /\ a.act \in NodeActivityPc \cup {"mark_failed"} => a.node \in flow.nodes /\ Begun(a.node)
        /\ a.act = "mark_skipped" => a.node \in flow.nodes /\ statuses[a.node] = "SKIPPED"
    BY DEF AttemptInv
  <2>2. \A n \in flow.nodes : statuses[n] = "SKIPPED" => ~Begun(n)
    BY DEF StandInv
  <2> QED BY <1>1, <1>2, <1>4, <2>1, <2>2, CommitWrites DEF RowsInv, RunTypes, NodeActivityPc
<1>5. ASSUME NEW n \in flow.nodes, NEW d \in Decision, ResumeNode(n, d)
      PROVE  RowsInv'
  BY <1>1, <1>2, <1>5, TaskAssumption DEF ResumeNode, RowsInv, RunTypes
<1>6. ASSUME NEW n \in flow.nodes, CallbackAccepted(n) \/ CallbackExpired(n)
      PROVE  RowsInv'
  BY <1>1, <1>2, <1>6 DEF CallbackAccepted, CallbackExpired, RowsInv, RunTypes
<1>7. CASE WorkflowStep \/ WorkflowCancelled \/ UNCHANGED vars
  BY <1>3, <1>7 DEF WorkflowStep, WorkflowCancelled, vars, rows
<1>8. CASE Workers
  BY <1>3, <1>4, <1>8 DEF Workers, Dispatch, GiveUp, EnterHandler, rows
<1>9. CASE Api
  BY <1>3, <1>5, <1>6, <1>9 DEF Api, CreateRun, CancelRun, Configure
<1>10. CASE Failures \/ \E c \in calls : Deliver(c)
  BY <1>3, <1>10 DEF Failures, Crash, Overrun, CallLost, Deliver, rows
<1> QED BY <1>7, <1>8, <1>9, <1>10 DEF Next

(* The invariants so far, which the later ones rest on. *)
RunInv == Inv /\ CallsInv /\ StandInv /\ RunTypes /\ AttemptInv /\ RowsInv

THEOREM RunInvariance == Spec => []RunInv
<1>1. Init => RunInv
  <2> SUFFICES ASSUME Init PROVE RunInv
    OBVIOUS
  <2>1. Inv /\ CallsInv /\ RunTypes
    BY InitInv, RunTypesInit DEF Init, CallsInv
  <2>2. StandInv /\ AttemptInv /\ RowsInv
    BY DEF Init, WfInit, StandInv, AtNode, NodePc, NodeActivityPc, Begun, AttemptInv, RowsInv, Touched
  <2> QED BY <2>1, <2>2 DEF RunInv
<1>2. RunInv /\ [Next]_vars => RunInv'
  <2> SUFFICES ASSUME RunInv, [Next]_vars PROVE RunInv'
    OBVIOUS
  <2>1. [WfNext]_wfVars
    BY RunStepIsWorkflowStep DEF RunInv
  <2>2. Inv'
    BY <2>1, TypeStep, CoroutineStep, SettledStep DEF RunInv, Inv
  <2> QED BY <2>1, <2>2, CallsStep, StandInductive, RunTypesStep, AttemptStep, RowsStep DEF RunInv
<1> QED BY <1>1, <1>2, PTL DEF Spec

(* A node the workflow skips is never executed, waited for or failed        *)
(* (workflows.py:123-131), whatever attempts are still about.              *)
THEOREM SkippedNeverEverRuns == Spec => []SkippedNeverRuns
<1>1. RunInv => SkippedNeverRuns
  BY DEF RunInv, StandInv, RowsInv, Touched, SkippedNeverRuns
<1> QED BY <1>1, RunInvariance, PTL

(* A run shown as waiting has a node shown as waiting: whoever ends a wait  *)
(* writes the run row in the same transaction (activities.py:316, 318,      *)
(* 392-394; callback_api.py:57-61).                                        *)
THEOREM RunAlwaysWaitsForSomeNode == Spec => []RunWaitsForSomeNode
<1>1. Init => RunWaitsForSomeNode
  BY DEF Init, RunWaitsForSomeNode
<1>2. ASSUME RunInv, RunWaitsForSomeNode, [Next]_vars
      PROVE  RunWaitsForSomeNode'
  <2>1. flow' = flow
    BY <1>2, RunStepIsWorkflowStep, FlowStays DEF RunInv
  <2>2. RunTypes /\ RowsInv
    BY <1>2 DEF RunInv
  <2>3. ASSUME UNCHANGED <<nodeRow, runRow>> \/ runRow' \notin {"WAITING", "WAITING_CALLBACK"}
        PROVE  RunWaitsForSomeNode'
    BY <1>2, <2>1, <2>3 DEF RunWaitsForSomeNode
  <2>4. ASSUME NEW a \in working, ActivityCommits(a)
        PROVE  RunWaitsForSomeNode'
    <3>1. /\ a.act \in NodeActivityPc \cup {"mark_failed", "mark_skipped"} => a.node \in flow.nodes
          /\ a.act = "execute" => nodeRow[a.node] \notin {"WAITING", "WAITING_CALLBACK"}
          /\ a.act = "mark_skipped" => nodeRow[a.node] \notin {"WAITING", "WAITING_CALLBACK"}
      BY <1>2, <2>2 DEF RunInv, AttemptInv, RowsInv, StandInv, Touched, Manual, Callback, IsWait, NodeActivityPc
    <3>2. CASE a.act = "create_wait"
      <4>1. \/ nodeRow'[a.node] = runRow' /\ runRow' \in {"WAITING", "WAITING_CALLBACK"}
            \/ UNCHANGED <<nodeRow, runRow>>
        BY <2>2, <2>4, <3>1, <3>2, CommitWrites DEF RunTypes, NodeActivityPc
      <4> QED BY <2>1, <2>3, <3>1, <3>2, <4>1 DEF RunWaitsForSomeNode, NodeActivityPc
    <3>3. CASE a.act \in {"execute", "mark_skipped"}
      <4>1. /\ UNCHANGED runRow
            /\ \A n \in flow.nodes : n # a.node => nodeRow'[n] = nodeRow[n]
        BY <2>2, <2>4, <3>1, <3>3, CommitWrites DEF RunTypes, NodeActivityPc
      <4> QED BY <1>2, <2>1, <3>1, <3>3, <4>1 DEF RunWaitsForSomeNode
    <3>4. CASE a.act \notin {"create_wait", "execute", "mark_skipped"}
      <4>1. \/ UNCHANGED <<nodeRow, runRow>>
            \/ runRow' \notin {"WAITING", "WAITING_CALLBACK"}
        BY <2>4, <3>4, CommitWrites
      <4> QED BY <2>3, <4>1 DEF RunWaitsForSomeNode
    <3> QED BY <3>2, <3>3, <3>4
  <2>5. ASSUME NEW n \in flow.nodes, CallbackExpired(n)
        PROVE  RunWaitsForSomeNode'
    BY <2>3, <2>5 DEF CallbackExpired
  <2>6. CASE WorkflowStep \/ WorkflowCancelled \/ UNCHANGED vars
    BY <2>3, <2>6 DEF WorkflowStep, WorkflowCancelled, vars, rows
  <2>7. CASE Workers
    BY <2>3, <2>4, <2>7 DEF Workers, Dispatch, GiveUp, EnterHandler, rows
  <2>8. CASE Api
    BY <2>3, <2>5, <2>8 DEF Api, CreateRun, CancelRun, ResumeNode, CallbackAccepted, Configure
  <2>9. CASE Failures \/ \E c \in calls : Deliver(c)
    BY <2>3, <2>9 DEF Failures, Crash, Overrun, CallLost, Deliver, rows
  <2> QED BY <1>2, <2>6, <2>7, <2>8, <2>9 DEF Next
<1> QED BY <1>1, <1>2, RunInvariance, PTL DEF Spec

-----------------------------------------------------------------------------
(* From the handler that accepts an answer to the row that says SUCCESS, an *)
(* answer passes through four hands: a call on its way, the workflow's      *)
(* inbox, the workflow, an attempt to complete the wait.                    *)
Called(n) == \E c \in calls : c.kind \in {"resume", "callback"} /\ c.node = n
Signalled(n) == manualSignals[n] # "none" \/ n \in callbackSignals
InHand(n) == (pc = "complete_wait" /\ node = n) \/ statuses[n] = "SUCCESS"
Completes(n) == nodeRow[n] = "SUCCESS" \/ \E a \in working : a.act = "complete_wait" /\ a.node = n
Heard(n) == Called(n) \/ Signalled(n) \/ InHand(n) \/ Completes(n)

(* The workflow takes in hand only what its inbox held. *)
LEMMA InHandWasSignalled ==
  ASSUME Inv, StandInv, [OwnStep]_wfVars, NEW n \in flow.nodes, IsWait(n),
         Signalled(n)' \/ InHand(n)'
  PROVE  Signalled(n) \/ InHand(n)
<1> USE DEF Signalled, InHand
<1>1. /\ statuses \in [flow.nodes -> Status]
      /\ manualSignals \in [flow.nodes -> Decision \cup {"none"}]
      /\ pc = "execute" => ~IsWait(node)
  BY DEF Inv, TypeOK, StandInv
<1>2. CASE SignalConsumed
  BY <1>1, <1>2 DEF SignalConsumed
<1>3. CASE \E m \in flow.nodes : SkipNode(m) \/ StartNode(m)
  BY <1>1, <1>3 DEF SkipNode, StartNode, inbox
<1>4. CASE PassEnds
  BY <1>4 DEF PassEnds, inbox
<1>5. CASE (\E b \in Handle : NodeExecuted(b)) \/ WaitCompleted
  BY <1>1, <1>5 DEF NodeExecuted, WaitCompleted, Succeed, inbox
<1>6. CASE \/ ScheduledRunCreated \/ RunMarkedRunning \/ NodeSkipped \/ PollPending \/ NodeRaised
           \/ WaitCreated \/ NodeMarkedFailed \/ RunMarkedSuccess \/ RunMarkedStuck
           \/ SleepEnds \/ CancelDelivered
  BY <1>6
  DEF ScheduledRunCreated, RunMarkedRunning, NodeSkipped, PollPending, NodeRaised, WaitCreated,
      NodeMarkedFailed, RunMarkedSuccess, RunMarkedStuck, SleepEnds, CancelDelivered, Close,
      local, inbox
<1>7. CASE UNCHANGED wfVars
  BY <1>7 DEF wfVars, local, inbox
<1> QED BY <1>2, <1>3, <1>4, <1>5, <1>6, <1>7 DEF OwnStep, Coroutine, ActivityAnswers

(* Only the two handlers that take an answer make a waiting node heard. *)
LEMMA HeardFromApi ==
  ASSUME RunInv, [Next]_vars, NEW n \in flow.nodes, IsWait(n), Heard(n)'
  PROVE  \/ Heard(n)
         \/ CallbackAccepted(n)
         \/ \E d \in Decision : ResumeNode(n, d)
<1>1. /\ Inv /\ StandInv /\ RunTypes /\ AttemptInv
      /\ manualSignals \in [flow.nodes -> Decision \cup {"none"}]
  BY DEF RunInv, Inv, TypeOK
<1>2. ASSUME Signalled(n)' \/ InHand(n)'
      PROVE  Heard(n)
  <2>1. CASE [OwnStep]_wfVars
    BY <1>1, <1>2, <2>1, InHandWasSignalled DEF Heard
  <2>2. ASSUME NEW c \in calls, Deliver(c)
        PROVE  Heard(n)
    BY <1>1, <1>2, <2>2
    DEF Deliver, RequestCancel, ResumeManual, ReceiveCallback, wfVars, local, inbox,
        Heard, Called, Signalled, InHand
  <2> QED BY <2>1, <2>2, OwnOrDelivered
<1>3. ASSUME NEW a \in working, ActivityCommits(a)
      PROVE  /\ UNCHANGED calls
             /\ Completes(n)' => Completes(n)
  <2>1. working' = working \ {a} /\ UNCHANGED calls
    BY <1>3, CommitEndsAttempt DEF MayCommit
  <2>2. ASSUME nodeRow'[n] = "SUCCESS", nodeRow[n] # "SUCCESS"
        PROVE  a.act = "complete_wait" /\ a.node = n
    <3>1. a.act = "execute" => a.node # n
      BY <1>1 DEF AttemptInv
    <3> QED BY <1>1, <1>3, <2>2, <3>1, CommitWrites DEF RunTypes
  <2> QED BY <2>1, <2>2 DEF Completes
<1>4. ASSUME NEW m \in flow.nodes, NEW d \in Decision, ResumeNode(m, d)
      PROVE  (Called(n)' => Called(n) \/ m = n) /\ (Completes(n)' => Completes(n))
  BY <1>4 DEF ResumeNode, server, Called, Completes
<1>5. ASSUME NEW m \in flow.nodes, CallbackAccepted(m)
      PROVE  (Called(n)' => Called(n) \/ m = n) /\ (Completes(n)' => Completes(n))
  BY <1>5 DEF CallbackAccepted, server, Called, Completes
<1>6. ASSUME NEW m \in flow.nodes, CallbackExpired(m)
      PROVE  UNCHANGED calls /\ (Completes(n)' => Completes(n))
  BY <1>1, <1>6 DEF CallbackExpired, server, Completes, RunTypes
<1>7. CASE Dispatch
  BY <1>7, DispatchAdds DEF Dispatch, rows, Heard, Called, Completes, InHand, Signalled, wfVars, local, inbox
<1>8. CASE WorkflowStep \/ WorkflowCancelled \/ GiveUp \/ (\E a \in working : EnterHandler(a)) \/ UNCHANGED vars
  BY <1>2, <1>8
  DEF WorkflowStep, WorkflowCancelled, GiveUp, EnterHandler, vars, rows, server, Heard, Called, Completes
<1>9. CASE CreateRun \/ CancelRun
  BY <1>2, <1>9 DEF CreateRun, CancelRun, server, Heard, Called, Completes
<1>10. CASE Failures \/ \E c \in calls : Deliver(c)
  BY <1>2, <1>10 DEF Failures, Crash, Overrun, CallLost, Deliver, rows, server, Heard, Called, Completes
<1>11. CASE Configure
  BY <1>2, <1>11 DEF Configure, server, Heard, Called, Completes
<1> QED
  BY <1>2, <1>3, <1>4, <1>5, <1>6, <1>7, <1>8, <1>9, <1>10, <1>11
  DEF Next, Workers, Api, Heard, Called

(* A callback received stays received, a task decided stays decided. *)
LEMMA EvidenceStays ==
  ASSUME RunInv, [Next]_vars, NEW n \in flow.nodes
  PROVE  /\ wait[n] = "RECEIVED" => wait'[n] = "RECEIVED"
         /\ task[n] \in Decision => task'[n] \in Decision
<1>1. RunTypes
  BY DEF RunInv
<1>2. CASE UNCHANGED <<task, wait>>
  BY <1>2
<1>3. ASSUME NEW a \in working, ActivityCommits(a)
      PROVE  /\ wait[n] = "RECEIVED" => wait'[n] = "RECEIVED"
             /\ task[n] \in Decision => task'[n] \in Decision
  BY <1>1, <1>3, CommitWrites, TaskAssumption DEF RunTypes
<1>4. CASE Api
  BY <1>1, <1>4, TaskAssumption
  DEF Api, CreateRun, CancelRun, ResumeNode, CallbackAccepted, CallbackExpired, Configure, RunTypes
<1> QED
  BY <1>2, <1>3, <1>4
  DEF Next, WorkflowStep, WorkflowCancelled, Workers, Dispatch, GiveUp, EnterHandler,
      Failures, Crash, Overrun, CallLost, Deliver, vars, rows

LEMMA InitUnheard == ASSUME Init, NEW n \in flow.nodes PROVE ~Heard(n)
BY DEF Init, WfInit, Heard, Called, Signalled, InHand, Completes

ReceivedInv == \A n \in flow.nodes : Callback(n) /\ Heard(n) => wait[n] = "RECEIVED"

(* An http_callback node completes only by a callback that was accepted     *)
(* (callback_api.py:117-148, 189-196): no resend, expiry or repeated        *)
(* attempt makes the row or the workflow say SUCCESS without one.          *)
THEOREM OnlyAcceptedCallbacksComplete == Spec => []OnlyAcceptedCallbackCompletes
<1>1. Init => ReceivedInv
  BY InitUnheard DEF ReceivedInv
<1>2. ASSUME RunInv, ReceivedInv, [Next]_vars
      PROVE  ReceivedInv'
  <2>1. flow' = flow
    BY <1>2, RunStepIsWorkflowStep, FlowStays DEF RunInv
  <2> SUFFICES ASSUME NEW n \in flow.nodes, Callback(n), Heard(n)'
               PROVE  wait'[n] = "RECEIVED"
    BY <2>1 DEF ReceivedInv, Callback
  <2>2. Heard(n) \/ CallbackAccepted(n)
    BY <1>2, HeardFromApi DEF ResumeNode, Callback, IsWait
  <2>3. CASE CallbackAccepted(n)
    BY <1>2, <2>3 DEF CallbackAccepted, RunInv, RunTypes
  <2> QED BY <1>2, <2>2, <2>3, EvidenceStays DEF ReceivedInv
<1>3. ReceivedInv => OnlyAcceptedCallbackCompletes
  BY DEF ReceivedInv, OnlyAcceptedCallbackCompletes, Callback, Heard, InHand, Completes
<1> QED BY <1>1, <1>2, <1>3, RunInvariance, PTL DEF Spec

DecidedInv == \A n \in flow.nodes : Manual(n) /\ Heard(n) => task[n] \in Decision

(* When nobody resumes a manual node before it waits, its success stands on *)
(* an approval task that was decided (group_api.py:847-868), whatever fails *)
(* or is cancelled meanwhile.                                              *)
THEOREM ApprovedTasksAreDecided ==
  ASSUME "early_resume" \notin Moves
  PROVE  Spec => []ApprovedTaskIsDecided
<1>1. Init => DecidedInv
  BY InitUnheard DEF DecidedInv
<1>2. ASSUME RunInv, DecidedInv, [Next]_vars
      PROVE  DecidedInv'
  <2>1. flow' = flow
    BY <1>2, RunStepIsWorkflowStep, FlowStays DEF RunInv
  <2> SUFFICES ASSUME NEW n \in flow.nodes, Manual(n), Heard(n)'
               PROVE  task'[n] \in Decision
    BY <2>1 DEF DecidedInv, Manual
  <2>2. Heard(n) \/ \E d \in Decision : ResumeNode(n, d)
    <3>1. ~CallbackAccepted(n)
      BY <1>2 DEF CallbackAccepted, RunInv, RowsInv, Callback, Manual
    <3> QED BY <1>2, <3>1, HeardFromApi DEF Manual, IsWait
  <2>3. ASSUME NEW d \in Decision, ResumeNode(n, d)
        PROVE  task'[n] \in Decision
    BY <1>2, <2>3 DEF ResumeNode, RunInv, RunTypes, RowsInv
  <2> QED BY <1>2, <2>2, <2>3, EvidenceStays DEF DecidedInv
<1>3. DecidedInv => ApprovedTaskIsDecided
  BY DEF DecidedInv, ApprovedTaskIsDecided, Manual, Heard, Completes
<1> QED BY <1>1, <1>2, <1>3, RunInvariance, PTL DEF Spec

-----------------------------------------------------------------------------
(* Counting attempts. *)

LEMMA FewerOf ==
  ASSUME NEW S, IsFiniteSet(S), NEW T \in SUBSET S
  PROVE  /\ Cardinality(S) \in Nat /\ Cardinality(T) \in Nat
         /\ Cardinality(T) <= Cardinality(S)
         /\ \A a \in S : a \notin T => Cardinality(T) + 1 <= Cardinality(S)
<1>1. /\ IsFiniteSet(T) /\ Cardinality(T) <= Cardinality(S)
      /\ Cardinality(S) \in Nat /\ Cardinality(T) \in Nat
  BY FS_Subset, FS_CardinalityType
<1>2. ASSUME NEW a \in S, a \notin T
      PROVE  Cardinality(T) + 1 <= Cardinality(S)
  <2>1. Cardinality(T \cup {a}) = Cardinality(T) + 1
    BY <1>1, <1>2, FS_AddElement
  <2>2. Cardinality(T \cup {a}) <= Cardinality(S)
    BY FS_Subset
  <2> QED BY <2>1, <2>2
<1> QED BY <1>1, <1>2

LEMMA OneMoreOf ==
  ASSUME NEW S, IsFiniteSet(S), NEW a, NEW T \in SUBSET (S \cup {a})
  PROVE  /\ Cardinality(S) \in Nat /\ Cardinality(T) \in Nat
         /\ Cardinality(T) <= Cardinality(S) + 1
<1>1. IsFiniteSet(S \cup {a}) /\ Cardinality(S) \in Nat
  BY FS_AddElement, FS_CardinalityType
<1>2. \/ Cardinality(S \cup {a}) = Cardinality(S)
      \/ Cardinality(S \cup {a}) = Cardinality(S) + 1
  BY FS_AddElement
<1>3. Cardinality(T) <= Cardinality(S \cup {a}) /\ Cardinality(T) \in Nat
  BY <1>1, FewerOf
<1> QED BY <1>1, <1>2, <1>3

(* Without a cancelled run row the workflow has not been told to cancel. *)
CancelInv == ~cancelRequested => cancel = "none" /\ \A c \in calls : c.kind # "cancel"

LEMMA CancelStep ==
  ASSUME RunInv, CancelInv, [Next]_vars
  PROVE  CancelInv'
<1>1. ASSUME UNCHANGED cancelRequested, calls' \subseteq calls, cancel' = cancel \/ cancel # "none"
      PROVE  CancelInv'
  BY <1>1 DEF CancelInv
<1>2. CASE [OwnStep]_wfVars
  <2>1. cancel' = cancel \/ cancel # "none"
    BY <1>2
    DEF OwnStep, Coroutine, SkipNode, StartNode, PassEnds, SignalConsumed, ActivityAnswers,
        ScheduledRunCreated, RunMarkedRunning, NodeSkipped, NodeExecuted, PollPending, NodeRaised,
        WaitCreated, WaitCompleted, NodeMarkedFailed, RunMarkedSuccess, RunMarkedStuck, Succeed,
        SleepEnds, CancelDelivered, wfVars
  <2>2. CASE Api
    BY <2>1, <2>2
    DEF Api, CreateRun, CancelRun, ResumeNode, CallbackAccepted, CallbackExpired, Configure, CancelInv
  <2>3. CASE UNCHANGED cancelRequested /\ calls' \subseteq calls
    BY <1>1, <2>1, <2>3
  <2>4. ASSUME NEW a \in working, ActivityCommits(a)
        PROVE  UNCHANGED cancelRequested /\ calls' \subseteq calls
    BY <2>4, CommitEndsAttempt DEF MayCommit
  <2> QED
    BY <2>2, <2>3, <2>4
    DEF Next, WorkflowStep, WorkflowCancelled, Workers, Dispatch, GiveUp, EnterHandler,
        Failures, Crash, Overrun, CallLost, Deliver, vars, rows
<1>3. ASSUME NEW c \in calls, Deliver(c)
      PROVE  CancelInv'
  BY <1>3 DEF Deliver, RequestCancel, ResumeManual, ReceiveCallback, CancelInv, rows, wfVars
<1> QED BY <1>2, <1>3, OwnOrDelivered

(* The attempts to create the scheduled run that nobody waits for. *)
Stray == {a \in working : a.act = "create_scheduled_run" /\ a # current}

FaultCount == faults["crash"] + faults["lost_answer"] + faults["overrun"] + faults["lost_call"]

(* Before a scheduled run has its row, nobody can have touched the run. *)
CreatingInv ==
  pc = "create_scheduled_run" =>
    /\ runRow = "absent" /\ started /\ ~cancelRequested
    /\ \A n \in flow.nodes : wait[n] = "absent"
    /\ \A a \in working : a.act = "create_scheduled_run"

(* Each run row that no workflow owns has cost a lost answer or a timeout:   *)
(* no cancellation can reach the workflow before its first activity answers. *)
OrphanInv ==
  /\ orphans + Cardinality(Stray) <= faults["lost_answer"] + faults["overrun"]
  /\ FaultCount <= MaxFaults

LEMMA FaultsAdd ==
  ASSUME RunTypes, NEW k \in FaultKind, Fault(k)
  PROVE  /\ faults'[k] = faults[k] + 1
         /\ \A j \in FaultKind : j # k => faults'[j] = faults[j]
         /\ FaultCount' <= MaxFaults
<1>1. \A j \in FaultKind : faults[j] \in Nat
  BY DEF RunTypes
<1>2. /\ faults'[k] = faults[k] + 1
      /\ \A j \in FaultKind : j # k => faults'[j] = faults[j]
  BY DEF Fault, RunTypes
<1>3. FaultCount < MaxFaults
  BY DEF Fault, FaultCount
<1>4. FaultCount' = FaultCount + 1
  <2>1. /\ faults["crash"] \in Nat /\ faults["lost_answer"] \in Nat
        /\ faults["overrun"] \in Nat /\ faults["lost_call"] \in Nat
    BY <1>1 DEF FaultKind
  <2>2. CASE k = "crash"
    BY <1>2, <2>1, <2>2 DEF FaultCount, FaultKind
  <2>3. CASE k = "lost_answer"
    BY <1>2, <2>1, <2>3 DEF FaultCount, FaultKind
  <2>4. CASE k = "overrun"
    BY <1>2, <2>1, <2>4 DEF FaultCount, FaultKind
  <2>5. CASE k = "lost_call"
    BY <1>2, <2>1, <2>5 DEF FaultCount, FaultKind
  <2> QED BY <2>2, <2>3, <2>4, <2>5 DEF FaultKind
<1>5. FaultCount \in Nat
  BY <1>1 DEF FaultCount, FaultKind
<1> QED BY <1>2, <1>3, <1>4, <1>5, MaxFaultsAssumption

LEMMA CreatingStep ==
  ASSUME RunInv, CreatingInv, [Next]_vars
  PROVE  CreatingInv'
<1> SUFFICES ASSUME pc' = "create_scheduled_run" PROVE CreatingInv'
  BY DEF CreatingInv
<1>1. UNCHANGED <<pc, flow>>
  <2>1. flow' = flow
    BY RunStepIsWorkflowStep, FlowStays DEF RunInv
  <2>2. CASE [OwnStep]_wfVars
    BY <2>1, <2>2
    DEF OwnStep, Coroutine, SkipNode, StartNode, PassEnds, SignalConsumed, ActivityAnswers,
        ScheduledRunCreated, RunMarkedRunning, NodeSkipped, NodeExecuted, PollPending, NodeRaised,
        WaitCreated, WaitCompleted, NodeMarkedFailed, RunMarkedSuccess, RunMarkedStuck, Succeed,
        SleepEnds, CancelDelivered, Close, wfVars
  <2>3. ASSUME NEW c \in calls, Deliver(c)
        PROVE  UNCHANGED pc
    BY <2>3 DEF Deliver, RequestCancel, ResumeManual, ReceiveCallback, wfVars
  <2> QED BY <2>1, <2>2, <2>3, OwnOrDelivered
<1>2. /\ runRow = "absent" /\ started /\ ~cancelRequested
      /\ \A n \in flow.nodes : wait[n] = "absent"
      /\ \A a \in working : a.act = "create_scheduled_run"
  BY <1>1 DEF CreatingInv
<1>3. ASSUME UNCHANGED <<runRow, cancelRequested, wait>>, started', working' \subseteq working
      PROVE  CreatingInv'
  BY <1>1, <1>2, <1>3 DEF CreatingInv
<1>4. CASE Dispatch
  BY <1>1, <1>2, <1>4, DispatchAdds DEF Dispatch, rows, CreatingInv
<1>5. ASSUME NEW a \in working, ActivityCommits(a)
      PROVE  CreatingInv'
  <2>1. UNCHANGED <<runRow, wait>>
    BY <1>1, <1>2, <1>5, CommitWrites DEF ScheduledRunCreated
  <2>2. UNCHANGED <<started, cancelRequested>> /\ working' \subseteq working
    BY <1>5, CommitEndsAttempt DEF MayCommit
  <2> QED BY <1>2, <1>3, <2>1, <2>2
<1>6. CASE Api
  BY <1>2, <1>3, <1>6
  DEF Api, CreateRun, CancelRun, ResumeNode, CallbackAccepted, CallbackExpired, Configure, server
<1> QED
  BY <1>2, <1>3, <1>4, <1>5, <1>6
  DEF Next, WorkflowStep, WorkflowCancelled, Workers, GiveUp, EnterHandler, Failures, Crash,
      Overrun, CallLost, Deliver, vars, rows, server

LEMMA OrphanStep ==
  ASSUME RunInv, CancelInv, CreatingInv, OrphanInv, [Next]_vars
  PROVE  OrphanInv'
<1>1. /\ RunTypes /\ AttemptInv /\ orphans \in Nat /\ IsFiniteSet(working)
      /\ faults["lost_answer"] \in Nat /\ faults["overrun"] \in Nat
  BY DEF RunInv, RunTypes, FaultKind
<1>2. IsFiniteSet(Stray) /\ Cardinality(Stray) \in Nat
  BY <1>1, FS_Subset, FS_CardinalityType DEF Stray
<1>3. ASSUME UNCHANGED <<orphans, faults>>, Stray' \subseteq Stray
      PROVE  OrphanInv'
  <2>1. Cardinality(Stray') \in Nat /\ Cardinality(Stray') <= Cardinality(Stray)
    BY <1>2, <1>3, FewerOf
  <2> QED BY <1>1, <1>2, <1>3, <2>1 DEF OrphanInv, FaultCount
<1>4. ASSUME UNCHANGED <<working, current, orphans, faults>>
      PROVE  OrphanInv'
  BY <1>3, <1>4 DEF Stray
<1>5. NoAttempt \notin working
  BY <1>1 DEF RunTypes, Attempt, NoAttempt, ActivityPc
<1>6. CASE WorkflowCancelled
  <2>1. pc # "create_scheduled_run"
    BY <1>6 DEF WorkflowCancelled, CancelDelivered, CancelInv, CreatingInv
  <2>2. current # NoAttempt => current.act # "create_scheduled_run"
    BY <1>1, <2>1 DEF AttemptInv
  <2>3. UNCHANGED <<working, orphans, faults>> /\ Stray' \subseteq Stray
    BY <1>6, <1>5, <2>2 DEF WorkflowCancelled, Stray, rows
  <2> QED BY <1>3, <2>3
<1>7. CASE Dispatch
  <2>1. PICK a : current' = a /\ working' = working \cup {a}
    BY <1>7, DispatchAdds
  <2>2. Stray' \subseteq Stray /\ UNCHANGED <<orphans, faults>>
    BY <1>7, <1>5, <2>1 DEF Dispatch, Stray, rows
  <2> QED BY <1>3, <2>2
<1>8. ASSUME NEW a \in working, ActivityCommits(a)
      PROVE  OrphanInv'
  <2>1. /\ working' = working \ {a}
        /\ current' = IF a = current THEN NoAttempt ELSE current
        /\ UNCHANGED faults \/ (Fault("lost_answer") /\ a = current)
    BY <1>8, CommitEndsAttempt DEF MayCommit
  <2>2. Stray' \subseteq Stray /\ a \notin Stray'
    BY <2>1 DEF Stray
  <2>3. /\ Cardinality(Stray') \in Nat /\ Cardinality(Stray') <= Cardinality(Stray)
        /\ a \in Stray => Cardinality(Stray') + 1 <= Cardinality(Stray)
    BY <1>2, <2>2, FewerOf
  <2>4. \/ UNCHANGED orphans
        \/ orphans' = orphans + 1 /\ a.act = "create_scheduled_run"
    BY <1>8, CommitWrites
  <2>5. CASE UNCHANGED faults /\ (UNCHANGED orphans \/ a # current)
    <3>1. orphans' # orphans => a \in Stray
      BY <1>1, <2>4, <2>5 DEF Stray
    <3> QED BY <1>1, <1>2, <2>3, <2>4, <2>5, <3>1 DEF OrphanInv, FaultCount
  <2>6. CASE UNCHANGED faults /\ orphans' # orphans /\ a = current
    <3>1. CreateScheduledRunActivity(a) /\ Unheard(a)
      BY <1>8, <2>6
      DEF ActivityCommits, CreateScheduledRunActivity, MarkRunActivity, MarkNodeSkippedActivity,
          MarkNodeFailedActivity, ExecuteNodeActivity, CreateManualWaitActivity,
          CompleteManualWaitActivity, CreateCallbackWaitActivity, CompleteCallbackWaitActivity,
          Raises
    <3>2. Fault("lost_answer")
      BY <2>6, <3>1 DEF Unheard, Abandoned, AnswerLost
    <3>3. faults'["lost_answer"] = faults["lost_answer"] + 1
      BY <1>1, <3>2, FaultsAdd DEF FaultKind
    <3> QED BY <1>1, <2>6, <3>3
  <2>7. CASE Fault("lost_answer")
    <3>1. /\ faults'["lost_answer"] = faults["lost_answer"] + 1
          /\ faults'["overrun"] = faults["overrun"] /\ FaultCount' <= MaxFaults
      BY <1>1, <2>7, FaultsAdd DEF FaultKind
    <3> QED BY <1>1, <1>2, <2>3, <2>4, <3>1 DEF OrphanInv
  <2> QED BY <2>1, <2>5, <2>6, <2>7
<1>9. ASSUME NEW a \in working, Crash(a)
      PROVE  OrphanInv'
  <2>1. /\ faults'["lost_answer"] = faults["lost_answer"]
        /\ faults'["overrun"] = faults["overrun"] /\ FaultCount' <= MaxFaults
    BY <1>1, <1>9, FaultsAdd DEF FaultKind, Crash
  <2>2. Stray' \subseteq Stray /\ UNCHANGED orphans
    BY <1>9 DEF Crash, Stray, rows
  <2>3. Cardinality(Stray') \in Nat /\ Cardinality(Stray') <= Cardinality(Stray)
    BY <1>2, <2>2, FewerOf
  <2> QED BY <1>1, <1>2, <2>1, <2>2, <2>3 DEF OrphanInv
<1>10. CASE Overrun
  <2>1. /\ faults'["lost_answer"] = faults["lost_answer"]
        /\ faults'["overrun"] = faults["overrun"] + 1 /\ FaultCount' <= MaxFaults
    BY <1>1, <1>10, FaultsAdd DEF FaultKind, Overrun
  <2>2. Stray' \subseteq Stray \cup {current} /\ UNCHANGED orphans
    BY <1>10 DEF Overrun, Stray, rows
  <2>3. Cardinality(Stray') \in Nat /\ Cardinality(Stray') <= Cardinality(Stray) + 1
    BY <1>2, <2>2, OneMoreOf
  <2> QED BY <1>1, <1>2, <2>1, <2>2, <2>3 DEF OrphanInv
<1>11. ASSUME NEW c \in calls, CallLost(c)
       PROVE  OrphanInv'
  <2>1. /\ faults'["lost_answer"] = faults["lost_answer"]
        /\ faults'["overrun"] = faults["overrun"] /\ FaultCount' <= MaxFaults
    BY <1>1, <1>11, FaultsAdd DEF FaultKind, CallLost
  <2>2. UNCHANGED <<orphans, Stray>>
    BY <1>11 DEF CallLost, rows, server, Stray
  <2> QED BY <1>1, <1>2, <2>1, <2>2 DEF OrphanInv
<1>12. CASE Api
  BY <1>4, <1>12
  DEF Api, CreateRun, CancelRun, ResumeNode, CallbackAccepted, CallbackExpired, Configure, server
<1>13. CASE WorkflowStep \/ GiveUp \/ (\E a \in working : EnterHandler(a))
            \/ (\E c \in calls : Deliver(c)) \/ UNCHANGED vars
  BY <1>4, <1>13 DEF WorkflowStep, GiveUp, EnterHandler, Deliver, vars, rows, server
<1> QED
  BY <1>6, <1>7, <1>8, <1>9, <1>10, <1>11, <1>12, <1>13 DEF Next, Workers, Failures

-----------------------------------------------------------------------------
(* How many requests the handler of an http_poll node may send.             *)

Poll(n) == flow.type[n] = "http_poll"

(* The attempts at n that have not called its handler yet. *)
Queued(n) == {a \in working \ holding : a.act = "execute" /\ a.node = n}

(* Each of them may still send its request. *)
Dispatched(n) == requests[n] + Cardinality(Queued(n))

(* What the polls before the k-th may have sent: none of them was answered  *)
(* at its last permitted attempt, for that answers no "poll again".         *)
Budget(k) == (k - 1) * (MaxPolls - 1)

(* At any time: what the polls so far and the tries of this one may send. *)
Allowed(n) ==
  CASE n = node /\ pc = "execute" -> Budget(attempts[n]) + tries
    [] n = node /\ pc = "sleep"   -> Budget(attempts[n] + 1)
    [] OTHER                      -> Budget(MaxPolls) + MaxPolls

TriesInv ==
  /\ pc = "execute" /\ current # NoAttempt => current.try = tries
  /\ pc = "execute" => tries <= MaxTries(node)
  /\ pc \notin ActivityPc => tries = 0

BudgetInv ==
  \A n \in flow.nodes :
    /\ ~Poll(n) => requests[n] = 0
    /\ Poll(n) /\ ~Begun(n) => Dispatched(n) = 0
    /\ Poll(n) => Dispatched(n) <= Allowed(n)

LEMMA BudgetGrows ==
  /\ Budget(1) = 0
  /\ \A k \in Nat : /\ Budget(k) \in Int
                    /\ Budget(k + 1) = Budget(k) + (MaxPolls - 1)
  /\ \A k \in 0..MaxPolls : Budget(k) <= Budget(MaxPolls)
<1>1. MaxPolls \in Nat /\ MaxPolls - 1 \in Nat
  BY MaxPollsAssumption
<1>2. \A x \in Int, m \in Int : (x + 1) * m = x * m + m /\ 0 * m = 0 /\ x * m \in Int
  OBVIOUS
<1>3. ASSUME NEW k \in Nat
      PROVE  Budget(k) \in Int /\ Budget(k + 1) = Budget(k) + (MaxPolls - 1)
  <2>1. (k + 1) - 1 = (k - 1) + 1 /\ k - 1 \in Int
    OBVIOUS
  <2> QED BY <1>1, <1>2, <2>1 DEF Budget
<1>4. \A x \in Int, y \in Int, m \in Nat : x <= y => x * m <= y * m
  OBVIOUS
<1>5. \A k \in 0..MaxPolls : Budget(k) <= Budget(MaxPolls)
  <2> SUFFICES ASSUME NEW k \in 0..MaxPolls PROVE Budget(k) <= Budget(MaxPolls)
    OBVIOUS
  <2>1. k - 1 \in Int /\ MaxPolls - 1 \in Int /\ k - 1 <= MaxPolls - 1
    BY <1>1
  <2> QED BY <1>1, <1>4, <2>1 DEF Budget
<1> QED BY <1>1, <1>2, <1>3, <1>5 DEF Budget

LEMMA BudgetAtLeastZero ==
  MaxPolls \in Nat /\ Budget(MaxPolls) \in Int /\ 0 <= Budget(MaxPolls)
<1>1. MaxPolls \in Nat /\ 1 \in 0..MaxPolls
  BY MaxPollsAssumption
<1> QED BY <1>1, BudgetGrows

(* Only a new attempt adds to what a node's handler may send. *)
LEMMA DispatchedStep ==
  ASSUME RunInv, [Next]_vars, NEW n \in flow.nodes, ~Poll(n) => requests[n] = 0
  PROVE  /\ Dispatched(n) \in Nat /\ Dispatched(n)' \in Nat
         /\ ~Poll(n) => requests'[n] = 0
         /\ \/ Dispatched(n)' <= Dispatched(n)
            \/ Dispatch /\ pc = "execute" /\ node = n /\ Dispatched(n)' <= Dispatched(n) + 1
<1>1. RunTypes /\ RunTypes' /\ AttemptInv /\ flow' = flow
  BY RunStepIsWorkflowStep, FlowStays, RunTypesStep DEF RunInv
<1>2. /\ IsFiniteSet(Queued(n)) /\ Cardinality(Queued(n)) \in Nat
      /\ IsFiniteSet(Queued(n)') /\ Cardinality(Queued(n)') \in Nat
      /\ requests[n] \in Nat /\ requests'[n] \in Nat
  BY <1>1, FS_Subset, FS_CardinalityType DEF Queued, RunTypes
<1>3. Dispatched(n) \in Nat /\ Dispatched(n)' \in Nat
  BY <1>2 DEF Dispatched
<1>4. ASSUME UNCHANGED requests, Queued(n)' \subseteq Queued(n)
      PROVE  (~Poll(n) => requests'[n] = 0) /\ Dispatched(n)' <= Dispatched(n)
  <2>1. Cardinality(Queued(n)') <= Cardinality(Queued(n))
    BY <1>2, <1>4, FewerOf
  <2> QED BY <1>2, <1>4, <2>1 DEF Dispatched
<1>5. CASE Dispatch
  <2>1. PICK a : a.act = pc /\ a.node = node /\ working' = working \cup {a}
    BY <1>5, DispatchAdds
  <2>2. UNCHANGED <<requests, holding>>
    BY <1>5 DEF Dispatch
  <2>3. CASE pc = "execute" /\ node = n
    <3>1. Queued(n)' \subseteq Queued(n) \cup {a}
      BY <2>1, <2>2 DEF Queued
    <3>2. Cardinality(Queued(n)') <= Cardinality(Queued(n)) + 1
      BY <1>2, <3>1, OneMoreOf
    <3> QED BY <1>2, <1>3, <1>5, <2>2, <2>3, <3>2 DEF Dispatched
  <2>4. CASE ~(pc = "execute" /\ node = n)
    <3>1. Queued(n)' \subseteq Queued(n)
      BY <2>1, <2>2, <2>4 DEF Queued
    <3> QED BY <1>3, <1>4, <2>2, <3>1
  <2> QED BY <2>3, <2>4
<1>6. ASSUME NEW a \in working, EnterHandler(a)
      PROVE  (~Poll(n) => requests'[n] = 0) /\ Dispatched(n)' <= Dispatched(n)
  <2>1. Queued(n)' \subseteq Queued(n)
    BY <1>6 DEF EnterHandler, Queued
  <2>2. CASE UNCHANGED requests
    BY <1>4, <2>1, <2>2
  <2>3. CASE a.node # n \/ ~Poll(n)
    <3>1. requests'[n] = requests[n]
      BY <1>1, <1>6, <2>3 DEF EnterHandler, Poll, RunTypes
    <3>2. Cardinality(Queued(n)') <= Cardinality(Queued(n))
      BY <1>2, <2>1, FewerOf
    <3> QED BY <1>2, <3>1, <3>2 DEF Dispatched
  <2>4. CASE a.node = n /\ Poll(n)
    <3>1. requests'[n] = requests[n] + 1
      BY <1>1, <1>6, <2>4 DEF EnterHandler, Poll, RunTypes
    <3>2. a \in Queued(n) /\ a \notin Queued(n)'
      BY <1>6, <2>4 DEF EnterHandler, Queued
    <3>3. Cardinality(Queued(n)') + 1 <= Cardinality(Queued(n))
      BY <1>2, <2>1, <3>2, FewerOf
    <3> QED BY <1>2, <2>4, <3>1, <3>3 DEF Dispatched
  <2> QED BY <2>3, <2>4
<1>7. ASSUME NEW a \in working, ActivityCommits(a) \/ Crash(a)
      PROVE  UNCHANGED requests /\ Queued(n)' \subseteq Queued(n)
  <2>1. UNCHANGED requests /\ working' = working \ {a} /\ holding' = holding \ {a}
    BY <1>7, CommitEndsAttempt DEF MayCommit, Crash
  <2> QED BY <2>1 DEF Queued
<1>8. CASE UNCHANGED <<requests, working, holding>>
  BY <1>3, <1>4, <1>8 DEF Queued
<1>9. CASE Api
  BY <1>8, <1>9
  DEF Api, CreateRun, CancelRun, ResumeNode, CallbackAccepted, CallbackExpired, Configure, server
<1>10. CASE \/ WorkflowStep \/ WorkflowCancelled \/ GiveUp \/ Overrun
            \/ (\E c \in calls : Deliver(c) \/ CallLost(c)) \/ UNCHANGED vars
  BY <1>8, <1>10
  DEF WorkflowStep, WorkflowCancelled, GiveUp, Overrun, Deliver, CallLost, vars, server
<1> QED
  BY <1>3, <1>4, <1>5, <1>6, <1>7, <1>9, <1>10 DEF Next, Workers, Failures

(* An answer moves the workflow to its next await; "poll again" is never    *)
(* the answer of the last permitted attempt.                               *)
LEMMA CommitAnswers ==
  ASSUME NEW a, ActivityCommits(a)
  PROVE  \/ UNCHANGED <<wfVars, tries>>
         \/ /\ tries' = 0 /\ a = current
            /\ \/ ActivityAnswers /\ pc' \notin {"execute", "sleep"}
               \/ PollPending /\ a.act = "execute" /\ AttemptSeen(a) < MaxPolls
<1> USE DEF Answered, Unheard, Abandoned, AnswerLost, Raises, ActivityAnswers
<1>1. CASE CreateScheduledRunActivity(a)
  BY <1>1 DEF CreateScheduledRunActivity, ScheduledRunCreated
<1>2. CASE MarkRunActivity(a)
  BY <1>2 DEF MarkRunActivity, RunMarkedRunning, RunMarkedSuccess, RunMarkedStuck, Close
<1>3. CASE MarkNodeSkippedActivity(a) \/ MarkNodeFailedActivity(a)
  BY <1>3 DEF MarkNodeSkippedActivity, MarkNodeFailedActivity, NodeSkipped, NodeMarkedFailed, Close
<1>4. CASE ExecuteNodeActivity(a)
  BY <1>4 DEF ExecuteNodeActivity, NodeExecuted, Succeed
<1>5. CASE CreateManualWaitActivity(a) \/ CompleteManualWaitActivity(a)
  BY <1>5 DEF CreateManualWaitActivity, CompleteManualWaitActivity, WaitCreated, WaitCompleted, Succeed
<1>6. CASE CreateCallbackWaitActivity(a) \/ CompleteCallbackWaitActivity(a)
  BY <1>6 DEF CreateCallbackWaitActivity, CompleteCallbackWaitActivity, WaitCreated, WaitCompleted, Succeed
<1> QED
  BY <1>1, <1>2, <1>3, <1>4, <1>5, <1>6 DEF ActivityCommits

(* How the count of tries follows the workflow's awaits. *)
LEMMA TriesStep ==
  ASSUME RunInv, TriesInv, [Next]_vars
  PROVE  TriesInv'
<1>1. /\ RunTypes /\ StandInv /\ flow' = flow
      /\ tries \in Nat /\ \A n : MaxTries(n) \in Nat /\ MaxTries(n)' = MaxTries(n)
  BY RunStepIsWorkflowStep, FlowStays, MaxPollsAssumption, MaxAttemptsAssumption
  DEF RunInv, RunTypes, MaxTries
<1>2. ASSUME UNCHANGED <<pc, node, tries>>, current' \in {current, NoAttempt}
      PROVE  TriesInv'
  BY <1>1, <1>2 DEF TriesInv
<1>3. ASSUME pc' # "execute", pc' \in ActivityPc \/ tries' = 0
      PROVE  TriesInv'
  BY <1>3 DEF TriesInv
<1>4. ASSUME tries' = 0, current' = NoAttempt
      PROVE  TriesInv'
  BY <1>1, <1>4 DEF TriesInv
<1>5. CASE WorkflowStep
  <2>1. pc \notin ActivityPc /\ UNCHANGED <<tries, current>>
    BY <1>5 DEF WorkflowStep, server, Coroutine, SkipNode, StartNode, PassEnds, SignalConsumed,
         SleepEnds, ActivityPc
  <2>2. current = NoAttempt
    BY <1>1, <2>1 DEF RunInv, AttemptInv, RunTypes, Attempt
  <2> QED BY <1>4, <2>1, <2>2 DEF TriesInv
<1>6. CASE Dispatch
  <2>1. pc = "execute" => current'.try = tries' /\ tries' = tries + 1 /\ tries < MaxTries(node)
    BY <1>6, DispatchAdds
  <2>2. UNCHANGED <<pc, node>> /\ pc \in ActivityPc
    BY <1>6 DEF Dispatch, wfVars, local
  <2> QED BY <1>1, <2>1, <2>2 DEF TriesInv
<1>7. ASSUME NEW a \in working, ActivityCommits(a)
      PROVE  TriesInv'
  <2>1. current' = IF a = current THEN NoAttempt ELSE current
    BY <1>7, CommitEndsAttempt
  <2> QED BY <1>2, <1>4, <1>7, <2>1, CommitAnswers DEF wfVars, local
<1>8. CASE WorkflowCancelled \/ GiveUp
  BY <1>4, <1>8 DEF WorkflowCancelled, GiveUp
<1>9. CASE Api \/ UNCHANGED vars
  BY <1>2, <1>9
  DEF Api, CreateRun, CancelRun, ResumeNode, CallbackAccepted, CallbackExpired, Configure, vars, server,
      wfVars, local
<1>10. ASSUME NEW c \in calls, Deliver(c)
       PROVE  TriesInv'
  BY <1>2, <1>10 DEF Deliver, RequestCancel, ResumeManual, ReceiveCallback, wfVars, local
<1>11. CASE Failures \/ \E a \in working : EnterHandler(a)
  BY <1>2, <1>11 DEF Failures, Crash, Overrun, CallLost, EnterHandler, server, wfVars, local
<1> QED
  BY <1>5, <1>6, <1>7, <1>8, <1>9, <1>10, <1>11 DEF Next, Workers

(* Nothing is ever allowed beyond the polls' and the last poll's tries. *)
AllowedType ==
  \A n \in flow.nodes : Poll(n) =>
    /\ Allowed(n) \in Int /\ Budget(MaxPolls) \in Int
    /\ Allowed(n) <= Budget(MaxPolls) + MaxPolls

LEMMA AllowedIsTyped == RunInv /\ TriesInv => AllowedType
<1> SUFFICES ASSUME RunInv, TriesInv, NEW n \in flow.nodes, Poll(n)
             PROVE  /\ Allowed(n) \in Int /\ Budget(MaxPolls) \in Int
                    /\ Allowed(n) <= Budget(MaxPolls) + MaxPolls
  BY DEF AllowedType
<1>1. /\ attempts[n] \in 0..MaxPolls /\ tries \in Nat
      /\ pc = "sleep" => attempts[node] < MaxPolls
  BY DEF RunInv, Inv, TypeOK, CoroutineInv, RunTypes
<1>2. MaxPolls \in Nat
  BY MaxPollsAssumption
<1>3. Budget(MaxPolls) \in Int
  BY <1>2, BudgetGrows
<1>4. CASE n = node /\ pc = "execute"
  <2>1. tries <= MaxPolls
    BY <1>4 DEF TriesInv, MaxTries, Poll
  <2>2. Budget(attempts[n]) \in Int /\ Budget(attempts[n]) <= Budget(MaxPolls)
    <3>1. attempts[n] \in Nat
      BY <1>1, <1>2
    <3> QED BY <1>1, <3>1, BudgetGrows
  <2> QED BY <1>1, <1>2, <1>3, <1>4, <2>1, <2>2 DEF Allowed
<1>5. CASE n = node /\ pc = "sleep"
  <2>1. attempts[n] + 1 \in 0..MaxPolls /\ attempts[n] + 1 \in Nat
    BY <1>1, <1>2, <1>5
  <2>2. Budget(attempts[n] + 1) \in Int /\ Budget(attempts[n] + 1) <= Budget(MaxPolls)
    BY <2>1, BudgetGrows
  <2> QED BY <1>2, <1>3, <1>5, <2>2 DEF Allowed
<1>6. CASE ~(n = node /\ pc \in {"execute", "sleep"})
  <2>1. Allowed(n) = Budget(MaxPolls) + MaxPolls
    BY <1>6 DEF Allowed
  <2> QED BY <1>2, <1>3, <2>1
<1> QED BY <1>4, <1>5, <1>6

(* What is allowed only grows, by one with every attempt dispatched, but    *)
(* for the node that begins.                                               *)
LEMMA AllowedStep ==
  ASSUME RunInv, TriesInv, AllowedType, AllowedType', TriesInv', [Next]_vars,
         NEW n \in flow.nodes, Poll(n)
  PROVE  /\ Allowed(n) <= Allowed(n)' \/ (StartNode(n) /\ Allowed(n)' = 0)
         /\ Dispatch /\ pc = "execute" /\ node = n => Allowed(n)' = Allowed(n) + 1
<1>1. /\ TypeOK /\ CoroutineInv /\ RunTypes /\ AttemptInv /\ StandInv
      /\ flow' = flow /\ n \in flow'.nodes /\ Poll(n)'
  BY RunStepIsWorkflowStep, FlowStays DEF RunInv, Inv, Poll
<1>2. /\ Allowed(n) \in Int /\ Allowed(n)' \in Int
      /\ Budget(MaxPolls) + MaxPolls \in Int
      /\ Allowed(n) <= Budget(MaxPolls) + MaxPolls
  BY <1>1, MaxPollsAssumption DEF AllowedType
<1>3. \A k : Budget(k)' = Budget(k)
  BY DEF Budget
<1>4. ASSUME ~(n = node /\ pc \in {"execute", "sleep"})'
      PROVE  Allowed(n) <= Allowed(n)'
  <2>1. Allowed(n)' = Budget(MaxPolls) + MaxPolls
    BY <1>3, <1>4 DEF Allowed
  <2> QED BY <1>2, <2>1
<1>5. ASSUME UNCHANGED <<pc, node, attempts, tries>>
      PROVE  Allowed(n) <= Allowed(n)'
  <2>1. Allowed(n)' = Allowed(n)
    BY <1>5 DEF Allowed, Budget
  <2> QED BY <1>2, <2>1
<1>6. ASSUME Dispatch
      PROVE  /\ Allowed(n) <= Allowed(n)'
             /\ pc = "execute" /\ node = n => Allowed(n)' = Allowed(n) + 1
  <2>1. /\ UNCHANGED <<pc, node, attempts>> /\ pc # "sleep"
        /\ pc = "execute" => tries' = tries + 1
    BY <1>6 DEF Dispatch, wfVars, local, ActivityPc
  <2>2. CASE pc = "execute" /\ node = n
    <3>1. /\ Allowed(n) = Budget(attempts[n]) + tries
          /\ Allowed(n)' = Budget(attempts[n]) + (tries + 1)
      BY <1>3, <2>1, <2>2 DEF Allowed
    <3>2. Budget(attempts[n]) \in Int /\ tries \in Nat
      <4>1. attempts[n] \in Nat /\ tries \in Nat
        BY <1>1, MaxPollsAssumption DEF TypeOK, RunTypes
      <4> QED BY <4>1, BudgetGrows
    <3> QED BY <1>6, <2>2, <3>1, <3>2
  <2>3. CASE ~(pc = "execute" /\ node = n)
    BY <1>4, <2>1, <2>3
  <2> QED BY <2>2, <2>3
<1>7. ASSUME StartNode(n), pc' = "execute", UNCHANGED tries
      PROVE  Allowed(n)' = 0
  <2>1. pc = "scan" /\ statuses[n] = "PENDING" /\ node' = n /\ attempts' = [attempts EXCEPT ![n] = @ + 1]
    BY <1>7 DEF StartNode, NextStop, Ahead
  <2>2. attempts'[n] = 1 /\ tries = 0
    BY <1>1, <2>1
    DEF CoroutineInv, AtNode, NodePc, NodeActivityPc, TypeOK, TriesInv, ActivityPc
  <2>3. Allowed(n)' = Budget(1) + 0
    BY <1>3, <1>7, <2>1, <2>2 DEF Allowed
  <2> QED BY <1>7, <2>3, BudgetGrows
<1>8. ASSUME NEW m \in flow.nodes, StartNode(m), m # n
      PROVE  Allowed(n) <= Allowed(n)'
  BY <1>4, <1>8 DEF StartNode
<1>9. ASSUME SleepEnds, UNCHANGED tries, node = n
      PROVE  Allowed(n) <= Allowed(n)'
  <2>1. /\ pc = "sleep" /\ pc' = "execute" /\ node' = n
        /\ attempts'[n] = attempts[n] + 1 /\ tries = 0
    BY <1>1, <1>9 DEF SleepEnds, TypeOK, TriesInv, ActivityPc
  <2>2. /\ Allowed(n) = Budget(attempts[n] + 1)
        /\ Allowed(n)' = Budget(attempts[n] + 1) + 0
    BY <1>3, <1>9, <2>1 DEF Allowed
  <2> QED BY <1>2, <2>2
<1>10. ASSUME NEW a \in working, ActivityCommits(a)
       PROVE  Allowed(n) <= Allowed(n)'
  <2>1. CASE UNCHANGED <<wfVars, tries>>
    BY <1>5, <2>1 DEF wfVars, local
  <2>2. CASE pc' \notin {"execute", "sleep"}
    BY <1>4, <2>2
  <2>3. CASE PollPending /\ a = current /\ AttemptSeen(a) < MaxPolls /\ node = n
    <3>1. pc = "execute" /\ pc' = "sleep" /\ UNCHANGED <<node, attempts>>
      BY <2>3 DEF PollPending, local
    <3>2. a.try = tries /\ a.number \in Nat /\ a.try \in Nat /\ MaxPolls \in Nat
      BY <1>1, <1>10, <2>3, <3>1, MaxPollsAssumption DEF TriesInv, RunTypes, Attempt, NoAttempt
    <3>3. tries <= MaxPolls - 1
      BY <2>3, <3>2 DEF AttemptSeen
    <3>4. /\ Allowed(n) = Budget(attempts[n]) + tries
          /\ Allowed(n)' = Budget(attempts[n] + 1)
      BY <1>3, <2>3, <3>1 DEF Allowed
    <3>5. /\ Budget(attempts[n]) \in Int
          /\ Budget(attempts[n] + 1) = Budget(attempts[n]) + (MaxPolls - 1)
      <4>1. attempts[n] \in Nat
        BY <1>1, <3>2 DEF TypeOK
      <4> QED BY <4>1, BudgetGrows
    <3>6. tries \in Nat
      BY <1>1 DEF RunTypes
    <3> QED BY <3>2, <3>3, <3>4, <3>5, <3>6
  <2>4. CASE PollPending /\ node # n
    BY <1>4, <2>4 DEF PollPending, local
  <2> QED BY <1>10, <2>1, <2>2, <2>3, <2>4, CommitAnswers
<1>11. ASSUME WorkflowStep
       PROVE  Allowed(n) <= Allowed(n)' \/ (StartNode(n) /\ Allowed(n)' = 0)
  <2>1. CASE \E m \in flow.nodes : SkipNode(m)
    BY <1>4, <1>11, <2>1 DEF SkipNode
  <2>2. CASE PassEnds \/ SignalConsumed
    BY <1>4, <1>11, <2>2 DEF PassEnds, SignalConsumed
  <2>3. CASE SleepEnds /\ node # n
    BY <1>4, <2>3 DEF SleepEnds
  <2>4. CASE StartNode(n) /\ pc' # "execute"
    BY <1>4, <2>4 DEF StartNode
  <2> QED
    BY <1>7, <1>8, <1>9, <1>11, <2>1, <2>2, <2>3, <2>4 DEF WorkflowStep, Coroutine, server
<1>12. ASSUME WorkflowCancelled \/ GiveUp
       PROVE  Allowed(n) <= Allowed(n)'
  BY <1>4, <1>12 DEF WorkflowCancelled, CancelDelivered, Close, GiveUp, NodeRaised, NodeActivityPc
<1>13. ASSUME Api \/ UNCHANGED vars
       PROVE  Allowed(n) <= Allowed(n)'
  BY <1>5, <1>13
  DEF Api, CreateRun, CancelRun, ResumeNode, CallbackAccepted, CallbackExpired, Configure, vars, server,
      wfVars, local
<1>14. ASSUME NEW c \in calls, Deliver(c)
       PROVE  Allowed(n) <= Allowed(n)'
  BY <1>5, <1>14 DEF Deliver, RequestCancel, ResumeManual, ReceiveCallback, wfVars, local
<1>15. ASSUME Failures \/ \E a \in working : EnterHandler(a)
       PROVE  Allowed(n) <= Allowed(n)'
  BY <1>5, <1>15 DEF Failures, Crash, Overrun, CallLost, EnterHandler, server, wfVars, local
<1> QED
  BY <1>6, <1>10, <1>11, <1>12, <1>13, <1>14, <1>15 DEF Next, Workers

LEMMA BudgetStep ==
  ASSUME RunInv, TriesInv, AllowedType, AllowedType', TriesInv', BudgetInv, [Next]_vars
  PROVE  BudgetInv'
<1>1. TypeOK /\ StandInv /\ [WfNext]_wfVars /\ flow' = flow /\ \A n : Poll(n)' = Poll(n)
  BY RunStepIsWorkflowStep, FlowStays DEF RunInv, Inv, Poll
<1> SUFFICES ASSUME NEW n \in flow.nodes
             PROVE  /\ ~Poll(n) => requests'[n] = 0
                    /\ Poll(n) /\ ~Begun(n)' => Dispatched(n)' = 0
                    /\ Poll(n) => Dispatched(n)' <= Allowed(n)'
  BY <1>1 DEF BudgetInv
<1>2. /\ Dispatched(n) \in Nat /\ Dispatched(n)' \in Nat
      /\ ~Poll(n) => requests'[n] = 0
      /\ \/ Dispatched(n)' <= Dispatched(n)
         \/ Dispatch /\ pc = "execute" /\ node = n /\ Dispatched(n)' <= Dispatched(n) + 1
  BY DispatchedStep DEF BudgetInv
<1>3. ASSUME Poll(n), ~Begun(n)'
      PROVE  Dispatched(n)' = 0
  <2>1. ~Begun(n)
    BY <1>1, <1>3, WalkForward DEF RunInv
  <2>2. ~(Dispatch /\ pc = "execute" /\ node = n)
    BY <1>1, <2>1 DEF StandInv, AtNode, NodePc, NodeActivityPc
  <2> QED BY <1>2, <1>3, <2>1, <2>2 DEF BudgetInv
<1>4. ASSUME Poll(n)
      PROVE  Dispatched(n)' <= Allowed(n)'
  <2>1. Allowed(n) \in Int /\ Allowed(n)' \in Int /\ Dispatched(n) <= Allowed(n)
    BY <1>1, <1>4, n \in flow'.nodes DEF AllowedType, BudgetInv
  <2>2. /\ Allowed(n) <= Allowed(n)' \/ (StartNode(n) /\ Allowed(n)' = 0)
        /\ Dispatch /\ pc = "execute" /\ node = n => Allowed(n)' = Allowed(n) + 1
    BY <1>4, AllowedStep
  <2>3. CASE Dispatch /\ pc = "execute" /\ node = n
    BY <1>2, <2>1, <2>2, <2>3
  <2>4. CASE StartNode(n) /\ ~(Dispatch /\ pc = "execute" /\ node = n)
    <3>1. ~Begun(n)
      BY <2>4 DEF StartNode, NextStop, Ahead, RunInv, Inv, CoroutineInv, AtNode, NodePc,
           NodeActivityPc, Begun
    <3>2. Dispatched(n) = 0
      BY <1>4, <3>1 DEF BudgetInv
    <3> QED BY <1>2, <2>1, <2>2, <2>4, <3>2
  <2>5. CASE ~StartNode(n) /\ ~(Dispatch /\ pc = "execute" /\ node = n)
    BY <1>2, <2>1, <2>2, <2>5
  <2> QED BY <2>3, <2>4, <2>5
<1> QED BY <1>2, <1>3, <1>4

(* Every variable of a run keeps its type: polls and their retries multiply *)
(* the requests of an http_poll node no further than the bound says, and    *)
(* every run row without a workflow has cost a fault.                      *)
THEOREM ProjectionTypeCorrect == Spec => []ProjectionTypeOK
<1>1. Init => TriesInv /\ CancelInv /\ CreatingInv /\ OrphanInv /\ BudgetInv
  <2> SUFFICES ASSUME Init PROVE TriesInv /\ CancelInv /\ CreatingInv /\ OrphanInv /\ BudgetInv
    OBVIOUS
  <2>1. TriesInv /\ CancelInv /\ CreatingInv
    BY DEF Init, WfInit, TriesInv, CancelInv, CreatingInv, ActivityPc
  <2>2. OrphanInv
    <3>1. Stray = {} /\ orphans = 0 /\ \A k \in FaultKind : faults[k] = 0
      BY DEF Init, Stray
    <3> QED BY <3>1, FS_EmptySet, MaxFaultsAssumption DEF OrphanInv, FaultCount, FaultKind
  <2>3. BudgetInv
    <3> SUFFICES ASSUME NEW n \in flow.nodes
                 PROVE  /\ requests[n] = 0 /\ Dispatched(n) = 0
                        /\ Dispatched(n) <= Allowed(n)
      BY DEF BudgetInv
    <3>1. Queued(n) = {} /\ requests[n] = 0
      BY DEF Init, Queued
    <3>2. Dispatched(n) = 0
      BY <3>1, FS_EmptySet DEF Dispatched
    <3>3. Allowed(n) = Budget(MaxPolls) + MaxPolls
      BY DEF Init, WfInit, Allowed
    <3>4. MaxPolls \in Nat /\ Budget(MaxPolls) \in Int /\ 0 <= Budget(MaxPolls)
      BY BudgetAtLeastZero
    <3> QED BY <3>1, <3>2, <3>3, <3>4
  <2> QED BY <2>1, <2>2, <2>3
<1>2. Spec => [](RunInv /\ TriesInv /\ AllowedType)
  <2>1. RunInv /\ TriesInv /\ [Next]_vars => TriesInv'
    BY TriesStep
  <2> QED BY <1>1, <2>1, RunInvariance, AllowedIsTyped, PTL DEF Spec
<1>3. Spec => []BudgetInv
  <2>1. ASSUME RunInv, TriesInv, AllowedType, AllowedType', TriesInv', BudgetInv, [Next]_vars
        PROVE  BudgetInv'
    BY <2>1, BudgetStep, Zenon
  <2> QED BY <1>1, <1>2, <2>1, PTL DEF Spec
<1>4. Spec => []OrphanInv
  <2>1. RunInv /\ CancelInv /\ CreatingInv /\ OrphanInv /\ [Next]_vars
          => CancelInv' /\ CreatingInv' /\ OrphanInv'
    BY CancelStep, CreatingStep, OrphanStep
  <2> QED BY <1>1, <2>1, RunInvariance, PTL DEF Spec
<1>5. RunInv /\ AllowedType /\ BudgetInv /\ OrphanInv => ProjectionTypeOK
  <2> SUFFICES ASSUME RunInv, AllowedType, BudgetInv, OrphanInv PROVE ProjectionTypeOK
    OBVIOUS
  <2>1. TypeOK /\ RunTypes
    BY DEF RunInv, Inv
  <2>2. orphans \in 0..MaxFaults /\ faults \in [FaultKind -> 0..MaxFaults]
    <3>1. /\ faults["crash"] \in Nat /\ faults["lost_answer"] \in Nat
          /\ faults["overrun"] \in Nat /\ faults["lost_call"] \in Nat
          /\ orphans \in Nat /\ IsFiniteSet(Stray)
      BY <2>1, FS_Subset DEF RunTypes, FaultKind, Stray
    <3>2. Cardinality(Stray) \in Nat
      BY <3>1, FS_CardinalityType
    <3>3. orphans <= MaxFaults /\ \A k \in FaultKind : faults[k] <= MaxFaults
      BY <3>1, <3>2, MaxFaultsAssumption DEF OrphanInv, FaultCount, FaultKind
    <3> QED BY <2>1, <3>1, <3>3, MaxFaultsAssumption DEF RunTypes
  <2>3. ASSUME NEW n \in flow.nodes
        PROVE  requests[n] \in 0 .. (MaxPolls - 1) * (MaxPolls - 1) + MaxPolls
    <3>1. /\ MaxPolls \in Nat /\ requests[n] \in Nat
          /\ Budget(MaxPolls) \in Int /\ 0 <= Budget(MaxPolls)
          /\ Budget(MaxPolls) = (MaxPolls - 1) * (MaxPolls - 1)
      BY <2>1, BudgetAtLeastZero DEF RunTypes, Budget
    <3>2. CASE ~Poll(n)
      BY <3>1, <3>2 DEF BudgetInv
    <3>3. CASE Poll(n)
      <4>1. Cardinality(Queued(n)) \in Nat
        BY <2>1, FS_Subset, FS_CardinalityType DEF RunTypes, Queued
      <4>2. Dispatched(n) <= Allowed(n) /\ Allowed(n) \in Int /\ Allowed(n) <= Budget(MaxPolls) + MaxPolls
        BY <3>3 DEF BudgetInv, AllowedType
      <4> QED BY <3>1, <4>1, <4>2 DEF Dispatched
    <3> QED BY <3>2, <3>3
  <2>4. requests \in [flow.nodes -> 0 .. (MaxPolls - 1) * (MaxPolls - 1) + MaxPolls]
    BY <2>1, <2>3 DEF RunTypes
  <2> QED BY <2>1, <2>2, <2>4 DEF RunTypes, ProjectionTypeOK
<1> QED BY <1>2, <1>3, <1>4, <1>5, PTL

-----------------------------------------------------------------------------
(* Runs in which no attempt outlives its timeout.                           *)

NoOverrun == faults["overrun"] = 0

LEMMA NoOverrunBefore ==
  ASSUME RunTypes, [Next]_vars, NoOverrun'
  PROVE  NoOverrun /\ ~Overrun
<1>1. /\ faults["overrun"] \in Nat
      /\ \A k : k # "overrun" => [faults EXCEPT ![k] = @ + 1]["overrun"] = faults["overrun"]
      /\ [faults EXCEPT !["overrun"] = @ + 1]["overrun"] = faults["overrun"] + 1
  BY DEF RunTypes, FaultKind
<1>2. ~Overrun
  BY <1>1 DEF NoOverrun, Overrun, Fault
<1>3. ASSUME NEW k \in FaultKind, Fault(k), k # "overrun"
      PROVE  NoOverrun
  BY <1>1, <1>3 DEF NoOverrun, Fault
<1>4. ASSUME NEW a \in working, ActivityCommits(a)
      PROVE  NoOverrun
  BY <1>3, <1>4, CommitEndsAttempt DEF NoOverrun, FaultKind
<1>5. CASE Failures
  BY <1>2, <1>3, <1>5 DEF Failures, Crash, CallLost, FaultKind
<1>6. CASE UNCHANGED faults
  BY <1>2, <1>6 DEF NoOverrun
<1>7. CASE Api \/ UNCHANGED vars
  BY <1>6, <1>7
  DEF Api, CreateRun, CancelRun, ResumeNode, CallbackAccepted, CallbackExpired, Configure, vars
<1> QED
  BY <1>2, <1>4, <1>5, <1>6, <1>7
  DEF Next, WorkflowStep, WorkflowCancelled, Workers, Dispatch, GiveUp, EnterHandler, Deliver

(* Then only a cancelled await leaves its attempt at work, and the node it  *)
(* works on is the one the workflow stands at.                             *)
AtWorkInv ==
  /\ cancel = "delivered" => pc \in {"mark_failed", "closed"}
  /\ NoOverrun => \A a \in working :
       /\ cancel # "delivered" => a = current
       /\ a.act \in NodeActivityPc \cup {"mark_failed"} =>
            a.node = node /\ statuses[node] = "PENDING"
       /\ a.act = "mark_skipped" => a.node = node

LEMMA AtWorkStep ==
  ASSUME RunInv, AtWorkInv, [Next]_vars
  PROVE  AtWorkInv'
<1>1. /\ TypeOK /\ CoroutineInv /\ RunTypes /\ AttemptInv /\ flow' = flow
      /\ NoAttempt \notin working
      /\ current # NoAttempt => current \in working /\ current.act \in ActivityPc /\ current.act = pc
  BY RunStepIsWorkflowStep, FlowStays
  DEF RunInv, Inv, RunTypes, AttemptInv, Attempt, NoAttempt, ActivityPc
<1>2. cancel' = "delivered" => pc' \in {"mark_failed", "closed"}
  <2>1. CASE [OwnStep]_wfVars
    BY <2>1
    DEF OwnStep, Coroutine, SkipNode, StartNode, PassEnds, SignalConsumed, ActivityAnswers,
        ScheduledRunCreated, RunMarkedRunning, NodeSkipped, NodeExecuted, PollPending, NodeRaised,
        WaitCreated, WaitCompleted, NodeMarkedFailed, RunMarkedSuccess, RunMarkedStuck, Succeed,
        SleepEnds, CancelDelivered, Close, wfVars, AtWorkInv
  <2>2. ASSUME NEW c \in calls, Deliver(c)
        PROVE  cancel' = "delivered" => pc' \in {"mark_failed", "closed"}
    BY <2>2 DEF Deliver, RequestCancel, ResumeManual, ReceiveCallback, wfVars, AtWorkInv
  <2> QED BY <2>1, <2>2, OwnOrDelivered
<1> SUFFICES ASSUME NoOverrun'
             PROVE  \A a \in working' :
                      /\ cancel' # "delivered" => a = current'
                      /\ a.act \in NodeActivityPc \cup {"mark_failed"} =>
                           a.node = node' /\ statuses'[node'] = "PENDING"
                      /\ a.act = "mark_skipped" => a.node = node'
  BY <1>2 DEF AtWorkInv
<1>3. /\ NoOverrun /\ ~Overrun
      /\ \A a \in working :
           /\ cancel # "delivered" => a = current
           /\ a.act \in NodeActivityPc \cup {"mark_failed"} =>
                a.node = node /\ statuses[node] = "PENDING"
           /\ a.act = "mark_skipped" => a.node = node
  BY <1>1, NoOverrunBefore DEF AtWorkInv
<1>4. ASSUME UNCHANGED <<node, statuses>>, working' \subseteq working,
             cancel' # "delivered" => cancel # "delivered" /\ (working' = {} \/ current' = current)
      PROVE  AtWorkInv'
  BY <1>2, <1>3, <1>4 DEF AtWorkInv
<1>5. CASE WorkflowStep
  <2>1. pc \in {"scan", "wait_signal", "sleep"} /\ UNCHANGED <<working, cancel>>
    BY <1>5 DEF WorkflowStep, server, Coroutine, SkipNode, StartNode, PassEnds, SignalConsumed,
         SleepEnds
  <2>2. current = NoAttempt /\ cancel # "delivered"
    BY <1>1, <2>1 DEF AtWorkInv, ActivityPc
  <2>3. working = {}
    BY <1>1, <1>3, <2>2
  <2> QED BY <2>1, <2>3
<1>6. CASE WorkflowCancelled
  BY <1>4, <1>6 DEF WorkflowCancelled, CancelDelivered, Close, local, AtWorkInv
<1>7. CASE Dispatch
  <2>1. PICK a : a.act = pc /\ a.node = node /\ current' = a /\ working' = working \cup {a}
    BY <1>7, DispatchAdds
  <2>2. UNCHANGED <<node, statuses, cancel>> /\ current = NoAttempt
    BY <1>7 DEF Dispatch, wfVars, local
  <2>3. pc \in NodeActivityPc \cup {"mark_failed"} => statuses[node] = "PENDING"
    BY <1>1 DEF CoroutineInv, AtNode, NodePc
  <2>4. cancel # "delivered" => working = {}
    BY <1>1, <1>3, <2>2
  <2> QED BY <1>3, <2>1, <2>2, <2>3, <2>4
<1>8. CASE GiveUp
  <2>1. working = {}
    BY <1>1, <1>3, <1>8 DEF GiveUp, AtWorkInv
  <2> QED BY <1>8, <2>1 DEF GiveUp
<1>9. ASSUME NEW a \in working, ActivityCommits(a) \/ Crash(a)
      PROVE  AtWorkInv'
  <2>1. working' = working \ {a}
    BY <1>9, CommitEndsAttempt DEF MayCommit, Crash
  <2>2. CASE cancel # "delivered"
    <3>1. working' = {}
      BY <1>3, <2>1, <2>2
    <3> QED BY <1>2, <3>1 DEF AtWorkInv
  <2>3. CASE cancel = "delivered"
    <3>1. UNCHANGED <<node, statuses, cancel>>
      BY <1>9, <2>3, CommitIsAnswer
      DEF Crash, AtWorkInv, ActivityAnswers, ScheduledRunCreated, RunMarkedRunning, NodeSkipped,
          NodeExecuted, PollPending, NodeRaised, WaitCreated, WaitCompleted, NodeMarkedFailed,
          RunMarkedSuccess, RunMarkedStuck, Close, local, wfVars
    <3> QED BY <1>4, <2>1, <2>3, <3>1
  <2> QED BY <2>2, <2>3
<1>10. CASE Api \/ UNCHANGED vars
  BY <1>4, <1>10
  DEF Api, CreateRun, CancelRun, ResumeNode, CallbackAccepted, CallbackExpired, Configure, vars, server,
      wfVars, local, AtWorkInv
<1>11. ASSUME NEW c \in calls, Deliver(c) \/ CallLost(c)
       PROVE  AtWorkInv'
  BY <1>4, <1>11
  DEF Deliver, CallLost, RequestCancel, ResumeManual, ReceiveCallback, server, wfVars, local
<1>12. ASSUME NEW a \in working, EnterHandler(a)
       PROVE  AtWorkInv'
  BY <1>4, <1>12 DEF EnterHandler, wfVars, local
<1> QED
  BY <1>3, <1>5, <1>6, <1>7, <1>8, <1>9, <1>10, <1>11, <1>12 DEF Next, Workers, Failures, AtWorkInv

(* A row that has landed where its settled node is stays there. *)
LEMMA RowLandedStays ==
  ASSUME RunInv, AtWorkInv, NoOverrun, [Next]_vars, NEW n \in flow.nodes,
         statuses[n] \in TerminalSuccess, nodeRow[n] \in TerminalSuccess
  PROVE  /\ nodeRow'[n] \in TerminalSuccess
         /\ statuses[n] = "SUCCESS" \/ nodeRow[n] = "SKIPPED" => nodeRow'[n] = nodeRow[n]
<1>1. RunTypes /\ AttemptInv
  BY DEF RunInv
<1>2. CASE UNCHANGED nodeRow
  BY <1>2
<1>3. ASSUME NEW a \in working, ActivityCommits(a)
      PROVE  \/ nodeRow'[n] = nodeRow[n]
             \/ statuses[n] = "SKIPPED" /\ nodeRow'[n] = "SKIPPED"
  <2>1. /\ a.act \in NodeActivityPc \cup {"mark_failed"} => a.node # n
        /\ a.act = "mark_skipped" => statuses[a.node] = "SKIPPED"
    BY <1>1 DEF AtWorkInv, AttemptInv, TerminalSuccess
  <2> QED BY <1>1, <1>3, <2>1, CommitWrites DEF RunTypes, NodeActivityPc
<1>4. ASSUME NEW m \in flow.nodes, CallbackExpired(m)
      PROVE  nodeRow'[n] = nodeRow[n]
  BY <1>1, <1>4 DEF CallbackExpired, TerminalSuccess, RunTypes
<1>5. CASE Api
  BY <1>4, <1>5 DEF Api, CreateRun, CancelRun, ResumeNode, CallbackAccepted, Configure
<1> QED
  BY <1>2, <1>3, <1>5
  DEF Next, WorkflowStep, WorkflowCancelled, Workers, Dispatch, GiveUp, EnterHandler,
      Failures, Crash, Overrun, CallLost, Deliver, vars, rows, TerminalSuccess

(* How a node is settled, begun, and how the skipping of one ends. *)
LEMMA WalkMoves ==
  ASSUME RunInv, [Next]_vars, NEW n \in flow.nodes
  PROVE  /\ statuses'[n] # statuses[n] =>
              \/ SkipNode(n) /\ UNCHANGED nodeRow
              \/ statuses'[n] = "SUCCESS" /\ nodeRow'[n] = "SUCCESS"
         /\ Begun(n)' /\ ~Begun(n) => StartNode(n) /\ UNCHANGED nodeRow
         /\ pc \in {"mark_skipped", "closed"} /\ n = node =>
              \/ pc' \in {"mark_skipped", "closed"} /\ node' = node
              \/ pc = "mark_skipped" /\ nodeRow'[n] = "SKIPPED"
<1>1. /\ TypeOK /\ CoroutineInv /\ StandInv /\ RunTypes /\ AttemptInv
      /\ statuses \in [flow.nodes -> Status] /\ attempts \in [flow.nodes -> 0..MaxPolls]
  BY DEF RunInv, Inv, TypeOK
<1>2. ASSUME UNCHANGED <<statuses, attempts>>,
             pc \in {"mark_skipped", "closed"} =>
               pc' \in {"mark_skipped", "closed"} /\ node' = node
      PROVE  /\ statuses'[n] = statuses[n] /\ (Begun(n)' <=> Begun(n))
             /\ pc \in {"mark_skipped", "closed"} =>
                  pc' \in {"mark_skipped", "closed"} /\ node' = node
  BY <1>2 DEF Begun
<1>3. CASE WorkflowStep
  <2>1. CASE \E m \in flow.nodes : SkipNode(m)
    BY <1>1, <1>3, <2>1 DEF WorkflowStep, rows, SkipNode, Begun
  <2>2. CASE \E m \in flow.nodes : StartNode(m)
    BY <1>1, <1>3, <2>2 DEF WorkflowStep, rows, StartNode, Begun
  <2>3. CASE PassEnds \/ SignalConsumed
    BY <1>2, <2>3 DEF PassEnds, SignalConsumed
  <2>4. CASE SleepEnds
    <3>1. Begun(node) /\ node \in flow.nodes
      BY <1>1, <2>4 DEF SleepEnds, StandInv, CoroutineInv, AtNode, NodePc
    <3> QED BY <1>1, <2>4, <3>1 DEF SleepEnds, Begun
  <2> QED BY <1>3, <2>1, <2>2, <2>3, <2>4 DEF WorkflowStep, Coroutine
<1>4. CASE WorkflowCancelled
  BY <1>2, <1>4 DEF WorkflowCancelled, CancelDelivered, Close, local, NodeActivityPc
<1>5. CASE Dispatch \/ (\E a \in working : EnterHandler(a)) \/ Failures \/ UNCHANGED vars
  BY <1>2, <1>5
  DEF Dispatch, EnterHandler, Failures, Crash, Overrun, CallLost, vars, wfVars, local
<1>6. CASE Api
  BY <1>2, <1>6
  DEF Api, CreateRun, CancelRun, ResumeNode, CallbackAccepted, CallbackExpired, Configure, wfVars, local
<1>7. CASE GiveUp
  BY <1>2, <1>7 DEF GiveUp, NodeRaised, local
<1>8. ASSUME NEW c \in calls, Deliver(c)
      PROVE  /\ UNCHANGED <<statuses, attempts>>
             /\ pc \in {"mark_skipped", "closed"} =>
                  pc' \in {"mark_skipped", "closed"} /\ node' = node
  BY <1>8 DEF Deliver, RequestCancel, ResumeManual, ReceiveCallback, wfVars, local
<1>9. ASSUME NEW a \in working, ActivityCommits(a)
      PROVE  /\ statuses'[n] # statuses[n] => statuses'[n] = "SUCCESS" /\ nodeRow'[n] = "SUCCESS"
             /\ UNCHANGED attempts
             /\ pc \in {"mark_skipped", "closed"} /\ n = node =>
                  \/ pc' \in {"mark_skipped", "closed"} /\ node' = node
                  \/ pc = "mark_skipped" /\ nodeRow'[n] = "SKIPPED"
  <2>1. CASE UNCHANGED wfVars
    BY <2>1 DEF wfVars, local
  <2>2. CASE a = current /\ a.act = pc /\ a.node = node /\ ActivityAnswers
    <3>1. CASE (\E b \in Handle : NodeExecuted(b)) \/ WaitCompleted
      <4>1. /\ pc \in {"execute", "complete_wait"} /\ UNCHANGED attempts
            /\ statuses' = [statuses EXCEPT ![node] = "SUCCESS"] /\ pc' = "scan"
            /\ node \in flow.nodes
        BY <1>1, <3>1
        DEF NodeExecuted, WaitCompleted, Succeed, CoroutineInv, AtNode, NodePc, NodeActivityPc
      <4>2. nodeRow' = [nodeRow EXCEPT ![node] = "SUCCESS"]
        BY <1>9, <2>2, <4>1, CommitWrites DEF PollPending, wfVars
      <4> QED BY <1>1, <4>1, <4>2 DEF RunTypes
    <3>2. CASE NodeSkipped
      <4>1. nodeRow' = [nodeRow EXCEPT ![node] = "SKIPPED"]
        BY <1>9, <2>2, <3>2, CommitWrites DEF NodeSkipped
      <4> QED BY <1>1, <3>2, <4>1 DEF NodeSkipped, RunTypes
    <3>3. CASE \/ ScheduledRunCreated \/ RunMarkedRunning \/ PollPending \/ NodeRaised \/ WaitCreated
               \/ NodeMarkedFailed \/ RunMarkedSuccess \/ RunMarkedStuck
      BY <3>3 DEF ScheduledRunCreated, RunMarkedRunning, PollPending, NodeRaised, WaitCreated,
           NodeMarkedFailed, RunMarkedSuccess, RunMarkedStuck, Close, local
    <3> QED BY <2>2, <3>1, <3>2, <3>3 DEF ActivityAnswers
  <2>3. a = current => a.act = pc /\ a.node = node
    BY <1>1, <1>9 DEF AttemptInv, RunTypes, Attempt, NoAttempt, ActivityPc
  <2> QED BY <1>9, <2>1, <2>2, <2>3, CommitIsAnswer, CommitEndsAttempt
<1> QED
  BY <1>2, <1>3, <1>4, <1>5, <1>6, <1>7, <1>8, <1>9 DEF Next, Workers, Begun

(* The run row says SUCCESS, or is about to. *)
Finished == pc = "mark_success" \/ runRow = "SUCCESS" \/ \E a \in working : a.act = "mark_success"

LEMMA FinishedStep ==
  ASSUME RunInv, [Next]_vars, Finished'
  PROVE  Finished \/ (pc = "scan" /\ AllTerminal /\ UNCHANGED nodeRow)
<1> USE DEF Finished
<1>1. CASE WorkflowStep
  BY <1>1 DEF WorkflowStep, rows, server, Coroutine, SkipNode, StartNode, PassEnds,
       SignalConsumed, SleepEnds
<1>2. CASE WorkflowCancelled
  BY <1>2 DEF WorkflowCancelled, rows, CancelDelivered, Close
<1>3. CASE Dispatch
  BY <1>3, DispatchAdds DEF Dispatch, rows, wfVars
<1>4. CASE GiveUp
  BY <1>4 DEF GiveUp, rows, NodeRaised
<1>5. ASSUME NEW a \in working, EnterHandler(a)
      PROVE  Finished
  BY <1>5 DEF EnterHandler, rows, wfVars
<1>6. ASSUME NEW a \in working, ActivityCommits(a)
      PROVE  Finished
  <2>1. working' = working \ {a}
    BY <1>6, CommitEndsAttempt DEF MayCommit
  <2>2. pc' = "mark_success" => pc = "mark_success"
    BY <1>6, CommitIsAnswer
    DEF ActivityAnswers, ScheduledRunCreated, RunMarkedRunning, NodeSkipped, NodeExecuted,
        PollPending, NodeRaised, WaitCreated, WaitCompleted, NodeMarkedFailed,
        RunMarkedSuccess, RunMarkedStuck, Succeed, Close, wfVars
  <2>3. runRow' = "SUCCESS" => runRow = "SUCCESS" \/ a.act = "mark_success"
    BY <1>6, CommitWrites
  <2> QED BY <2>1, <2>2, <2>3
<1>7. CASE Api
  BY <1>7 DEF Api, CreateRun, CancelRun, ResumeNode, CallbackAccepted, CallbackExpired, Configure, server, wfVars
<1>8. ASSUME NEW c \in calls, Deliver(c)
      PROVE  Finished
  BY <1>8 DEF Deliver, RequestCancel, ResumeManual, ReceiveCallback, rows, wfVars
<1>9. CASE Failures \/ UNCHANGED vars
  BY <1>9 DEF Failures, Crash, Overrun, CallLost, vars, rows, server, wfVars
<1> QED BY <1>1, <1>2, <1>3, <1>4, <1>5, <1>6, <1>7, <1>8, <1>9 DEF Next, Workers

(* Then the rows have caught up with the workflow: a node it has left       *)
(* behind has landed, and so has everything upstream of a node it began.    *)
LandedInv ==
  NoOverrun =>
    /\ \A n \in flow.nodes :
         /\ statuses[n] = "SUCCESS" => nodeRow[n] = "SUCCESS"
         /\ statuses[n] = "SKIPPED" =>
              nodeRow[n] = "SKIPPED" \/ (n = node /\ pc \in {"mark_skipped", "closed"})
         /\ Begun(n) \/ statuses[n] = "SKIPPED" =>
              \A e \in Incoming(flow, n) : nodeRow[e.source] \in TerminalSuccess
    /\ Finished => AllTerminal /\ \A n \in flow.nodes : nodeRow[n] \in TerminalSuccess

LEMMA LandedStep ==
  ASSUME RunInv, AtWorkInv, LandedInv, [Next]_vars
  PROVE  LandedInv'
<1> SUFFICES ASSUME NoOverrun'
             PROVE  LandedInv'
  BY DEF LandedInv
<1>1. /\ Inv /\ TypeOK /\ StandInv /\ SettledInv /\ RunTypes
      /\ flow' = flow /\ [WfNext]_wfVars /\ NoOverrun
  BY RunStepIsWorkflowStep, FlowStays, NoOverrunBefore DEF RunInv, Inv
<1>2. /\ \A n \in flow.nodes :
           /\ statuses[n] = "SUCCESS" => nodeRow[n] = "SUCCESS"
           /\ statuses[n] = "SKIPPED" =>
                nodeRow[n] = "SKIPPED" \/ (n = node /\ pc \in {"mark_skipped", "closed"})
           /\ Begun(n) \/ statuses[n] = "SKIPPED" =>
                \A e \in Incoming(flow, n) : nodeRow[e.source] \in TerminalSuccess
      /\ Finished => AllTerminal /\ \A n \in flow.nodes : nodeRow[n] \in TerminalSuccess
  BY <1>1 DEF LandedInv
<1>3. \A n \in flow.nodes : statuses[n] \in TerminalSuccess =>
        /\ statuses'[n] = statuses[n]
        /\ nodeRow[n] \in TerminalSuccess =>
             /\ nodeRow'[n] \in TerminalSuccess
             /\ statuses[n] = "SUCCESS" \/ nodeRow[n] = "SKIPPED" => nodeRow'[n] = nodeRow[n]
  BY <1>1, RowLandedStays, WalkForward DEF TerminalSuccess
<1>4. ASSUME NEW n \in flow.nodes, statuses'[n] = "SUCCESS"
      PROVE  nodeRow'[n] = "SUCCESS"
  <2>1. statuses[n] = "SUCCESS" \/ nodeRow'[n] = "SUCCESS"
    BY <1>1, <1>4, WalkMoves DEF SkipNode, TypeOK
  <2> QED BY <1>2, <1>3, <2>1 DEF TerminalSuccess
<1>5. ASSUME NEW n \in flow.nodes, statuses'[n] = "SKIPPED"
      PROVE  nodeRow'[n] = "SKIPPED" \/ (n = node /\ pc \in {"mark_skipped", "closed"})'
  <2>1. CASE statuses[n] # "SKIPPED"
    BY <1>5, <2>1, WalkMoves DEF SkipNode
  <2>2. CASE statuses[n] = "SKIPPED" /\ nodeRow[n] = "SKIPPED"
    BY <1>3, <2>2 DEF TerminalSuccess
  <2>3. CASE n = node /\ pc \in {"mark_skipped", "closed"}
    BY <2>3, WalkMoves
  <2> QED BY <1>2, <2>1, <2>2, <2>3
<1>6. ASSUME NEW n \in flow.nodes, Begun(n)' \/ statuses'[n] = "SKIPPED", NEW e \in Incoming(flow, n)
      PROVE  nodeRow'[e.source] \in TerminalSuccess
  <2>1. e.source \in flow.nodes
    BY <1>1, EdgeEnds DEF Incoming
  <2>2. CASE Begun(n) \/ statuses[n] = "SKIPPED"
    <3>1. UpstreamDone(flow, statuses, n)
      BY <1>1, <2>2 DEF StandInv, SettledInv
    <3>2. statuses[e.source] \in TerminalSuccess
      BY <3>1 DEF UpstreamDone
    <3> QED BY <1>2, <1>3, <2>1, <2>2, <3>2
  <2>3. CASE ~(Begun(n) \/ statuses[n] = "SKIPPED")
    <3>1. (StartNode(n) \/ SkipNode(n)) /\ UNCHANGED nodeRow
      BY <1>6, <2>3, WalkMoves
    <3>2. pc = "scan" /\ UpstreamDone(flow, statuses, n)
      BY <3>1 DEF StartNode, SkipNode, NextStop, Ahead
    <3>3. statuses[e.source] \in TerminalSuccess
      BY <3>2 DEF UpstreamDone
    <3> QED BY <1>2, <2>1, <3>1, <3>2, <3>3 DEF TerminalSuccess
  <2> QED BY <2>2, <2>3
<1>7. ASSUME Finished'
      PROVE  AllTerminal' /\ \A n \in flow.nodes : nodeRow'[n] \in TerminalSuccess
  <2>1. AllTerminal /\ \A n \in flow.nodes : nodeRow[n] \in TerminalSuccess
    <3>1. CASE Finished
      BY <1>2, <3>1
    <3>2. CASE pc = "scan" /\ AllTerminal
      BY <1>2, <3>2 DEF AllTerminal, TerminalSuccess
    <3> QED BY <1>7, <3>1, <3>2, FinishedStep
  <2> QED BY <1>1, <1>3, <2>1 DEF AllTerminal
<1> QED BY <1>1, <1>4, <1>5, <1>6, <1>7 DEF LandedInv

(* Then the run row says how the workflow closed. *)
ResultInv ==
  NoOverrun /\ ~cancelRequested /\ result \in {"SUCCESS", "FAILED"} => runRow = result

LEMMA ResultStep ==
  ASSUME RunInv, CancelInv, AtWorkInv, LandedInv, ResultInv, [Next]_vars
  PROVE  ResultInv'
<1> SUFFICES ASSUME NoOverrun', ~cancelRequested', result' \in {"SUCCESS", "FAILED"}
             PROVE  runRow' = result'
  BY DEF ResultInv
<1>1. /\ TypeOK /\ CoroutineInv /\ RunTypes /\ AttemptInv /\ RowsInv
      /\ NoOverrun /\ NoAttempt \notin working
      /\ current # NoAttempt => current \in working /\ current.act \in ActivityPc /\ current.act = pc
  BY NoOverrunBefore DEF RunInv, Inv, RunTypes, AttemptInv, Attempt, NoAttempt, ActivityPc
<1>2. ~cancelRequested
  <2>1. ASSUME NEW a \in working, ActivityCommits(a)
        PROVE  UNCHANGED cancelRequested
    BY <2>1, CommitEndsAttempt DEF MayCommit
  <2>2. CASE Api
    BY <2>2 DEF Api, CreateRun, CancelRun, ResumeNode, CallbackAccepted, CallbackExpired, Configure
  <2> QED
    BY <2>1, <2>2
    DEF Next, WorkflowStep, WorkflowCancelled, Workers, Dispatch, GiveUp, EnterHandler,
        Failures, Crash, Overrun, CallLost, Deliver, vars, rows
<1>3. cancel = "none"
  BY <1>2 DEF CancelInv
<1>4. CASE result \in {"SUCCESS", "FAILED"}
  <2>1. pc = "closed" /\ runRow = result
    BY <1>1, <1>2, <1>4 DEF CoroutineInv, ResultInv
  <2>2. working = {}
    <3>1. \A a \in working : a = current
      BY <1>1, <1>3 DEF AtWorkInv
    <3> QED BY <1>1, <2>1, <3>1 DEF ActivityPc
  <2>3. result' = result
    <3>1. CASE [OwnStep]_wfVars
      BY <2>1, <3>1
      DEF OwnStep, Coroutine, SkipNode, StartNode, PassEnds, SignalConsumed, ActivityAnswers,
          ScheduledRunCreated, RunMarkedRunning, NodeSkipped, NodeExecuted, PollPending, NodeRaised,
          WaitCreated, WaitCompleted, NodeMarkedFailed, RunMarkedSuccess, RunMarkedStuck, Succeed,
          SleepEnds, CancelDelivered, wfVars
    <3>2. ASSUME NEW c \in calls, Deliver(c)
          PROVE  result' = result
      BY <3>2 DEF Deliver, RequestCancel, ResumeManual, ReceiveCallback, wfVars
    <3> QED BY <3>1, <3>2, OwnOrDelivered
  <2>4. ASSUME NEW n \in flow.nodes, CallbackExpired(n)
        PROVE  runRow' = runRow
    <3>1. runRow = "SUCCESS" => nodeRow[n] # "WAITING_CALLBACK"
      BY <1>1 DEF LandedInv, Finished, TerminalSuccess
    <3> QED BY <1>4, <2>1, <2>4, <3>1 DEF CallbackExpired
  <2>5. CASE Api
    BY <1>2, <1>4, <2>1, <2>3, <2>4, <2>5 DEF Api, CreateRun, CancelRun, ResumeNode, CallbackAccepted, Configure
  <2> QED
    BY <2>1, <2>2, <2>3, <2>5
    DEF Next, WorkflowStep, WorkflowCancelled, Workers, Dispatch, GiveUp, Failures, CallLost,
        Overrun, Deliver, vars, rows
<1>5. CASE result \notin {"SUCCESS", "FAILED"}
  <2>1. ASSUME NEW a \in working, ActivityCommits(a)
        PROVE  runRow' = result'
    <3>1. a = current /\ a.act = pc /\ ActivityAnswers
      BY <1>1, <1>5, <2>1, CommitIsAnswer, CommitEndsAttempt DEF wfVars
    <3>2. \/ pc = "mark_failed" /\ result' = "FAILED"
          \/ pc = "mark_success" /\ result' = "SUCCESS"
          \/ pc = "mark_stuck" /\ result' = "FAILED"
      BY <1>5, <3>1
      DEF ActivityAnswers, ScheduledRunCreated, RunMarkedRunning, NodeSkipped, NodeExecuted,
          PollPending, NodeRaised, WaitCreated, WaitCompleted, NodeMarkedFailed,
          RunMarkedSuccess, RunMarkedStuck, Succeed, Close
    <3> QED BY <2>1, <3>1, <3>2, CommitWrites
  <2>2. ASSUME UNCHANGED result
        PROVE  FALSE
    BY <1>5, <2>2
  <2>3. ASSUME NEW c \in calls, Deliver(c)
        PROVE  UNCHANGED result
    BY <2>3 DEF Deliver, RequestCancel, ResumeManual, ReceiveCallback, wfVars
  <2>4. CASE WorkflowCancelled
    BY <1>3, <2>4 DEF WorkflowCancelled, CancelDelivered
  <2>5. CASE WorkflowStep
    BY <2>2, <2>5 DEF WorkflowStep, Coroutine, SkipNode, StartNode, PassEnds, SignalConsumed, SleepEnds
  <2>6. CASE Api \/ UNCHANGED vars
    BY <2>2, <2>6
    DEF Api, CreateRun, CancelRun, ResumeNode, CallbackAccepted, CallbackExpired, Configure, vars, wfVars
  <2>7. CASE Dispatch \/ GiveUp \/ (\E a \in working : EnterHandler(a)) \/ Failures
    BY <2>2, <2>7 DEF Dispatch, GiveUp, NodeRaised, EnterHandler, Failures, Crash, Overrun, CallLost, wfVars
  <2> QED BY <2>1, <2>2, <2>3, <2>4, <2>5, <2>6, <2>7 DEF Next, Workers
<1> QED BY <1>4, <1>5

LEMMA RowsCaughtUp == Spec => [](RunInv /\ LandedInv /\ ResultInv)
<1>1. Init => CancelInv /\ AtWorkInv /\ LandedInv /\ ResultInv
  <2> SUFFICES ASSUME Init PROVE CancelInv /\ AtWorkInv /\ LandedInv /\ ResultInv
    OBVIOUS
  <2>1. CancelInv /\ AtWorkInv /\ ResultInv
    BY DEF Init, WfInit, CancelInv, AtWorkInv, ResultInv
  <2>2. LandedInv
    BY DEF Init, WfInit, LandedInv, Finished, Begun
  <2> QED BY <2>1, <2>2
<1>2. RunInv /\ CancelInv /\ AtWorkInv /\ LandedInv /\ ResultInv /\ [Next]_vars
        => CancelInv' /\ AtWorkInv' /\ LandedInv' /\ ResultInv'
  BY CancelStep, AtWorkStep, LandedStep, ResultStep
<1> QED BY <1>1, <1>2, RunInvariance, PTL DEF Spec

(* As long as no attempt overruns its timeout, the rows show a node touched *)
(* only after everything upstream of it has committed SUCCESS or SKIPPED    *)
(* (activities.py:172-436), whatever crashes, is repeated or is cancelled.  *)
THEOREM UpstreamRowsAlwaysFirst == Spec => []UpstreamRowsFirst
<1>1. RunInv /\ LandedInv => UpstreamRowsFirst
  <2> SUFFICES ASSUME RunInv, LandedInv, NoOverrun,
                      NEW e \in flow.edges, nodeRow[e.target] # "PENDING"
               PROVE  nodeRow[e.source] \in TerminalSuccess
    BY DEF UpstreamRowsFirst, NoOverrun
  <2>1. e.target \in flow.nodes /\ e \in Incoming(flow, e.target)
    BY EdgeEnds DEF RunInv, Inv, Incoming
  <2>2. Begun(e.target) \/ statuses[e.target] = "SKIPPED"
    BY <2>1 DEF RunInv, RowsInv, Touched
  <2> QED BY <2>1, <2>2 DEF LandedInv
<1> QED BY <1>1, RowsCaughtUp, PTL

(* As long as no attempt overruns its timeout, the run row says how the     *)
(* workflow closed, unless an operator has cancelled the run, and SUCCESS   *)
(* stands over finished nodes only (workflows.py:139-195,                   *)
(* activities.py:152-169).                                                 *)
THEOREM RowAlwaysAgrees == Spec => []RowAgreesWithResult
<1>1. LandedInv /\ ResultInv => RowAgreesWithResult
  BY DEF LandedInv, ResultInv, RowAgreesWithResult, NoOverrun, Finished
<1> QED BY <1>1, RowsCaughtUp, PTL

(* Whoever reads SUCCESS in the run row can rely on the whole walk: the      *)
(* graph has no cycle, and in a valid flow the row of some End node, the     *)
(* one that holds the output, is SUCCESS too (workflows.py:165-182).         *)
SuccessRowHasOutput ==
  NoOverrun /\ runRow = "SUCCESS" =>
    /\ Acyclic(flow)
    /\ ValidFlow(flow) =>
         \E n \in flow.nodes : flow.type[n] = "end" /\ nodeRow[n] = "SUCCESS"

(* As long as no attempt overruns its timeout, a run row that says SUCCESS  *)
(* has an output to show, whatever crashes, is repeated or is cancelled.    *)
THEOREM SuccessRowsHaveOutput == Spec => []SuccessRowHasOutput
<1>1. RunInv /\ LandedInv => SuccessRowHasOutput
  <2> SUFFICES ASSUME RunInv, LandedInv, NoOverrun, runRow = "SUCCESS"
               PROVE  /\ Acyclic(flow)
                      /\ ValidFlow(flow) =>
                           \E n \in flow.nodes : flow.type[n] = "end" /\ nodeRow[n] = "SUCCESS"
    BY DEF SuccessRowHasOutput
  <2>1. Inv /\ AllTerminal /\ \A n \in flow.nodes : statuses[n] = "SUCCESS" => nodeRow[n] = "SUCCESS"
    BY DEF RunInv, LandedInv, Finished
  <2> QED BY <2>1, FinishedHasOutput, FinishedIsAcyclic
<1> QED BY <1>1, RowsCaughtUp, PTL

=============================================================================
