--------------------------- MODULE RunProjection ---------------------------
(***************************************************************************)
(* One run, end to end: the workflow of GenericFlowWorkflow, the activities *)
(* of backend/app/temporal/activities.py that answer its awaits, the rows   *)
(* they write, and the API handlers that start, cancel, resume and call     *)
(* back the run (group_api.py, callback_api.py).                           *)
(*                                                                         *)
(* Every activity attempt and every API handler is one database             *)
(* transaction.  Temporal runs an activity at least once: an attempt whose  *)
(* worker dies, whose answer is lost or whose timeout passes is followed by *)
(* another.  The API commits first and calls Temporal afterwards.          *)
(***************************************************************************)
EXTENDS GenericFlowWorkflow, FiniteSets

CONSTANTS
  MaxAttempts,   \* maxAttempts in the configuration of the other nodes
  Moves,         \* the moves of callers and the faults that may happen
  MaxFaults      \* bound: how many faults one behaviour may have

ASSUME MaxAttemptsAssumption == MaxAttempts \in 1..5
ASSUME MaxFaultsAssumption == MaxFaults \in Nat

(* A task that was decided does not look like one that waits or is not there. *)
ASSUME TaskAssumption == {"absent", "PENDING"} \cap Decision = {}

FaultKind == {"crash", "lost_answer", "overrun", "lost_call"}

ASSUME MovesAssumption ==
  Moves \subseteq {"cancel", "expire", "early_resume", "configure"} \cup FaultKind

VARIABLES
  runRow,        \* flow_run.status, "absent" before the row exists
  cancelRequested,  \* flow_run.cancel_requested
  nodeRow,       \* node_run.status of each node, as committed
  task,          \* approval_task: "absent", "PENDING" or the decision made
  wait,          \* callback_wait.status, "absent" before the row exists
  orphans,       \* how many FlowRun rows no workflow execution owns
  missing,       \* what an activity looks up and would not find
  started,       \* Temporal has the workflow execution
  requests,      \* requests the handler of each http_poll node has sent
  tries,         \* attempts Temporal has dispatched for the awaited activity
  current,       \* the attempt whose answer Temporal is waiting for
  working,       \* the attempts executing on some worker
  holding,       \* those of them inside a node handler, with the node row locked
  calls,         \* Temporal calls of API handlers that have committed
  faults         \* how often each kind of fault has happened

rows == <<runRow, cancelRequested, nodeRow, task, wait, orphans, missing>>
server == <<started, requests, tries, current, working, holding>>
vars == <<wfVars, rows, server, calls, faults>>
-----------------------------------------------------------------------------
RunStatus == {"PENDING", "RUNNING", "WAITING", "WAITING_CALLBACK",
              "SUCCESS", "FAILED", "CANCELLED"}

(* RUNNING is written and overwritten inside one transaction, so no reader  *)
(* ever sees it; READY, RETRY_WAIT and CANCELLED are never written.         *)
NodeRunStatus == {"PENDING", "WAITING", "WAITING_CALLBACK", "POLL_WAIT",
                  "SUCCESS", "FAILED", "SKIPPED"}

(* What the three activities that create something look up first: the       *)
(* schedule (0), the approval group of a manual node and the credential of  *)
(* a callback node.  A disabled one is as good as none.                     *)
LookedUp ==
  {0} \cup {n \in flow.nodes : flow.type[n] \in {"manual_approval", "http_callback"}}

RunLevelPc == {"create_scheduled_run", "mark_running", "mark_success", "mark_stuck"}

Attempt ==
  [act : ActivityPc, node : Node \cup {0}, number : 0..MaxPolls,
   try : Nat \ {0}]

NoAttempt == [act |-> "none", node |-> 0, number |-> 0, try |-> 0]

Call ==
  [kind : {"start", "cancel"}] \cup [kind : {"callback"}, node : Node]
    \cup [kind : {"resume"}, node : Node, decision : Decision]

(* Type invariant of the composition.  Polls and the retries of each poll     *)
(* multiply, so a node may send more requests than MaxPolls; the last try    *)
(* of a poll asks for no other, which is what bounds them.                   *)
ProjectionTypeOK ==
  /\ TypeOK
  /\ runRow \in RunStatus \cup {"absent"}
  /\ cancelRequested \in BOOLEAN
  /\ nodeRow \in [flow.nodes -> NodeRunStatus]
  /\ task \in [flow.nodes -> Decision \cup {"absent", "PENDING"}]
  /\ wait \in [flow.nodes -> {"absent", "WAITING", "RECEIVED", "EXPIRED"}]
  /\ orphans \in 0..MaxFaults
  /\ missing \subseteq LookedUp
  /\ started \in BOOLEAN
  /\ requests \in [flow.nodes -> 0 .. (MaxPolls - 1) * (MaxPolls - 1) + MaxPolls]
  /\ tries \in Nat
  /\ working \subseteq Attempt
  /\ current \in working \cup {NoAttempt}
  /\ holding \subseteq {a \in working : a.act = "execute"}
  /\ calls \subseteq Call
  /\ faults \in [FaultKind -> 0..MaxFaults]

(* A manual run or a rerun starts in the API, a scheduled one in Temporal.  *)
(* Publishing a flow checks neither its approval groups nor its credentials. *)
Init ==
  /\ WfInit
  /\ runRow = "absent"
  /\ cancelRequested = FALSE
  /\ nodeRow = [n \in flow.nodes |-> "PENDING"]
  /\ task = [n \in flow.nodes |-> "absent"]
  /\ wait = [n \in flow.nodes |-> "absent"]
  /\ orphans = 0
  /\ missing \in IF "configure" \in Moves THEN SUBSET (LookedUp \ {0}) ELSE {{}}
  /\ started = (pc = "create_scheduled_run")
  /\ requests = [n \in flow.nodes |-> 0]
  /\ tries = 0
  /\ current = NoAttempt
  /\ working = {}
  /\ holding = {}
  /\ calls = {}
  /\ faults = [k \in FaultKind |-> 0]

Fault(k) ==
  /\ k \in Moves
  /\ faults["crash"] + faults["lost_answer"] + faults["overrun"] + faults["lost_call"]
       < MaxFaults
  /\ faults' = [faults EXCEPT ![k] = @ + 1]
-----------------------------------------------------------------------------
(* Temporal and the workers. *)

MaxTries(n) == IF flow.type[n] = "http_poll" THEN MaxPolls ELSE MaxAttempts

AttemptOf(t) ==
  [act |-> pc, node |-> node,
   number |-> IF node = 0 THEN 0 ELSE attempts[node], try |-> t]

(* Only execute_node_activity has a retry policy of its own; the others are *)
(* retried for ever, and theirs are numbered just to tell an attempt from   *)
(* those still executing (bound: at most one for each fault and for the     *)
(* cancellation).                                                          *)
Dispatch ==
  /\ started /\ pc \in ActivityPc /\ current = NoAttempt
  /\ \/ /\ pc = "execute" /\ tries < MaxTries(node)
        /\ tries' = tries + 1
        /\ current' = AttemptOf(tries + 1)
     \/ /\ pc # "execute"
        /\ \E t \in 1 .. MaxFaults + 2 :
             /\ AttemptOf(t) \notin working
             /\ \A u \in 1 .. t - 1 : AttemptOf(u) \in working
             /\ current' = AttemptOf(t)
        /\ UNCHANGED tries
  /\ working' = working \cup {current'}
  /\ UNCHANGED <<wfVars, rows, started, requests, holding, calls, faults>>

(* The last permitted attempt failed, or its answer never came. *)
GiveUp ==
  /\ pc = "execute" /\ current = NoAttempt /\ tries >= MaxTries(node)
  /\ NodeRaised
  /\ tries' = 0
  /\ UNCHANGED <<rows, started, requests, current, working, holding, calls, faults>>

Locked(n) == \E a \in holding : a.node = n

(* execute_node_activity flushes its first writes, which locks the node's   *)
(* row until it commits, and only then calls the handler.                  *)
EnterHandler(a) ==
  /\ a \in working \ holding
  /\ a.act = "execute"
  /\ ~Locked(a.node)
  /\ holding' = holding \cup {a}
  /\ requests' = [requests EXCEPT ![a.node] =
                    IF flow.type[a.node] = "http_poll" THEN @ + 1 ELSE @]
  /\ UNCHANGED <<wfVars, rows, started, tries, current, working, calls, faults>>

(* Wrong variant: the commit leaves the node's row locked. *)
CommitKeepsLock(a) ==
  /\ a \in working
  /\ IF a.act = "execute" THEN a \in holding
     ELSE a.act \in RunLevelPc \/ ~Locked(a.node)
  /\ working' = working \ {a}
  /\ UNCHANGED <<started, requests, holding, calls, cancelRequested, missing>>

(* Attempt a reaches its commit. *)
MayCommit(a) ==
  /\ a \in working
  /\ IF a.act = "execute" THEN a \in holding
     ELSE a.act \in RunLevelPc \/ ~Locked(a.node)
  /\ working' = working \ {a}
  /\ holding' = holding \ {a}
  /\ UNCHANGED <<started, requests, calls, cancelRequested, missing>>

Answered(a) == a = current /\ current' = NoAttempt /\ tries' = 0 /\ UNCHANGED faults

(* Nobody waits for a's answer any more. *)
Abandoned(a) == a # current /\ UNCHANGED <<wfVars, current, tries, faults>>

(* The worker dies between the commit and the answer. *)
AnswerLost(a) ==
  /\ Fault("lost_answer")
  /\ a = current
  /\ current' = NoAttempt
  /\ UNCHANGED <<wfVars, tries>>

Unheard(a) == Abandoned(a) \/ AnswerLost(a)

(* The activity raises and its transaction is rolled back; Temporal, if it  *)
(* still waits for this attempt, dispatches another.                       *)
Raises(a) ==
  /\ current' = IF a = current THEN NoAttempt ELSE current
  /\ UNCHANGED <<wfVars, runRow, nodeRow, task, wait, orphans, tries, faults>>

(* Wrong variant: Temporal goes on waiting for the dead worker. *)
CrashUnnoticed(a) ==
  /\ Fault("crash")
  /\ a \in working
  /\ working' = working \ {a}
  /\ holding' = holding \ {a}
  /\ UNCHANGED <<wfVars, rows, started, requests, tries, current, calls>>

(* The worker dies before the commit. *)
Crash(a) ==
  /\ Fault("crash")
  /\ a \in working
  /\ working' = working \ {a}
  /\ holding' = holding \ {a}
  /\ current' = IF a = current THEN NoAttempt ELSE current
  /\ UNCHANGED <<wfVars, rows, started, requests, tries, calls>>

(* start_to_close_timeout passes while the attempt is still executing: a    *)
(* thread of the worker cannot be stopped.                                 *)
Overrun ==
  /\ Fault("overrun")
  /\ current # NoAttempt
  /\ current' = NoAttempt
  /\ UNCHANGED <<wfVars, rows, started, requests, tries, working, holding, calls>>
-----------------------------------------------------------------------------
(* The activities: what each commits, and the answer the workflow gets.     *)

(* A created run is the workflow's own only when the answer arrives.  The   *)
(* schedule may have been disabled or removed since it fired.               *)
CreateScheduledRunActivity(a) ==
  /\ a.act = "create_scheduled_run"
  /\ MayCommit(a)
  /\ \/ /\ a.node \notin missing
        /\ \/ /\ Answered(a) /\ ScheduledRunCreated
              /\ runRow' = "PENDING"
              /\ UNCHANGED orphans
           \/ /\ Unheard(a)
              /\ orphans' = orphans + 1
              /\ UNCHANGED runRow
        /\ UNCHANGED <<nodeRow, task, wait>>
     \/ a.node \in missing /\ Raises(a)

MarkRunActivity(a) ==
  /\ a.act \in {"mark_running", "mark_success", "mark_stuck"}
  /\ MayCommit(a)
  /\ runRow' = CASE a.act = "mark_running" -> "RUNNING"
                 [] a.act = "mark_success" -> "SUCCESS"
                 [] a.act = "mark_stuck"   -> "FAILED"
  /\ \/ Answered(a) /\ (RunMarkedRunning \/ RunMarkedSuccess \/ RunMarkedStuck)
     \/ Unheard(a)
  /\ UNCHANGED <<nodeRow, task, wait, orphans>>

(* Wrong variants: a session closed without its commit; a failed node that  *)
(* leaves its run as it was.                                               *)
MarkNodeSkippedUncommitted(a) ==
  /\ a.act = "mark_skipped"
  /\ MayCommit(a)
  /\ (Answered(a) /\ NodeSkipped) \/ Unheard(a)
  /\ UNCHANGED <<runRow, nodeRow, task, wait, orphans>>

MarkNodeFailedOnly(a) ==
  /\ a.act = "mark_failed"
  /\ MayCommit(a)
  /\ nodeRow' = [nodeRow EXCEPT ![a.node] = "FAILED"]
  /\ (Answered(a) /\ NodeMarkedFailed) \/ Unheard(a)
  /\ UNCHANGED <<runRow, task, wait, orphans>>

MarkNodeSkippedActivity(a) ==
  /\ a.act = "mark_skipped"
  /\ MayCommit(a)
  /\ nodeRow' = [nodeRow EXCEPT ![a.node] = "SKIPPED"]
  /\ (Answered(a) /\ NodeSkipped) \/ Unheard(a)
  /\ UNCHANGED <<runRow, task, wait, orphans>>

MarkNodeFailedActivity(a) ==
  /\ a.act = "mark_failed"
  /\ MayCommit(a)
  /\ nodeRow' = [nodeRow EXCEPT ![a.node] = "FAILED"]
  /\ runRow' = "FAILED"
  /\ (Answered(a) /\ NodeMarkedFailed) \/ Unheard(a)
  /\ UNCHANGED <<task, wait, orphans>>

(* The attempt number the handler sees: the workflow's or Temporal's. *)
AttemptSeen(a) == IF a.number >= a.try THEN a.number ELSE a.try

(* The handler returned, asked for another poll, or raised. *)
ExecuteNodeActivity(a) ==
  /\ a.act = "execute"
  /\ MayCommit(a)
  /\ \/ /\ nodeRow' = [nodeRow EXCEPT ![a.node] = "SUCCESS"]
        /\ (Answered(a) /\ \E b \in Handle : NodeExecuted(b)) \/ Unheard(a)
     \/ /\ flow.type[a.node] = "http_poll"
        /\ AttemptSeen(a) < MaxPolls
        /\ nodeRow' = [nodeRow EXCEPT ![a.node] = "POLL_WAIT"]
        /\ (Answered(a) /\ PollPending) \/ Unheard(a)
     \/ /\ nodeRow' = [nodeRow EXCEPT ![a.node] = "FAILED"]
        /\ current' = IF a = current THEN NoAttempt ELSE current
        /\ UNCHANGED <<wfVars, tries, faults>>
  /\ UNCHANGED <<runRow, task, wait, orphans>>

(* Wrong variants: a repeated attempt reopens the task; a completed wait    *)
(* leaves its run waiting.                                                 *)
CreateManualWaitReopens(a) ==
  /\ a.act = "create_wait" /\ flow.type[a.node] = "manual_approval"
  /\ MayCommit(a)
  /\ \/ /\ a.node \notin missing
        /\ nodeRow' = [nodeRow EXCEPT ![a.node] = "WAITING"]
        /\ runRow' = "WAITING"
        /\ task' = [task EXCEPT ![a.node] = "PENDING"]
        /\ (Answered(a) /\ WaitCreated) \/ Unheard(a)
        /\ UNCHANGED <<wait, orphans>>
     \/ a.node \in missing /\ Raises(a)

CompleteCallbackWaitOfNodeOnly(a) ==
  /\ a.act = "complete_wait" /\ flow.type[a.node] = "http_callback"
  /\ MayCommit(a)
  /\ nodeRow' = [nodeRow EXCEPT ![a.node] = "SUCCESS"]
  /\ (Answered(a) /\ WaitCompleted) \/ Unheard(a)
  /\ UNCHANGED <<runRow, task, wait, orphans>>

(* No approval group has the alias the node refers to, or the task is made  *)
(* unless an earlier attempt has made it.                                  *)
CreateManualWaitActivity(a) ==
  /\ a.act = "create_wait" /\ flow.type[a.node] = "manual_approval"
  /\ MayCommit(a)
  /\ \/ /\ a.node \notin missing
        /\ nodeRow' = [nodeRow EXCEPT ![a.node] = "WAITING"]
        /\ runRow' = "WAITING"
        /\ task' = [task EXCEPT ![a.node] = IF @ = "absent" THEN "PENDING" ELSE @]
        /\ (Answered(a) /\ WaitCreated) \/ Unheard(a)
        /\ UNCHANGED <<wait, orphans>>
     \/ a.node \in missing /\ Raises(a)

CompleteManualWaitActivity(a) ==
  /\ a.act = "complete_wait" /\ flow.type[a.node] = "manual_approval"
  /\ MayCommit(a)
  /\ nodeRow' = [nodeRow EXCEPT ![a.node] = "SUCCESS"]
  /\ runRow' = "RUNNING"
  /\ (Answered(a) /\ WaitCompleted) \/ Unheard(a)
  /\ UNCHANGED <<task, wait, orphans>>

(* The credential is missing, the row is new, or its insert breaks          *)
(* uq_callback_wait_attempt: the attempt number of an http_callback node is *)
(* always 1.                                                               *)
CreateCallbackWaitActivity(a) ==
  /\ a.act = "create_wait" /\ flow.type[a.node] = "http_callback"
  /\ MayCommit(a)
  /\ \/ /\ a.node \notin missing /\ wait[a.node] = "absent"
        /\ wait' = [wait EXCEPT ![a.node] = "WAITING"]
        /\ nodeRow' = [nodeRow EXCEPT ![a.node] = "WAITING_CALLBACK"]
        /\ runRow' = "WAITING_CALLBACK"
        /\ (Answered(a) /\ WaitCreated) \/ Unheard(a)
        /\ UNCHANGED <<task, orphans>>
     \/ (a.node \in missing \/ wait[a.node] # "absent") /\ Raises(a)

CompleteCallbackWaitActivity(a) ==
  /\ a.act = "complete_wait" /\ flow.type[a.node] = "http_callback"
  /\ MayCommit(a)
  /\ nodeRow' = [nodeRow EXCEPT ![a.node] = "SUCCESS"]
  /\ runRow' = "RUNNING"
  /\ (Answered(a) /\ WaitCompleted) \/ Unheard(a)
  /\ UNCHANGED <<task, wait, orphans>>
-----------------------------------------------------------------------------
(* The API handlers: first the transaction, then the call to Temporal.      *)

CreateRun ==
  /\ ~started /\ runRow = "absent"
  /\ runRow' = "PENDING"
  /\ calls' = calls \cup {[kind |-> "start"]}
  /\ UNCHANGED <<wfVars, cancelRequested, nodeRow, task, wait, orphans, missing, server, faults>>

(* cancel_run looks at no status. *)
CancelRun ==
  /\ "cancel" \in Moves
  /\ runRow # "absent"
  /\ ~cancelRequested      \* bound: one cancellation
  /\ cancelRequested' = TRUE
  /\ runRow' = "CANCELLED"
  /\ calls' = calls \cup {[kind |-> "cancel"]}
  /\ UNCHANGED <<wfVars, nodeRow, task, wait, orphans, missing, server, faults>>

(* resume_node looks at no status either; without a task the signal is sent *)
(* all the same.                                                           *)
ResumeNode(n, d) ==
  /\ runRow # "absent"
  /\ flow.type[n] = "manual_approval"
  /\ "early_resume" \in Moves \/ nodeRow[n] = "WAITING"
  /\ task' = [task EXCEPT ![n] = IF @ = "absent" THEN @ ELSE d]
  /\ calls' = calls \cup {[kind |-> "resume", node |-> n, decision |-> d]}
  /\ UNCHANGED <<wfVars, cancelRequested, runRow, nodeRow, wait, orphans, missing, server, faults>>

(* Wrong variants: an accepted callback that is not sent on; a late one     *)
(* that is.                                                                *)
CallbackAcceptedOnly(n) ==
  /\ wait[n] = "WAITING"
  /\ wait' = [wait EXCEPT ![n] = "RECEIVED"]
  /\ UNCHANGED <<wfVars, runRow, cancelRequested, nodeRow, task, orphans, missing, server, calls, faults>>

CallbackExpiredSignals(n) ==
  /\ "expire" \in Moves
  /\ wait[n] = "WAITING"
  /\ wait' = [wait EXCEPT ![n] = "EXPIRED"]
  /\ calls' = calls \cup {[kind |-> "callback", node |-> n]}
  /\ UNCHANGED <<wfVars, runRow, cancelRequested, nodeRow, task, orphans, missing, server, faults>>

(* A callback that is in time and passes the checks. *)
CallbackAccepted(n) ==
  /\ wait[n] = "WAITING"
  /\ wait' = [wait EXCEPT ![n] = "RECEIVED"]
  /\ calls' = calls \cup {[kind |-> "callback", node |-> n]}
  /\ UNCHANGED <<wfVars, cancelRequested, runRow, nodeRow, task, orphans, missing, server, faults>>

(* A callback after expires_at: the only place where a wait expires. *)
CallbackExpired(n) ==
  /\ "expire" \in Moves
  /\ wait[n] = "WAITING"
  /\ wait' = [wait EXCEPT ![n] = "EXPIRED"]
  /\ IF nodeRow[n] = "WAITING_CALLBACK"
     THEN /\ nodeRow' = [nodeRow EXCEPT ![n] = "FAILED"]
          /\ runRow' = "FAILED"
     ELSE UNCHANGED <<nodeRow, runRow>>
  /\ UNCHANGED <<wfVars, cancelRequested, task, orphans, missing, server, calls, faults>>

(* Groups are made and never removed; credentials and schedules are         *)
(* switched on and off, and a schedule may be deleted.  (Bounds: only while *)
(* it matters to the activity that looks.)                                 *)
CreateApprovalGroup(n) ==
  /\ "configure" \in Moves
  /\ n \in missing /\ flow.type[n] = "manual_approval"
  /\ missing' = missing \ {n}

SwitchCredential(n) ==
  /\ "configure" \in Moves
  /\ flow.type[n] = "http_callback" /\ wait[n] = "absent"
  /\ missing' = IF n \in missing THEN missing \ {n} ELSE missing \cup {n}

SwitchSchedule ==
  /\ "configure" \in Moves
  /\ pc = "create_scheduled_run"
  /\ missing' = IF 0 \in missing THEN missing \ {0} ELSE missing \cup {0}

Configure ==
  /\ SwitchSchedule \/ \E n \in flow.nodes : CreateApprovalGroup(n) \/ SwitchCredential(n)
  /\ UNCHANGED <<wfVars, runRow, cancelRequested, nodeRow, task, wait, orphans,
                 server, calls, faults>>

(* The call reaches Temporal, which refuses it when the execution is not    *)
(* there or has closed.                                                    *)
Deliver(c) ==
  /\ c \in calls
  /\ calls' = calls \ {c}
  /\ IF c.kind = "start" THEN started' = TRUE /\ UNCHANGED wfVars
     ELSE /\ IF ~started \/ pc = "closed" \/ (c.kind = "cancel" /\ cancel # "none")
             THEN UNCHANGED wfVars
             ELSE \/ c.kind = "cancel" /\ RequestCancel
                  \/ c.kind = "resume" /\ ResumeManual(c.node, c.decision)
                  \/ c.kind = "callback" /\ ReceiveCallback(c.node)
          /\ UNCHANGED started
  /\ UNCHANGED <<rows, requests, tries, current, working, holding, faults>>

(* The API process dies, or gives up on Temporal, after the commit. *)
CallLost(c) ==
  /\ Fault("lost_call")
  /\ c \in calls
  /\ calls' = calls \ {c}
  /\ UNCHANGED <<wfVars, rows, server>>
-----------------------------------------------------------------------------
(* The workflow's steps that no activity answers.  A cancelled await leaves *)
(* its attempt executing.                                                  *)

WorkflowStep ==
  /\ Coroutine \/ SleepEnds
  /\ UNCHANGED <<rows, server, calls, faults>>

WorkflowCancelled ==
  /\ CancelDelivered
  /\ current' = NoAttempt
  /\ tries' = 0
  /\ UNCHANGED <<rows, started, requests, working, holding, calls, faults>>

ActivityCommits(a) ==
  \/ CreateScheduledRunActivity(a)
  \/ MarkRunActivity(a)
  \/ MarkNodeSkippedActivity(a) \/ MarkNodeFailedActivity(a)
  \/ ExecuteNodeActivity(a)
  \/ CreateManualWaitActivity(a) \/ CompleteManualWaitActivity(a)
  \/ CreateCallbackWaitActivity(a) \/ CompleteCallbackWaitActivity(a)

Workers ==
  \/ Dispatch
  \/ GiveUp
  \/ \E a \in working : EnterHandler(a) \/ ActivityCommits(a)

Api ==
  \/ CreateRun
  \/ CancelRun
  \/ \E n \in flow.nodes : (\E d \in Decision : ResumeNode(n, d))
  \/ \E n \in flow.nodes : CallbackAccepted(n) \/ CallbackExpired(n)
  \/ Configure

Failures ==
  \/ \E a \in working : Crash(a)
  \/ Overrun
  \/ \E c \in calls : CallLost(c)

Next ==
  \/ WorkflowStep
  \/ WorkflowCancelled
  \/ Workers
  \/ Api
  \/ \E c \in calls : Deliver(c)
  \/ Failures

Spec == Init /\ [][Next]_vars

(* Temporal and the workers keep going and calls are sent; operators,       *)
(* partners and failures are under no obligation.                          *)
FairSpec ==
  /\ Spec
  /\ WF_vars(WorkflowStep) /\ WF_vars(WorkflowCancelled)
  /\ WF_vars(Workers)
  /\ WF_vars(CreateRun)
  /\ \A c \in Call : WF_vars(Deliver(c))

=============================================================================
