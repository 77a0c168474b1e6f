---------------------- MODULE RunProjectionProperties ----------------------
(***************************************************************************)
(* What the rows of a run promise to whoever reads them, and what the       *)
(* composition owes to the people and partners a run waits for.            *)
(***************************************************************************)
EXTENDS RunProjection

Manual(n) == n \in flow.nodes /\ flow.type[n] = "manual_approval"
Callback(n) == n \in flow.nodes /\ flow.type[n] = "http_callback"

-----------------------------------------------------------------------------
(* As long as no attempt has overrun its timeout, the rows, too, show a     *)
(* node touched only after everything upstream of it has committed SUCCESS  *)
(* or SKIPPED, through crashes, repeated attempts and cancellation          *)
(* (activities.py:172-436).                                                *)
UpstreamRowsFirst ==
  faults["overrun"] = 0 =>
    \A e \in flow.edges :
      nodeRow[e.target] # "PENDING" => nodeRow[e.source] \in TerminalSuccess

(* A node the workflow has skipped is never executed, waited for or failed, *)
(* whatever attempts are still about (workflows.py:123-131).               *)
SkippedNeverRuns ==
  \A n \in flow.nodes : statuses[n] = "SKIPPED" =>
    /\ nodeRow[n] \in {"PENDING", "SKIPPED"}
    /\ task[n] = "absent" /\ wait[n] = "absent"

(* As long as no attempt has overrun, the run row says how the workflow      *)
(* closed, unless an operator asked for cancellation, and a run row that     *)
(* says SUCCESS stands over node rows that are all SUCCESS or SKIPPED        *)
(* (workflows.py:139-195, activities.py:152-169).                           *)
RowAgreesWithResult ==
  faults["overrun"] = 0 =>
    /\ result \in {"SUCCESS", "FAILED"} /\ ~cancelRequested => runRow = result
    /\ runRow = "SUCCESS" => \A n \in flow.nodes : nodeRow[n] \in TerminalSuccess

(* A run shown as waiting has a node shown as waiting (activities.py:316,   *)
(* 318, 392-394; callback_api.py:57-61).                                   *)
RunWaitsForSomeNode ==
  /\ runRow = "WAITING" => \E n \in flow.nodes : nodeRow[n] = "WAITING"
  /\ runRow = "WAITING_CALLBACK" =>
       \E n \in flow.nodes : nodeRow[n] = "WAITING_CALLBACK"

(* An http_callback node succeeds only by a callback that was accepted: no  *)
(* resend, expiry race or repeated attempt completes it otherwise           *)
(* (callback_api.py:117-148, 189-196).                                     *)
OnlyAcceptedCallbackCompletes ==
  \A n \in flow.nodes :
    Callback(n) /\ (nodeRow[n] = "SUCCESS" \/ statuses[n] = "SUCCESS") =>
      wait[n] = "RECEIVED"

(* A manual node that has succeeded has an approval task with a decision    *)
(* (group_api.py:847-868).                                                 *)
ApprovedTaskIsDecided ==
  \A n \in flow.nodes :
    Manual(n) /\ nodeRow[n] = "SUCCESS" => task[n] \in Decision
-----------------------------------------------------------------------------
(* A partner whose callback was accepted has resumed the run: its node goes *)
(* on to SUCCESS (callback_api.py:189-197).                                *)
AcceptedCallbackResumes ==
  \A n \in Node :
    Callback(n) /\ wait[n] = "RECEIVED" ~> Callback(n) /\ nodeRow[n] = "SUCCESS"

(* The workflow repeats the creation of a wait that already has its row. *)
RepeatsWait(n) == pc = "create_wait" /\ node = n /\ wait[n] # "absent"

(* The same, but for a lost answer to the wait's creation: crashes and the  *)
(* answers lost at any other await only delay the run.                     *)
CallbackResumesUnlessRepeated ==
  \A n \in Node :
    Callback(n) /\ wait[n] = "RECEIVED"
      ~> Callback(n) /\ (nodeRow[n] = "SUCCESS" \/ RepeatsWait(n))

(* The activity the workflow waits for raises at every attempt for as long  *)
(* as what it looks up is missing.                                         *)
Refused == pc \in {"create_wait", "create_scheduled_run"} /\ node \in missing

(* Crashing workers and lost answers delay a run, they do not stop it: its  *)
(* row comes to rest at SUCCESS or FAILED, unless it waits for somebody who *)
(* never answers, or again and again for an approval group, a credential or *)
(* a schedule that is missing or disabled (activities.py:62, 311;           *)
(* callbacks.py:42).                                                       *)
RunSettles ==
  \/ <>[](runRow \in {"SUCCESS", "FAILED"})
  \/ <>[](runRow \in {"WAITING", "WAITING_CALLBACK"})
  \/ []<>Refused

=============================================================================
