# FlowForge: a verification development

FlowForge lets a group of users draw a flow, publish it as an immutable version
and run it. FastAPI keeps flows, runs and credentials in PostgreSQL; a Temporal
workflow walks the graph of each run; its activities execute the nodes and write
the rows the frontend shows. This directory holds TLA+ models of the run (the
workflow, its activities and rows, the handlers that start, cancel, resume and
failures do in between), of the life of a flow (drafts, versions, status,
credentials), and of what stands around the two: schedules, run variables, the page
that follows a run, the key ring, and who may log in and do what. TLC checks them on
small instances, TLAPS proves what matters most for every value of their parameters.

Paths below are relative to `src/`.

## 1. The system

| Component | State | Operations | Talks to |
|---|---|---|---|
| Flow interpreter, `backend/app/temporal/workflows.py` | statuses, outputs and attempts of the nodes, two dictionaries of signals, the await it is suspended at | `run`, `_execute_node`, `resume_manual`, `receive_callback` | activities (awaits), Temporal (signals, timers, cancellation) |
| Activities, `backend/app/temporal/activities.py`, `callbacks.py` | rows `flow_run`, `node_run`, `node_run_attempt`, `approval_task`, `callback_wait`, `flow_event` | nine activities, one transaction each | database, node handlers |
| Run API, `backend/app/group_api.py:641-868` | the same rows | create, rerun, cancel, retry, resume, SSE stream | database, then Temporal |
| Callback API, `backend/app/callback_api.py` | `callback_wait` | `receive_callback`, `_reject`, `_expire` | database, then a signal |
| Temporal and the worker process, `backend/temporal_worker.py` | executions, activity tasks, timers | dispatch, retry, timeout, signal, cancel | everything above |
| Node handlers, `backend/app/nodes/catalog` | none of their own | `execute` | partners over HTTP, run variables |
| Validator, `backend/app/workflow/validator.py` | none | `validate_flow` | publish |
| Flow lifecycle, `group_api.py:455-638` | draft with `row_version`, versions, status | save, publish, roll back, status | validator |
| Schedules, `group_api.py:675-702, 981-1084`, `scheduling.py` | `flow_schedule`, Temporal schedules | create, update, delete, trigger | database and Temporal, one after the other |
| Run variables and templates, `run_variables.py`, `template_resolver.py` | `flow_run_variable` | REPLACE, MERGE, APPEND, INCREMENT | handlers |
| Credentials and key ring, `backend/app/security` | credentials and their revisions | create, rotate, delete, resolve, re-encrypt | handlers, callback API |
| Events and SSE, `events.py`, `group_api.py:740-795`, `RunPage.tsx` | `flow_event`, the reader's cursor | emit, stream | frontend |
| Sessions and permissions, `security/auth.py`, `permissions.py` | sessions, failed logins per client | login, logout, role checks | API |
| Node registry, `backend/app/nodes` | registry built at start | load, audit | worker, API |
| Frontend, `frontend/src` | designer history, page state | edit, save, watch | API |
| Seed, migrations, demo partner | none | setup | database |

What is hard here:

* **Order.** The interpreter visits nodes in the order of their ids, in passes,
  and has to find the order of the graph in that.
* **Two owners of one run.** Temporal decides what happens, the rows say what
  has happened; activities, API handlers and late attempts write the rows.
* **Commit, then call.** Every API handler commits first and calls Temporal
  afterwards; the call can be lost, and nothing sends it again.
* **At least once.** An activity whose answer is lost runs again over rows it has
  already written; an attempt past its timeout cannot be stopped.
* **Several editors.** Handlers read a flow, check it and write it back without
  a lock, in parallel.
* **Waiting.** Approvals and callbacks race with expiry, cancellation and
  decisions that come early, late or twice.
* **Two keepers of one schedule.** A change of a schedule is a committed row and up
  to two calls to Temporal after it, and two changes may overlap there.
* **Objects loaded before the lock.** A session keeps the rows it has loaded; a lock
  taken later does not refresh them.
* **Threads over one list.** Logins of one client run in parallel threads and share
  the list of its failures, which each tests, looks at and shortens in steps.
* **Retries without an end.** An activity that looks up what is missing or disabled
  raises at every attempt, and Temporal goes on trying.
* **Ids before commits.** Events are numbered when they are flushed and seen when
  they are committed; a reader that only moves forward can pass one by.
* **A change that spans processes.** API, worker and script read the key ring when
  they start, and requests go on while the operator changes it.

`PROJECT.json` lists the hazards, each at its line, with the properties that
guard it, or why none does yet.

What makes each component correct: the interpreter runs a node after everything
upstream, exactly when a branch leads there, settles it once and ends; the rows
never show a node before its upstream, a success that is not complete, or a waiting
run without a waiting node; a callback completes its node exactly when it was
accepted; a decided task and its node agree; a run comes to rest unless somebody it
waits for never answers, or an activity looks in vain for an approval group, a
credential or a schedule. Temporal keeps for each row the schedule it asks for, and
one only. A variable holds what its writes make of it one after the other. A client
cannot fail to log in much oftener than the limit. The page ends by showing the run.
Every revision of a credential can be read by API and worker. A member keeps no role
that a change took away.

## 2. Modules

| Module | Holds |
|---|---|
| `FlowGraph` | a flow as nodes, types and edges; what the validator demands; what the interpreter asks of a graph |
| `GenericFlowWorkflow` | the workflow: one action per stretch between two awaits |
| `FlowPromise` | the abstract specification of a walk: due nodes finish or are skipped in any order |
| `FlowWorkflowProperties` | properties of the walk, the refinement, fairness |
| `FlowWorkflowProofs` | the inductive invariant and the theorems about the walk |
| `RunProjection` | the whole run: workflow, activities, rows, API, Temporal, failures |
| `RunProjectionProperties` | what rows and callers may rely on |
| `RunProjectionProofs` | every run is a walk; what rows and callers may rely on, proved |
| `FlowLifecycle` | draft, revision, versions, status and credentials of one flow, and the designers that change them |
| `VersionHistory` | the abstract specification of published versions: a history that only grows |
| `FlowLifecycleProperties` | what editors and auditors may rely on, the refinement |
| `FlowLifecycleProofs` | its inductive invariant and theorems |
| `ScheduleSync` | the schedules of a flow: rows, what Temporal keeps for them, and the runs they start |
| `RunVariables` | one variable of a run and the attempts that write it |
| `RunPage` | events of a run, the stream of them, and the page that listens |
| `KeyRing` | credentials, their encrypted revisions, and the change of the key |
| `Access` | the login throttle, and the roles of a member |
| `ScheduleSyncProofs`, `RunVariablesProofs`, `RunPageProofs`, `KeyRingProofs`, `AccessProofs` | their invariants and theorems |
| `MCFlows` and the other modules named `MC...` | instances for TLC |

`RunProjection` extends `GenericFlowWorkflow` and conjoins its actions: an
activity's action writes the rows and, if the workflow hears the answer, takes
the workflow's step. `FlowPromise` is instantiated by `FlowWorkflowProperties`,
with `cancelled <- cancel # "none"`. The modules from `ScheduleSync` on stand each
for itself: they share no variable with the run, and hold their own properties.

### The workflow

The coroutine is single threaded, so its state changes only between two awaits.
`pc` is the await it is suspended at, named after the activity, or `scan` inside
the loop, `wait_signal` at a `wait_condition` and `sleep` at a timer. A node is
a number, its rank in `sorted(nodes)`; `node` is the loop's `node_id`.
`continue` statements change nothing, so `SkipNode` and `StartNode` jump to the
next node that is pending with its upstream done (`Ahead`, `NextStop`). `branch`
is all the model keeps of `outputs`: only a condition's `branch` decides
anything. Types without a rule of their own (result, delay, requests, variables,
plugins) are `"task"`. A signal overwrites an earlier one for the same node, and
stays until a wait takes it. Cancellation is delivered once, at an await: at an
activity of `_execute_node` it is caught by `except Exception` and the node is
marked failed; elsewhere it ends the execution.

### The run

One variable per row column that any guard or property reads. RUNNING of a node is
written and overwritten in one transaction, so no committed row shows it, and the
model has no such value. `execute_node_activity` flushes before it calls the
handler; from then to its commit it holds the node's row, so `EnterHandler` and
the commit are two actions and other activities of that node wait for the lock.
All other activities and API handlers are one action each, at their commit. An
attempt is `current` while Temporal waits for it; one that has timed out, or whose
await was cancelled, is still in `working` and may commit later. Only
`execute_node_activity` has a limit on attempts (`MaxTries`); the others are
repeated for ever, and `Dispatch` numbers their attempts only to tell the one it sends
from those still at work. `calls` are the Temporal calls of handlers that have
committed; they arrive in any order, or are lost.

Three activities look something up before they create anything, and raise when it is
missing or disabled: the schedule of a scheduled run, the approval group of a manual
node, the credential of a callback node. `missing` holds what they would not find, the
schedule as 0 and the others as their node. Publishing checks neither groups nor
whether a credential is enabled, so `missing` is any set of nodes when the run starts;
the schedule has just fired. `CreateApprovalGroup`, `SwitchCredential` and
`SwitchSchedule` change it at any time. An activity that raises rolls its transaction
back and is dispatched again (`Raises`).

### The life of a flow

`flow` is the row of `flow_definition`, `versions` the rows of `flow_version`,
`credentials` the aliases of a flow's credentials. The handlers are plain functions
that FastAPI runs in parallel threads, with a session each, so each is two
actions: `UpdateDraft`, `PublishFlow` and so on read the flow and pass the checks,
`CommitDraft`, `CommitPublish` and so on write. The first remembers the row it
has read (`seen`); what is written is computed from that, and only the columns
that differ from it are in the UPDATE (`Updated`). All that a handler reads is
read in one action. The content of a draft is a model value; `Sound` are the
contents that `validate_flow` and the schema checks accept and `Uses` the
credentials a content refers to. `editor` is what a designer holds: the server's
draft it started from (`base`) and `row_version`. An answer to a save or a status
change is read again after the commit, and `setFlow` takes its revision over
while the nodes on show stay, which `TakeAnswer` does. `raced` and `blind` are
histories that no action reads: a commit came after its row had changed since it
was read; a designer took over a revision whose draft it does not show.

### Schedules

`row` holds `flow_schedule`, `temporal` the schedules Temporal keeps. The handlers
are coroutines of one event loop: each reads, checks and commits without an await,
and then awaits its Temporal calls. So a handler is one action up to its commit
(`CreateSchedule`, `RecreateSchedule`, `SwitchSchedule`, `DeleteSchedule`), which
leaves what it still has to call in `calls`, and `CallTemporal` makes one call at a
time. `RecreateSchedule` is `update_schedule` when the signature changes: a new id,
a deletion and a creation; `SwitchSchedule` is the same handler when only `enabled`
changes. `_delete_temporal_schedule` swallows errors, all other calls end their
handler (`CallFails`). A timing stands for cron expression, time zone, name and
input; ids are never given twice. `Fire` starts an execution, and `ScheduledRun` is
its first activity, which fails without limit until the row is enabled.
`ScheduledRunLost` commits a run and loses the answer. `failed` and `overlapped` are
histories: ids a call for which has failed, or was never made because the one before
it failed; schedules changed while calls for them were due.

### Run variables

An attempt passes `new`, `dispatched`, `loaded` (the session has read the run with
its variables), `entered` (the flush has locked the node's row, and the event holds
a key share of the run's) and `over`. `copy` is the variable as its session holds
it: a variable once loaded is not read again, not by the query that locks it, and a
value that has not changed is not written (`Stored`). A value is its type and how
often each node has contributed to it, which is all the modes tell apart: REPLACE
forgets the others, MERGE counts a node once, APPEND and INCREMENT count again. `FOR
UPDATE` on the run's row waits for every attempt that has entered (`OwnsRun`); two
of them wait for each other, and the database ends one (`Deadlock`).
`CommitUnanswered` is a commit whose answer is lost or whose attempt fails after it.
`serial` is a history: the variable, had each committed write seen the one before.

### The run page

A transaction takes ids when it flushes (`Insert`) and its events and its change of
the run become visible together (`Commit`). `cursor` is the server's position in a
connection, `inbox` the events the page has not handled; each starts a request
(`asked`), which `Answer` reads and `Show` brings in, in any order. When the status on
show changes, the page closes its source and opens another from 0, or none when the
run is over (`Reconnect`); an error closes it for good and refreshes once (`Break`,
`RefreshAfterError`). `CANCELLED` stands for FAILED too: both end the page's source,
and both can be overwritten by what was under way. Only events of the run's group are
modelled, as the stream sends no other.

### The key ring

A process reads `environment` into its `ring` when it starts (`Restart`, which also
kills the requests, and the script that runs in the container of the API). A request
that creates or rotates a credential reads the current revision and the active key
(`BeginRevision`), writes rows under the unique key (`FlushRevision`) and commits. The
script finds the revisions that are committed when its query starts
(`SelectRevisions`), waits for those locked, and re-encrypts them in one transaction
(`Reencrypt`). The operator follows `README.md:241`: adds the key, runs the script,
restarts both processes with the same ring, removes the old key; when the new key
becomes active is left open, as it is there.

### Access

`attempts` is the deque of one client. `login` is a plain function that FastAPI runs
in parallel threads, and each step of `_check_rate_limit` that touches the deque is
an action: the test that it is not empty (`TestForAttempts`), the look at its first
element (`LookAtFirst`), `PopLeft`, and the count (`CountAttempts`). A look or a pop
at a deque that another thread has emptied is an IndexError, which ends the login.
The time is read once before the loop (`Begin`, `since`), and again when the
password was wrong, just before it is added (`LoginFails`, `AddAttempt`), so the
deque need not be in order. A thread that has seen an old failure pops the first one
whichever it is by then, and so may drop one that still counts. `failures` are all
failures since a success or a restart, `early` those dropped so, `overtaken` the
threads about to pop in whose place another has popped; these are histories.

`rows` are those of one member in
`group_member`, each with the number of the change that put it there. A change of the
roles reads them, deletes what it has read (waiting for rows that another has deleted)
and inserts; a deletion does not see rows committed after it started, and an insertion
of a role that is there fails on the unique key (`Refuse`).

In all modules, an operator under a comment "wrong variant" is a deliberately broken
form of the one that follows it. No specification uses it: it is there to show that
a property fails when the code is wrong in that way.

## 3. Runs

| Run | Question | Bounds |
|---|---|---|
| `flow_walks` | does the interpreter walk any graph as it should? | all valid flows of 2 to 4 nodes in every numbering, the cyclic ones of 3 and 4, flows of 5 and 6 nodes with waits and polls; `MaxPolls = 2`, one decision |
| `run_rows` | do the rows tell the truth? | four flows, every move and fault, any of what activities look up missing, two faults in one behaviour, one cancellation, `MaxPolls = MaxAttempts = 2` |
| `run_liveness` | does a run come to rest, does an accepted callback resume it? | the same flows, crashes, lost answers, expiry, anything missing or switched, two faults, two decisions |
| `lifecycle` | do draft, versions, status and credentials agree? | two designers with one request each, three contents (one uses a credential, one is unsound), one credential, two versions, `row_version` up to 3 |
| `schedules` | does Temporal keep what a row asks for? | one schedule, two timings, two handlers, three ids, two executions, one fault |
| `variables` | do the writes of a variable add up? | every plan of two writes in all modes and types, and three increments; two tries, two faults |
| `run_page` | what does the stream skip, and does the page come to show the run? | two transactions, three events, one fault |
| `key_ring` | can every revision be read while the key changes? | two credentials, two requests, two revisions each, the script any number of times |
| `access` | how often can a client fail, how many failures are dropped by mistake, what is left of a member's roles? | three logins, two attempts, a window of 1 and times up to 2; two roles, two requests, three changes; logins or changes, never both at a time (`OneHalf`) |
| `lost_callback` | does an accepted callback resume its run? | `start -> callback -> end`, one lost call |
| `lost_save` | can a save replace a draft its editor has not seen? | as `lifecycle` |
| `paused_trigger` | does a paused flow start nothing on schedule? | one schedule, one handler, no fault |

Why the bounds are enough. With four nodes a graph already has joins, diamonds, a
condition inside a condition's branch, and ids that contradict the order of the
graph; the six-node flow adds a join that needs a further pass behind two waits. The
theorems of section 4 need no such bound. Two polls and two attempts give a first, a
last and an exhausted one. Two faults allow a repeated attempt to be lost again, or
an overrun attempt to meet a crash of its successor. `MaxFaults` bounds the faults,
and `CancelRun` happens once. Credentials and schedules are switched only while it
matters: until the wait exists, or while the run is being created. `Dispatch` gives
an unlimited attempt a number that none at work has, of which `MaxFaults + 2` are
enough: each fault and the cancellation leave at most one attempt behind. These are
the only bounds in the guards of the run. `MaxVersions` and `MaxRevision` are those
of the lifecycle: two versions are enough for two requests to claim one number,
three revisions for one to be stale by two. A second request of one designer (Ctrl+S
pressed twice) behaves like that of another designer with the same base. For
schedules, three ids let a row be recreated twice, by handlers that overlap or not;
schedules do not touch each other, which the proofs use without a bound. `MaxFires`
of two gives one execution that is answered and one that is not. Two writes of a
variable meet every pair of modes and types, and two tries with two faults let an
overrun attempt meet its successor and that one fail. Three events are the least for
one to be overtaken and another to come after. Two revisions are enough for two
requests to claim one number, and two credentials for the script to cover one and
miss the other. The code allows 5 failed logins; with two, logins already pass the
limit together, and three threads are the least of which two pop by mistake after
the third. `FailuresBounded` and `EarlyPopsBounded` are stated in the constants. The
throttle and the roles share no variable and no property, so one rests while the
other runs (`OneHalf`). Three changes let one that began before two others end after
them. `SYMMETRY` in `access` exchanges logins, changes and roles, of which nothing
but equality is asked. Deadlock is not checked: a closed workflow, or one that waits
for an operator, rightly has nothing to do, and so has a model that has used up its
bounds.

`run_rows` and `run_liveness` differ in fairness and moves. Cancellation, early
decisions, overruns and lost calls are left out of `run_liveness` because under
them the liveness properties do not hold: a cancelled run need not settle, an
overrun attempt may overwrite the run's last row, and a lost call is not repeated
(`lost_callback`).

**Fairness.** `WfFairSpec` assumes weak fairness of the coroutine, of activity
answers, of timers and of the delivery of a cancellation: Temporal drives an open
execution on, and retries activities until they answer or have used their attempts.
`FairSpec` assumes the same of the composition, through `Workers`, and that a call
of an API handler is sent, and that a run is created. It assumes nothing of those
who create groups and switch credentials and schedules. `FairScheduleSpec`, which
only `paused_trigger` uses, assumes that the event loop resumes each handler whose
call has ended, and that a worker tries the activity of an execution again and
again, as Temporal does without a limit on attempts. `FairPageSpec` assumes that the
server polls, that requests are answered and shown, and that no transaction stays
open; it assumes neither that events come nor that a connection or request fails.
Nothing is assumed of operators, partners or failures; where somebody must answer,
the property says so (`EndsUnlessWaiting`, `RunSettles`).

### What the passing runs check

* `UpstreamFirst`, `BranchesRespected`, `SettledIsFinal`: the walk's order and
  choices, read off the edges and not off the interpreter's own operators.
* `NeverStuck`, `CycleNeverSucceeds`, `SuccessHasOutput`: how a walk may end.
* `KeepsPromise`: refinement of `FlowPromise`. `EndsUnlessWaiting`: termination.
* `UpstreamRowsFirst`, `RowAgreesWithResult`, `SkippedNeverRuns`,
  `RunWaitsForSomeNode`: the rows. The first two except behaviours in which an
  attempt overran its timeout: a late commit really can make the rows disagree with
  the run. `RowAgreesWithResult` also excepts, for the result, runs whose
  cancellation the row took.
* `OnlyAcceptedCallbackCompletes`, `ApprovedTaskIsDecided`: rows against the people
  and partners they stand for. The second is checked without early decisions, which
  do break it.
* `RunSettles`: a run comes to rest at SUCCESS or FAILED, or waits for good for
  somebody who does not answer, or is refused again and again by an activity that
  looks in vain for a group, a credential or a schedule (`Refused`); nothing else
  keeps it open, whatever crashes and is lost. `CallbackResumesUnlessRepeated`: an
  accepted callback resumes its run, unless its wait was created twice.
* `CurrentIsLatest`, `KeepsHistory`: versions against the counter, under every race:
  the unique key on the number is what makes them hold.
* `CredentialsKept`, `LockedSave`: what holds only as long as no commit comes after
  its row has changed. Neither handler locks the row, so a race can break both.
* `InSyncWhenQuiet`, `OneClock`: as long as no call has failed and no handlers have
  overlapped, Temporal keeps exactly what the row asks for once the calls are made,
  and never two schedules for a row. `RowKeepsItsSchedule` holds also when handlers
  overlap and after calls have failed: what they leave behind is extra, and the
  row's own schedule stays, because they delete only ids the row has given up.
  Excepted is a row for whose present id a call failed; an update that recreates the
  schedule makes good what failed before.
* `SerialUnlessOverrun`: no committed write of a variable is lost, across crashes
  and retries, until an attempt outlives its timeout. `EachNodeCountsOnce`: if no
  write was committed unanswered either, a run that succeeds counts each node once,
  in order.
* `SkippedWasOvertaken`: a connection passes by only those events that were
  committed after one with a higher id. `PageFollowsRun`: the page ends by showing
  the run as it is, or for one of the reasons listed there, each of which the code
  allows.
* `RevisionsInOrder`: overlapping rotations leave no gap and no stale current
  revision. `RevisionsReadable`: while API and worker work with the same ring, both
  can decrypt every revision, except those committed after the script's query.
* `FailuresBounded`: within the window a client fails at most `MaxAttempts - 1`
  times and once for each login at work, not counting the failures that threads have
  dropped by mistake. `EarlyPopsBounded`: how many these are. A failure that still
  counts is popped only by a thread that has seen an old one, which another has
  popped or cleared since; so each pop of an old one and each success make room for
  at most one mistake of every other thread.
* `OldRolesAreGone`: an answered PATCH or DELETE has taken away every role the
  member had when it began.
* One type invariant per specification. `TypeOK` holds the limit on polls;
  `ProjectionTypeOK` that a node's polls and retries multiply at most, and that
  every lost run row is paid for by a fault; `KeyRingTypeOK` that a process holds
  its active key; `AccessTypeOK` that no role is there twice.

### What the violation runs show

1. `lost_callback`: the callback is committed before the workflow is signalled,
   and a resend is answered from the row. One lost signal and the run waits for
   ever, though the partner was told 202 and may resend safely.
2. `lost_save`: two saves read the same revision, both pass the comparison, and
   the second overwrites the first; both editors are told that all is well.
3. `paused_trigger`: the activity that creates a scheduled run reads the schedule's
   row and not the flow's status, so a paused flow goes on running.

Other behaviours of the code that the models contain, and that their properties have
to except:

* `create_callback_wait_activity` cannot be repeated: after a lost answer every
  attempt breaks `uq_callback_wait_attempt`, without a limit.
* An activity that looks up an approval group, a credential or a schedule that is
  missing or disabled raises at every attempt, without a limit, and nothing marks
  the run.
* Threads of parallel logins can drop failures that still count, so a client may
  fail oftener within five minutes than the limit and its parallel logins allow
  (`backend/app/security/auth.py:51-52`).
* `create_scheduled_run_activity` inserts a run at every attempt that commits; a
  lost answer leaves a run that no workflow owns, which `orphans` counts.
* Expiry is written by a late callback and marks the run FAILED; the workflow waits
  on. After a cancellation an approval's node stays WAITING. A cancellation during a
  poll request is taken for a failure of the node.
* A decision sent before the task exists completes the node over a PENDING task.
* Retries and polls multiply, so `maxPolls` does not bound the requests
  (`README.md:361`).
* An attempt that overran and its successor may both add to the value they have
  loaded; two committed increments then count once (`README.md:365`).
* Two updates of a schedule that overlap leave a Temporal schedule that belongs to
  no row and fires for it. `next_run_at` is not advanced when a schedule fires
  (`README.md:94`); the models leave this column out.
* After an error the run page opens a source again only when the status it shows
  changes. An older answer may replace a newer one.
* `README.md:247` does not say when the new key becomes active. A revision committed
  under the old key after the script's query is unreadable once that key is removed.

## 4. Proofs

`FlowWorkflowProofs` proves, for every set of flows whose edges join their own
nodes, every `MaxPolls` and every set of decisions, that the workflow keeps
`TypeOK`, `UpstreamFirst`, `BranchesRespected`, `NeverStuck`,
`SuccessHasOutput`, `CycleNeverSucceeds`, `SettledIsFinal` and refines
`FlowPromise`. The assumptions are the named ones of the modules: nodes are
positive numbers, flows are flows, `MaxPolls` is at least one, `"none"` is no
decision.

The inductive invariant is `Inv`, of four parts. `TypeOK` alone is not inductive
in what it says of polls. `CoroutineInv` says, for each await, what must be true
there: the node being worked on is pending, its upstream done and an edge live,
so that its success keeps the order. `SettledInv` gives the reason why each
settled node settled; because what is upstream of a node that settles is settled
and does not change, the reason stays true (`SettleKeepsOthers`). `OrderInv` says
that every set of settled nodes has one without an edge from inside the set, and
one without an edge to inside it: settling after one's upstream closes no cycle
(`SettleKeepsOrder`). From it follows that a graph with a cycle never succeeds;
and its counterpart for the pending nodes, given by `Acyclic`, that the scan
always finds a node when there is no cycle (`StuckOnlyOnCycle`). `Acyclic` is
stated by such sets because induction along a path is out of the provers' reach.

`RunProjectionProofs` proves `Spec => WfSpec`: whatever attempts, callers and
failures do, the workflow in a run takes only steps of its own, so each theorem
above holds of the composition; `RunKeepsOrder` and `RunKeepsPromise` say so for
two. For this `CallsInv` is enough: a signal on its way names a node of the run's
flow. It then proves every safety property of the runs `run_rows` and
`run_liveness`, for every set of flows, all bounds and any faults. The assumptions
are those of `RunProjection`; `TaskAssumption` says that a decision is none of the
other states of a task (`group_api.py:855`), without which a task that was decided
could not be told from one that was not. The argument goes in this order.

* `RunInv` joins the invariant of the walk, `CallsInv` and four parts. `StandInv`: a
  node is begun once everything upstream is done, and then it is not skipped.
  `RunTypes`. `AttemptInv`: the awaited attempt answers the workflow's await, and
  whatever else executes was dispatched for a node that had begun or was skipped;
  what is true of a node once it has begun stays true (`WalkForward`,
  `UpstreamStaysDone`), so it is true when a straggler commits. `RowsInv`: only
  begun nodes have been touched. `SkippedNeverRuns` and `RunWaitsForSomeNode`
  follow, after crashes, overruns and cancellations.
* An answer passes from the handler that accepts it through a call on its way, the
  workflow's inbox and the workflow to an attempt that completes the wait (`Heard`).
  Nothing else puts it there (`HeardFromApi`), and what the handler wrote stays
  (`EvidenceStays`). `ReceivedInv` says so for callbacks, `DecidedInv` for decisions
  and gives `OnlyAcceptedCallbackCompletes` and `ApprovedTaskIsDecided`, the latter
  where no decision is sent before the node waits (`"early_resume" \notin Moves`);
  with it the property is false.
* The bounds in `ProjectionTypeOK`. `OrphanInv`: each run row without a workflow,
  those still to be committed (`Stray`) included, is paid for by a lost answer or a
  timeout. `BudgetInv`: the requests of a node, with those about to be sent, stay
  within what its polls so far and the tries of this one allow (`Allowed`). The
  polls permitted and the tries of each multiply, except at the last poll, which
  does not ask for another (`Budget`).
* Without an overrun (`NoOverrun`) only a cancelled await leaves an attempt at work,
  and it works on the node the workflow stands at (`AtWorkInv`). So the rows
  upstream of a begun node are in (`LandedInv`), which is `UpstreamRowsFirst`; and
  the last commit is the workflow's own (`ResultInv`), which is
  `RowAgreesWithResult`.
* With what is proved of the walk, a reader of the run row can rely on the whole of
  it: where the row says SUCCESS the graph has no cycle, and the row of some End
  node says SUCCESS if the flow is valid (`SuccessRowsHaveOutput`).

`FlowLifecycleProofs` proves all properties of the run `lifecycle` for any
number of designers, contents, credentials and any bounds, from
`LifecycleAssumption` alone, and that an active flow has a version
(`ActiveFlowsRunnable`). `HistoryInv` joins `CurrentIsLatest` and
`ActiveIsPublished` to what stays true of a request between its checks and its
commit (`RequestHolds`): it has seen no version number above the current one, a
content it will publish is sound, an alias it will delete is in no version it has
seen. A number that is still free is therefore the next one (`NextNumber`), and
adding a version is appending (`AddingAppends`). `UnracedInv` says what holds
without a race: revisions only grow, so a revision names one draft and a row that
has changed never looks again as some request saw it; the two conditional
properties follow.

`ScheduleSyncProofs` proves the three safety properties of schedules for any number
of schedules, timings and handlers. `ShapeInv` says that a handler owes nothing, one
call, or a deletion and a creation for the same row, under ids given to that row.
`KeptInv` says that no handler is about to delete the id of a row that is there, and
that the row's own schedule is kept or about to be created, unless that call failed;
ids are not given twice, so what was given up never becomes a row's id again.
`SyncInv` is about rows whose calls neither failed nor overlapped: Temporal agrees
with the row and nobody owes it a call, or one handler does, and its remaining calls
make them agree (`Pending`).

`RunVariablesProofs` proves `SerialUnlessOverrun` and `EachNodeCountsOnce` for every
plan. `WorkInv`: until an attempt overruns, only the awaited one is at work, what it
has loaded is the variable, and the variable is the serial one. `CountInv`: until a
write is repeated, the node Temporal waits for finds what the nodes before it leave
(`AfterNodes`); by `NodeAfterNodes` its own write leaves what the next one must
find.

`RunPageProofs` proves `SkippedWasOvertaken` for any number of transactions and
events. `StreamInv` adds that an id belongs to one transaction until it is committed,
once (`IdsInv`), and that a connection stands at an event that is committed
(`CursorInv`). An id that is given after that event was sent is higher; so one that is
skipped was open when it was sent, and commits later.

`KeyRingProofs` proves `RevisionsInOrder` from `CountInv` (a request that has flushed
holds the next number, alone) and `RevisionsReadable` from three more: `StageInv`,
which rings may be at work at each stage; `OldInv`, that nothing is encrypted under
the new key before the API knows it; `CoveredInv`, that what the script has covered is
under the new key.

`AccessProofs` proves `OldRolesAreGone` by `RolesInv`: whatever row was committed
before a change began, that change has seen. `AccessTypeOK` adds the unique key
(`OncePerRole`). For the throttle, `DequeInv` says that the deque is the end of the
history, and that what left it is old or was dropped by mistake. `ThrottleInv`
counts each login that has passed the check as a failure already; as a login passes
only while there is room, however many pass beside it, this gives `FailuresBounded`.
`PoppersInv` says that a thread about to pop that is not `overtaken` would pop the
old failure it has seen, and `MistakesInv` that the mistakes made and those still to
come are no more than there was occasion for: a pop of an old failure makes the
other threads about to pop overtaken, and a mistake uses one of them up. That is
`EarlyPopsBounded`. That the number of logins at work is finite is an assumption:
the API's threads are.

All safety properties of the passing runs are proved. Only model-checked are the
liveness properties (`EndsUnlessWaiting`, `RunSettles`,
`CallbackResumesUnlessRepeated`, `PageFollowsRun`), which rest on fairness and are
out of the provers' reach; and `FlowGraph` states what the validator's queue decides
(`Acyclic`) without its loop, which would take an induction along the queue.

## 5. Not modelled, and the plan

Left out for good: what handlers compute, templates, JSON Schemas, ciphers, HTML and
layout, the seed, migrations and the registry, none of which has steps that
interleave. The queue of zero in-degree nodes and the search from the start in the
validator run to their end on local data and are reached by unit tests; `FlowGraph`
states what they decide. `rerun_run` starts a run as `create_run` does, `retry_node`
always refuses, rejected callbacks only write an event. Of what `update_credential`
changes, `enabled` is in `RunProjection`; `allowed_origins` is read by single
checks. A session is one row, read by each request and deleted by a logout. The
designer's undo history lives in one thread. Rows of `node_run_attempt` repeat what
`node_run` says.

What remains to be built:

* `ScheduleSync` composed with `FlowLifecycle`: the status that triggers should obey,
  with `create_run` and `rerun_run` beside the schedule.
