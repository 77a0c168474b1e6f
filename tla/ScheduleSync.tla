---------------------------- MODULE ScheduleSync ----------------------------
(***************************************************************************)
(* The schedules of one flow: the rows of flow_schedule, the schedules that *)
(* Temporal keeps for them, and the runs they start.                       *)
(*                                                                         *)
(* create_schedule, update_schedule and delete_schedule (group_api.py) are  *)
(* coroutines of one event loop.  Each reads, checks and commits without an *)
(* await and then awaits its Temporal calls one by one, so handlers         *)
(* interleave after their commits only.  The status of the flow is changed  *)
(* by a handler in a thread of its own.                                    *)
(*                                                                         *)
(* A Temporal schedule starts a workflow execution whose first activity,    *)
(* create_scheduled_run_activity, reads the row and inserts the run.        *)
(*                                                                         *)
(* A timing stands for all that recreates the Temporal schedule: cron       *)
(* expression, time zone, name and input.  A change of the version alone is *)
(* no such change, since flow_version_id is only set by the flush.          *)
(***************************************************************************)
EXTENDS Integers, Sequences, FiniteSets

CONSTANTS
  Schedule,        \* ids of schedules, each used for one row at most
  Timing,          \* what a schedule may ask for
  Handler,         \* requests the API serves at the same time
  MaxIds,          \* bound on ids given to Temporal schedules
  MaxFires,        \* bound on workflow executions
  MaxFaults        \* bound on failed calls and lost answers

ASSUME ScheduleAssumption ==
  MaxIds \in Nat /\ MaxFires \in Nat /\ MaxFaults \in Nat

VARIABLES
  flowStatus,      \* flow_definition.status
  row,             \* flow_schedule, by id
  temporal,        \* the schedules Temporal keeps
  calls,           \* the Temporal calls each handler has still to make
  lastId,          \* ids given so far
  fired,           \* the workflow executions started by schedules, in order
  faults,          \* failed calls and lost answers so far
  failed,          \* history: ids a call for which has failed or was dropped
  overlapped       \* history: schedules changed while calls for them were due

scheduleVars ==
  <<flowStatus, row, temporal, calls, lastId, fired, faults, failed, overlapped>>

Present == {"enabled", "disabled"}

(* temporal_schedule_id is made from names and the time and is never given *)
(* twice: here, the row's id and a number.                                 *)
Id == Schedule \X Nat

Row == [state : Present \cup {"none", "deleted"}, timing : Timing, id : Id]

TemporalSchedule ==
  [id : Id, schedule : Schedule, timing : Timing, paused : BOOLEAN]

Call == [do : {"create", "delete", "switch"}, what : TemporalSchedule]

Execution ==
  [schedule : Schedule, asking : BOOLEAN, runs : Nat]

ScheduleInit ==
  /\ flowStatus = "ACTIVE"
  /\ \E t \in Timing :
       row = [s \in Schedule |-> [state |-> "none", timing |-> t, id |-> <<s, 0>>]]
  /\ temporal = {}
  /\ calls = [h \in Handler |-> <<>>]
  /\ lastId = 0
  /\ fired = <<>>
  /\ faults = 0
  /\ failed = {}
  /\ overlapped = {}

-----------------------------------------------------------------------------
(* The API. *)

Due(s) == \E h \in Handler : calls[h] # <<>> /\ Head(calls[h]).what.schedule = s

(* The Temporal schedule a row asks for. *)
Asked(s, r) ==
  [id |-> r.id, schedule |-> s, timing |-> r.timing,
   paused |-> r.state = "disabled"]

(* wrong variant: a new schedule starts in no particular state *)
CreateStateless(s, r) ==
  [do |-> "create", what |-> [id |-> r.id, schedule |-> s, timing |-> r.timing]]

Create(s, r) == [do |-> "create", what |-> Asked(s, r)]

Delete(s, r) == [do |-> "delete", what |-> Asked(s, r)]

Switch(s, r) == [do |-> "switch", what |-> Asked(s, r)]

Commit(h, s, r, due) ==
  /\ calls[h] = <<>>
  /\ row' = [row EXCEPT ![s] = r]
  /\ calls' = [calls EXCEPT ![h] = due]
  /\ overlapped' = IF Due(s) THEN overlapped \cup {s} ELSE overlapped
  /\ UNCHANGED <<flowStatus, temporal, fired, faults, failed>>

NewId == lastId < MaxIds /\ lastId' = lastId + 1

CreateSchedule(h, s, t, state) ==
  /\ row[s].state = "none"
  /\ NewId
  /\ LET r == [state |-> state, timing |-> t, id |-> <<s, lastId + 1>>]
     IN Commit(h, s, r, <<Create(s, r)>>)

(* wrong variant: the new schedule is created before the old one goes *)
RecreateCreatingFirst(h, s, t, state) ==
  /\ row[s].state \in Present
  /\ t # row[s].timing
  /\ NewId
  /\ LET r == [state |-> state, timing |-> t, id |-> <<s, lastId + 1>>]
     IN Commit(h, s, r, <<Create(s, r), Delete(s, row[s])>>)

(* update_schedule with another signature: a new id, and the new schedule   *)
(* is created when the old one has been deleted.                           *)
RecreateSchedule(h, s, t, state) ==
  /\ row[s].state \in Present
  /\ t # row[s].timing
  /\ NewId
  /\ LET r == [state |-> state, timing |-> t, id |-> <<s, lastId + 1>>]
     IN Commit(h, s, r, <<Delete(s, row[s]), Create(s, r)>>)

(* wrong variant: enabled changes in the row only *)
SwitchRowOnly(h, s, state) ==
  /\ row[s].state \in Present
  /\ state # row[s].state
  /\ Commit(h, s, [row[s] EXCEPT !.state = state], <<>>)
  /\ UNCHANGED lastId

(* update_schedule with the same signature and another enabled.            *)
SwitchSchedule(h, s, state) ==
  /\ row[s].state \in Present
  /\ state # row[s].state
  /\ LET r == [row[s] EXCEPT !.state = state]
     IN Commit(h, s, r, <<Switch(s, r)>>)
  /\ UNCHANGED lastId

DeleteSchedule(h, s) ==
  /\ row[s].state \in Present
  /\ Commit(h, s, [row[s] EXCEPT !.state = "deleted"], <<Delete(s, row[s])>>)
  /\ UNCHANGED lastId

UpdateFlowStatus ==
  /\ \E st \in {"ACTIVE", "PAUSED"} \ {flowStatus} : flowStatus' = st
  /\ UNCHANGED <<row, temporal, calls, lastId, fired, faults, failed, overlapped>>

-----------------------------------------------------------------------------
(* Temporal. *)

Known(id) == \E t \in temporal : t.id = id

Without(id) == {t \in temporal : t.id # id}

Effect(c) ==
  CASE c.do = "create" -> temporal \cup {c.what}
    [] c.do = "delete" -> Without(c.what.id)
    [] c.do = "switch" ->
         {IF t.id = c.what.id THEN [t EXCEPT !.paused = c.what.paused] ELSE t :
            t \in temporal}

(* wrong variant: a deletion that finds nothing ends the handler *)
CallTemporalOrStop(h) ==
  /\ calls[h] # <<>>
  /\ LET c == Head(calls[h])
         gone == c.do # "create" /\ ~Known(c.what.id)
     IN /\ temporal' = Effect(c)
        /\ calls' = [calls EXCEPT ![h] = IF gone THEN <<>> ELSE Tail(@)]
  /\ UNCHANGED <<flowStatus, row, lastId, fired, faults, failed, overlapped>>

(* Deleting what Temporal does not know is an error nobody hears of;       *)
(* pausing it ends the handler.                                            *)
CallTemporal(h) ==
  /\ calls[h] # <<>>
  /\ LET c == Head(calls[h])
         ok == c.do = "switch" => Known(c.what.id)
     IN /\ temporal' = Effect(c)
        /\ failed' = IF ok THEN failed ELSE failed \cup {c.what.id}
  /\ calls' = [calls EXCEPT ![h] = Tail(@)]
  /\ UNCHANGED <<flowStatus, row, lastId, fired, faults, overlapped>>

(* A call fails, before or after it has done its work, or the process dies. *)
(* Only _delete_temporal_schedule goes on, and not when it cannot connect. *)
CallFails(h) ==
  /\ calls[h] # <<>> /\ faults < MaxFaults
  /\ faults' = faults + 1
  /\ LET c == Head(calls[h])
     IN /\ temporal' \in {temporal, Effect(c)}
        /\ \/ /\ calls' = [calls EXCEPT ![h] = <<>>]
              /\ failed' = failed \cup {calls[h][i].what.id : i \in DOMAIN calls[h]}
           \/ /\ c.do = "delete"
              /\ calls' = [calls EXCEPT ![h] = Tail(@)]
              /\ failed' = failed \cup {c.what.id}
  /\ UNCHANGED <<flowStatus, row, lastId, fired, overlapped>>

Fire(t) ==
  /\ ~t.paused
  /\ Len(fired) < MaxFires
  /\ fired' = Append(fired, [schedule |-> t.schedule, asking |-> TRUE, runs |-> 0])
  /\ UNCHANGED <<flowStatus, row, temporal, calls, lastId, faults, failed, overlapped>>

-----------------------------------------------------------------------------
(* create_scheduled_run_activity.  It raises unless the row is enabled, and *)
(* Temporal tries again without limit.                                     *)

Available(s) == row[s].state = "enabled"

ScheduledRun(x) ==
  /\ fired[x].asking /\ Available(fired[x].schedule)
  /\ fired' = [fired EXCEPT ![x].asking = FALSE, ![x].runs = @ + 1]
  /\ UNCHANGED <<flowStatus, row, temporal, calls, lastId, faults, failed, overlapped>>

(* The run is committed and its answer lost: the next attempt inserts it    *)
(* again, and nothing starts the first one.                                *)
ScheduledRunLost(x) ==
  /\ fired[x].asking /\ Available(fired[x].schedule)
  /\ faults < MaxFaults
  /\ faults' = faults + 1
  /\ fired' = [fired EXCEPT ![x].runs = @ + 1]
  /\ UNCHANGED <<flowStatus, row, temporal, calls, lastId, failed, overlapped>>

ScheduleNext ==
  \/ \E h \in Handler, s \in Schedule :
       \/ \E t \in Timing, state \in Present :
            CreateSchedule(h, s, t, state) \/ RecreateSchedule(h, s, t, state)
       \/ \E state \in Present : SwitchSchedule(h, s, state)
       \/ DeleteSchedule(h, s)
  \/ UpdateFlowStatus
  \/ \E h \in Handler : CallTemporal(h) \/ CallFails(h)
  \/ \E t \in temporal : Fire(t)
  \/ \E x \in DOMAIN fired : ScheduledRun(x) \/ ScheduledRunLost(x)

ScheduleSpec == ScheduleInit /\ [][ScheduleNext]_scheduleVars

(* The event loop resumes every handler whose call has ended, and a worker  *)
(* attempts the activity again and again.                                  *)
ScheduleFairness ==
  /\ \A h \in Handler : WF_scheduleVars(CallTemporal(h))
  /\ \A x \in 1..MaxFires :
       WF_scheduleVars(x \in DOMAIN fired /\ ScheduledRun(x))

FairScheduleSpec == ScheduleSpec /\ ScheduleFairness

-----------------------------------------------------------------------------
(* Properties. *)

(* Type invariant. *)
ScheduleTypeOK ==
  /\ flowStatus \in {"ACTIVE", "PAUSED"}
  /\ row \in [Schedule -> Row]
  /\ temporal \subseteq TemporalSchedule
  /\ calls \in [Handler -> Seq(Call)]
  /\ lastId \in Nat /\ faults \in Nat
  /\ fired \in Seq(Execution)
  /\ failed \subseteq Id /\ overlapped \subseteq Schedule

KeptFor(s) == {t \in temporal : t.schedule = s}

FailedFor(s) == \E id \in failed : id[1] = s

(* When the handlers of a schedule have made their calls, none of which     *)
(* failed or met another handler's, Temporal keeps what the row asks for    *)
(* and nothing else: the right timing, paused or not, gone with its row.    *)
InSyncWhenQuiet ==
  \A s \in Schedule \ overlapped :
    ~Due(s) /\ ~FailedFor(s) =>
      KeptFor(s) = IF row[s].state \in Present THEN {Asked(s, row[s])} ELSE {}

(* Even while update_schedule is between its two calls, no row has two      *)
(* Temporal schedules that would both fire for it.                         *)
OneClock ==
  \A s \in Schedule \ overlapped :
    ~FailedFor(s) => \A t, u \in KeptFor(s) : t = u

(* Handlers that overlap or whose calls fail may leave schedules behind and *)
(* disagree about paused, but they cannot take the row's own schedule away: *)
(* what they delete are ids the row has given up, and an update that        *)
(* recreates the schedule makes good what an earlier call has failed to do. *)
RowKeepsItsSchedule ==
  \A s \in Schedule :
    ~Due(s) /\ row[s].state \in Present /\ row[s].id \notin failed =>
      \E t \in KeptFor(s) : t.id = row[s].id /\ t.timing = row[s].timing

(* What README.md:94 says of flows that are paused: "paused and archived    *)
(* flows reject manual, scheduled, and rerun triggers".                    *)
PausedRejectsScheduled ==
  [][\A x \in DOMAIN fired : fired'[x].runs > fired[x].runs
                                 => flowStatus = "ACTIVE"]_scheduleVars
=============================================================================
