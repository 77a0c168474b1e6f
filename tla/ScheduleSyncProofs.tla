------------------------- MODULE ScheduleSyncProofs -------------------------
(***************************************************************************)
(* Proofs about schedules, for any number of schedules and handlers.        *)
(***************************************************************************)
EXTENDS ScheduleSync, SequenceTheorems, TLAPS

(* A handler owes at most two calls; the ids it names were given to the     *)
(* schedule it serves.                                                     *)
Own(id, s) == id[1] = s /\ id[2] <= lastId

OwnCall(c) == Own(c.what.id, c.what.schedule)

CallsShape(h) ==
  \/ calls[h] = <<>>
  \/ \E c \in Call : calls[h] = <<c>> /\ OwnCall(c)
  \/ \E c, d \in Call :
       /\ calls[h] = <<c, d>>
       /\ c.do = "delete" /\ d.do = "create"
       /\ c.what.schedule = d.what.schedule
       /\ OwnCall(c) /\ OwnCall(d)

ShapeInv ==
  /\ \A h \in Handler : CallsShape(h)
  /\ \A s \in Schedule : Own(row[s].id, s)
  /\ \A t \in temporal : Own(t.id, t.schedule)

LEMMA AskedType ==
  ASSUME NEW s \in Schedule, NEW r \in Row
  PROVE  /\ Asked(s, r) \in TemporalSchedule
         /\ Create(s, r) \in Call /\ Delete(s, r) \in Call /\ Switch(s, r) \in Call
         /\ \A c \in {Create(s, r), Delete(s, r), Switch(s, r)} : c.what = Asked(s, r)
         /\ Create(s, r).do = "create" /\ Delete(s, r).do = "delete" /\ Switch(s, r).do = "switch"
         /\ Asked(s, r).id = r.id /\ Asked(s, r).schedule = s
         /\ Asked(s, r).timing = r.timing
  BY DEF Asked, Create, Delete, Switch, TemporalSchedule, Row, Call

(* What a handler that commits does, whichever it is. *)
HandlerCommits(h, s, r, due) ==
  /\ Commit(h, s, r, due)
  /\ r \in Row /\ r.state \in Present \cup {"deleted"}
  /\ \/ /\ lastId' = lastId + 1 /\ r.id = <<s, lastId + 1>>
        /\ r.state \in Present
        /\ \/ row[s].state = "none" /\ due = <<Create(s, r)>>
           \/ row[s].state \in Present /\ due = <<Delete(s, row[s]), Create(s, r)>>
     \/ /\ lastId' = lastId /\ r.id = row[s].id /\ r.timing = row[s].timing
        /\ row[s].state \in Present
        /\ \/ r.state = "deleted" /\ due = <<Delete(s, row[s])>>
           \/ r.state \in Present /\ due = <<Switch(s, r)>>

LEMMA CommitForms ==
  ASSUME ScheduleTypeOK, NEW h \in Handler, NEW s \in Schedule,
         \/ \E t \in Timing, state \in Present :
              CreateSchedule(h, s, t, state) \/ RecreateSchedule(h, s, t, state)
         \/ \E state \in Present : SwitchSchedule(h, s, state)
         \/ DeleteSchedule(h, s)
  PROVE  \E r, due : HandlerCommits(h, s, r, due)
<1>0. row[s] \in Row /\ lastId \in Nat
  BY DEF ScheduleTypeOK
<1>1. ASSUME NEW t \in Timing, NEW state \in Present,
             CreateSchedule(h, s, t, state) \/ RecreateSchedule(h, s, t, state)
      PROVE  \E r, due : HandlerCommits(h, s, r, due)
  <2> DEFINE r == [state |-> state, timing |-> t, id |-> <<s, lastId + 1>>]
  <2>1. r \in Row /\ r.state \in Present /\ r.id = <<s, lastId + 1>>
    BY <1>0 DEF Row, Id
  <2>2. CASE CreateSchedule(h, s, t, state)
    <3>1. HandlerCommits(h, s, r, <<Create(s, r)>>)
      BY <2>1, <2>2 DEF CreateSchedule, NewId, HandlerCommits
    <3> QED BY <3>1
  <2>3. CASE RecreateSchedule(h, s, t, state)
    <3>1. HandlerCommits(h, s, r, <<Delete(s, row[s]), Create(s, r)>>)
      BY <2>1, <2>3 DEF RecreateSchedule, NewId, HandlerCommits
    <3> QED BY <3>1
  <2> QED BY <1>1, <2>2, <2>3
<1>2. ASSUME NEW state \in Present, SwitchSchedule(h, s, state)
      PROVE  \E r, due : HandlerCommits(h, s, r, due)
  <2> DEFINE r == [row[s] EXCEPT !.state = state]
  <2>1. r \in Row /\ r.state \in Present /\ r.id = row[s].id /\ r.timing = row[s].timing
    BY <1>0 DEF Row
  <2>2. HandlerCommits(h, s, r, <<Switch(s, r)>>)
    BY <1>2, <2>1 DEF SwitchSchedule, HandlerCommits
  <2> QED BY <2>2
<1>3. ASSUME DeleteSchedule(h, s)
      PROVE  \E r, due : HandlerCommits(h, s, r, due)
  <2> DEFINE r == [row[s] EXCEPT !.state = "deleted"]
  <2>1. r \in Row /\ r.state = "deleted" /\ r.id = row[s].id /\ r.timing = row[s].timing
    BY <1>0 DEF Row
  <2>2. HandlerCommits(h, s, r, <<Delete(s, row[s])>>)
    BY <1>3, <2>1 DEF DeleteSchedule, HandlerCommits
  <2> QED BY <2>2
<1> QED BY <1>1, <1>2, <1>3

(* What a handler does that awaits Temporal, whether the call fails or not. *)
HandlerCalls(h, c, rest) ==
  /\ c \in Call /\ OwnCall(c)
  /\ calls' = [calls EXCEPT ![h] = rest]
  /\ UNCHANGED <<row, lastId, overlapped>>
  /\ temporal' \in {temporal, Effect(c)}
  /\ failed \subseteq failed' /\ failed' \subseteq failed \cup Id
  /\ \/ calls[h] = <<c>> /\ rest = <<>>
     \/ \E d \in Call :
          /\ calls[h] = <<c, d>>
          /\ c.do = "delete" /\ d.do = "create"
          /\ c.what.schedule = d.what.schedule /\ OwnCall(d)
          /\ rest = <<d>> \/ (rest = <<>> /\ d.what.id \in failed')
  /\ c.what.id \notin failed' =>
       temporal' = Effect(c) /\ (c.do = "switch" => Known(c.what.id))

LEMMA CallForms ==
  ASSUME NEW h \in Handler, CallsShape(h), calls \in [Handler -> Seq(Call)],
         CallTemporal(h) \/ CallFails(h)
  PROVE  \E c, rest : HandlerCalls(h, c, rest)
<1>1. calls[h] # <<>>
  BY DEF CallTemporal, CallFails
<1>2. CASE \E c \in Call : calls[h] = <<c>> /\ OwnCall(c)
  <2> PICK c \in Call : calls[h] = <<c>> /\ OwnCall(c)
    BY <1>2
  <2>0. c.what.id \in Id
    BY DEF Call, TemporalSchedule
  <2>1. /\ Head(calls[h]) = c /\ Tail(calls[h]) = <<>>
        /\ {calls[h][i].what.id : i \in DOMAIN calls[h]} = {c.what.id}
    <3>1. DOMAIN calls[h] = {1} /\ calls[h][1] = c
      OBVIOUS
    <3> QED BY <3>1
  <2>2. CASE CallTemporal(h)
    <3>1. HandlerCalls(h, c, <<>>)
      BY <2>0, <2>1, <2>2 DEF CallTemporal, HandlerCalls
    <3> QED BY <3>1
  <2>3. CASE CallFails(h)
    <3>1. HandlerCalls(h, c, <<>>)
      BY <2>0, <2>1, <2>3 DEF CallFails, HandlerCalls
    <3> QED BY <3>1
  <2> QED BY <2>2, <2>3
<1>3. CASE \E c, d \in Call :
             /\ calls[h] = <<c, d>>
             /\ c.do = "delete" /\ d.do = "create"
             /\ c.what.schedule = d.what.schedule
             /\ OwnCall(c) /\ OwnCall(d)
  <2> PICK c \in Call, d \in Call :
             /\ calls[h] = <<c, d>>
             /\ c.do = "delete" /\ d.do = "create"
             /\ c.what.schedule = d.what.schedule
             /\ OwnCall(c) /\ OwnCall(d)
    BY <1>3
  <2>0. c.what.id \in Id /\ d.what.id \in Id
    BY DEF Call, TemporalSchedule
  <2>1. /\ Head(calls[h]) = c /\ Tail(calls[h]) = <<d>>
        /\ {calls[h][i].what.id : i \in DOMAIN calls[h]} = {c.what.id, d.what.id}
    <3>1. DOMAIN calls[h] = {1, 2} /\ calls[h][1] = c /\ calls[h][2] = d
      OBVIOUS
    <3> QED BY <3>1
  <2>2. CASE CallTemporal(h)
    <3>1. HandlerCalls(h, c, <<d>>)
      BY <2>0, <2>1, <2>2 DEF CallTemporal, HandlerCalls
    <3> QED BY <3>1
  <2>3. CASE CallFails(h)
    <3>1. /\ UNCHANGED <<row, lastId, overlapped>>
          /\ temporal' \in {temporal, Effect(c)}
      BY <2>1, <2>3 DEF CallFails
    <3>2. CASE /\ calls' = [calls EXCEPT ![h] = <<>>]
               /\ failed' = failed \cup {c.what.id, d.what.id}
      <4>1. HandlerCalls(h, c, <<>>)
        BY <2>0, <3>1, <3>2 DEF HandlerCalls
      <4> QED BY <4>1
    <3>3. CASE calls' = [calls EXCEPT ![h] = <<d>>] /\ failed' = failed \cup {c.what.id}
      <4>1. HandlerCalls(h, c, <<d>>)
        BY <2>0, <3>1, <3>3 DEF HandlerCalls
      <4> QED BY <4>1
    <3> QED BY <2>1, <2>3, <3>2, <3>3 DEF CallFails
  <2> QED BY <2>2, <2>3
<1> QED BY <1>1, <1>2, <1>3 DEF CallsShape

(* Steps that touch neither rows nor Temporal schedules. *)
Elsewhere ==
  /\ UNCHANGED <<row, temporal, calls, lastId, failed, overlapped>>
  /\ faults' \in {faults, faults + 1}
  /\ flowStatus' \in {"ACTIVE", "PAUSED"}
  /\ fired' \in Seq(Execution)

LEMMA ExecutionUpdates ==
  ASSUME NEW e \in Execution
  PROVE  /\ [e EXCEPT !.asking = FALSE] \in Execution
         /\ [e EXCEPT !.runs = @ + 1] \in Execution
<1>1. e.runs + 1 \in Nat
  BY DEF Execution
<1>2. [e EXCEPT !.asking = FALSE] \in Execution
  BY DEF Execution
<1>3. [e EXCEPT !.runs = e.runs + 1] \in Execution
  BY <1>1 DEF Execution
<1> QED BY <1>2, <1>3

LEMMA RunsAreExecutions ==
  ASSUME NEW x \in DOMAIN fired, fired \in Seq(Execution)
  PROVE  /\ [fired EXCEPT ![x].asking = FALSE, ![x].runs = @ + 1] \in Seq(Execution)
         /\ [fired EXCEPT ![x].runs = @ + 1] \in Seq(Execution)
<1>1. x \in 1 .. Len(fired) /\ fired[x] \in Execution
  BY LenProperties, ElementOfSeq
<1> DEFINE a == [fired[x] EXCEPT !.asking = FALSE]
           b == [a EXCEPT !.runs = @ + 1]
           c == [fired[x] EXCEPT !.runs = @ + 1]
<1>2. a \in Execution /\ c \in Execution
  BY <1>1, ExecutionUpdates
<1>3. b \in Execution
  BY <1>2, ExecutionUpdates
<1>4. [fired EXCEPT ![x] = b] \in Seq(Execution) /\ [fired EXCEPT ![x] = c] \in Seq(Execution)
  BY <1>1, <1>2, <1>3, ExceptSeq
<1> QED BY <1>4

LEMMA StepForms ==
  ASSUME ScheduleTypeOK, ShapeInv, ScheduleNext
  PROVE  \/ \E h \in Handler, s \in Schedule : \E r, due : HandlerCommits(h, s, r, due)
         \/ \E h \in Handler : \E c, rest : HandlerCalls(h, c, rest) /\ faults' \in {faults, faults + 1} /\ UNCHANGED <<flowStatus, fired>>
         \/ Elsewhere
<1>1. ASSUME NEW h \in Handler, NEW s \in Schedule,
             \/ \E t \in Timing, state \in Present :
                  CreateSchedule(h, s, t, state) \/ RecreateSchedule(h, s, t, state)
             \/ \E state \in Present : SwitchSchedule(h, s, state)
             \/ DeleteSchedule(h, s)
      PROVE  \E r, due : HandlerCommits(h, s, r, due)
  BY <1>1, CommitForms
<1>2. ASSUME NEW h \in Handler, CallTemporal(h) \/ CallFails(h)
      PROVE  /\ \E c, rest : HandlerCalls(h, c, rest)
             /\ faults' \in {faults, faults + 1} /\ UNCHANGED <<flowStatus, fired>>
  <2>1. \E c, rest : HandlerCalls(h, c, rest)
    BY <1>2, CallForms DEF ScheduleTypeOK, ShapeInv
  <2> QED BY <1>2, <2>1 DEF CallTemporal, CallFails
<1>3. CASE UpdateFlowStatus
  BY <1>3 DEF UpdateFlowStatus, Elsewhere, ScheduleTypeOK
<1>4. ASSUME NEW t \in temporal, Fire(t)
      PROVE  Elsewhere
  <2> DEFINE e == [schedule |-> t.schedule, asking |-> TRUE, runs |-> 0]
  <2>1. e \in Execution
    BY DEF ScheduleTypeOK, TemporalSchedule, Execution
  <2> HIDE DEF e
  <2>2. Append(fired, e) \in Seq(Execution)
    BY <2>1, AppendProperties DEF ScheduleTypeOK
  <2> QED BY <1>4, <2>2 DEF Fire, Elsewhere, ScheduleTypeOK, e
<1>5. ASSUME NEW x \in DOMAIN fired, ScheduledRun(x) \/ ScheduledRunLost(x)
      PROVE  Elsewhere
  BY <1>5, RunsAreExecutions DEF ScheduledRun, ScheduledRunLost, Elsewhere, ScheduleTypeOK
<1> QED BY <1>1, <1>2, <1>3, <1>4, <1>5 DEF ScheduleNext

-----------------------------------------------------------------------------
(* Types, shapes and the ownership of ids. *)

(* What a call makes of the schedules Temporal keeps. *)
LEMMA EffectFacts ==
  ASSUME temporal \subseteq TemporalSchedule, NEW c \in Call
  PROVE  /\ Effect(c) \subseteq TemporalSchedule
         /\ c.do = "create" => Effect(c) = temporal \cup {c.what}
         /\ c.do = "delete" => Effect(c) = Without(c.what.id)
         /\ c.do = "switch" =>
              /\ \A u \in temporal :
                   \E t \in Effect(c) : t.id = u.id /\ t.schedule = u.schedule /\ t.timing = u.timing
              /\ \A u \in temporal : u.id # c.what.id => u \in Effect(c)
              /\ \A t \in Effect(c) :
                   \/ t \in temporal /\ t.id # c.what.id
                   \/ /\ t.id = c.what.id /\ t.paused = c.what.paused
                      /\ \E u \in temporal : t.id = u.id /\ t.schedule = u.schedule /\ t.timing = u.timing
<1>0. c.what \in TemporalSchedule /\ c.do \in {"create", "delete", "switch"}
  BY DEF Call
<1>1. ASSUME NEW u \in temporal
      PROVE  LET t == [u EXCEPT !.paused = c.what.paused] IN
             t \in TemporalSchedule /\ t.id = u.id /\ t.schedule = u.schedule
               /\ t.timing = u.timing /\ t.paused = c.what.paused
  BY <1>0 DEF TemporalSchedule
<1>2. CASE c.do = "create"
  BY <1>0, <1>2 DEF Effect
<1>3. CASE c.do = "delete"
  BY <1>0, <1>3 DEF Effect, Without
<1>4. CASE c.do = "switch"
  <2> DEFINE f(t) == IF t.id = c.what.id THEN [t EXCEPT !.paused = c.what.paused] ELSE t
  <2>1. Effect(c) = {f(t) : t \in temporal}
    BY <1>4 DEF Effect
  <2>2. ASSUME NEW u \in temporal
        PROVE  /\ f(u) \in TemporalSchedule
               /\ f(u).id = u.id /\ f(u).schedule = u.schedule /\ f(u).timing = u.timing
               /\ u.id # c.what.id => f(u) = u
               /\ u.id = c.what.id => f(u).paused = c.what.paused
    BY <1>1
  <2> HIDE DEF f
  <2> QED BY <1>4, <2>1, <2>2
<1> QED BY <1>0, <1>2, <1>3, <1>4

LEMMA EffectOwns ==
  ASSUME ScheduleTypeOK, ShapeInv, NEW c \in Call, OwnCall(c)
  PROVE  \A t \in Effect(c) : Own(t.id, t.schedule)
  BY EffectFacts DEF ScheduleTypeOK, ShapeInv, OwnCall, Without, Call

LEMMA ShortSeqs ==
  ASSUME NEW S, NEW a \in S, NEW b \in S
  PROVE  <<>> \in Seq(S) /\ <<a>> \in Seq(S) /\ <<a, b>> \in Seq(S)
  OBVIOUS

LEMMA CommitKeepsTypes ==
  ASSUME ScheduleTypeOK, ShapeInv,
         NEW h \in Handler, NEW s \in Schedule, NEW r, NEW due,
         HandlerCommits(h, s, r, due)
  PROVE  ScheduleTypeOK' /\ ShapeInv'
<1>0. /\ row[s] \in Row /\ r \in Row /\ lastId \in Nat
      /\ row' = [row EXCEPT ![s] = r] /\ calls' = [calls EXCEPT ![h] = due]
      /\ temporal' = temporal /\ overlapped' \in {overlapped, overlapped \cup {s}}
      /\ UNCHANGED <<flowStatus, fired, faults, failed>>
      /\ row' \in [Schedule -> Row]
      /\ lastId' \in {lastId, lastId + 1}
  BY DEF ScheduleTypeOK, HandlerCommits, Commit
<1>1. Own(row[s].id, s) /\ Own(r.id, s)'
  BY <1>0 DEF ShapeInv, Own, HandlerCommits
<1>2. ASSUME NEW id, NEW z \in Schedule, id \in Id, Own(id, z)
      PROVE  Own(id, z)'
  BY <1>0, <1>2 DEF Own, Id
<1>3. \A z \in Schedule : Own(row[z].id, z)'
  <2> TAKE z \in Schedule
  <2>1. row[z] \in Row /\ row[z].id \in Id /\ Own(row[z].id, z)
    BY DEF ScheduleTypeOK, ShapeInv, Row
  <2> QED BY <1>0, <1>1, <1>2, <2>1
<1>4. \A t \in temporal' : Own(t.id, t.schedule)'
  BY <1>0, <1>2 DEF ScheduleTypeOK, ShapeInv, TemporalSchedule
<1>5. ASSUME NEW c \in Call, OwnCall(c)
      PROVE  OwnCall(c)'
  BY <1>2, <1>5 DEF OwnCall, Call, TemporalSchedule
<1>6. due \in Seq(Call) /\ calls'[h] = due /\ CallsShape(h)'
  <2>1. PICK a \in Call, b \in Call, e \in Call :
          a = Create(s, r) /\ b = Delete(s, row[s]) /\ e = Switch(s, r)
    BY <1>0, AskedType
  <2>2. /\ b.do = "delete" /\ a.do = "create" /\ a.what.schedule = s /\ b.what.schedule = s
        /\ a.what.id = r.id /\ b.what.id = row[s].id /\ e.what.id = r.id /\ e.what.schedule = s
    BY <1>0, <2>1, AskedType
  <2>3. OwnCall(a)' /\ OwnCall(e)' /\ OwnCall(b)'
    <3>1. OwnCall(b)
      BY <1>1, <2>2 DEF OwnCall
    <3>2. OwnCall(a)' /\ OwnCall(e)'
      BY <1>1, <2>2 DEF OwnCall, Own
    <3> QED BY <1>5, <3>1, <3>2
  <2>4. calls'[h] = due
    BY <1>0 DEF ScheduleTypeOK
  <2>5. due \in {<<a>>, <<e>>, <<b>>, <<b, a>>}
    BY <2>1 DEF HandlerCommits
  <2>6. due \in Seq(Call)
    BY <2>5, ShortSeqs
  <2>7. CallsShape(h)'
    BY <2>2, <2>3, <2>4, <2>5 DEF CallsShape
  <2> QED BY <2>4, <2>6, <2>7
<1>7. ASSUME NEW g \in Handler
      PROVE  CallsShape(g)'
  <2>1. CASE g # h
    <3>1. calls'[g] = calls[g]
      BY <1>0, <2>1 DEF ScheduleTypeOK
    <3> QED BY <1>5, <3>1 DEF ShapeInv, CallsShape
  <2> QED BY <1>6, <2>1
<1>8. ScheduleTypeOK'
  BY <1>0, <1>6 DEF ScheduleTypeOK
<1> QED BY <1>3, <1>4, <1>7, <1>8 DEF ShapeInv

LEMMA CallKeepsTypes ==
  ASSUME ScheduleTypeOK, ShapeInv, NEW h \in Handler, NEW c, NEW rest,
         HandlerCalls(h, c, rest), faults' \in {faults, faults + 1},
         UNCHANGED <<flowStatus, fired>>
  PROVE  ScheduleTypeOK' /\ ShapeInv'
<1>1. temporal' \subseteq TemporalSchedule /\ \A t \in temporal' : Own(t.id, t.schedule)
  BY EffectFacts, EffectOwns DEF HandlerCalls, ScheduleTypeOK, ShapeInv
<1>2. /\ c \in Call /\ c.what.schedule \in Schedule
      /\ calls' = [calls EXCEPT ![h] = rest] /\ calls'[h] = rest
      /\ lastId' = lastId /\ row' = row /\ overlapped' = overlapped
  BY DEF HandlerCalls, ScheduleTypeOK, Call, TemporalSchedule
<1>3. rest \in Seq(Call) /\ (rest = <<>> \/ \E d \in Call : rest = <<d>> /\ OwnCall(d))
  <2>1. rest = <<>> \/ \E d \in Call : rest = <<d>> /\ OwnCall(d)
    BY DEF HandlerCalls
  <2>2. rest \in Seq(Call)
    BY <1>2, <2>1, ShortSeqs
  <2> QED BY <2>1, <2>2
<1>4. ScheduleTypeOK'
  BY <1>1, <1>2, <1>3 DEF HandlerCalls, ScheduleTypeOK
<1>5. ASSUME NEW g \in Handler
      PROVE  CallsShape(g)'
  <2>1. CASE g # h
    <3>1. calls'[g] = calls[g]
      BY <1>2, <2>1 DEF ScheduleTypeOK
    <3> QED BY <1>2, <3>1 DEF ShapeInv, CallsShape, OwnCall, Own
  <2>2. CASE g = h
    BY <1>2, <1>3, <2>2 DEF CallsShape, OwnCall, Own
  <2> QED BY <2>1, <2>2
<1> QED BY <1>1, <1>2, <1>4, <1>5 DEF ShapeInv, Own

LEMMA ShapesInductive ==
  /\ ScheduleInit => ScheduleTypeOK /\ ShapeInv
  /\ ScheduleTypeOK /\ ShapeInv /\ [ScheduleNext]_scheduleVars => ScheduleTypeOK' /\ ShapeInv'
<1>1. ScheduleInit => ScheduleTypeOK /\ ShapeInv
  <2> SUFFICES ASSUME ScheduleInit PROVE ScheduleTypeOK /\ ShapeInv
    OBVIOUS
  <2>1. row \in [Schedule -> Row] /\ \A s \in Schedule : Own(row[s].id, s)
    BY DEF ScheduleInit, Row, Id, Own
  <2> QED BY <2>1 DEF ScheduleInit, ScheduleTypeOK, ShapeInv, CallsShape
<1>2. ASSUME ScheduleTypeOK, ShapeInv, [ScheduleNext]_scheduleVars
      PROVE  ScheduleTypeOK' /\ ShapeInv'
  <2>1. CASE Elsewhere \/ UNCHANGED scheduleVars
    <3>1. ScheduleTypeOK'
      BY <1>2, <2>1 DEF Elsewhere, ScheduleTypeOK, scheduleVars
    <3>2. ShapeInv'
      BY <1>2, <2>1 DEF Elsewhere, ShapeInv, CallsShape, OwnCall, Own, scheduleVars
    <3> QED BY <3>1, <3>2
  <2> QED BY <1>2, <2>1, StepForms, CommitKeepsTypes, CallKeepsTypes
<1> QED BY <1>1, <1>2

(* Types are kept by every step of the handlers, of Temporal and of the     *)
(* activity.                                                               *)
THEOREM ScheduleTypes == ScheduleSpec => [](ScheduleTypeOK /\ ShapeInv)
  BY ShapesInductive, PTL DEF ScheduleSpec

-----------------------------------------------------------------------------
(* A row's own schedule: kept by Temporal, or about to be created.          *)

Creates(h, s) ==
  \E c \in Call :
    /\ calls[h] = <<c>> \/ \E b \in Call : calls[h] = <<b, c>>
    /\ c.do = "create" /\ c.what.schedule = s
    /\ c.what.id = row[s].id /\ c.what.timing = row[s].timing

Keeps(s) ==
  \E t \in temporal : t.schedule = s /\ t.id = row[s].id /\ t.timing = row[s].timing

OnlyGivenUpIdsGo ==
  \A h \in Handler :
    calls[h] # <<>> /\ Head(calls[h]).do = "delete" =>
      \A s \in Schedule :
        row[s].state \in Present => row[s].id # Head(calls[h]).what.id

KeptInv ==
  /\ OnlyGivenUpIdsGo
  /\ \A s \in Schedule :
       row[s].state \in Present /\ row[s].id \notin failed =>
         Keeps(s) \/ \E h \in Handler : Creates(h, s)

LEMMA ShapeHead ==
  ASSUME ShapeInv, NEW h \in Handler, calls[h] # <<>>
  PROVE  Head(calls[h]) \in Call /\ OwnCall(Head(calls[h]))
<1>1. CallsShape(h)
  BY DEF ShapeInv
<1> QED BY <1>1 DEF CallsShape

LEMMA CreatesHasCalls ==
  ASSUME ShapeInv, NEW h \in Handler, NEW s \in Schedule, Creates(h, s)
  PROVE  calls[h] # <<>> /\ Head(calls[h]).what.schedule = s
<1> PICK q \in Call :
      /\ calls[h] = <<q>> \/ \E b \in Call : calls[h] = <<b, q>>
      /\ q.what.schedule = s
  BY DEF Creates
<1>1. CASE calls[h] = <<q>>
  BY <1>1
<1>2. CASE \E b \in Call : calls[h] = <<b, q>>
  <2> PICK b \in Call : calls[h] = <<b, q>>
    BY <1>2
  <2>1. \E c, d \in Call : calls[h] = <<c, d>> /\ c.what.schedule = d.what.schedule
    BY DEF ShapeInv, CallsShape
  <2> QED BY <2>1
<1> QED BY <1>1, <1>2

LEMMA CommitKeepsKept ==
  ASSUME ScheduleTypeOK, ShapeInv, KeptInv,
         NEW h \in Handler, NEW s \in Schedule, NEW r, NEW due,
         HandlerCommits(h, s, r, due)
  PROVE  KeptInv'
<1>0. /\ row[s] \in Row /\ r \in Row /\ lastId \in Nat /\ calls[h] = <<>>
      /\ row' = [row EXCEPT ![s] = r] /\ calls' = [calls EXCEPT ![h] = due]
      /\ temporal' = temporal /\ failed' = failed
      /\ row'[s] = r /\ calls'[h] = due
      /\ \A z \in Schedule : z # s => row'[z] = row[z]
      /\ \A g \in Handler : g # h => calls'[g] = calls[g]
      /\ Own(row[s].id, s)
  BY DEF ScheduleTypeOK, HandlerCommits, Commit, ShapeInv
<1>1. PICK a \in Call, b \in Call, e \in Call :
        a = Create(s, r) /\ b = Delete(s, row[s]) /\ e = Switch(s, r)
  BY <1>0, AskedType
<1>2. /\ b.do = "delete" /\ a.do = "create" /\ e.do = "switch"
      /\ a.what.schedule = s /\ b.what.id = row[s].id
      /\ a.what.id = r.id /\ a.what.timing = r.timing
  BY <1>0, <1>1, AskedType
<1>3. \/ /\ r.id = <<s, lastId + 1>> /\ r.state \in Present
         /\ due = <<a>> \/ due = <<b, a>>
      \/ /\ r.id = row[s].id /\ r.timing = row[s].timing /\ row[s].state \in Present
         /\ (r.state = "deleted" /\ due = <<b>>) \/ (r.state \in Present /\ due = <<e>>)
  BY <1>1 DEF HandlerCommits
<1>4. OnlyGivenUpIdsGo'
  <2> SUFFICES ASSUME NEW g \in Handler, calls'[g] # <<>>, Head(calls'[g]).do = "delete",
                      NEW z \in Schedule, row'[z].state \in Present
               PROVE  row'[z].id # Head(calls'[g]).what.id
    BY DEF OnlyGivenUpIdsGo
  <2>1. CASE g # h
    <3>1. /\ calls[g] # <<>> /\ calls'[g] = calls[g] /\ Head(calls[g]).do = "delete"
          /\ Own(Head(calls[g]).what.id, Head(calls[g]).what.schedule)
          /\ row[z].state \in Present => row[z].id # Head(calls[g]).what.id
      BY <1>0, <2>1, ShapeHead DEF KeptInv, OnlyGivenUpIdsGo, OwnCall
    <3>2. CASE z # s
      BY <1>0, <3>1, <3>2
    <3>3. CASE z = s
      <4>1. CASE r.id = <<s, lastId + 1>>
        <5>1. r.id[2] = lastId + 1
          BY <4>1
        <5>2. Head(calls[g]).what.id[2] <= lastId /\ Head(calls[g]).what.id \in Id
          BY <1>0, <2>1, <3>1, ShapeHead DEF Own, Call, TemporalSchedule
        <5>3. Head(calls[g]).what.id[2] \in Nat
          BY <5>2 DEF Id
        <5> QED BY <1>0, <3>1, <3>3, <5>1, <5>2, <5>3
      <4> QED BY <1>0, <1>3, <3>1, <3>3, <4>1
    <3> QED BY <3>2, <3>3
  <2>2. CASE g = h
    <3>1. Head(due) = b
      BY <1>0, <1>2, <1>3, <2>2
    <3>2. CASE z # s
      <4>1. row[z].id[1] = z /\ row[s].id[1] = s
        BY DEF ShapeInv, Own
      <4> QED BY <1>0, <1>2, <2>2, <3>1, <3>2, <4>1
    <3>3. CASE z = s
      <4>1. r.id = <<s, lastId + 1>>
        BY <1>0, <1>2, <1>3, <2>2, <3>3 DEF Present
      <4>2. r.id[2] = lastId + 1 /\ row[s].id[2] <= lastId /\ row[s].id[2] \in Nat
        BY <1>0, <4>1 DEF Own, Row, Id
      <4> QED BY <1>0, <1>2, <2>2, <3>1, <3>3, <4>2
    <3> QED BY <3>2, <3>3
  <2> QED BY <2>1, <2>2
<1>5. ASSUME NEW z \in Schedule, row'[z].state \in Present, row'[z].id \notin failed'
      PROVE  Keeps(z)' \/ \E g \in Handler : Creates(g, z)'
  <2>1. CASE z # s \/ (r.id = row[s].id /\ r.timing = row[s].timing /\ row[s].state \in Present)
    <3>1. /\ row[z].state \in Present
          /\ row'[z].id = row[z].id /\ row'[z].timing = row[z].timing
      BY <1>0, <1>5, <2>1
    <3>2. Keeps(z) \/ \E g \in Handler : Creates(g, z)
      BY <1>0, <1>5, <3>1 DEF KeptInv
    <3>3. Keeps(z) => Keeps(z)'
      BY <1>0, <3>1 DEF Keeps
    <3>4. ASSUME NEW g \in Handler, Creates(g, z)
          PROVE  Creates(g, z)'
      <4>1. g # h
        <5>1. calls[g] # <<>>
          BY <3>4, CreatesHasCalls
        <5> QED BY <1>0, <5>1
      <4>2. calls'[g] = calls[g]
        BY <1>0, <4>1
      <4> QED BY <3>1, <3>4, <4>2 DEF Creates
    <3> QED BY <3>2, <3>3, <3>4
  <2>2. CASE z = s /\ (due = <<a>> \/ due = <<b, a>>)
    <3>1. Creates(h, z)'
      BY <1>0, <1>2, <2>2 DEF Creates
    <3> QED BY <3>1
  <2> QED BY <1>3, <2>1, <2>2
<1> QED BY <1>4, <1>5 DEF KeptInv

LEMMA CallKeepsKept ==
  ASSUME ScheduleTypeOK, ShapeInv, KeptInv,
         NEW h \in Handler, NEW c, NEW rest, HandlerCalls(h, c, rest)
  PROVE  KeptInv'
<1>0. /\ c \in Call /\ row' = row
      /\ calls' = [calls EXCEPT ![h] = rest] /\ calls'[h] = rest
      /\ \A g \in Handler : g # h => calls'[g] = calls[g]
      /\ temporal' \in {temporal, Effect(c)}
      /\ failed \subseteq failed'
      /\ Head(calls[h]) = c /\ calls[h] # <<>>
  BY DEF ScheduleTypeOK, HandlerCalls
<1>1. rest = <<>> \/ \E d : rest = <<d>> /\ d.do = "create"
  BY DEF HandlerCalls
<1>2. OnlyGivenUpIdsGo'
  BY <1>0, <1>1 DEF OnlyGivenUpIdsGo, KeptInv
<1>3. ASSUME NEW z \in Schedule, row'[z].state \in Present, row'[z].id \notin failed'
      PROVE  Keeps(z)' \/ \E g \in Handler : Creates(g, z)'
  <2>1. Keeps(z) \/ \E g \in Handler : Creates(g, z)
    BY <1>0, <1>3 DEF KeptInv
  <2>2. CASE Keeps(z)
    <3> PICK t \in temporal : t.schedule = z /\ t.id = row[z].id /\ t.timing = row[z].timing
      BY <2>2 DEF Keeps
    <3>1. c.do = "delete" => t.id # c.what.id
      BY <1>0, <1>3 DEF KeptInv, OnlyGivenUpIdsGo
    <3>2. \E u \in Effect(c) : u.schedule = z /\ u.id = row[z].id /\ u.timing = row[z].timing
      <4>1. c.do \in {"create", "delete", "switch"}
        BY <1>0 DEF Call
      <4>2. CASE c.do = "switch"
        <5>1. PICK u \in Effect(c) :
                u.id = t.id /\ u.schedule = t.schedule /\ u.timing = t.timing
          BY <1>0, <4>2, EffectFacts DEF ScheduleTypeOK
        <5> QED BY <5>1
      <4>3. CASE c.do = "create"
        BY <1>0, <4>3, EffectFacts DEF ScheduleTypeOK
      <4>4. CASE c.do = "delete"
        BY <1>0, <3>1, <4>4, EffectFacts DEF ScheduleTypeOK, Without
      <4> QED BY <4>1, <4>2, <4>3, <4>4
    <3>3. \E u \in temporal' : u.schedule = z /\ u.id = row[z].id /\ u.timing = row[z].timing
      BY <1>0, <3>2
    <3> QED BY <1>0, <3>3 DEF Keeps
  <2>3. ASSUME NEW g \in Handler, Creates(g, z)
        PROVE  Keeps(z)' \/ \E k \in Handler : Creates(k, z)'
    <3>1. CASE g # h
      <4>1. Creates(g, z)'
        BY <1>0, <2>3, <3>1 DEF Creates
      <4> QED BY <4>1
    <3>2. CASE g = h
      <4> PICK q \in Call :
            /\ calls[h] = <<q>> \/ \E b \in Call : calls[h] = <<b, q>>
            /\ q.do = "create" /\ q.what.schedule = z
            /\ q.what.id = row[z].id /\ q.what.timing = row[z].timing
        BY <2>3, <3>2 DEF Creates
      <4>1. CASE calls[h] = <<q>>
        <5>1. q = c /\ temporal' = Effect(c)
          BY <1>0, <1>3, <4>1 DEF HandlerCalls
        <5>2. c.what \in temporal'
          BY <5>1, EffectFacts DEF ScheduleTypeOK
        <5> QED BY <1>0, <5>1, <5>2 DEF Keeps
      <4>2. CASE \E b \in Call : calls[h] = <<b, q>>
        <5>1. PICK d \in Call :
                /\ calls[h] = <<c, d>>
                /\ c.what.schedule = d.what.schedule
                /\ rest = <<d>> \/ (rest = <<>> /\ d.what.id \in failed')
          BY <4>2 DEF HandlerCalls
        <5>2. d = q /\ rest = <<q>>
          BY <1>0, <1>3, <4>2, <5>1
        <5>3. Creates(h, z)'
          BY <1>0, <5>2 DEF Creates
        <5> QED BY <5>3
      <4> QED BY <4>1, <4>2
    <3> QED BY <3>1, <3>2
  <2> QED BY <2>1, <2>2, <2>3
<1> QED BY <1>2, <1>3 DEF KeptInv

LEMMA KeptInductive ==
  /\ ScheduleInit => KeptInv
  /\ ScheduleTypeOK /\ ShapeInv /\ KeptInv /\ [ScheduleNext]_scheduleVars => KeptInv'
<1>1. ScheduleInit => KeptInv
  BY DEF ScheduleInit, KeptInv, OnlyGivenUpIdsGo, Present
<1>2. ASSUME ScheduleTypeOK, ShapeInv, KeptInv, [ScheduleNext]_scheduleVars
      PROVE  KeptInv'
  <2>1. CASE Elsewhere \/ UNCHANGED scheduleVars
    <3>0. UNCHANGED <<row, temporal, calls, failed>>
      BY <2>1 DEF Elsewhere, scheduleVars
    <3>1. OnlyGivenUpIdsGo'
      BY <1>2, <3>0 DEF KeptInv, OnlyGivenUpIdsGo
    <3>2. ASSUME NEW s \in Schedule PROVE Keeps(s)' = Keeps(s)
      BY <3>0 DEF Keeps
    <3>3. ASSUME NEW s \in Schedule, NEW h \in Handler, Creates(h, s) PROVE Creates(h, s)'
      BY <3>0, <3>3 DEF Creates
    <3> QED BY <1>2, <3>0, <3>1, <3>2, <3>3 DEF KeptInv
  <2> QED BY <1>2, <2>1, StepForms, CommitKeepsKept, CallKeepsKept
<1> QED BY <1>1, <1>2

(* Overlapping handlers never take away the Temporal schedule of a row that *)
(* is there: once its calls are made and none for its present id has        *)
(* failed, it is kept, whatever failed before that id was given.           *)
THEOREM RowsKeepTheirSchedules == ScheduleSpec => []RowKeepsItsSchedule
<1>1. ScheduleTypeOK /\ ShapeInv /\ KeptInv => RowKeepsItsSchedule
  <2> SUFFICES ASSUME ShapeInv, KeptInv, NEW s \in Schedule,
                      ~Due(s), row[s].state \in Present, row[s].id \notin failed
               PROVE  \E t \in KeptFor(s) : t.id = row[s].id /\ t.timing = row[s].timing
    BY DEF RowKeepsItsSchedule
  <2>1. ~ \E h \in Handler : Creates(h, s)
    BY CreatesHasCalls DEF Due
  <2> QED BY <2>1 DEF KeptInv, Keeps, KeptFor
<1> QED BY <1>1, ShapesInductive, KeptInductive, PTL DEF ScheduleSpec

-----------------------------------------------------------------------------
(* Rows and Temporal schedules of schedules nothing has gone wrong with.    *)

DueBy(h, s) == calls[h] # <<>> /\ Head(calls[h]).what.schedule = s

Settled(s) ==
  KeptFor(s) = IF row[s].state \in Present THEN {Asked(s, row[s])} ELSE {}

(* What one handler has still to do for its row. *)
Pending(h, s) ==
  \/ \E c \in Call :
       /\ calls[h] = <<c>> /\ c.do = "create" /\ c.what = Asked(s, row[s])
       /\ row[s].state \in Present
       /\ KeptFor(s) = {}
  \/ \E c, d \in Call :
       /\ calls[h] = <<c, d>> /\ c.do = "delete"
       /\ d.do = "create" /\ d.what = Asked(s, row[s])
       /\ row[s].state \in Present
       /\ \A t \in KeptFor(s) : t.id = c.what.id
  \/ \E c \in Call :
       /\ calls[h] = <<c>> /\ c.do = "delete"
       /\ row[s].state \notin Present
       /\ \A t \in KeptFor(s) : t.id = c.what.id
  \/ \E c \in Call :
       /\ calls[h] = <<c>> /\ c.do = "switch" /\ c.what = Asked(s, row[s])
       /\ row[s].state \in Present
       /\ KeptFor(s) # {}
       /\ \A t \in KeptFor(s) : t.id = row[s].id /\ t.timing = row[s].timing

Served(h, s) ==
  DueBy(h, s) /\ Pending(h, s) /\ \A g \in Handler : DueBy(g, s) => g = h

SyncForm(s) ==
  /\ \A t, u \in KeptFor(s) : t = u
  /\ \/ Settled(s) /\ \A h \in Handler : ~DueBy(h, s)
     \/ \E h \in Handler : Served(h, s)

SyncInv == \A s \in Schedule \ overlapped : ~FailedFor(s) => SyncForm(s)

LEMMA SameSchedule ==
  ASSUME NEW s \in Schedule, NEW r \in Row, NEW t \in TemporalSchedule,
         t.id = r.id, t.schedule = s, t.timing = r.timing, t.paused = Asked(s, r).paused
  PROVE  t = Asked(s, r)
  BY DEF TemporalSchedule, Asked

LEMMA PendingUnchanged ==
  ASSUME NEW h \in Handler, NEW s \in Schedule,
         calls'[h] = calls[h], row'[s] = row[s], KeptFor(s)' = KeptFor(s)
  PROVE  /\ DueBy(h, s)' = DueBy(h, s)
         /\ Pending(h, s) => Pending(h, s)'
         /\ Settled(s) => Settled(s)'
<1>1. DueBy(h, s)' = DueBy(h, s)
  BY DEF DueBy
<1>2. Settled(s) => Settled(s)'
  BY DEF Settled, Asked
<1>3. Pending(h, s) => Pending(h, s)'
  BY DEF Pending, Asked
<1> QED BY <1>1, <1>2, <1>3

(* A handler that is busy elsewhere changes nothing here. *)
LEMMA OthersUndisturbed ==
  ASSUME NEW h \in Handler, NEW z \in Schedule, SyncForm(z),
         \A g \in Handler : g # h => calls'[g] = calls[g],
         ~DueBy(h, z), ~DueBy(h, z)', row'[z] = row[z], KeptFor(z)' = KeptFor(z)
  PROVE  SyncForm(z)'
<1>1. ASSUME NEW g \in Handler
      PROVE  DueBy(g, z)' <=> DueBy(g, z)
  <2>1. CASE g # h
    BY <2>1 DEF DueBy
  <2> QED BY <2>1
<1>2. CASE Settled(z) /\ \A g \in Handler : ~DueBy(g, z)
  BY <1>1, <1>2, PendingUnchanged DEF SyncForm, Settled, Asked
<1>3. ASSUME NEW g \in Handler, Served(g, z)
      PROVE  Served(g, z)'
  <2>1. g # h
    BY <1>3 DEF Served
  <2> QED BY <1>1, <1>3, <2>1, PendingUnchanged DEF Served
<1> QED BY <1>2, <1>3 DEF SyncForm

LEMMA CommitKeepsSync ==
  ASSUME ScheduleTypeOK, ShapeInv, SyncInv,
         NEW h \in Handler, NEW s \in Schedule, NEW r, NEW due,
         HandlerCommits(h, s, r, due)
  PROVE  SyncInv'
<1>0. /\ row[s] \in Row /\ r \in Row /\ calls[h] = <<>>
      /\ temporal' = temporal /\ failed' = failed
      /\ overlapped' = IF Due(s) THEN overlapped \cup {s} ELSE overlapped
      /\ row'[s] = r /\ calls'[h] = due
      /\ \A z \in Schedule : z # s => row'[z] = row[z]
      /\ \A g \in Handler : g # h => calls'[g] = calls[g]
      /\ \A z \in Schedule : KeptFor(z)' = KeptFor(z)
  BY DEF ScheduleTypeOK, HandlerCommits, Commit, KeptFor
<1>1. PICK a \in Call, b \in Call, e \in Call :
        a = Create(s, r) /\ b = Delete(s, row[s]) /\ e = Switch(s, r)
  BY <1>0, AskedType
<1>2. /\ b.do = "delete" /\ a.do = "create" /\ e.do = "switch"
      /\ a.what = Asked(s, r) /\ e.what = Asked(s, r) /\ b.what = Asked(s, row[s])
      /\ b.what.id = row[s].id
      /\ a.what.schedule = s /\ b.what.schedule = s /\ e.what.schedule = s
  BY <1>0, <1>1, AskedType
<1>3. due \in {<<a>>, <<b, a>>, <<b>>, <<e>>}
  BY <1>1 DEF HandlerCommits
<1>4. due # <<>> /\ Head(due).what.schedule = s
  BY <1>2, <1>3
<1>5. SUFFICES ASSUME NEW z \in Schedule, ~FailedFor(z)', z \notin overlapped'
               PROVE  SyncForm(z)'
  BY DEF SyncInv
<1>6. SyncForm(z)
  BY <1>0, <1>5 DEF SyncInv, FailedFor
<1>7. CASE z # s
  <2>1. ~DueBy(h, z) /\ ~DueBy(h, z)' /\ row'[z] = row[z]
    BY <1>0, <1>4, <1>7 DEF DueBy
  <2> QED BY <1>0, <1>6, <2>1, OthersUndisturbed
<1>8. CASE z = s
  <2>1. \A g \in Handler : ~DueBy(g, s)
    BY <1>0, <1>5, <1>8 DEF Due, DueBy
  <2>2. Settled(s) /\ \A t, u \in KeptFor(s) : t = u
    BY <1>6, <1>8, <2>1 DEF SyncForm, Served
  <2>3. DueBy(h, s)' /\ \A g \in Handler : DueBy(g, s)' => g = h
    BY <1>0, <1>4, <2>1 DEF DueBy
  <2>4. Asked(s, row[s]).id = row[s].id /\ Asked(s, row[s]).timing = row[s].timing
    BY DEF Asked
  <2>5. Pending(h, s)'
    <3>1. CASE row[s].state = "none" /\ due = <<a>> /\ r.state \in Present
      <4>1. KeptFor(s)' = {}
        BY <1>0, <2>2, <3>1 DEF Settled, Present
      <4> QED BY <1>0, <1>2, <3>1, <4>1 DEF Pending
    <3>2. CASE row[s].state \in Present /\ due = <<b, a>> /\ r.state \in Present
      <4>1. \A t \in KeptFor(s)' : t.id = b.what.id
        BY <1>0, <1>2, <2>2, <2>4, <3>2 DEF Settled
      <4> QED BY <1>0, <1>2, <3>2, <4>1 DEF Pending
    <3>3. CASE row[s].state \in Present /\ due = <<b>> /\ r.state = "deleted"
      <4>1. \A t \in KeptFor(s)' : t.id = b.what.id
        BY <1>0, <1>2, <2>2, <2>4, <3>3 DEF Settled
      <4>2. row'[s].state \notin Present
        BY <1>0, <3>3 DEF Present
      <4> QED BY <1>0, <1>2, <3>3, <4>1, <4>2 DEF Pending
    <3>4. CASE /\ row[s].state \in Present /\ due = <<e>> /\ r.state \in Present
               /\ r.id = row[s].id /\ r.timing = row[s].timing
      <4>1. KeptFor(s)' # {} /\ \A t \in KeptFor(s)' : t.id = r.id /\ t.timing = r.timing
        BY <1>0, <2>2, <2>4, <3>4 DEF Settled
      <4> QED BY <1>0, <1>2, <3>4, <4>1 DEF Pending
    <3> QED BY <1>1, <3>1, <3>2, <3>3, <3>4 DEF HandlerCommits
  <2>6. \A t, u \in KeptFor(s)' : t = u
    BY <1>0, <2>2
  <2> QED BY <1>8, <2>3, <2>5, <2>6 DEF SyncForm, Served
<1> QED BY <1>7, <1>8

LEMMA OtherIdsKept ==
  ASSUME ScheduleTypeOK, ShapeInv, NEW c \in Call, OwnCall(c),
         NEW z \in Schedule, z # c.what.schedule, temporal' \in {temporal, Effect(c)}
  PROVE  KeptFor(z)' = KeptFor(z)
<1>1. \A t \in temporal : t.id = c.what.id => t.schedule = c.what.schedule
  BY DEF ShapeInv, OwnCall, Own
<1>2. c.do \in {"create", "delete", "switch"} /\ temporal \subseteq TemporalSchedule
  BY DEF Call, ScheduleTypeOK
<1>3. CASE temporal' = Effect(c) /\ c.do = "create"
  BY <1>2, <1>3, EffectFacts DEF KeptFor
<1>4. CASE temporal' = Effect(c) /\ c.do = "delete"
  BY <1>1, <1>2, <1>4, EffectFacts DEF KeptFor, Without
<1>5. CASE temporal' = Effect(c) /\ c.do = "switch"
  <2>1. \A t \in KeptFor(z)' : t \in KeptFor(z)
    BY <1>1, <1>2, <1>5, EffectFacts DEF KeptFor
  <2>2. \A t \in KeptFor(z) : t \in KeptFor(z)'
    BY <1>1, <1>2, <1>5, EffectFacts DEF KeptFor
  <2> QED BY <2>1, <2>2 DEF KeptFor
<1>6. CASE temporal' = temporal
  BY <1>6 DEF KeptFor
<1> QED BY <1>2, <1>3, <1>4, <1>5, <1>6

(* The next call of the handler that serves s succeeds. *)
LEMMA ServedCall ==
  ASSUME ScheduleTypeOK, ShapeInv, NEW h \in Handler, NEW s \in Schedule, NEW c, NEW rest,
         HandlerCalls(h, c, rest), c.what.schedule = s, ~FailedFor(s)',
         Served(h, s), \A t, u \in KeptFor(s) : t = u
  PROVE  SyncForm(s)'
<1>0. /\ c \in Call /\ temporal' = Effect(c) /\ temporal \subseteq TemporalSchedule
      /\ row' = row /\ row[s] \in Row /\ calls'[h] = rest
      /\ \A g \in Handler : g # h => calls'[g] = calls[g]
      /\ Head(calls[h]) = c
      /\ OwnCall(c)
  <2>1. c.what.id \notin failed'
    BY DEF HandlerCalls, OwnCall, Own, FailedFor
  <2> QED BY <2>1 DEF HandlerCalls, ScheduleTypeOK
<1>1. \A g \in Handler : g # h => ~DueBy(g, s)'
  BY <1>0 DEF Served, DueBy
<1>2. (calls[h] = <<c>> /\ rest = <<>>) \/ \E d : calls[h] = <<c, d>> /\ rest = <<d>>
  <2>1. ASSUME NEW d \in Call, d.what.schedule = s, OwnCall(d)
        PROVE  d.what.id \notin failed'
    BY <2>1 DEF OwnCall, Own, FailedFor
  <2> QED BY <2>1 DEF HandlerCalls
<1>3. c.what \in TemporalSchedule
  BY <1>0 DEF Call
<1>4. ASSUME rest = <<>>, KeptFor(s)' = IF row[s].state \in Present THEN {Asked(s, row[s])} ELSE {}
      PROVE  SyncForm(s)'
  <2>1. ~DueBy(h, s)'
    BY <1>0, <1>4 DEF DueBy
  <2>2. Settled(s)'
    BY <1>0, <1>4 DEF Settled, Asked
  <2>3. \A t, u \in KeptFor(s)' : t = u
    BY <1>4
  <2> QED BY <1>1, <2>1, <2>2, <2>3 DEF SyncForm
<1>5. CASE /\ calls[h] = <<c>> /\ c.do = "create" /\ c.what = Asked(s, row[s])
           /\ row[s].state \in Present /\ KeptFor(s) = {}
  <2>1. KeptFor(s)' = {Asked(s, row[s])}
    BY <1>0, <1>5, EffectFacts DEF KeptFor
  <2> QED BY <1>2, <1>4, <1>5, <2>1
<1>6. CASE \E d \in Call :
             /\ calls[h] = <<c, d>> /\ c.do = "delete"
             /\ d.do = "create" /\ d.what = Asked(s, row[s])
             /\ row[s].state \in Present
             /\ \A t \in KeptFor(s) : t.id = c.what.id
  <2> PICK d \in Call :
             /\ calls[h] = <<c, d>> /\ c.do = "delete"
             /\ d.do = "create" /\ d.what = Asked(s, row[s])
             /\ row[s].state \in Present
             /\ \A t \in KeptFor(s) : t.id = c.what.id
    BY <1>6
  <2>1. rest = <<d>>
    BY <1>2
  <2>2. KeptFor(s)' = {}
    BY <1>0, EffectFacts DEF KeptFor, Without
  <2>3. d.what.schedule = s
    BY DEF Asked
  <2>4. DueBy(h, s)' /\ \A g \in Handler : DueBy(g, s)' => g = h
    BY <1>0, <1>1, <2>1, <2>3 DEF DueBy
  <2>5. Pending(h, s)'
    BY <1>0, <2>1, <2>2 DEF Pending
  <2> QED BY <2>2, <2>4, <2>5 DEF SyncForm, Served
<1>7. CASE /\ calls[h] = <<c>> /\ c.do = "delete" /\ row[s].state \notin Present
           /\ \A t \in KeptFor(s) : t.id = c.what.id
  <2>1. KeptFor(s)' = {}
    BY <1>0, <1>7, EffectFacts DEF KeptFor, Without
  <2> QED BY <1>2, <1>4, <1>7, <2>1
<1>8. CASE /\ calls[h] = <<c>> /\ c.do = "switch" /\ c.what = Asked(s, row[s])
           /\ row[s].state \in Present /\ KeptFor(s) # {}
           /\ \A t \in KeptFor(s) : t.id = row[s].id /\ t.timing = row[s].timing
  <2>0. c.what.id = row[s].id /\ c.what.paused = Asked(s, row[s]).paused
    BY <1>8 DEF Asked
  <2>1. ASSUME NEW t \in KeptFor(s)'
        PROVE  t = Asked(s, row[s])
    <3>1. t \in Effect(c) /\ t.schedule = s /\ t \in TemporalSchedule
      BY <1>0, <2>1, EffectFacts DEF KeptFor
    <3>2. /\ t.id = c.what.id /\ t.paused = c.what.paused
          /\ \E u \in temporal : t.id = u.id /\ t.schedule = u.schedule /\ t.timing = u.timing
      BY <1>0, <1>8, <2>0, <3>1, EffectFacts DEF KeptFor
    <3>3. t.timing = row[s].timing
      BY <1>8, <3>1, <3>2 DEF KeptFor
    <3> QED BY <1>0, <2>0, <3>1, <3>2, <3>3, SameSchedule
  <2>2. KeptFor(s)' # {}
    BY <1>0, <1>8, EffectFacts DEF KeptFor
  <2>3. KeptFor(s)' = {Asked(s, row[s])}
    BY <2>1, <2>2
  <2> QED BY <1>2, <1>4, <1>8, <2>3
<1> QED BY <1>0, <1>2, <1>5, <1>6, <1>7, <1>8 DEF Served, Pending

LEMMA CallKeepsSync ==
  ASSUME ScheduleTypeOK, ShapeInv, SyncInv,
         NEW h \in Handler, NEW c, NEW rest, HandlerCalls(h, c, rest)
  PROVE  SyncInv'
<1>0. /\ c \in Call /\ OwnCall(c) /\ row' = row /\ calls'[h] = rest
      /\ \A g \in Handler : g # h => calls'[g] = calls[g]
      /\ failed \subseteq failed' /\ overlapped' = overlapped
      /\ Head(calls[h]) = c /\ calls[h] # <<>>
      /\ temporal' \in {temporal, Effect(c)}
  BY DEF HandlerCalls, ScheduleTypeOK
<1>1. rest = <<>> \/ \E d : rest = <<d>> /\ d.what.schedule = c.what.schedule
  BY DEF HandlerCalls
<1>2. SUFFICES ASSUME NEW z \in Schedule, ~FailedFor(z)', z \notin overlapped'
               PROVE  SyncForm(z)'
  BY DEF SyncInv
<1>3. SyncForm(z)
  BY <1>0, <1>2 DEF SyncInv, FailedFor
<1>4. CASE z # c.what.schedule
  <2>1. ~DueBy(h, z) /\ ~DueBy(h, z)'
    BY <1>0, <1>1, <1>4 DEF DueBy
  <2>2. KeptFor(z)' = KeptFor(z)
    BY <1>0, <1>4, OtherIdsKept
  <2> QED BY <1>0, <1>3, <2>1, <2>2, OthersUndisturbed
<1>5. CASE z = c.what.schedule
  <2>1. DueBy(h, z)
    BY <1>0, <1>5 DEF DueBy
  <2>2. Served(h, z) /\ \A t, u \in KeptFor(z) : t = u
    BY <1>3, <2>1 DEF SyncForm, Served
  <2> QED BY <1>2, <1>5, <2>2, ServedCall
<1> QED BY <1>4, <1>5

LEMMA SyncInductive ==
  /\ ScheduleInit => SyncInv
  /\ ScheduleTypeOK /\ ShapeInv /\ SyncInv /\ [ScheduleNext]_scheduleVars => SyncInv'
<1>1. ScheduleInit => SyncInv
  <2> SUFFICES ASSUME ScheduleInit, NEW s \in Schedule PROVE SyncForm(s)
    BY DEF SyncInv
  <2>1. KeptFor(s) = {} /\ row[s].state \notin Present /\ \A h \in Handler : ~DueBy(h, s)
    BY DEF ScheduleInit, KeptFor, Present, DueBy
  <2> QED BY <2>1 DEF SyncForm, Settled
<1>2. ASSUME ScheduleTypeOK, ShapeInv, SyncInv, [ScheduleNext]_scheduleVars
      PROVE  SyncInv'
  <2>1. CASE Elsewhere \/ UNCHANGED scheduleVars
    <3>0. UNCHANGED <<row, temporal, calls, failed, overlapped>>
      BY <2>1 DEF Elsewhere, scheduleVars
    <3>1. ASSUME NEW s \in Schedule, SyncForm(s) PROVE SyncForm(s)'
      BY <3>0, <3>1 DEF SyncForm, Settled, Served, Pending, DueBy, KeptFor, Asked
    <3> QED BY <1>2, <3>0, <3>1 DEF SyncInv, FailedFor
  <2> QED BY <1>2, <2>1, StepForms, CommitKeepsSync, CallKeepsSync
<1> QED BY <1>1, <1>2

(* A schedule whose calls have all been made, none of which failed or met   *)
(* another handler's, is kept by Temporal exactly as its row asks.          *)
THEOREM SchedulesInSync == ScheduleSpec => []InSyncWhenQuiet
<1>1. SyncInv => InSyncWhenQuiet
  <2> SUFFICES ASSUME SyncInv, NEW s \in Schedule, ~FailedFor(s), s \notin overlapped, ~Due(s)
               PROVE  Settled(s)
    BY DEF InSyncWhenQuiet, Settled
  <2>1. SyncForm(s) /\ \A h \in Handler : ~DueBy(h, s)
    BY DEF SyncInv, Due, DueBy
  <2> QED BY <2>1 DEF SyncForm, Served
<1> QED BY <1>1, ShapesInductive, SyncInductive, PTL DEF ScheduleSpec

(* At no time do two Temporal schedules fire for one such row. *)
THEOREM OneClockPerRow == ScheduleSpec => []OneClock
<1>1. SyncInv => OneClock
  BY DEF SyncInv, SyncForm, OneClock
<1> QED BY <1>1, ShapesInductive, SyncInductive, PTL DEF ScheduleSpec
=============================================================================
