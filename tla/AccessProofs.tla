---------------------------- MODULE AccessProofs -----------------------------
(***************************************************************************)
(* Proofs about the roles of a member, for any number of roles and of       *)
(* overlapping changes, and about the throttle, for any number of logins.   *)
(***************************************************************************)
EXTENDS Access, FiniteSetTheorems, SequenceTheorems, TLAPS

Pending(c) == change[c] # Idle

(* What a thread does that leaves the deque alone. *)
Watches(l) ==
  \/ Begin(l) \/ TestForAttempts(l) \/ LookAtFirst(l) \/ CountAttempts(l) \/ LoginFails(l)

RoleTypes ==
  /\ rows \subseteq Row
  /\ changes \in Nat /\ replaced \in Nat
  /\ change \in [Change -> {Idle} \cup ChangeState]

(* Every row is known to whoever has started since it was committed.        *)
RolesInv ==
  /\ RoleTypes
  /\ replaced <= changes
  /\ \A r \in rows : r[2] <= changes /\ r[2] > replaced
  /\ \A c \in Change : Pending(c) =>
       /\ change[c].since <= changes
       /\ \A r \in rows : r[2] <= change[c].since => r \in change[c].seen

-----------------------------------------------------------------------------
LEMMA RolesStart == AccessInit => RolesInv
  BY DEF AccessInit, RolesInv, RoleTypes, Pending

LEMMA Fields ==
  ASSUME RoleTypes, NEW c \in Change, Pending(c)
  PROVE  /\ change[c] \in ChangeState /\ change[c].since \in Nat
         /\ change[c].seen \subseteq Row /\ change[c].roles \subseteq Role
<1>1. change[c] \in ChangeState
  BY DEF RoleTypes, Pending
<1> QED BY <1>1 DEF ChangeState

LEMMA StartKeepsRoles ==
  ASSUME RolesInv, NEW c \in Change, Start(c)
  PROVE  RolesInv'
<1>1. PICK m \in {"POST", "PATCH", "DELETE"}, new \in SUBSET Role :
        change' = [change EXCEPT ![c] =
          [phase |-> "started", method |-> m, roles |-> new, seen |-> rows, since |-> changes]]
  BY DEF Start
<1> DEFINE mine == [phase |-> "started", method |-> m, roles |-> new,
                    seen |-> rows, since |-> changes]
<1>2. mine \in ChangeState
  BY DEF ChangeState, RolesInv, RoleTypes
<1>3. change' \in [Change -> {Idle} \cup ChangeState]
  BY <1>1, <1>2 DEF RolesInv, RoleTypes
<1>4. /\ change'[c].since = changes /\ change'[c].seen = rows
      /\ \A d \in Change : d # c => change'[d] = change[d]
  BY <1>1 DEF RolesInv, RoleTypes
<1>5. UNCHANGED <<rows, changes, replaced>> /\ changes \in Nat
  BY DEF Start, RolesInv, RoleTypes
<1>6. RoleTypes'
  BY <1>3, <1>5 DEF RolesInv, RoleTypes
<1> HIDE DEF mine
<1>7. \A d \in Change : Pending(d)' =>
        /\ change'[d].since <= changes
        /\ \A r \in rows : r[2] <= change'[d].since => r \in change'[d].seen
  <2> SUFFICES ASSUME NEW d \in Change, Pending(d)'
               PROVE  /\ change'[d].since <= changes
                      /\ \A r \in rows : r[2] <= change'[d].since => r \in change'[d].seen
    OBVIOUS
  <2>1. CASE d = c
    BY <1>4, <1>5, <2>1
  <2>2. CASE d # c
    BY <1>4, <2>2 DEF RolesInv, Pending
  <2> QED BY <2>1, <2>2
<1> QED BY <1>5, <1>6, <1>7 DEF RolesInv

LEMMA DeleteKeepsRoles ==
  ASSUME RolesInv, NEW c \in Change, Delete(c)
  PROVE  RolesInv'
<1>1. Pending(c)
  BY DEF Delete, Pending, Idle
<1>2. change[c] \in ChangeState
  BY <1>1, Fields DEF RolesInv
<1>3. /\ change'[c].since = change[c].since
      /\ change'[c].seen = change[c].seen \cap rows
      /\ change'[c] \in ChangeState
  <2>1. change'[c] = [change[c] EXCEPT !.phase = "deleted", !.seen = @ \cap rows]
    BY DEF Delete, RolesInv, RoleTypes
  <2>2. PICK x \in ChangeState : x = change[c]
    BY <1>2
  <2>3. [x EXCEPT !.phase = "deleted", !.seen = @ \cap rows] \in ChangeState
    BY DEF ChangeState
  <2> QED BY <2>1, <2>2, <2>3 DEF ChangeState
<1>4. \A d \in Change : d # c => change'[d] = change[d]
  BY DEF Delete, RolesInv, RoleTypes
<1>5. UNCHANGED <<rows, changes, replaced>>
  BY DEF Delete
<1>6. RoleTypes'
  <2>1. change' = [d \in Change |-> IF d = c THEN change'[c] ELSE change[d]]
    BY DEF Delete, RolesInv, RoleTypes
  <2>2. \A d \in Change : change[d] \in {Idle} \cup ChangeState
    BY DEF RolesInv, RoleTypes
  <2> QED BY <1>3, <1>5, <2>1, <2>2 DEF RolesInv, RoleTypes
<1>7. \A d \in Change : Pending(d)' =>
        /\ change'[d].since <= changes
        /\ \A r \in rows : r[2] <= change'[d].since => r \in change'[d].seen
  <2> SUFFICES ASSUME NEW d \in Change, Pending(d)'
               PROVE  /\ change'[d].since <= changes
                      /\ \A r \in rows : r[2] <= change'[d].since => r \in change'[d].seen
    OBVIOUS
  <2>1. CASE d = c
    BY <1>1, <1>3, <2>1 DEF RolesInv
  <2>2. CASE d # c
    BY <1>4, <2>2 DEF RolesInv, Pending
  <2> QED BY <2>1, <2>2
<1> QED BY <1>5, <1>6, <1>7 DEF RolesInv

LEMMA CommitKeepsRoles ==
  ASSUME RolesInv, NEW c \in Change, Commit(c)
  PROVE  RolesInv'
<1>1. Pending(c)
  BY DEF Commit, Ready, Pending, Idle
<1>2. /\ change[c].since \in Nat /\ change[c].since <= changes
      /\ change[c].seen \subseteq Row /\ change[c].roles \subseteq Role
      /\ changes \in Nat /\ replaced \in Nat
      /\ rows \subseteq Row
  BY <1>1, Fields DEF RolesInv, RoleTypes
<1>3. /\ changes' = changes + 1
      /\ rows' = Left(c) \cup (Added(c) \X {changes + 1})
      /\ \A d \in Change : d # c => change'[d] = change[d]
      /\ change'[c] = Idle
  BY DEF Commit, RolesInv, RoleTypes
<1>4. Left(c) \subseteq rows /\ Added(c) \subseteq Role
  BY <1>2 DEF Left, Added
<1>5. \A r \in rows' :
        \/ r \in Left(c)
        \/ r \in Row /\ r[2] = changes + 1
  BY <1>2, <1>3, <1>4 DEF Row
<1>6. \A r \in rows : r[2] \in Nat
  BY <1>2 DEF Row
<1>7. RoleTypes'
  <2>1. rows' \subseteq Row
    BY <1>2, <1>4, <1>5
  <2>2. replaced' \in Nat
    BY <1>2 DEF Commit
  <2>3. change' \in [Change -> {Idle} \cup ChangeState]
    BY DEF Commit, RolesInv, RoleTypes
  <2> QED BY <1>2, <1>3, <2>1, <2>2, <2>3 DEF RoleTypes
<1>8. ASSUME NEW r \in rows'
      PROVE  r[2] <= changes' /\ r[2] > replaced'
  <2>1. \/ replaced' = replaced
        \/ change[c].method # "POST" /\ replaced' = change[c].since
    BY DEF Commit
  <2>2. CASE r \in Left(c)
    <3>1. r \in rows /\ r[2] \in Nat /\ r[2] <= changes /\ r[2] > replaced
      BY <1>4, <1>6, <2>2 DEF RolesInv
    <3>2. CASE replaced' = replaced
      BY <1>2, <1>3, <3>1, <3>2
    <3>3. CASE change[c].method # "POST" /\ replaced' = change[c].since
      <4>1. r \notin change[c].seen
        BY <2>2, <3>3 DEF Left
      <4>2. ~(r[2] <= change[c].since)
        BY <1>1, <3>1, <4>1 DEF RolesInv
      <4> QED BY <1>2, <1>3, <3>1, <3>3, <4>2
    <3> QED BY <2>1, <3>2, <3>3
  <2>3. CASE r[2] = changes + 1
    BY <1>2, <1>3, <2>1, <2>3 DEF RolesInv
  <2> QED BY <1>5, <2>2, <2>3
<1>9. replaced' <= changes'
  BY <1>2, <1>3 DEF Commit, RolesInv
<1>10. ASSUME NEW d \in Change, Pending(d)'
       PROVE  /\ change'[d].since <= changes'
              /\ \A r \in rows' : r[2] <= change'[d].since => r \in change'[d].seen
  <2>1. d # c /\ change'[d] = change[d] /\ Pending(d)
    BY <1>3, <1>10 DEF Pending
  <2>2. change[d].since \in Nat /\ change[d].since <= changes
    BY <2>1, Fields DEF RolesInv
  <2>3. ASSUME NEW r \in rows', r[2] <= change[d].since
        PROVE  r \in change[d].seen
    <3>1. r \in Left(c)
      BY <1>2, <1>5, <2>2, <2>3
    <3> QED BY <1>4, <2>1, <2>3, <3>1 DEF RolesInv
  <2> QED BY <1>2, <1>3, <2>1, <2>2, <2>3
<1> QED BY <1>7, <1>8, <1>9, <1>10 DEF RolesInv

LEMMA RolesInductive == RolesInv /\ [AccessNext]_accessVars => RolesInv'
<1> SUFFICES ASSUME RolesInv, [AccessNext]_accessVars PROVE RolesInv'
  OBVIOUS
<1>1. CASE UNCHANGED roleVars
  BY <1>1 DEF roleVars, RolesInv, RoleTypes, Pending
<1>2. CASE Restart
  BY <1>2 DEF Restart, RolesInv, RoleTypes, Pending
<1>3. CASE \E c \in Change : Refuse(c)
  <2>1. PICK c \in Change : Refuse(c)
    BY <1>3
  <2>2. /\ change'[c] = Idle /\ \A d \in Change : d # c => change'[d] = change[d]
        /\ change' \in [Change -> {Idle} \cup ChangeState]
        /\ UNCHANGED <<rows, changes, replaced>>
    BY <2>1 DEF Refuse, RolesInv, RoleTypes
  <2> QED BY <2>2 DEF RolesInv, RoleTypes, Pending
<1>4. CASE \/ Tick \/ UNCHANGED accessVars
           \/ \E l \in Login :
                Watches(l) \/ PopLeft(l) \/ AddAttempt(l) \/ LoginSucceeds(l)
  BY <1>1, <1>4
  DEF Tick, Watches, Begin, TestForAttempts, LookAtFirst, PopLeft, CountAttempts, LoginFails,
      AddAttempt, LoginSucceeds, accessVars, roleVars
<1> QED BY <1>2, <1>3, <1>4, StartKeepsRoles, DeleteKeepsRoles, CommitKeepsRoles
        DEF AccessNext, Watches

(* A change of the roles that was answered has taken away all that the       *)
(* member had when it started, for any number of overlapping changes.       *)
THEOREM OldRolesAreAlwaysGone == AccessSpec => []OldRolesAreGone
<1>1. RolesInv => OldRolesAreGone
  BY DEF RolesInv, OldRolesAreGone
<1> QED BY <1>1, RolesStart, RolesInductive, PTL DEF AccessSpec

-----------------------------------------------------------------------------
(* The rest of the types.  A change of the roles inserts none that is held. *)
Time == 0..MaxTime

OncePerRole == \A r, q \in rows : r[1] = q[1] => r = q

LEMMA OncePerRoleInductive ==
  /\ AccessInit => OncePerRole
  /\ RolesInv /\ OncePerRole /\ [AccessNext]_accessVars => OncePerRole'
<1>1. AccessInit => OncePerRole
  BY DEF AccessInit, OncePerRole
<1>2. ASSUME RolesInv, OncePerRole, [AccessNext]_accessVars
      PROVE  OncePerRole'
  <2>1. ASSUME NEW c \in Change, Commit(c)
        PROVE  OncePerRole'
    <3>1. /\ rows' = Left(c) \cup (Added(c) \X {changes'})
          /\ Added(c) \cap RolesOf(Left(c)) = {}
          /\ Left(c) \subseteq rows
      BY <2>1 DEF Commit, Left
    <3>2. ASSUME NEW r \in rows', NEW q \in rows', r[1] = q[1]
          PROVE  r = q
      <4>1. CASE r \in Left(c) /\ q \in Left(c)
        BY <1>2, <3>1, <3>2, <4>1 DEF OncePerRole
      <4>2. \A x \in rows' : x \in Left(c) => x[1] \notin Added(c)
        BY <3>1 DEF RolesOf
      <4>3. \A x \in rows' : x \notin Left(c) => x[1] \in Added(c) /\ x = <<x[1], changes'>>
        BY <3>1
      <4> QED BY <3>2, <4>1, <4>2, <4>3
    <3> QED BY <3>2 DEF OncePerRole
  <2>2. CASE UNCHANGED rows
    BY <1>2, <2>2 DEF OncePerRole
  <2> QED
    BY <1>2, <2>1, <2>2
    DEF AccessNext, accessVars, throttleVars, roleVars, Tick, Restart, Begin,
        TestForAttempts, LookAtFirst, PopLeft, CountAttempts, LoginFails, AddAttempt,
        LoginSucceeds, Start, Delete, Refuse
<1> QED BY <1>1, <1>2

ThrottleTypes ==
  /\ now \in Time
  /\ attempts \in Seq(Time) /\ failures \in Seq(Time)
  /\ login \in [Login -> Phase]
  /\ since \in [Login -> Time] /\ \A l \in Login : since[l] <= now
  /\ overtaken \subseteq Login

LEMMA ThrottleTypesInductive ==
  /\ AccessInit => ThrottleTypes
  /\ ThrottleTypes /\ [AccessNext]_accessVars => ThrottleTypes'
<1>0. 0 \in Time /\ Time \subseteq Int /\ <<>> \in Seq(Time) /\ \A t \in Time : 0 <= t
  BY AccessAssumption DEF Time
<1>1. AccessInit => ThrottleTypes
  BY <1>0 DEF AccessInit, ThrottleTypes, Phase
<1>2. ASSUME ThrottleTypes, [AccessNext]_accessVars
      PROVE  ThrottleTypes'
  <2>1. ASSUME NEW l \in Login, Watches(l)
        PROVE  ThrottleTypes'
    <3>1. UNCHANGED <<now, attempts, failures, overtaken>>
      BY <2>1 DEF Watches, Begin, TestForAttempts, LookAtFirst, CountAttempts, LoginFails
    <3>2. login' \in [Login -> Phase]
      BY <1>2, <2>1
      DEF Watches, Begin, TestForAttempts, LookAtFirst, CountAttempts, LoginFails, At, Answered,
          Phase, ThrottleTypes
    <3>3. \/ since' = since
          \/ since' = [since EXCEPT ![l] = now]
          \/ since' = [since EXCEPT ![l] = 0]
      BY <2>1
      DEF Watches, Begin, TestForAttempts, LookAtFirst, CountAttempts, LoginFails, Answered
    <3>4. since' \in [Login -> Time] /\ \A m \in Login : since'[m] <= now
      BY <1>0, <1>2, <3>3 DEF ThrottleTypes
    <3> QED BY <1>2, <3>1, <3>2, <3>4 DEF ThrottleTypes
  <2>2. ASSUME NEW l \in Login, PopLeft(l) \/ AddAttempt(l) \/ LoginSucceeds(l)
        PROVE  ThrottleTypes'
    <3>1. login' \in [Login -> Phase] /\ now' = now
      BY <1>2, <2>2 DEF PopLeft, AddAttempt, LoginSucceeds, At, Answered, Phase, ThrottleTypes
    <3>2. since' = since \/ since' = [since EXCEPT ![l] = 0]
      BY <2>2 DEF PopLeft, AddAttempt, LoginSucceeds, Answered
    <3>3. since' \in [Login -> Time] /\ \A m \in Login : since'[m] <= now
      BY <1>0, <1>2, <3>2 DEF ThrottleTypes
    <3>4. attempts' \in Seq(Time) /\ failures' \in Seq(Time)
      <4>1. since[l] \in Time
        BY <1>2 DEF ThrottleTypes
      <4>2. Append(attempts, since[l]) \in Seq(Time) /\ Append(failures, since[l]) \in Seq(Time)
        BY <1>2, <4>1, AppendProperties DEF ThrottleTypes
      <4>3. attempts # <<>> => Tail(attempts) \in Seq(Time)
        BY <1>2, HeadTailProperties DEF ThrottleTypes
      <4> QED BY <1>0, <1>2, <2>2, <4>2, <4>3 DEF PopLeft, AddAttempt, LoginSucceeds, ThrottleTypes
    <3>5. overtaken' \subseteq Login
      BY <1>2, <2>2 DEF PopLeft, AddAttempt, LoginSucceeds, ThrottleTypes
    <3> QED BY <1>2, <3>1, <3>3, <3>4, <3>5 DEF ThrottleTypes
  <2>3. CASE Tick
    <3>1. now' \in Time /\ now' = now + 1
      BY <1>2, <2>3, AccessAssumption DEF ThrottleTypes, Tick, Time
    <3>2. UNCHANGED <<attempts, failures, login, since, overtaken>>
      BY <2>3 DEF Tick
    <3>3. ASSUME NEW l \in Login PROVE since[l] <= now + 1
      <4>1. now \in Int /\ since[l] \in Int /\ since[l] <= now
        BY <1>2 DEF ThrottleTypes, Time
      <4> QED BY <4>1
    <3> QED BY <1>2, <3>1, <3>2, <3>3 DEF ThrottleTypes
  <2>4. CASE Restart
    BY <1>0, <1>2, <2>4 DEF Restart, ThrottleTypes, Phase
  <2>5. CASE UNCHANGED throttleVars
    BY <1>2, <2>5 DEF ThrottleTypes, throttleVars
  <2> QED
    BY <1>2, <2>1, <2>2, <2>3, <2>4, <2>5
    DEF AccessNext, accessVars, Watches, Start, Delete, Commit, Refuse
<1> QED BY <1>1, <1>2

-----------------------------------------------------------------------------
(* The deque is the end of the history.  What left it is old, or was taken  *)
(* by mistake.                                                             *)
DequeInv ==
  /\ Len(attempts) <= Len(failures)
  /\ early \subseteq 1 .. Popped
  /\ \A i \in (1 .. Popped) \ early : Old(failures[i], now)
  /\ \A i \in 1 .. Len(attempts) : attempts[i] = failures[Popped + i]

LEMMA Lengths ==
  ASSUME ThrottleTypes, DequeInv
  PROVE  /\ Len(attempts) \in Nat /\ Len(failures) \in Nat /\ Popped \in Nat
         /\ Popped + Len(attempts) = Len(failures)
         /\ DOMAIN failures = 1 .. Len(failures)
         /\ attempts = <<>> <=> Len(attempts) = 0
         /\ \A i \in 1 .. Len(failures) : failures[i] \in Int
<1>1. /\ Len(attempts) \in Nat /\ Len(failures) \in Nat
      /\ DOMAIN failures = 1 .. Len(failures)
      /\ attempts = <<>> <=> Len(attempts) = 0
  BY DEF ThrottleTypes
<1>2. \A i \in 1 .. Len(failures) : failures[i] \in Time
  BY DEF ThrottleTypes
<1>3. Time \subseteq Int
  BY DEF Time
<1>4. Popped \in Nat /\ Popped + Len(attempts) = Len(failures)
  BY <1>1 DEF Popped, DequeInv
<1> QED BY <1>1, <1>2, <1>3, <1>4

LEMMA PopKeepsDeque ==
  ASSUME ThrottleTypes, DequeInv, NEW l \in Login, PopLeft(l), attempts # <<>>
  PROVE  DequeInv' /\ Popped' = Popped + 1
<1>1. /\ attempts' = Tail(attempts) /\ UNCHANGED <<failures, now>>
      /\ early' = IF Old(Head(attempts), now) THEN early ELSE early \cup {Popped + 1}
  BY DEF PopLeft
<1>2. /\ Len(attempts') = Len(attempts) - 1
      /\ \A i \in 1 .. Len(attempts') : attempts'[i] = attempts[i + 1]
      /\ Head(attempts) = attempts[1]
  BY <1>1, HeadTailProperties DEF ThrottleTypes
<1>3. Len(attempts) >= 1 /\ Popped' = Popped + 1
  BY <1>1, <1>2, Lengths DEF Popped
<1>4. Head(attempts) = failures[Popped + 1]
  BY <1>2, <1>3, Lengths DEF DequeInv
<1>5. early' \subseteq 1 .. Popped'
  <2>1. early \subseteq 1 .. Popped /\ early' \subseteq early \cup {Popped + 1}
    BY <1>1 DEF DequeInv
  <2> QED BY <1>3, <2>1, Lengths
<1>6. ASSUME NEW i \in (1 .. Popped') \ early' PROVE Old(failures[i], now)
  <2>1. CASE i = Popped + 1
    BY <1>1, <1>4, <1>6, <2>1
  <2>2. CASE i # Popped + 1
    <3>1. i \in (1 .. Popped) \ early
      BY <1>1, <1>3, <1>6, <2>2, Lengths
    <3> QED BY <3>1 DEF DequeInv
  <2> QED BY <2>1, <2>2
<1>7. ASSUME NEW i \in 1 .. Len(attempts')
      PROVE  attempts'[i] = failures[Popped' + i]
  <2>1. i + 1 \in 1 .. Len(attempts) /\ Popped' + i = Popped + (i + 1)
    BY <1>2, <1>3, Lengths
  <2> QED BY <1>2, <2>1 DEF DequeInv
<1>8. Len(attempts') <= Len(failures')
  BY <1>1, <1>2, Lengths DEF DequeInv
<1> QED BY <1>1, <1>3, <1>5, <1>6, <1>7, <1>8 DEF DequeInv, Old

LEMMA AddKeepsDeque ==
  ASSUME ThrottleTypes, DequeInv, NEW l \in Login, AddAttempt(l)
  PROVE  DequeInv' /\ Popped' = Popped
<1>1. /\ attempts' = Append(attempts, since[l]) /\ failures' = Append(failures, since[l])
      /\ UNCHANGED <<now, early>> /\ since[l] \in Time
  BY DEF AddAttempt, ThrottleTypes
<1>2. /\ Len(attempts') = Len(attempts) + 1 /\ Len(failures') = Len(failures) + 1
      /\ \A i \in 1 .. Len(attempts) : attempts'[i] = attempts[i]
      /\ \A i \in 1 .. Len(failures) : failures'[i] = failures[i]
      /\ attempts'[Len(attempts) + 1] = since[l] /\ failures'[Len(failures) + 1] = since[l]
  BY <1>1, AppendProperties DEF ThrottleTypes
<1>3. Popped' = Popped
  BY <1>2, Lengths DEF Popped
<1>4. ASSUME NEW i \in (1 .. Popped) \ early PROVE Old(failures'[i], now)
  <2>1. i \in 1 .. Len(failures) /\ Old(failures[i], now)
    BY <1>4, Lengths DEF DequeInv
  <2> QED BY <1>2, <2>1
<1>5. ASSUME NEW i \in 1 .. Len(attempts')
      PROVE  attempts'[i] = failures'[Popped + i]
  <2>1. CASE i = Len(attempts')
    <3>0. i = Len(attempts) + 1
      BY <1>2, <2>1
    <3>1. Popped + i = Len(failures) + 1
      BY <3>0, Lengths
    <3>2. attempts'[i] = since[l] /\ failures'[Len(failures) + 1] = since[l]
      BY <1>2, <2>1
    <3> QED BY <3>1, <3>2
  <2>2. CASE i # Len(attempts')
    <3>1. i \in 1 .. Len(attempts) /\ Popped + i \in 1 .. Len(failures)
      BY <1>2, <1>5, <2>2, Lengths
    <3> QED BY <1>2, <3>1 DEF DequeInv
  <2> QED BY <2>1, <2>2
<1>6. Len(attempts') <= Len(failures') /\ early \subseteq 1 .. Popped
  BY <1>2, Lengths DEF DequeInv
<1> QED BY <1>1, <1>3, <1>4, <1>5, <1>6 DEF DequeInv, Old

LEMMA TickKeepsDeque ==
  ASSUME ThrottleTypes, DequeInv, Tick
  PROVE  DequeInv'
<1>1. now' = now + 1 /\ UNCHANGED <<attempts, failures, early>>
  BY DEF Tick
<1>2. ASSUME NEW i \in (1 .. Popped) \ early PROVE Old(failures[i], now)'
  <2>1. Old(failures[i], now) /\ failures[i] \in Int
    BY <1>2, Lengths DEF DequeInv
  <2>2. now \in Int /\ Window \in Int
    BY AccessAssumption DEF ThrottleTypes, Time
  <2> QED BY <1>1, <2>1, <2>2 DEF Old
<1> QED BY <1>1, <1>2 DEF DequeInv, Popped

(* The steps of everybody else, and the test of an emptied deque. *)
LEMMA StepKinds ==
  ASSUME [AccessNext]_accessVars
  PROVE  \/ Tick
         \/ \E l \in Login :
              Watches(l) \/ PopLeft(l) \/ AddAttempt(l) \/ LoginSucceeds(l)
         \/ Restart
         \/ UNCHANGED throttleVars
  BY DEF AccessNext, accessVars, Watches, Start, Delete, Commit, Refuse

LEMMA DequeInductive ==
  /\ AccessInit => DequeInv
  /\ ThrottleTypes /\ DequeInv /\ [AccessNext]_accessVars => DequeInv'
<1>1. AccessInit => DequeInv
  BY DEF AccessInit, DequeInv, Popped
<1>2. ASSUME ThrottleTypes, DequeInv, [AccessNext]_accessVars
      PROVE  DequeInv'
  <2>1. ASSUME UNCHANGED <<attempts, failures, early, now>>
        PROVE  DequeInv'
    BY <1>2, <2>1 DEF DequeInv, Popped, Old
  <2>2. ASSUME attempts' = <<>>, failures' = <<>>, early' = {}
        PROVE  DequeInv'
    BY <2>2 DEF DequeInv, Popped
  <2>3. ASSUME NEW l \in Login, Watches(l)
        PROVE  DequeInv'
    BY <2>1, <2>3 DEF Watches, Begin, TestForAttempts, LookAtFirst, CountAttempts, LoginFails
  <2>4. ASSUME NEW l \in Login, PopLeft(l)
        PROVE  DequeInv'
    <3>1. CASE attempts = <<>>
      BY <2>1, <2>4, <3>1 DEF PopLeft
    <3> QED BY <1>2, <2>4, <3>1, PopKeepsDeque
  <2>5. CASE (\E l \in Login : LoginSucceeds(l)) \/ Restart
    BY <2>2, <2>5 DEF LoginSucceeds, Restart
  <2>6. CASE UNCHANGED throttleVars
    BY <2>1, <2>6 DEF throttleVars
  <2> QED BY <1>2, <2>3, <2>4, <2>5, <2>6, StepKinds, AddKeepsDeque, TickKeepsDeque
<1> QED BY <1>1, <1>2

(* Types are kept, and the unique key keeps every role of a member single   *)
(* (models.py:76-79), for any number of overlapping changes.                *)
THEOREM AccessTypeCorrect == AccessSpec => []AccessTypeOK
<1>1. RolesInv /\ ThrottleTypes /\ DequeInv /\ OncePerRole => AccessTypeOK
  <2> SUFFICES ASSUME RolesInv, ThrottleTypes, DequeInv, OncePerRole PROVE AccessTypeOK
    OBVIOUS
  <2>1. early \subseteq DOMAIN failures
    BY Lengths DEF DequeInv
  <2> QED BY <2>1 DEF RolesInv, RoleTypes, ThrottleTypes, OncePerRole, AccessTypeOK, Time
<1> QED
  BY <1>1, RolesStart, RolesInductive, OncePerRoleInductive, ThrottleTypesInductive,
     DequeInductive, PTL DEF AccessSpec

-----------------------------------------------------------------------------
(* The limit.  Who is being verified may still fail, and is counted already. *)
InFlight == {l \in Login : login[l] \in {"verifying", "failing"}}

ThrottleInv ==
  Len(attempts) + Cardinality(InFlight) <= MaxAttempts - 1 + Cardinality(Login)

LEMMA FewerLogins ==
  /\ Cardinality(Login) \in Nat \ {0}
  /\ \A some \in SUBSET Login :
       IsFiniteSet(some) /\ Cardinality(some) \in Nat /\ Cardinality(some) <= Cardinality(Login)
  /\ \A l \in Login : \A some \in SUBSET (Login \ {l}) :
       Cardinality(some) <= Cardinality(Login) - 1
<1>1. IsFiniteSet(Login) /\ Cardinality(Login) \in Nat /\ Cardinality(Login) # 0
  BY AccessAssumption, FS_CardinalityType, FS_EmptySet
<1>2. \A some \in SUBSET Login :
        IsFiniteSet(some) /\ Cardinality(some) \in Nat /\ Cardinality(some) <= Cardinality(Login)
  BY <1>1, FS_Subset, FS_CardinalityType
<1>3. ASSUME NEW l \in Login, NEW some \in SUBSET (Login \ {l})
      PROVE  Cardinality(some) <= Cardinality(Login) - 1
  <2>1. IsFiniteSet(Login \ {l}) /\ Cardinality(Login \ {l}) = Cardinality(Login) - 1
    BY <1>1, FS_RemoveElement
  <2> QED BY <2>1, FS_Subset
<1> QED BY <1>1, <1>2, <1>3

(* Who passes the check finds room for all logins together. *)
LEMMA RoomForAll ==
  ASSUME NEW n \in Nat, n < MaxAttempts, NEW some \in SUBSET Login
  PROVE  n + Cardinality(some) <= MaxAttempts - 1 + Cardinality(Login)
  BY FewerLogins, AccessAssumption

LEMMA ThrottleInductive ==
  /\ AccessInit => ThrottleInv
  /\ ThrottleTypes /\ DequeInv /\ ThrottleInv /\ [AccessNext]_accessVars => ThrottleInv'
<1>0. InFlight \in SUBSET Login /\ InFlight' \in SUBSET Login
  BY DEF InFlight
<1>1. ASSUME AccessInit PROVE ThrottleInv
  <2>1. Len(attempts) = 0
    BY <1>1 DEF AccessInit
  <2> QED BY <1>0, <2>1, RoomForAll, AccessAssumption DEF ThrottleInv
<1>2. ASSUME ThrottleTypes, DequeInv, ThrottleInv, [AccessNext]_accessVars
      PROVE  ThrottleInv'
  <2>1. ASSUME UNCHANGED attempts, InFlight' = InFlight
        PROVE  ThrottleInv'
    BY <1>2, <2>1 DEF ThrottleInv
  <2>2. ASSUME attempts' = <<>>
        PROVE  ThrottleInv'
    <3>1. Len(attempts') = 0
      BY <2>2
    <3> QED BY <1>0, <3>1, RoomForAll, AccessAssumption DEF ThrottleInv
  <2>3. ASSUME NEW l \in Login, Watches(l)
        PROVE  ThrottleInv'
    <3>1. UNCHANGED attempts
      BY <2>3 DEF Watches, Begin, TestForAttempts, LookAtFirst, CountAttempts, LoginFails
    <3>2. CASE CountAttempts(l) /\ Len(attempts) < MaxAttempts
      <4>1. Len(attempts') \in Nat /\ Len(attempts') < MaxAttempts
        BY <1>2, <3>1, <3>2, Lengths
      <4> QED BY <1>0, <4>1, RoomForAll DEF ThrottleInv
    <3>3. CASE ~(CountAttempts(l) /\ Len(attempts) < MaxAttempts)
      <4>1. \E phase \in {"idle", "testing", "looking", "popping", "counting", "failing"} :
              /\ login' = [login EXCEPT ![l] = phase]
              /\ login[l] \in {"verifying", "failing"} <=> phase = "failing"
        BY <2>3, <3>3
        DEF Watches, Begin, TestForAttempts, LookAtFirst, CountAttempts, LoginFails, At, Answered
      <4>2. InFlight' = InFlight
        BY <1>2, <4>1 DEF InFlight, ThrottleTypes
      <4> QED BY <2>1, <3>1, <4>2
    <3> QED BY <3>2, <3>3
  <2>4. ASSUME NEW l \in Login, PopLeft(l)
        PROVE  ThrottleInv'
    <3>1. InFlight' = InFlight
      BY <1>2, <2>4 DEF PopLeft, At, Answered, InFlight, ThrottleTypes
    <3>2. CASE attempts = <<>>
      BY <2>1, <2>4, <3>1, <3>2 DEF PopLeft
    <3>3. CASE attempts # <<>>
      <4>1. Len(attempts') = Len(attempts) - 1
        BY <1>2, <2>4, <3>3, HeadTailProperties DEF PopLeft, ThrottleTypes
      <4>2. /\ Len(attempts) \in Nat /\ MaxAttempts \in Nat
            /\ Cardinality(InFlight) \in Nat /\ Cardinality(Login) \in Nat
        BY <1>0, <1>2, Lengths, FewerLogins, AccessAssumption
      <4>3. Len(attempts) - 1 + Cardinality(InFlight) <= MaxAttempts - 1 + Cardinality(Login)
        BY <1>2, <4>2 DEF ThrottleInv
      <4> QED BY <3>1, <4>1, <4>3 DEF ThrottleInv
    <3> QED BY <3>2, <3>3
  <2>5. ASSUME NEW l \in Login, AddAttempt(l)
        PROVE  ThrottleInv'
    <3>1. Len(attempts') = Len(attempts) + 1
      BY <1>2, <2>5, AppendProperties DEF AddAttempt, ThrottleTypes
    <3>2. InFlight' = InFlight \ {l} /\ l \in InFlight
      BY <1>2, <2>5 DEF AddAttempt, At, Answered, InFlight, ThrottleTypes
    <3>3. Cardinality(InFlight') = Cardinality(InFlight) - 1
      BY <1>0, <3>2, FewerLogins, FS_RemoveElement
    <3>4. /\ Len(attempts) \in Nat /\ MaxAttempts \in Nat
          /\ Cardinality(InFlight) \in Nat /\ Cardinality(Login) \in Nat
      BY <1>0, <1>2, Lengths, FewerLogins, AccessAssumption
    <3> QED BY <1>2, <3>1, <3>3, <3>4 DEF ThrottleInv
  <2>6. CASE (\E l \in Login : LoginSucceeds(l)) \/ Restart
    BY <2>2, <2>6 DEF LoginSucceeds, Restart
  <2>7. CASE Tick \/ UNCHANGED throttleVars
    BY <2>1, <2>7 DEF Tick, throttleVars, InFlight
  <2> QED BY <1>2, <2>3, <2>4, <2>5, <2>6, <2>7, StepKinds
<1> QED BY <1>1, <1>2

(* A client fails at most MaxAttempts - 1 times and once per overlapping    *)
(* login within the window, but for the failures threads have popped by     *)
(* mistake (auth.py:48-55, 163-186), for any number of logins and any limit. *)
THEOREM FailuresAlwaysBounded == AccessSpec => []FailuresBounded
<1>1. ThrottleTypes /\ DequeInv /\ ThrottleInv => FailuresBounded
  <2> SUFFICES ASSUME ThrottleTypes, DequeInv, ThrottleInv
               PROVE  Cardinality(Recent \ early) <= MaxAttempts - 1 + Cardinality(Login)
    BY DEF FailuresBounded
  <2> DEFINE first == Popped + 1
             kept == first .. Len(failures)
  <2>1. Recent \ early \in SUBSET kept
    <3> SUFFICES ASSUME NEW i \in Recent \ early PROVE i \in kept
      OBVIOUS
    <3>1. i \in 1 .. Len(failures) /\ ~Old(failures[i], now)
      BY Lengths DEF Recent
    <3>2. ~(i <= Popped)
      BY <3>1, Lengths DEF DequeInv
    <3> QED BY <3>1, <3>2, Lengths
  <2>2. IsFiniteSet(kept) /\ Cardinality(kept) = Len(attempts)
    <3>1. /\ first \in Int /\ Len(failures) \in Int
          /\ first > Len(failures) => Len(attempts) = 0
          /\ Len(failures) - first + 1 = Len(attempts)
      BY Lengths
    <3> HIDE DEF first
    <3> QED BY <3>1, FS_Interval
  <2>3. Cardinality(Recent \ early) <= Len(attempts) /\ Cardinality(Recent \ early) \in Nat
    <3> HIDE DEF kept
    <3> QED BY <2>1, <2>2, FS_Subset, FS_CardinalityType
  <2>4. InFlight \in SUBSET Login
    BY DEF InFlight
  <2>5. Cardinality(InFlight) \in Nat /\ Cardinality(Login) \in Nat /\ Len(attempts) \in Nat
    BY <2>4, FewerLogins, Lengths
  <2> QED BY <2>3, <2>5, AccessAssumption DEF ThrottleInv
<1> QED
  BY <1>1, ThrottleTypesInductive, DequeInductive, ThrottleInductive, PTL DEF AccessSpec

-----------------------------------------------------------------------------
(* Pops by mistake.  A thread that was not overtaken is about to pop the     *)
(* attempt it has looked at; those who were overtaken are counted already.  *)
Popping == {l \in Login : login[l] = "popping"}

Others == Cardinality(Login) - 1

LooksAtFirst(l) == attempts # <<>> /\ Old(Head(attempts), since[l])

PoppersInv ==
  /\ overtaken \subseteq Popping
  /\ \A l \in Popping \ overtaken : LooksAtFirst(l)

(* How often there was occasion for mistakes. *)
Occasions == 1 + Popped - Cardinality(early)

MistakesInv == Cardinality(early) + Cardinality(overtaken) <= Others * Occasions

LEMMA Counts ==
  ASSUME ThrottleTypes, DequeInv, PoppersInv
  PROVE  /\ Cardinality(early) \in Nat /\ Cardinality(overtaken) \in Nat
         /\ IsFiniteSet(early) /\ IsFiniteSet(overtaken)
         /\ Others \in Nat /\ Popped + 1 \notin early
         /\ Occasions \in Int /\ Others * Occasions \in Int
<1>1. IsFiniteSet(1 .. Popped) /\ early \subseteq 1 .. Popped /\ Popped \in Nat
  BY FS_Interval, Lengths DEF DequeInv
<1>2. IsFiniteSet(early) /\ Cardinality(early) \in Nat
  BY <1>1, FS_Subset, FS_CardinalityType
<1>3. overtaken \in SUBSET Login
  BY DEF ThrottleTypes
<1>4. Others \in Nat /\ Occasions \in Int
  BY <1>1, <1>2, FewerLogins DEF Others, Occasions
<1>5. Others * Occasions \in Int
  BY <1>4
<1> QED BY <1>1, <1>2, <1>3, <1>4, <1>5, FewerLogins

LEMMA WatchKeepsPoppers ==
  ASSUME ThrottleTypes, PoppersInv, NEW l \in Login, Watches(l)
  PROVE  PoppersInv' /\ UNCHANGED <<attempts, failures, early, overtaken>>
<1>1. UNCHANGED <<attempts, failures, early, overtaken>>
  BY DEF Watches, Begin, TestForAttempts, LookAtFirst, CountAttempts, LoginFails
<1>2. l \notin Popping
  BY DEF Watches, Begin, TestForAttempts, LookAtFirst, CountAttempts, LoginFails, Popping
<1>3. /\ \A m \in Login : m # l => login'[m] = login[m] /\ since'[m] = since[m]
      /\ login'[l] = "popping" => LookAtFirst(l) /\ since' = since
  BY DEF Watches, Begin, TestForAttempts, LookAtFirst, CountAttempts, LoginFails, At, Answered,
         ThrottleTypes
<1>4. ASSUME login'[l] = "popping" PROVE LooksAtFirst(l)'
  <2>1. attempts # <<>> /\ Old(Head(attempts), since[l])
    BY <1>3, <1>4 DEF LookAtFirst, At, Answered, ThrottleTypes
  <2> QED BY <1>1, <1>3, <1>4, <2>1 DEF LooksAtFirst
<1>5. ASSUME NEW m \in Login, m # l PROVE LooksAtFirst(m)' = LooksAtFirst(m)
  BY <1>1, <1>3, <1>5 DEF LooksAtFirst
<1>6. overtaken \subseteq Popping'
  BY <1>2, <1>3 DEF PoppersInv, Popping
<1>7. ASSUME NEW m \in Popping' \ overtaken PROVE LooksAtFirst(m)'
  <2>1. CASE m = l
    BY <1>4, <1>7, <2>1 DEF Popping
  <2>2. CASE m # l
    <3>1. m \in Popping \ overtaken
      BY <1>3, <1>7, <2>2 DEF Popping
    <3> QED BY <1>5, <2>2, <3>1 DEF PoppersInv, Popping
  <2> QED BY <2>1, <2>2
<1> QED BY <1>1, <1>6, <1>7 DEF PoppersInv

LEMMA AddKeepsPoppers ==
  ASSUME ThrottleTypes, PoppersInv, NEW l \in Login, AddAttempt(l)
  PROVE  PoppersInv' /\ UNCHANGED <<early, overtaken>>
<1>1. /\ UNCHANGED <<early, overtaken>>
      /\ Popping' = Popping /\ l \notin Popping
      /\ \A m \in Login : m # l => since'[m] = since[m]
      /\ attempts' = Append(attempts, since[l])
  BY DEF AddAttempt, At, Answered, Popping, ThrottleTypes
<1>2. attempts # <<>> => Head(attempts') = Head(attempts) /\ attempts' # <<>>
  BY <1>1 DEF ThrottleTypes
<1>3. ASSUME NEW m \in Popping \ overtaken PROVE LooksAtFirst(m)'
  <2>1. LooksAtFirst(m) /\ m \in Login /\ m # l
    BY <1>1, <1>3 DEF PoppersInv, Popping
  <2> QED BY <1>1, <1>2, <2>1 DEF LooksAtFirst
<1> QED BY <1>1, <1>3 DEF PoppersInv

LEMMA PopOfNothing ==
  ASSUME ThrottleTypes, DequeInv, PoppersInv, MistakesInv,
         NEW l \in Login, PopLeft(l), attempts = <<>>
  PROVE  PoppersInv' /\ MistakesInv'
<1>1. /\ UNCHANGED <<attempts, early, failures>> /\ overtaken' = overtaken \ {l}
      /\ Popping' = Popping \ {l}
      /\ \A m \in Login : m # l => since'[m] = since[m]
  BY DEF PopLeft, At, Answered, Popping, ThrottleTypes
<1>2. ASSUME NEW m \in Popping' \ overtaken' PROVE LooksAtFirst(m)'
  <2>1. m \in Popping \ overtaken /\ m # l /\ m \in Login
    BY <1>1, <1>2 DEF Popping
  <2> QED BY <1>1, <2>1 DEF PoppersInv, LooksAtFirst
<1>3. Cardinality(overtaken') \in Nat /\ Cardinality(overtaken') <= Cardinality(overtaken)
  BY <1>1, Counts, FS_Subset, FS_CardinalityType
<1>4. MistakesInv'
  <2>1. Occasions' = Occasions /\ Others' = Others
    BY <1>1 DEF Occasions, Popped, Others
  <2>2. Cardinality(early) + Cardinality(overtaken') <= Others * Occasions
    BY <1>3, Counts DEF MistakesInv
  <2> QED BY <1>1, <2>1, <2>2 DEF MistakesInv
<1> QED BY <1>1, <1>2, <1>4 DEF PoppersInv

LEMMA PopKeepsMistakes ==
  ASSUME ThrottleTypes, DequeInv, PoppersInv, MistakesInv,
         NEW l \in Login, PopLeft(l), attempts # <<>>
  PROVE  PoppersInv' /\ MistakesInv'
<1>1. /\ overtaken' = Popping \ {l} /\ Popping' = Popping \ {l} /\ l \in Popping
      /\ early' = IF Old(Head(attempts), now) THEN early ELSE early \cup {Popped + 1}
      /\ Popped' = Popped + 1
  BY PopKeepsDeque DEF PopLeft, At, Popping, ThrottleTypes
<1>2. PoppersInv'
  BY <1>1 DEF PoppersInv
<1>3. Others' = Others
  BY DEF Others
<1>4. CASE Old(Head(attempts), now)
  <2>1. overtaken' \in SUBSET (Login \ {l})
    BY <1>1 DEF Popping
  <2>2. Cardinality(overtaken') \in Nat /\ Cardinality(overtaken') <= Others
    BY <2>1, FewerLogins DEF Others
  <2>3. Occasions' = Occasions + 1 /\ early' = early
    BY <1>1, <1>4, Counts, Lengths DEF Occasions
  <2>4. Others * (Occasions + 1) = Others * Occasions + Others
    BY Counts
  <2>5. Cardinality(early) + Cardinality(overtaken') <= Others * Occasions + Others
    BY <2>2, Counts DEF MistakesInv
  <2>6. Others' * Occasions' = Others * Occasions + Others
    BY <1>3, <2>3, <2>4
  <2> QED BY <1>2, <2>3, <2>5, <2>6 DEF MistakesInv
<1>5. CASE ~Old(Head(attempts), now)
  <2>1. ASSUME NEW m \in Popping PROVE m \in overtaken
    <3>1. ~LooksAtFirst(m)
      <4>1. Head(attempts) \in Time
        BY HeadTailProperties DEF ThrottleTypes
      <4>2. since[m] \in Time /\ now \in Time /\ since[m] <= now
        BY DEF ThrottleTypes, Popping
      <4>3. Time \subseteq Int /\ Window \in Int
        BY AccessAssumption DEF Time
      <4>4. Head(attempts) \in Int /\ since[m] \in Int /\ now \in Int
        BY <4>1, <4>2, <4>3
      <4> QED BY <1>5, <4>2, <4>3, <4>4 DEF LooksAtFirst, Old
    <3> QED BY <3>1 DEF PoppersInv
  <2>2. overtaken' = overtaken \ {l} /\ l \in overtaken
    BY <1>1, <2>1 DEF PoppersInv
  <2>3. Cardinality(overtaken') = Cardinality(overtaken) - 1
    BY <2>2, Counts, FS_RemoveElement
  <2>4. early' = early \cup {Popped + 1} /\ Cardinality(early') = Cardinality(early) + 1
    BY <1>1, <1>5, Counts, FS_AddElement
  <2>5. Occasions' = Occasions
    BY <1>1, <2>4, Counts, Lengths DEF Occasions
  <2>6. Cardinality(early') + Cardinality(overtaken') = Cardinality(early) + Cardinality(overtaken)
    BY <2>3, <2>4, Counts
  <2>7. Others' * Occasions' = Others * Occasions
    BY <1>3, <2>5
  <2> QED BY <1>2, <2>6, <2>7 DEF MistakesInv
<1> QED BY <1>2, <1>4, <1>5

LEMMA SuccessKeepsMistakes ==
  ASSUME ThrottleTypes, NEW l \in Login, LoginSucceeds(l)
  PROVE  PoppersInv' /\ MistakesInv'
<1>1. /\ attempts' = <<>> /\ failures' = <<>> /\ early' = {} /\ overtaken' = Popping
      /\ Popping' = Popping /\ l \notin Popping
  BY DEF LoginSucceeds, At, Answered, Popping, ThrottleTypes
<1>2. Cardinality(early') = 0 /\ Occasions' = 1 /\ Others' = Others
  BY <1>1, FS_EmptySet DEF Occasions, Popped, Others
<1>3. Popping \in SUBSET (Login \ {l})
  BY <1>1 DEF Popping
<1>4. Cardinality(overtaken') <= Others /\ Cardinality(overtaken') \in Nat /\ Others \in Nat
  BY <1>1, <1>3, FewerLogins DEF Others
<1>5. 0 + Cardinality(overtaken') <= Others * 1
  BY <1>4
<1> QED BY <1>1, <1>2, <1>5 DEF PoppersInv, MistakesInv

LEMMA NothingYet ==
  ASSUME AccessInit
  PROVE  PoppersInv /\ MistakesInv
<1>1. Cardinality(early) = 0 /\ Occasions = 1 /\ Cardinality(overtaken) = 0 /\ Others \in Nat
  BY FS_EmptySet, FewerLogins DEF AccessInit, Occasions, Popped, Others
<1>2. 0 + 0 <= Others * 1
  BY <1>1
<1> QED BY <1>1, <1>2 DEF AccessInit, PoppersInv, MistakesInv, Popping

LEMMA RestartKeepsMistakes ==
  ASSUME ThrottleTypes, Restart
  PROVE  PoppersInv' /\ MistakesInv'
<1>1. /\ attempts' = <<>> /\ failures' = <<>> /\ early' = {} /\ overtaken' = {}
      /\ Popping' = {}
  BY DEF Restart, Popping
<1>2. /\ Cardinality(early') = 0 /\ Occasions' = 1 /\ Cardinality(overtaken') = 0
      /\ Others \in Nat /\ Others' = Others
  BY <1>1, FS_EmptySet, FewerLogins DEF Occasions, Popped, Others
<1>3. 0 + 0 <= Others * 1
  BY <1>2
<1> QED BY <1>1, <1>2, <1>3 DEF PoppersInv, MistakesInv

LEMMA MistakesInductive ==
  /\ AccessInit => PoppersInv /\ MistakesInv
  /\ ThrottleTypes /\ DequeInv /\ PoppersInv /\ MistakesInv /\ [AccessNext]_accessVars
       => PoppersInv' /\ MistakesInv'
<1>1. ASSUME ThrottleTypes, DequeInv, PoppersInv, MistakesInv, [AccessNext]_accessVars
      PROVE  PoppersInv' /\ MistakesInv'
  <2>1. ASSUME UNCHANGED <<early, overtaken>>, Popped' = Popped
        PROVE  MistakesInv'
    BY <1>1, <2>1 DEF MistakesInv, Occasions, Others
  <2>2. ASSUME NEW l \in Login, Watches(l) \/ AddAttempt(l)
        PROVE  PoppersInv' /\ MistakesInv'
    <3>1. CASE Watches(l)
      BY <1>1, <2>1, <3>1, WatchKeepsPoppers DEF Popped
    <3>2. CASE AddAttempt(l)
      BY <1>1, <2>1, <3>2, AddKeepsPoppers, AddKeepsDeque
    <3> QED BY <2>2, <3>1, <3>2
  <2>3. ASSUME NEW l \in Login, PopLeft(l)
        PROVE  PoppersInv' /\ MistakesInv'
    BY <1>1, <2>3, PopOfNothing, PopKeepsMistakes
  <2>4. CASE Tick \/ UNCHANGED throttleVars
    <3>1. UNCHANGED <<attempts, failures, early, overtaken, login, since>>
      BY <2>4 DEF Tick, throttleVars
    <3>2. PoppersInv'
      BY <1>1, <3>1 DEF PoppersInv, Popping, LooksAtFirst
    <3> QED BY <2>1, <3>1, <3>2 DEF Popped
  <2> QED
    BY <1>1, <2>2, <2>3, <2>4, StepKinds, SuccessKeepsMistakes, RestartKeepsMistakes
<1> QED BY <1>1, NothingYet

(* Every failure popped while it still counts is paid for by the pop of an  *)
(* old one or a success that another thread did not see (auth.py:51-52,     *)
(* 186), for any number of logins and any window.                          *)
THEOREM EarlyPopsAlwaysBounded == AccessSpec => []EarlyPopsBounded
<1>1. ThrottleTypes /\ DequeInv /\ PoppersInv /\ MistakesInv => EarlyPopsBounded
  <2> SUFFICES ASSUME ThrottleTypes, DequeInv, PoppersInv, MistakesInv
               PROVE  Cardinality(early) <= Others * Occasions
    BY DEF EarlyPopsBounded, Others, Occasions
  <2> QED BY Counts DEF MistakesInv
<1> QED
  BY <1>1, ThrottleTypesInductive, DequeInductive, MistakesInductive, PTL DEF AccessSpec

=============================================================================
