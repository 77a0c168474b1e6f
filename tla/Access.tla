------------------------------- MODULE Access -------------------------------
(***************************************************************************)
(* Who may do what: the throttle of logins (security/auth.py) and the roles *)
(* of one member in one group (group_api.py, security/permissions.py).      *)
(*                                                                         *)
(* A login is a thread of the API.  It drops the failed attempts of its     *)
(* client that are old, counts the others, verifies the password, which     *)
(* takes its time, and then adds to them or forgets them all.  The attempts *)
(* are kept in memory in a deque that all threads share: each test, look,   *)
(* popleft and append is atomic, and other threads act between them.        *)
(*                                                                         *)
(* A request that changes the roles is a transaction.  Its statements see   *)
(* the rows committed when they start; a DELETE waits for those another     *)
(* transaction has deleted, and does not look for new ones.                *)
(***************************************************************************)
EXTENDS Integers, Sequences, FiniteSets

CONSTANTS
  Login,           \* logins of the client the API works on at the same time
  MaxAttempts,     \* failed logins after which the client is refused
  Window,          \* how long a failed login counts
  MaxTime,         \* bound on the time
  Role,
  Change,          \* requests that change the roles at the same time
  MaxChanges       \* bound on committed changes of the roles

ASSUME AccessAssumption ==
  /\ {MaxAttempts, Window} \subseteq Nat \ {0} /\ {MaxTime, MaxChanges} \subseteq Nat
  /\ IsFiniteSet(Login) /\ Login # {}

VARIABLES
  now,             \* the time, for the throttle
  attempts,        \* the deque of login_attempts: times of failed logins
  login,           \* how far each login has come
  since,           \* when each login has read the time
  failures,        \* history: all failed logins since a success or a restart
  early,           \* history: which of them left the deque while they counted
  overtaken,       \* history: logins about to pop what another has taken
  rows,            \* the rows of group_member: the role, and which change put it
  change,          \* how far each change has come
  changes,         \* how many changes were committed
  replaced         \* history: the changes known to the last PATCH or DELETE

throttleVars == <<now, attempts, login, since, failures, early, overtaken>>
roleVars == <<rows, change, changes, replaced>>
accessVars == <<throttleVars, roleVars>>

Row == Role \X Nat

Phase == {"idle", "testing", "looking", "popping", "counting", "verifying",
          "failing"}

Idle == [phase |-> "idle"]

ChangeState ==
  [phase : {"started", "deleted"}, method : {"POST", "PATCH", "DELETE"},
   roles : SUBSET Role, seen : SUBSET Row, since : Nat]

AccessInit ==
  /\ now = 0
  /\ attempts = <<>>
  /\ login = [l \in Login |-> "idle"]
  /\ since = [l \in Login |-> 0]
  /\ failures = <<>>
  /\ early = {}
  /\ overtaken = {}
  /\ rows = {}
  /\ change = [c \in Change |-> Idle]
  /\ changes = 0
  /\ replaced = 0

-----------------------------------------------------------------------------
(* The throttle. *)

Old(time, asOf) == time < asOf - Window

At(l, phase) == login' = [login EXCEPT ![l] = phase]

(* The login is answered, with or without a session or an error. *)
Answered(l) == At(l, "idle") /\ since' = [since EXCEPT ![l] = 0]

Tick ==
  /\ now < MaxTime
  /\ now' = now + 1
  /\ UNCHANGED <<attempts, login, since, failures, early, overtaken, roleVars>>

(* _check_rate_limit reads the time once, *)
Begin(l) ==
  /\ login[l] = "idle"
  /\ At(l, "testing")
  /\ since' = [since EXCEPT ![l] = now]
  /\ UNCHANGED <<now, attempts, failures, early, overtaken, roleVars>>

(* tests that there are attempts, *)
TestForAttempts(l) ==
  /\ login[l] = "testing"
  /\ At(l, IF attempts = <<>> THEN "counting" ELSE "looking")
  /\ UNCHANGED <<now, attempts, since, failures, early, overtaken, roleVars>>

(* wrong variant: an attempt leaves the window a moment too early *)
LookAtFirstInclusive(l) ==
  /\ login[l] = "looking"
  /\ \/ attempts = <<>> /\ Answered(l)
     \/ /\ attempts # <<>>
        /\ At(l, IF Head(attempts) <= since[l] - Window THEN "popping" ELSE "counting")
        /\ UNCHANGED since
  /\ UNCHANGED <<now, attempts, failures, early, overtaken, roleVars>>

(* looks at the first, which is an IndexError when there is none any more,  *)
LookAtFirst(l) ==
  /\ login[l] = "looking"
  /\ \/ attempts = <<>> /\ Answered(l)
     \/ /\ attempts # <<>>
        /\ At(l, IF Old(Head(attempts), since[l]) THEN "popping" ELSE "counting")
        /\ UNCHANGED since
  /\ UNCHANGED <<now, attempts, failures, early, overtaken, roleVars>>

Popped == Len(failures) - Len(attempts)

(* and takes away the first, whichever it is by now; *)
PopLeft(l) ==
  /\ login[l] = "popping"
  /\ \/ /\ attempts = <<>>
        /\ Answered(l)
        /\ overtaken' = overtaken \ {l}
        /\ UNCHANGED <<attempts, early>>
     \/ /\ attempts # <<>>
        /\ At(l, "testing")
        /\ attempts' = Tail(attempts)
        /\ early' = IF Old(Head(attempts), now) THEN early ELSE early \cup {Popped + 1}
        /\ overtaken' = {m \in Login \ {l} : login[m] = "popping"}
        /\ UNCHANGED since
  /\ UNCHANGED <<now, failures, roleVars>>

(* wrong variant: refuses one attempt too late *)
CountAttemptsLate(l) ==
  /\ login[l] = "counting"
  /\ \/ Len(attempts) <= MaxAttempts /\ At(l, "verifying") /\ UNCHANGED since
     \/ Len(attempts) > MaxAttempts /\ Answered(l)
  /\ UNCHANGED <<now, attempts, failures, early, overtaken, roleVars>>

(* it lets the login pass or refuses it with 429. *)
CountAttempts(l) ==
  /\ login[l] = "counting"
  /\ \/ Len(attempts) < MaxAttempts /\ At(l, "verifying") /\ UNCHANGED since
     \/ Len(attempts) >= MaxAttempts /\ Answered(l)
  /\ UNCHANGED <<now, attempts, failures, early, overtaken, roleVars>>

(* The password is wrong: the time is read, and then added to the attempts. *)
LoginFails(l) ==
  /\ login[l] = "verifying"
  /\ At(l, "failing")
  /\ since' = [since EXCEPT ![l] = now]
  /\ UNCHANGED <<now, attempts, failures, early, overtaken, roleVars>>

AddAttempt(l) ==
  /\ login[l] = "failing"
  /\ Answered(l)
  /\ attempts' = Append(attempts, since[l])
  /\ failures' = Append(failures, since[l])
  /\ UNCHANGED <<now, early, overtaken, roleVars>>

LoginSucceeds(l) ==
  /\ login[l] = "verifying"
  /\ Answered(l)
  /\ attempts' = <<>>
  /\ failures' = <<>>
  /\ early' = {}
  /\ overtaken' = {m \in Login : login[m] = "popping"}
  /\ UNCHANGED <<now, roleVars>>

(* The API is restarted. *)
Restart ==
  /\ attempts' = <<>>
  /\ failures' = <<>>
  /\ login' = [l \in Login |-> "idle"]
  /\ since' = [l \in Login |-> 0]
  /\ early' = {}
  /\ overtaken' = {}
  /\ change' = [c \in Change |-> Idle]
  /\ UNCHANGED <<now, rows, changes, replaced>>

-----------------------------------------------------------------------------
(* The roles. *)

RolesOf(them) == {r[1] : r \in them}

(* upsert_group_member, update_group_member and remove_group_member read    *)
(* the rows of the member.                                                 *)
Start(c) ==
  /\ change[c].phase = "idle" /\ changes < MaxChanges
  /\ \E m \in {"POST", "PATCH", "DELETE"}, new \in SUBSET Role :
       /\ m = "DELETE" <=> new = {}
       /\ m = "DELETE" => rows # {}
       /\ change' = [change EXCEPT ![c] =
            [phase |-> "started", method |-> m, roles |-> new,
             seen |-> rows, since |-> changes]]
  /\ UNCHANGED <<throttleVars, rows, changes, replaced>>

(* The rows another transaction has deleted and not committed. *)
DeletedByOthers(c) ==
  UNION {change[d].seen : d \in {d \in Change \ {c} : change[d].phase = "deleted"}}

(* wrong variant: does not wait for rows that are locked *)
DeleteUnlocked(c) ==
  /\ change[c].phase = "started" /\ change[c].method # "POST"
  /\ change' = [change EXCEPT ![c].phase = "deleted",
                              ![c].seen = (@ \cap rows) \ DeletedByOthers(c)]
  /\ UNCHANGED <<throttleVars, rows, changes, replaced>>

Delete(c) ==
  /\ change[c].phase = "started" /\ change[c].method # "POST"
  /\ change[c].seen \cap DeletedByOthers(c) = {}
  /\ change' = [change EXCEPT ![c].phase = "deleted", ![c].seen = @ \cap rows]
  /\ UNCHANGED <<throttleVars, rows, changes, replaced>>

Added(c) ==
  IF change[c].method = "POST"
    THEN change[c].roles \ RolesOf(change[c].seen)
    ELSE change[c].roles

Left(c) == IF change[c].method = "POST" THEN rows ELSE rows \ change[c].seen

Ready(c) ==
  \/ change[c].phase = "deleted"
  \/ change[c].phase = "started" /\ change[c].method = "POST"

(* wrong variant: no unique constraint *)
CommitUnchecked(c) ==
  /\ Ready(c)
  /\ changes' = changes + 1
  /\ rows' = Left(c) \cup (Added(c) \X {changes'})
  /\ replaced' = IF change[c].method = "POST" \/ change[c].since < replaced
                   THEN replaced ELSE change[c].since
  /\ change' = [change EXCEPT ![c] = Idle]
  /\ UNCHANGED throttleVars

(* A role is there once: the unique constraint refuses the insertion, and   *)
(* the request is rolled back.                                             *)
Commit(c) ==
  /\ Ready(c)
  /\ Added(c) \cap RolesOf(Left(c)) = {}
  /\ changes' = changes + 1
  /\ rows' = Left(c) \cup (Added(c) \X {changes'})
  /\ replaced' = IF change[c].method = "POST" \/ change[c].since < replaced
                   THEN replaced ELSE change[c].since
  /\ change' = [change EXCEPT ![c] = Idle]
  /\ UNCHANGED throttleVars

Refuse(c) ==
  /\ Ready(c)
  /\ Added(c) \cap RolesOf(Left(c)) # {}
  /\ change' = [change EXCEPT ![c] = Idle]
  /\ UNCHANGED <<throttleVars, rows, changes, replaced>>

AccessNext ==
  \/ Tick \/ Restart
  \/ \E l \in Login :
       \/ Begin(l) \/ TestForAttempts(l) \/ LookAtFirst(l) \/ PopLeft(l)
       \/ CountAttempts(l) \/ LoginFails(l) \/ AddAttempt(l) \/ LoginSucceeds(l)
  \/ \E c \in Change : Start(c) \/ Delete(c) \/ Commit(c) \/ Refuse(c)

AccessSpec == AccessInit /\ [][AccessNext]_accessVars

-----------------------------------------------------------------------------
(* Properties. *)

(* Type invariant.  No role is there twice. *)
AccessTypeOK ==
  /\ now \in 0..MaxTime
  /\ attempts \in Seq(0..MaxTime) /\ failures \in Seq(0..MaxTime)
  /\ login \in [Login -> Phase]
  /\ since \in [Login -> 0..MaxTime]
  /\ early \subseteq DOMAIN failures /\ overtaken \subseteq Login
  /\ rows \subseteq Row /\ \A r, q \in rows : r[1] = q[1] => r = q
  /\ change \in [Change -> {Idle} \cup ChangeState]
  /\ {changes, replaced} \subseteq Nat

Recent == {i \in DOMAIN failures : ~Old(failures[i], now)}

(* However logins overlap, a client without a success fails at most         *)
(* MaxAttempts times within the window, and once more for every other login *)
(* that passed the check while the last one was being verified, not         *)
(* counting the failures that a thread has popped by mistake                *)
(* (auth.py:48-55).                                                        *)
FailuresBounded ==
  Cardinality(Recent \ early) <= MaxAttempts - 1 + Cardinality(Login)

(* There are few of those: a failure that still counts is popped only by a  *)
(* thread that has looked at an old one, which another thread has popped or *)
(* cleared in between.  So each pop of an old one and each success makes    *)
(* room for at most one such mistake per other thread (auth.py:51-52, 186). *)
EarlyPopsBounded ==
  Cardinality(early) <= (Cardinality(Login) - 1) * (1 + Popped - Cardinality(early))

(* A PATCH or DELETE that was answered has taken away every role the member *)
(* had when it started, whatever other changes it overlapped: what is held  *)
(* was given by it or by a change that it could not see.                    *)
OldRolesAreGone == \A r \in rows : r[2] > replaced
=============================================================================
