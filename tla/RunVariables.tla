---------------------------- MODULE RunVariables ----------------------------
(***************************************************************************)
(* One variable of one run, and the attempts of the Set Variable nodes that *)
(* write it (run_variables.py, execute_node_activity in activities.py).     *)
(*                                                                         *)
(* The interpreter runs its nodes one after the other, here 1 .. Len(plan), *)
(* and Temporal tries each at most MaxTries times.  Attempts run together   *)
(* only when one outlives its timeout: Temporal moves on and the attempt    *)
(* keeps working.                                                          *)
(*                                                                         *)
(* An attempt is one transaction.  _load_run_and_node reads the run with    *)
(* its variables into the session; the flush locks the node's row, and with *)
(* the NODE_STARTED event it holds the run's row against FOR UPDATE;        *)
(* set_variable asks for the run's row FOR UPDATE.  A variable the session  *)
(* has loaded is not read again: the query that locks it finds the object.  *)
(*                                                                         *)
(* A value is its type and how often each node has contributed to it.       *)
(***************************************************************************)
EXTENDS Integers, Sequences

CONSTANTS
  Plans,           \* the writes a run may make, in the order of its nodes
  MaxTries,        \* maxAttempts of the nodes
  MaxFaults        \* bound on crashes, overruns and unanswered commits

Write ==
  [mode : {"REPLACE"}, type : {"number", "array", "object"}]
    \cup {[mode |-> "INCREMENT", type |-> "number"],
          [mode |-> "APPEND", type |-> "array"],
          [mode |-> "MERGE", type |-> "object"]}

ASSUME VariablesAssumption ==
  /\ Plans \subseteq Seq(Write)
  /\ MaxTries \in 1..5 /\ MaxFaults \in Nat

VARIABLES
  plan,            \* the writes of this run
  variable,        \* the row of flow_run_variable; revision 0: there is none
  phase,           \* how far each attempt has come
  copy,            \* the variable as the session of each attempt has loaded it
  awaited,         \* the attempt Temporal waits for or is about to dispatch
  status,          \* of the run, as the interpreter sees it
  faults,          \* how many faults have happened
  overran,         \* history: an attempt has outlived its timeout
  repeated,        \* history: a committed write was not answered by a success
  serial           \* history: the variable, had every write seen the last one

variableVars ==
  <<plan, variable, phase, copy, awaited, status, faults, overran, repeated, serial>>

Node == DOMAIN plan
Attempt == Node \X (1..MaxTries)

Value == [type : {"none", "number", "array", "object"}, parts : [Node -> Nat]]
Variable == [value : Value, revision : Nat]

NoVariable ==
  [value |-> [type |-> "none", parts |-> [n \in Node |-> 0]], revision |-> 0]

Phase == {"new", "dispatched", "loaded", "entered", "over"}

VariablesInit ==
  /\ plan \in Plans
  /\ plan # <<>>
  /\ variable = NoVariable
  /\ phase = [a \in Attempt |-> "new"]
  /\ copy = [a \in Attempt |-> NoVariable]
  /\ awaited = <<1, 1>>
  /\ status = "running"
  /\ faults = 0
  /\ overran = FALSE
  /\ repeated = FALSE
  /\ serial = NoVariable

-----------------------------------------------------------------------------
(* _apply_mode *)

Applies(v, w) == w.mode = "REPLACE" \/ v.type \in {"none", w.type}

Applied(v, n, w) ==
  [type |-> w.type,
   parts |-> CASE w.mode = "REPLACE" -> [m \in Node |-> IF m = n THEN 1 ELSE 0]
               [] w.mode = "MERGE" -> [v.parts EXCEPT ![n] = 1]
               [] OTHER -> [v.parts EXCEPT ![n] = @ + 1]]

Written(x, n) ==
  [value |-> Applied(x.value, n, plan[n]), revision |-> x.revision + 1]

(* wrong variant: the mode changes the loaded list or object in place, which *)
(* SQLAlchemy does not notice                                              *)
StoredInPlace(old, seen, new) ==
  [value |-> IF seen.revision = 0 THEN new.value ELSE old.value,
   revision |-> new.revision]

(* SQLAlchemy writes the columns that differ from what it has loaded.      *)
Stored(old, seen, new) ==
  [value |-> IF new.value = seen.value THEN old.value ELSE new.value,
   revision |-> new.revision]

-----------------------------------------------------------------------------
(* Temporal. *)

Fault == faults < MaxFaults /\ faults' = faults + 1

Dispatch ==
  /\ status = "running" /\ phase[awaited] = "new"
  /\ phase' = [phase EXCEPT ![awaited] = "dispatched"]
  /\ UNCHANGED <<plan, variable, copy, awaited, status, faults, overran, repeated, serial>>

NextTry ==
  IF awaited[2] < MaxTries
    THEN awaited' = <<awaited[1], awaited[2] + 1>> /\ status' = status
    ELSE awaited' = awaited /\ status' = "failed"

(* wrong variant: goes on after the last node *)
NextNodeAlways ==
  awaited' = <<awaited[1] + 1, 1>> /\ status' = status

NextNode ==
  IF awaited[1] < Len(plan)
    THEN awaited' = <<awaited[1] + 1, 1>> /\ status' = status
    ELSE awaited' = awaited /\ status' = "success"

Awaits(a) == status = "running" /\ awaited = a

(* Nobody hears the answer of an attempt that is no longer waited for. *)
AnswerSuccess(a) == IF Awaits(a) THEN NextNode ELSE UNCHANGED <<awaited, status>>
AnswerFailure(a) == IF Awaits(a) THEN NextTry ELSE UNCHANGED <<awaited, status>>

Live(a) == phase[a] \in {"dispatched", "loaded", "entered"}

(* start_to_close_timeout *)
Overrun ==
  /\ status = "running" /\ Live(awaited)
  /\ Fault
  /\ NextTry
  /\ overran' = TRUE
  /\ UNCHANGED <<plan, variable, phase, copy, repeated, serial>>

(* The worker dies: the transaction is rolled back, and Temporal finds out  *)
(* by the timeout.                                                         *)
Crash(a) ==
  /\ Live(a)
  /\ Fault
  /\ phase' = [phase EXCEPT ![a] = "over"]
  /\ AnswerFailure(a)
  /\ UNCHANGED <<plan, variable, copy, overran, repeated, serial>>

-----------------------------------------------------------------------------
(* execute_node_activity *)

(* _load_run_and_node *)
Load(a) ==
  /\ phase[a] = "dispatched"
  /\ phase' = [phase EXCEPT ![a] = "loaded"]
  /\ copy' = [copy EXCEPT ![a] = variable]
  /\ UNCHANGED <<plan, variable, awaited, status, faults, overran, repeated, serial>>

Inside(n) == \E b \in Attempt : b[1] = n /\ phase[b] = "entered"

(* The flush waits for the node's row.  Then the templates read the         *)
(* variables, which finds one that was not there before.                   *)
Enter(a) ==
  /\ phase[a] = "loaded"
  /\ ~Inside(a[1])
  /\ phase' = [phase EXCEPT ![a] = "entered"]
  /\ copy' = [copy EXCEPT ![a] = IF @.revision = 0 THEN variable ELSE @]
  /\ UNCHANGED <<plan, variable, awaited, status, faults, overran, repeated, serial>>

(* FOR UPDATE on the run's row waits for every other attempt that has       *)
(* entered; nobody enters before the commit.                               *)
OwnsRun(a) ==
  /\ phase[a] = "entered"
  /\ \A b \in Attempt : phase[b] = "entered" => b = a

(* Two attempts that have entered wait for each other; the database aborts  *)
(* one, and what its exception handler writes is rejected.                 *)
Deadlock(a) ==
  /\ phase[a] = "entered" /\ ~OwnsRun(a)
  /\ phase' = [phase EXCEPT ![a] = "over"]
  /\ AnswerFailure(a)
  /\ UNCHANGED <<plan, variable, copy, faults, overran, repeated, serial>>

(* wrong variant: a write that does not fit is dropped without an error *)
MismatchIgnored(a) ==
  /\ OwnsRun(a)
  /\ ~Applies(copy[a].value, plan[a[1]])
  /\ phase' = [phase EXCEPT ![a] = "over"]
  /\ AnswerSuccess(a)
  /\ UNCHANGED <<plan, variable, copy, faults, overran, repeated, serial>>

(* set_variable raises; the FAILED rows are committed without a write.     *)
Mismatch(a) ==
  /\ OwnsRun(a)
  /\ ~Applies(copy[a].value, plan[a[1]])
  /\ phase' = [phase EXCEPT ![a] = "over"]
  /\ AnswerFailure(a)
  /\ UNCHANGED <<plan, variable, copy, faults, overran, repeated, serial>>

Commit(a) ==
  /\ OwnsRun(a)
  /\ Applies(copy[a].value, plan[a[1]])
  /\ phase' = [phase EXCEPT ![a] = "over"]
  /\ variable' = Stored(variable, copy[a], Written(copy[a], a[1]))
  /\ serial' = Written(serial, a[1])
  /\ UNCHANGED <<plan, copy, overran>>

Succeed(a) == Commit(a) /\ AnswerSuccess(a) /\ UNCHANGED <<faults, repeated>>

(* The write is committed, and then the answer is lost, or flowConfigPatch  *)
(* is refused and the FAILED rows are committed with the write.            *)
CommitUnanswered(a) ==
  /\ Commit(a)
  /\ Fault
  /\ AnswerFailure(a)
  /\ repeated' = TRUE

VariablesNext ==
  \/ Dispatch \/ Overrun
  \/ \E a \in Attempt :
       \/ Load(a) \/ Enter(a) \/ Deadlock(a) \/ Mismatch(a)
       \/ Succeed(a) \/ CommitUnanswered(a) \/ Crash(a)

VariablesSpec == VariablesInit /\ [][VariablesNext]_variableVars

-----------------------------------------------------------------------------
(* Properties. *)

(* Type invariant. *)
VariablesTypeOK ==
  /\ plan \in Seq(Write)
  /\ variable \in Variable /\ serial \in Variable
  /\ phase \in [Attempt -> Phase]
  /\ copy \in [Attempt -> Variable]
  /\ awaited \in Attempt
  /\ status \in {"running", "success", "failed"}
  /\ faults \in Nat /\ overran \in BOOLEAN /\ repeated \in BOOLEAN

(* As long as no attempt outlives its timeout, every write works on what    *)
(* the last one left, across crashes, retries and unanswered commits: the   *)
(* variable is what its committed writes make of it one after the other.    *)
SerialUnlessOverrun == ~overran => variable = serial

(* The variable when the first k nodes have each written it once: the last  *)
(* one says the type, and a node counts unless a later one replaces.        *)
Counts(n, k) == n <= k /\ \A m \in n + 1 .. k : plan[m].mode # "REPLACE"

AfterNodes(k) ==
  [value |-> [type |-> IF k = 0 THEN "none" ELSE plan[k].type,
              parts |-> [n \in Node |-> IF Counts(n, k) THEN 1 ELSE 0]],
   revision |-> k]

(* When nothing was committed twice either, a run that succeeds has counted *)
(* every node exactly once, in the order of the interpreter, whatever       *)
(* crashes and retries came in between.                                    *)
EachNodeCountsOnce ==
  status = "success" /\ ~overran /\ ~repeated => variable = AfterNodes(Len(plan))
=============================================================================
