------------------------- MODULE RunVariablesProofs -------------------------
(***************************************************************************)
(* Proofs about run variables, for runs of any length and any plan.         *)
(***************************************************************************)
EXTENDS RunVariables, TLAPS

(* Without an overrun Temporal never has two attempts at work, and the one  *)
(* at work has loaded the variable as it is.                               *)
OneAtWork ==
  /\ \A a \in Attempt : Live(a) => status = "running" /\ a = awaited
  /\ \A a \in Attempt : phase[a] \in {"loaded", "entered"} => copy[a] = variable
  /\ variable = serial

WorkInv == ~overran => OneAtWork

LEMMA AppliedType ==
  ASSUME NEW v \in Value, NEW n \in Node, NEW w \in Write
  PROVE  Applied(v, n, w) \in Value
<1>1. w.type \in {"number", "array", "object"}
  BY DEF Write
<1>2. v.parts \in [Node -> Nat]
  BY DEF Value
<1>3. /\ [m \in Node |-> IF m = n THEN 1 ELSE 0] \in [Node -> Nat]
      /\ [v.parts EXCEPT ![n] = 1] \in [Node -> Nat]
      /\ [v.parts EXCEPT ![n] = @ + 1] \in [Node -> Nat]
  BY <1>2
<1> QED BY <1>1, <1>3 DEF Applied, Value

LEMMA WrittenType ==
  ASSUME VariablesTypeOK, NEW x \in Variable, NEW n \in Node
  PROVE  /\ Written(x, n) \in Variable
         /\ Stored(x, x, Written(x, n)) = Written(x, n)
         /\ \A y \in Variable : Stored(y, x, Written(x, n)) \in Variable
<1>1. x.value \in Value /\ x.revision \in Nat
  BY DEF Variable
<1>2. plan[n] \in Write
  BY DEF VariablesTypeOK, Node
<1>3. Applied(x.value, n, plan[n]) \in Value
  BY <1>1, <1>2, AppliedType
<1>4. Written(x, n) \in Variable
  BY <1>1, <1>3 DEF Written, Variable
<1>5. Stored(x, x, Written(x, n)) = Written(x, n)
  BY DEF Stored, Written
<1>6. ASSUME NEW y \in Variable PROVE Stored(y, x, Written(x, n)) \in Variable
  BY <1>4 DEF Stored, Variable
<1> QED BY <1>4, <1>5, <1>6

LEMMA NoVariableType == NoVariable \in Variable
  BY DEF NoVariable, Variable, Value

(* Where Temporal goes next is another attempt, or the end of the run. *)
LEMMA AnswersType ==
  ASSUME VariablesTypeOK, NEW a \in Attempt, AnswerSuccess(a) \/ AnswerFailure(a) \/ NextTry
  PROVE  awaited' \in Attempt /\ status' \in {"running", "success", "failed"}
<1>0. /\ awaited \in (1 .. Len(plan)) \X (1 .. MaxTries) /\ MaxTries \in Nat
      /\ Len(plan) \in Nat /\ Attempt = (1 .. Len(plan)) \X (1 .. MaxTries)
      /\ awaited = <<awaited[1], awaited[2]>>
  BY VariablesAssumption DEF VariablesTypeOK, Attempt, Node
<1>1. CASE NextTry
  BY <1>0, <1>1 DEF NextTry, VariablesTypeOK
<1>2. CASE NextNode
  BY <1>0, <1>2, VariablesAssumption DEF NextNode, VariablesTypeOK
<1> QED BY <1>1, <1>2 DEF AnswerSuccess, AnswerFailure, VariablesTypeOK

LEMMA VariablesTypeInductive ==
  /\ VariablesInit => VariablesTypeOK
  /\ VariablesTypeOK /\ [VariablesNext]_variableVars => VariablesTypeOK'
<1>1. VariablesInit => VariablesTypeOK
  <2> SUFFICES ASSUME VariablesInit PROVE VariablesTypeOK
    OBVIOUS
  <2>1. plan \in Seq(Write) /\ Len(plan) \in Nat \ {0}
    BY VariablesAssumption DEF VariablesInit
  <2>2. <<1, 1>> \in Attempt
    BY <2>1, VariablesAssumption DEF Attempt, Node
  <2> QED BY <2>1, <2>2, NoVariableType DEF VariablesInit, VariablesTypeOK, Phase
<1>2. ASSUME VariablesTypeOK, [VariablesNext]_variableVars
      PROVE  VariablesTypeOK'
  <2>0. /\ plan' = plan /\ Attempt' = Attempt /\ Variable' = Variable /\ Node' = Node
    BY <1>2 DEF VariablesNext, variableVars, Dispatch, Overrun, Load, Enter, Deadlock,
                Mismatch, Succeed, CommitUnanswered, Commit, Crash, Attempt, Node, Variable, Value
  <2>1. CASE Dispatch \/ UNCHANGED variableVars
    BY <1>2, <2>0, <2>1 DEF Dispatch, variableVars, VariablesTypeOK, Phase
  <2>2. CASE Overrun
    BY <1>2, <2>0, <2>2, AnswersType DEF Overrun, Fault, VariablesTypeOK
  <2>3. ASSUME NEW a \in Attempt, Load(a) \/ Enter(a) PROVE VariablesTypeOK'
    <3>1. phase' \in [Attempt -> Phase]
      <4>1. phase' \in {[phase EXCEPT ![a] = "loaded"], [phase EXCEPT ![a] = "entered"]}
        BY <2>3 DEF Load, Enter
      <4> QED BY <1>2, <4>1 DEF VariablesTypeOK, Phase
    <3>2. copy' \in [Attempt -> Variable]
      BY <1>2, <2>3 DEF Load, Enter, VariablesTypeOK
    <3> QED BY <1>2, <2>0, <2>3, <3>1, <3>2 DEF Load, Enter, VariablesTypeOK
  <2>4. ASSUME NEW a \in Attempt, Deadlock(a) \/ Mismatch(a) \/ Crash(a) PROVE VariablesTypeOK'
    <3>1. AnswerFailure(a) /\ phase' \in [Attempt -> Phase] /\ faults' \in Nat
      BY <1>2, <2>4 DEF Deadlock, Mismatch, Crash, Fault, VariablesTypeOK, Phase
    <3> QED BY <1>2, <2>0, <2>4, <3>1, AnswersType DEF Deadlock, Mismatch, Crash, VariablesTypeOK
  <2>5. ASSUME NEW a \in Attempt, Succeed(a) \/ CommitUnanswered(a) PROVE VariablesTypeOK'
    <3>0. /\ Commit(a) /\ (AnswerSuccess(a) \/ AnswerFailure(a))
          /\ faults' \in {faults, faults + 1} /\ repeated' \in {repeated, TRUE}
      BY <2>5 DEF Succeed, CommitUnanswered, Fault
    <3>1. faults' \in Nat
      BY <1>2, <3>0 DEF VariablesTypeOK
    <3>a. repeated' \in BOOLEAN
      BY <1>2, <3>0, Zenon DEF VariablesTypeOK
    <3>2. phase' \in [Attempt -> Phase]
      BY <1>2, <3>0 DEF Commit, VariablesTypeOK, Phase
    <3>3. a[1] \in Node /\ copy[a] \in Variable /\ variable \in Variable /\ serial \in Variable
      BY <1>2 DEF VariablesTypeOK, Attempt
    <3>4. variable' \in Variable /\ serial' \in Variable
      BY <1>2, <3>0, <3>3, WrittenType DEF Commit
    <3>5. /\ overran' = overran /\ copy' = copy
          /\ awaited' \in Attempt /\ status' \in {"running", "success", "failed"}
      BY <1>2, <3>0, AnswersType DEF Commit
    <3> QED BY <1>2, <2>0, <3>1, <3>a, <3>2, <3>4, <3>5, Zenon DEF VariablesTypeOK
  <2> QED BY <1>2, <2>1, <2>2, <2>3, <2>4, <2>5 DEF VariablesNext
<1> QED BY <1>1, <1>2

(* Types are kept by every step. *)
THEOREM VariableTypes == VariablesSpec => []VariablesTypeOK
  BY VariablesTypeInductive, PTL DEF VariablesSpec

LEMMA WorkInductive ==
  /\ VariablesInit => WorkInv
  /\ VariablesTypeOK /\ WorkInv /\ [VariablesNext]_variableVars => WorkInv'
<1>1. VariablesInit => WorkInv
  BY DEF VariablesInit, WorkInv, OneAtWork, Live
<1>2. ASSUME VariablesTypeOK, WorkInv, [VariablesNext]_variableVars, ~overran'
      PROVE  OneAtWork'
  <2>0. /\ ~overran /\ OneAtWork /\ Attempt' = Attempt /\ plan' = plan
    BY <1>2 DEF VariablesNext, variableVars, Dispatch, Overrun, Load, Enter, Deadlock,
                Mismatch, Succeed, CommitUnanswered, Commit, Crash, Attempt, Node, WorkInv
  <2>1. CASE UNCHANGED variableVars
    BY <2>0, <2>1 DEF variableVars, OneAtWork, Live
  <2>2. CASE Dispatch
    BY <1>2, <2>0, <2>2 DEF Dispatch, OneAtWork, Live, VariablesTypeOK
  <2>3. ASSUME NEW a \in Attempt, Load(a) \/ Enter(a) PROVE OneAtWork'
    <3>1. /\ Live(a) /\ variable' = variable /\ serial' = serial /\ UNCHANGED <<awaited, status>>
          /\ copy'[a] = variable
          /\ \A b \in Attempt : b # a => phase'[b] = phase[b] /\ copy'[b] = copy[b]
      BY <1>2, <2>0, <2>3 DEF Load, Enter, OneAtWork, Live, VariablesTypeOK
    <3> QED BY <2>0, <3>1 DEF OneAtWork, Live
  <2>4. ASSUME NEW a \in Attempt, Live(a), phase' = [phase EXCEPT ![a] = "over"],
               copy' = copy
        PROVE  \A b \in Attempt : ~Live(b)'
    BY <1>2, <2>0, <2>4 DEF OneAtWork, Live, VariablesTypeOK
  <2>5. ASSUME NEW a \in Attempt, Deadlock(a) \/ Mismatch(a) \/ Crash(a) PROVE OneAtWork'
    <3>1. /\ Live(a) /\ phase' = [phase EXCEPT ![a] = "over"] /\ copy' = copy
          /\ variable' = variable /\ serial' = serial
      BY <2>5 DEF Deadlock, Mismatch, Crash, OwnsRun, Live
    <3>2. \A b \in Attempt : ~Live(b)'
      BY <2>4, <3>1
    <3> QED BY <2>0, <3>1, <3>2 DEF OneAtWork, Live
  <2>6. ASSUME NEW a \in Attempt, Succeed(a) \/ CommitUnanswered(a) PROVE OneAtWork'
    <3>1. Commit(a)
      BY <2>6 DEF Succeed, CommitUnanswered
    <3>2. Live(a) /\ phase' = [phase EXCEPT ![a] = "over"] /\ copy' = copy
      BY <3>1 DEF Commit, OwnsRun, Live
    <3>3. \A b \in Attempt : ~Live(b)'
      BY <2>4, <3>2
    <3>4. copy[a] = variable /\ variable = serial /\ a[1] \in Node /\ variable \in Variable
      BY <1>2, <2>0, <3>1 DEF Commit, OwnsRun, OneAtWork, VariablesTypeOK, Attempt
    <3>5. variable' = serial'
      BY <1>2, <3>1, <3>4, WrittenType DEF Commit
    <3> QED BY <2>0, <3>3, <3>5 DEF OneAtWork, Live
  <2>7. CASE Overrun
    BY <1>2, <2>7 DEF Overrun
  <2> QED BY <1>2, <2>1, <2>2, <2>3, <2>5, <2>6, <2>7 DEF VariablesNext
<1> QED BY <1>1, <1>2 DEF WorkInv

(* Crashes, retries and unanswered commits lose no update: while no attempt *)
(* outlives its timeout, writes are serial for every plan.                 *)
THEOREM WritesAreSerial == VariablesSpec => []SerialUnlessOverrun
<1>1. WorkInv => SerialUnlessOverrun
  BY DEF WorkInv, OneAtWork, SerialUnlessOverrun
<1> QED BY <1>1, VariablesTypeInductive, WorkInductive, PTL DEF VariablesSpec

-----------------------------------------------------------------------------
(* A node that writes after the first k - 1 leaves what the first k leave. *)
LEMMA NodeAfterNodes ==
  ASSUME VariablesTypeOK, NEW k \in Node
  PROVE  Written(AfterNodes(k - 1), k) = AfterNodes(k)
<1> DEFINE before == [n \in Node |-> IF Counts(n, k - 1) THEN 1 ELSE 0]
           after == [n \in Node |-> IF Counts(n, k) THEN 1 ELSE 0]
<1>1. plan[k] \in Write /\ Node \subseteq Nat \ {0}
  BY DEF VariablesTypeOK, Node
<1>2. \A n \in Node : Counts(n, k) <=> n = k \/ (Counts(n, k - 1) /\ plan[k].mode # "REPLACE")
  <2> SUFFICES ASSUME NEW n \in Node
               PROVE  Counts(n, k) <=> n = k \/ (Counts(n, k - 1) /\ plan[k].mode # "REPLACE")
    OBVIOUS
  <2>1. n \in Nat /\ k \in Nat
    BY <1>1
  <2>2. CASE n = k
    <3>1. n + 1 .. k = {}
      BY <2>1, <2>2
    <3> QED BY <2>1, <2>2, <3>1 DEF Counts
  <2>3. CASE n # k /\ n <= k
    <3>1. n <= k - 1 /\ n + 1 .. k = (n + 1 .. k - 1) \cup {k}
      BY <2>1, <2>3
    <3> QED BY <2>3, <3>1 DEF Counts
  <2>4. CASE ~(n <= k)
    BY <2>1, <2>4 DEF Counts
  <2> QED BY <2>1, <2>2, <2>3, <2>4
<1>3. ~Counts(k, k - 1)
  BY <1>1 DEF Counts
<1>4. CASE plan[k].mode = "REPLACE"
  <2>1. \A n \in Node : Counts(n, k) <=> n = k
    BY <1>2, <1>4
  <2>2. after = [n \in Node |-> IF n = k THEN 1 ELSE 0]
    BY <2>1
  <2> QED BY <1>1, <1>4, <2>2 DEF Written, Applied, AfterNodes
<1>5. CASE plan[k].mode # "REPLACE"
  <2>1. \A n \in Node : Counts(n, k) <=> n = k \/ Counts(n, k - 1)
    BY <1>2, <1>5
  <2>2. before[k] = 0 /\ \A n \in Node : n # k => after[n] = before[n]
    BY <1>3, <2>1
  <2>3. after[k] = 1
    BY <2>1
  <2>4. after = [n \in Node |-> IF n = k THEN 1 ELSE before[n]]
    BY <2>2, <2>3
  <2>5. [before EXCEPT ![k] = 1] = after
    BY <2>4
  <2>6. [before EXCEPT ![k] = @ + 1] = after
    <3>1. [before EXCEPT ![k] = @ + 1] = [n \in Node |-> IF n = k THEN before[k] + 1 ELSE before[n]]
      OBVIOUS
    <3> QED BY <2>2, <2>4, <3>1
  <2> QED BY <1>1, <1>5, <2>5, <2>6 DEF Written, Applied, AfterNodes
<1> QED BY <1>4, <1>5

(* As long as no write is repeated, the node that Temporal waits for finds  *)
(* what the nodes before it have left.                                     *)
CountInv ==
  ~overran /\ ~repeated =>
    /\ status = "running" => variable = AfterNodes(awaited[1] - 1)
    /\ status = "success" => variable = AfterNodes(Len(plan))

LEMMA CountInductive ==
  /\ VariablesInit => CountInv
  /\ VariablesTypeOK /\ WorkInv /\ CountInv /\ [VariablesNext]_variableVars => CountInv'
<1>1. VariablesInit => CountInv
  <2> SUFFICES ASSUME VariablesInit PROVE CountInv
    OBVIOUS
  <2>1. plan \in Seq(Write)
    BY VariablesAssumption DEF VariablesInit
  <2>2. \A n \in Node : ~Counts(n, 0)
    BY <2>1 DEF Node, Counts
  <2>3. variable = AfterNodes(0)
    BY <2>2 DEF VariablesInit, AfterNodes, NoVariable
  <2>4. awaited[1] - 1 = 0 /\ status = "running"
    BY DEF VariablesInit
  <2> QED BY <2>3, <2>4 DEF CountInv
<1>2. ASSUME VariablesTypeOK, WorkInv, CountInv, [VariablesNext]_variableVars,
             ~overran', ~repeated'
      PROVE  /\ status' = "running" => variable' = AfterNodes(awaited'[1] - 1)
             /\ status' = "success" => variable' = AfterNodes(Len(plan))
  <2>1. ~overran /\ ~repeated /\ OneAtWork
    BY <1>2 DEF VariablesNext, variableVars, Dispatch, Overrun, Load, Enter, Deadlock,
                Mismatch, Succeed, CommitUnanswered, Commit, Crash, WorkInv
  <2>2. CASE UNCHANGED <<variable, awaited, status>>
    BY <1>2, <2>1, <2>2 DEF CountInv
  <2>3. ASSUME NEW a \in Attempt, AnswerFailure(a), variable' = variable
        PROVE  variable' = variable /\ (status' = "failed" \/ (UNCHANGED status /\ awaited'[1] = awaited[1]))
    BY <2>3 DEF AnswerFailure, NextTry
  <2>4. ASSUME NEW a \in Attempt, Deadlock(a) \/ Mismatch(a) \/ Crash(a)
        PROVE  variable' = variable /\ (status' = "failed" \/ (UNCHANGED status /\ awaited'[1] = awaited[1]))
    BY <2>3, <2>4 DEF Deadlock, Mismatch, Crash
  <2>5. ASSUME NEW a \in Attempt, Succeed(a)
        PROVE  /\ variable' = AfterNodes(awaited[1])
               /\ \/ status' = "running" /\ awaited'[1] = awaited[1] + 1
                  \/ status' = "success" /\ awaited[1] = Len(plan)
    <3>1. a = awaited /\ status = "running" /\ copy[a] = variable
      BY <2>1, <2>5 DEF Succeed, Commit, OwnsRun, OneAtWork, Live
    <3>2. a[1] \in Node /\ variable \in Variable
      BY <1>2 DEF VariablesTypeOK, Attempt
    <3>3. variable' = Written(variable, a[1])
      BY <1>2, <2>5, <3>1, <3>2, WrittenType DEF Succeed, Commit
    <3>4. variable' = AfterNodes(a[1])
      BY <1>2, <2>1, <3>1, <3>2, <3>3, NodeAfterNodes DEF CountInv
    <3>5. NextNode
      BY <2>5, <3>1 DEF Succeed, AnswerSuccess, Awaits
    <3>6. awaited[1] \in 1 .. Len(plan) /\ Len(plan) \in Nat
      BY <1>2, <3>1, <3>2 DEF VariablesTypeOK, Node
    <3> QED BY <3>1, <3>4, <3>5, <3>6 DEF NextNode
  <2>6. awaited[1] \in Int
    BY <1>2 DEF VariablesTypeOK, Attempt, Node
  <2>7. ASSUME NEW a \in Attempt, Load(a) \/ Enter(a)
        PROVE  UNCHANGED <<variable, awaited, status>>
    BY <2>7 DEF Load, Enter
  <2>8. CASE Dispatch \/ UNCHANGED variableVars
    BY <2>2, <2>8 DEF Dispatch, variableVars
  <2>9. ASSUME NEW a \in Attempt, Deadlock(a) \/ Mismatch(a) \/ Crash(a) \/ Succeed(a)
        PROVE  /\ status' = "running" => variable' = AfterNodes(awaited'[1] - 1)
               /\ status' = "success" => variable' = AfterNodes(Len(plan))
    BY <1>2, <2>1, <2>4, <2>5, <2>6, <2>9 DEF CountInv
  <2> QED BY <1>2, <2>2, <2>7, <2>8, <2>9 DEF VariablesNext, Overrun, CommitUnanswered
<1>3. [VariablesNext]_variableVars => plan' = plan
  BY DEF VariablesNext, variableVars, Dispatch, Overrun, Load, Enter, Deadlock,
         Mismatch, Succeed, CommitUnanswered, Commit, Crash
<1> QED BY <1>1, <1>2, <1>3 DEF CountInv, AfterNodes, Counts, Node

(* Retries neither lose nor repeat the write of a node: a run that succeeds *)
(* without an overrun and without a repeated commit has counted every node  *)
(* once and in order, for every plan (run_variables.py:72-152).             *)
THEOREM NodesAlwaysCountOnce == VariablesSpec => []EachNodeCountsOnce
<1>1. CountInv => EachNodeCountsOnce
  BY DEF CountInv, EachNodeCountsOnce
<1> QED BY <1>1, VariablesTypeInductive, WorkInductive, CountInductive, PTL DEF VariablesSpec
=============================================================================
