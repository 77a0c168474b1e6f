-------------------------- MODULE MCRunProjection --------------------------
(* Instances of the whole run: small flows, one or two faults.  The flow at  *)
(* the end is that of the run that looks for one violation.                 *)
EXTENDS RunProjectionProperties, MCFlows

Ids == 1..5

(* start -> t -> end *)
LineFlow(t) ==
  [nodes |-> 1..3, type |-> <<"start", t, "end">>,
   edges |-> {E(1, "output", 2), E(2, "output", 3)}]

(* start -> condition -> (t | nothing) -> end *)
OptionalStep(t) ==
  [nodes |-> 1..4, type |-> <<"start", "end", "condition", t>>,
   edges |-> {E(1, "output", 3), E(3, "true", 4), E(3, "false", 2),
              E(4, "output", 2)}]

(* start -> (t | u) -> end *)
Diamond(t, u) ==
  [nodes |-> 1..4, type |-> <<"start", t, u, "end">>,
   edges |-> {E(1, "output", 2), E(1, "output", 3),
              E(2, "output", 4), E(3, "output", 4)}]

(* One flow for each kind of node, and one with two waits on parallel paths, *)
(* which the interpreter takes one after the other.                        *)
EveryKindFlows ==
  {OptionalStep("manual_approval"), OptionalStep("http_callback"),
   OptionalStep("http_poll"), Diamond("manual_approval", "http_callback")}

CallbackFlow == {LineFlow("http_callback")}
=============================================================================
