------------------------------- MODULE MCFlows -------------------------------
(***************************************************************************)
(* Sets of flows for the model checker: every flow of a given size that     *)
(* satisfies a condition, and some larger ones picked by hand.             *)
(***************************************************************************)
EXTENDS FlowGraph, FiniteSets

E(s, h, t) == [source |-> s, handle |-> h, target |-> t]

(* All edge sets that use the ports of the node types and no self loop. *)
EdgesFor(N, type) ==
  SUBSET {e \in [source : N, target : N, handle : Handle] :
            /\ e.source # e.target
            /\ e.handle \in Ports(type[e.source])
            /\ type[e.target] # "start"}

(* Every numbering counts, because the interpreter scans in that order. *)
AllFlows(N, types) ==
  UNION {[nodes : {N}, type : {t}, edges : EdgesFor(N, t)] :
           t \in {ty \in [N -> types] :
                    /\ Cardinality({n \in N : ty[n] = "start"}) = 1
                    /\ \E n \in N : ty[n] = "end"}}

ValidFlows(N, types) == {f \in AllFlows(N, types) : ValidFlow(f)}

(* Flows the validator would refuse only for a cycle. *)
CyclicFlows(N, types) ==
  {f \in AllFlows(N, types) :
     /\ StartAndEnds(f) /\ EdgesConnectPorts(f) /\ NodesAreConnected(f)
     /\ ~Acyclic(f)}

(* start -> condition -> (manual | callback) -> join -> end, numbered so    *)
(* that the scan has to come back for the join.                            *)
WaitsBehindCondition ==
  [nodes |-> 1..6,
   type |-> <<"start", "end", "condition", "manual_approval", "http_callback", "task">>,
   edges |-> {E(1, "output", 3), E(3, "true", 4), E(3, "false", 5),
              E(4, "output", 6), E(5, "output", 6), E(6, "output", 2)}]

(* start -> poll -> two waits in parallel -> end. *)
PollThenTwoWaits ==
  [nodes |-> 1..5,
   type |-> <<"end", "http_callback", "manual_approval", "http_poll", "start">>,
   edges |-> {E(5, "output", 4), E(4, "output", 2), E(4, "output", 3),
              E(2, "output", 1), E(3, "output", 1)}]

=============================================================================
