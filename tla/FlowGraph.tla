----------------------------- MODULE FlowGraph -----------------------------
(***************************************************************************)
(* The graph a published flow version is made of (backend/app/schemas.py,  *)
(* FlowContent) and what backend/app/workflow/validator.py demands of it    *)
(* before it may be published.  The interpreter walks such a graph.         *)
(*                                                                         *)
(* A node is a positive number: its rank in sorted(nodes), the order in     *)
(* which the interpreter scans.  Every plain handler node (result, delay,   *)
(* http_request, set_variable, an installed plugin) is of type "task".      *)
(***************************************************************************)
EXTENDS Naturals

CONSTANT Node           \* the node ids any flow may use

ASSUME NodeAssumption == Node \subseteq Nat \ {0}

NodeType == {"start", "end", "task", "condition", "http_poll",
             "manual_approval", "http_callback"}

Handle == {"output", "true", "false"}

Edge == [source : Node, target : Node, handle : Handle]

IsFlow(f) ==
  /\ f.nodes \subseteq Node
  /\ f.type \in [f.nodes -> NodeType]
  /\ f.edges \subseteq Edge

Incoming(f, n) == {e \in f.edges : e.target = n}
Outgoing(f, n) == {e \in f.edges : e.source = n}

(* The output ports a node type declares in its manifest. *)
Ports(type) ==
  CASE type = "condition" -> {"true", "false"}
    [] type = "end"       -> {}
    [] OTHER              -> {"output"}
-----------------------------------------------------------------------------
(* The checks of validate_flow, one operator for each issue code or family  *)
(* of codes.                                                               *)

StartAndEnds(f) ==
  /\ \E s \in f.nodes : {n \in f.nodes : f.type[n] = "start"} = {s}
  /\ \E n \in f.nodes : f.type[n] = "end"

EdgesConnectPorts(f) ==
  \A e \in f.edges :
    /\ {e.source, e.target} \subseteq f.nodes
    /\ e.handle \in Ports(f.type[e.source])

NodesAreConnected(f) ==
  \A n \in f.nodes :
    /\ (f.type[n] = "start") <=> (Incoming(f, n) = {})
    /\ (f.type[n] = "end") <=> (Outgoing(f, n) = {})
    /\ f.type[n] = "condition" =>
         {"true", "false"} \subseteq {e.handle : e \in Outgoing(f, n)}

(* The queue of zero in-degree nodes reaches every node: whatever set of    *)
(* nodes one takes, one of them has no edge from inside the set and one has *)
(* no edge to inside the set.                                              *)
Acyclic(f) ==
  \A S \in SUBSET f.nodes : S # {} =>
    /\ \E n \in S : \A e \in Incoming(f, n) : e.source \notin S
    /\ \E n \in S : \A e \in Outgoing(f, n) : e.target \notin S

(* Any set that holds the start and is closed under edges holds every node. *)
ReachableFromStart(f) ==
  \A S \in SUBSET f.nodes :
    /\ \A n \in f.nodes : f.type[n] = "start" => n \in S
    /\ \A e \in f.edges : e.source \in S => e.target \in S
    => S = f.nodes

ValidFlow(f) ==
  /\ IsFlow(f)
  /\ StartAndEnds(f)
  /\ EdgesConnectPorts(f)
  /\ NodesAreConnected(f)
  /\ Acyclic(f)
  /\ ReachableFromStart(f)
-----------------------------------------------------------------------------
(* What the interpreter asks of the graph, given the nodes' statuses and    *)
(* the branch each finished node's output names.                           *)

TerminalSuccess == {"SUCCESS", "SKIPPED"}

(* Wrong variants, which no other definition uses: each shows that a        *)
(* property of the interpreter can fail.                                   *)
AnyPortActive(f, statuses, branch, e) == statuses[e.source] = "SUCCESS"

SomeUpstreamDone(f, statuses, n) ==
  \/ Incoming(f, n) = {}
  \/ \E e \in Incoming(f, n) : statuses[e.source] \in TerminalSuccess

ActiveEdge(f, statuses, branch, e) ==
  /\ statuses[e.source] = "SUCCESS"
  /\ f.type[e.source] = "condition" => branch[e.source] = e.handle

UpstreamDone(f, statuses, n) ==
  \A e \in Incoming(f, n) : statuses[e.source] \in TerminalSuccess

(* Wrong variant. *)
AllEdgesActive(f, statuses, branch, n) ==
  \A e \in Incoming(f, n) : ActiveEdge(f, statuses, branch, e)

Executable(f, statuses, branch, n) ==
  \/ Incoming(f, n) = {}
  \/ \E e \in Incoming(f, n) : ActiveEdge(f, statuses, branch, e)

=============================================================================
