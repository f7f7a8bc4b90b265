--------------------------- MODULE MCTopologyStore --------------------------
(* TopologyStore on a small instance: two nodes and an edge between them.  *)
EXTENDS TopologyStore, TLC

CONSTANTS x, y, e, a, b, plain, renamed

MCEnds == {{x, y}, {x}}

NodesOf(f) == [i \in NodeIds |-> IF i \in DOMAIN f THEN f[i] ELSE Absent]
EdgesOf(f) == [i \in EdgeIds |-> IF i \in DOMAIN f THEN f[i] ELSE Absent]

MCSeed == [name |-> plain, nodes |-> NodesOf(x :> a @@ y :> a),
           edges |-> EdgesOf(e :> {x, y})]

NotSent == [name |-> Absent, nodes |-> Absent, edges |-> Absent]

(* Rename; save the nodes only; save the whole workspace. *)
MCPatches ==
  {[NotSent EXCEPT !.name = renamed],
   [NotSent EXCEPT !.nodes = NodesOf(x :> b)],
   [name |-> plain, nodes |-> NodesOf(y :> b), edges |-> EdgesOf(<<>>)]}
=============================================================================
