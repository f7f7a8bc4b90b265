------------------------------ MODULE Topology ------------------------------
(***************************************************************************)
(* What a stored topology contains and what each write operation of        *)
(* db/network-service.ts makes of it.  There is one topology here: every   *)
(* operation is scoped to one id and one owner.                            *)
(*                                                                         *)
(* A node's position, label and settings are one value, its config; an     *)
(* edge is the set of nodes it joins.  A request adds at most one node or  *)
(* one edge, under a fresh uuid: the request itself names that uuid.       *)
(***************************************************************************)
CONSTANTS
  Calls,        \* the write requests of an instance, each served once
  KnownNodes,   \* node ids that clients chose themselves
  KnownEdges,   \* edge ids that clients chose themselves
  Configs,      \* what a node can be configured to
  Ends,         \* sets of nodes that an edge may join
  Names,        \* topology names
  Absent        \* absent element, field that was not sent, no topology

NodeIds == KnownNodes \cup Calls
EdgeIds == KnownEdges \cup Calls

Nodes == [NodeIds -> Configs \cup {Absent}]
Edges == [EdgeIds -> Ends \cup {Absent}]

Content == [name : Names, nodes : Nodes, edges : Edges]

(* The body of a PUT, where Absent is a field that was left out. *)
Patch == [name : Names \cup {Absent}, nodes : Nodes \cup {Absent},
          edges : Edges \cup {Absent}]

Ops == [type : {"put", "restore"}, id : {Absent}, val : Patch]
  \cup [type : {"add_node", "update_node"}, id : NodeIds, val : Configs]
  \cup [type : {"delete_node"}, id : NodeIds, val : {Absent}]
  \cup [type : {"add_edge", "update_edge"}, id : EdgeIds, val : Ends]
  \cup [type : {"delete_edge"}, id : EdgeIds, val : {Absent}]

ASSUME TopologyAssumption ==
  /\ Ends \subseteq SUBSET NodeIds
  /\ Absent \notin Names \cup Configs \cup Ends \cup Nodes \cup Edges
                 \cup Content \cup Ops

-----------------------------------------------------------------------------
Sent(new, old) == IF new = Absent THEN old ELSE new

PutInto(c, patch) ==
  [name |-> Sent(patch.name, c.name), nodes |-> Sent(patch.nodes, c.nodes),
   edges |-> Sent(patch.edges, c.edges)]

(* deleteNode takes the edges of the node along. *)
WithoutNode(c, id) ==
  [c EXCEPT !.nodes[id] = Absent,
            !.edges = [e \in EdgeIds |->
              IF @[e] # Absent /\ id \in @[e] THEN Absent ELSE @[e]]]

(* An update of an element that is not there is a 404; deleting one is a   *)
(* 404 as well, but only after the unchanged topology has been saved.      *)
CanApply(op, c) ==
  /\ op.type = "update_node" => c.nodes[op.id] # Absent
  /\ op.type = "update_edge" => c.edges[op.id] # Absent

Apply(op, c) ==
  CASE op.type \in {"put", "restore"} -> PutInto(c, op.val)
    [] op.type \in {"add_node", "update_node"} ->
         [c EXCEPT !.nodes[op.id] = op.val]
    [] op.type = "delete_node" -> WithoutNode(c, op.id)
    [] op.type \in {"add_edge", "update_edge", "delete_edge"} ->
         [c EXCEPT !.edges[op.id] = op.val]
=============================================================================
