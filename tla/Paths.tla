------------------------------- MODULE Paths --------------------------------
(***************************************************************************)
(* Reachability and shortest paths over undirected wires, as the network   *)
(* builder computes them (network-builder-page.tsx).  A wire is the set of *)
(* the two nodes it joins; a path is a sequence of nodes.                   *)
(***************************************************************************)
EXTENDS Integers, FiniteSets, Sequences

Adjacent(wires, n) == UNION {w \ {n} : w \in {v \in wires : n \in v}}

(* reachableFrom: everything that a breadth-first search finds, whose      *)
(* frontier grows by one wire per round.                                   *)
Reachable(start, wires) ==
  LET Within[k \in 0 .. Cardinality(wires)] ==
        IF k = 0 THEN {start}
        ELSE LET found == Within[k - 1]
             IN  found \cup UNION {Adjacent(wires, n) : n \in found}
  IN  Within[Cardinality(wires)]

(* findPath: the paths from src to dst with the fewest wires.  Which of    *)
(* them the search returns depends on the order of the edges.              *)
ShortestPaths(src, dst, wires) ==
  LET Visited(p) == {p[i] : i \in 1 .. Len(p)}
      Simple[k \in 0 .. Cardinality(wires)] ==
        IF k = 0 THEN {<<src>>}
        ELSE UNION {{Append(p, n) : n \in Adjacent(wires, p[k]) \ Visited(p)} :
                      p \in Simple[k - 1]}
      Ending(k) == {p \in Simple[k] : p[k + 1] = dst}
      Lengths == {k \in 0 .. Cardinality(wires) : Ending(k) # {}}
  IN  IF Lengths = {} THEN {}
      ELSE Ending(CHOOSE k \in Lengths : \A j \in Lengths : k <= j)

Turned(p) == [i \in 1 .. Len(p) |-> p[Len(p) + 1 - i]]
=============================================================================
