----------------------------- MODULE StableSort -----------------------------
(* Array.prototype.sort with a numeric key: elements of the same key keep   *)
(* the order they had.                                                      *)
EXTENDS Naturals, FiniteSets

SortedBy(s, Key(_)) ==
  LET Before(i, j) == Key(s[i]) < Key(s[j]) \/ (Key(s[i]) = Key(s[j]) /\ i < j)
      Place(i) == 1 + Cardinality({j \in DOMAIN s : Before(j, i)})
  IN  [k \in DOMAIN s |-> s[CHOOSE i \in DOMAIN s : Place(i) = k]]
=============================================================================
