---------------------------- MODULE Subsequences ----------------------------
(***************************************************************************)
(* The elements of a sequence at some of its positions, in their order:    *)
(* what the filter method of an array returns.                             *)
(***************************************************************************)
EXTENDS Integers, FiniteSets, Sequences

(* How many of the numbers in S come up to i, and the k-th of them. *)
RankIn(S, i) == Cardinality(S \cap (1 .. i))
NthOf(S, k) == CHOOSE i \in S : RankIn(S, i) = k

Picked(s, S) == [k \in 1 .. Cardinality(S) |-> s[NthOf(S, k)]]
=============================================================================
