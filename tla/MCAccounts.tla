----------------------------- MODULE MCAccounts -----------------------------
(* Accounts on a small instance: symmetric ids, identities and requests. *)
EXTENDS Accounts, TLC

AccountSymmetry == Permutations(Ids) \cup Permutations(Identities)
                   \cup Permutations(Requests)
=============================================================================
