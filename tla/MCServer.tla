------------------------------ MODULE MCServer ------------------------------
(***************************************************************************)
(* What the server keeps, on small instances: the accounts, and one        *)
(* topology with its snapshots.  The two share no state, so each behaviour *)
(* is one of them.                                                         *)
(***************************************************************************)
EXTENDS MCAccounts, MCTopologyStore

VARIABLE part

serverVars == <<vars, storeVars, part>>

MCInit == Init /\ StoreInit /\ part \in {"accounts", "topology"}

MCAccountsStep == part = "accounts" /\ Next /\ UNCHANGED <<storeVars, part>>
MCStoreStep == part = "topology" /\ StoreNext /\ UNCHANGED <<vars, part>>

MCSpec == MCInit /\ [][MCAccountsStep \/ MCStoreStep]_serverVars
=============================================================================
