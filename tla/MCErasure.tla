----------------------------- MODULE MCErasure ------------------------------
(* Erasure on a small instance: one erasure and one write in flight.       *)
EXTENDS Erasure, TLC
=============================================================================
