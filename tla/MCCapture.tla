----------------------------- MODULE MCCapture ------------------------------
(* Capture on a small instance: a buffer of two and messages of one packet. *)
EXTENDS Capture, TLC

Symmetry == Permutations(Pages) \cup Permutations(Streams)
=============================================================================
