---------------------------- MODULE MCAllocation ----------------------------
(* Allocation for TLC: two nonces that replace each other for ever. *)
EXTENDS Allocation

MCNonces == {1, 2}
=============================================================================
