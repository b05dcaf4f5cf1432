-------------------------- MODULE MCIdempotentWrites --------------------------
(* Instances of IdempotentWrites for TLC. *)
EXTENDS IdempotentWrites, TLC

Symmetry == Permutations(Workers)
=============================================================================
