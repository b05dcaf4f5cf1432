---------------------------- MODULE MCRideSessions ----------------------------
(* Instances of RideSessions for TLC. *)
EXTENDS RideSessions, TLC

Symmetry == Permutations(Drivers) \union Permutations(Rides) \union Permutations(Workers)
=============================================================================
