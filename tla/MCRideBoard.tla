----------------------------- MODULE MCRideBoard -----------------------------
(* Instances of RideBoard for TLC. *)
EXTENDS RideBoard, TLC

\* Nothing orders drivers or rides: the nearest driver is a free choice.
Symmetry == Permutations(Drivers) \union Permutations(Rides)
=============================================================================
