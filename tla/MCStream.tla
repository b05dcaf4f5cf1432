------------------------------ MODULE MCStream ------------------------------
(* The pool stream of one cockpit alone, for its liveness. *)
EXTENDS PoolStream
=============================================================================
