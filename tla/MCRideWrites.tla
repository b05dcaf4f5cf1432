---------------------------- MODULE MCRideWrites ----------------------------
(***************************************************************************)
(* What a driver's requests do to a ride, checked in one run: a write with *)
(* its idempotency key, and the visibility and claim records of a ride.    *)
(* They share no state: a behaviour runs one and leaves the other at its   *)
(* initial state.                                                          *)
(***************************************************************************)
EXTENDS IdempotentWrites, RideFeed, TLC

CONSTANTS
  w1, w2, d1, d2,
  MaxReleases   \* bound: how often the ride goes back to the board

WritesSymmetry == Permutations(Workers) \union Permutations(FeedDrivers)

WritesInit == Init /\ FeedInit

\* While the feed runs, the action that is not taken is a hide.
WritesAtRest == write = "hide" /\ Init

WritesNext ==
  \/ FeedInit /\ Next /\ UNCHANGED feedVars
  \/ WritesAtRest /\ FeedNext /\ releases' <= MaxReleases /\ UNCHANGED vars

WritesSpec == WritesInit /\ [][WritesNext]_<<vars, feedVars>>
=============================================================================
