------------------------------ MODULE MCMarket ------------------------------
(***************************************************************************)
(* The dossier slice, one cockpit's view of the pool and the video gate's  *)
(* shot loop, checked in one run.  They share no state: a behaviour runs   *)
(* one and leaves the others at their initial states.                      *)
(***************************************************************************)
EXTENDS DossierSpine, PoolStream, ShotLoop, TLC

CONSTANTS
  w1, w2, d1, d2, k1, k2,
  MaxUnsent   \* bound: deltas between commit and publication at once

MCSplits ==
  {[fare |-> 10, driver |-> 7, processing |-> 1, platform |-> 2],
   [fare |-> 10, driver |-> 7, processing |-> 0, platform |-> 3],
   [fare |-> 10, driver |-> 7, processing |-> 0, platform |-> 2]}

Clean == [readable |-> TRUE, flow |-> "ok", similarity |-> "ok"]
MCFindings ==
  {Clean, [Clean EXCEPT !.readable = FALSE], [Clean EXCEPT !.flow = "error"],
   [Clean EXCEPT !.flow = "reject"], [Clean EXCEPT !.flow = "warn", !.similarity = "reject"]}

MarketSymmetry == Permutations(SpineWorkers)

MarketInit == SpineInit /\ PoolInit /\ ShotInit

MarketNext ==
  \/ PoolInit /\ ShotInit /\ SpineNext /\ UNCHANGED <<poolVars, shotVars>>
  \/ /\ SpineInit /\ ShotInit
     /\ PoolNext /\ Cardinality(unsent') <= MaxUnsent
     /\ UNCHANGED <<spineVars, shotVars>>
  \/ SpineInit /\ PoolInit /\ ShotNext /\ UNCHANGED <<spineVars, poolVars>>

MarketSpec == MarketInit /\ [][MarketNext]_<<spineVars, poolVars, shotVars>>
=============================================================================
