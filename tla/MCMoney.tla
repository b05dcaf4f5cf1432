------------------------------ MODULE MCMoney ------------------------------
(***************************************************************************)
(* The parts of a ride's money, checked in one run: the route its fare is  *)
(* computed from, payment execution, and the settlement at completion.     *)
(* They share no state, so a behaviour runs one part and leaves the others *)
(* at their initial states: the state spaces add up instead of             *)
(* multiplying.                                                            *)
(***************************************************************************)
EXTENDS RouteTruth, Payments, RideSettlement, TLC

CONSTANTS p1, p2

MCPolicy ==
  [base |-> 250, perMinute |-> 25, waitPerMinute |-> 30, grace |-> 2, demandBps |-> 10000,
   minimum |-> 500, serviceFee |-> 199, commissionBps |-> 1525, city |-> 30, airport |-> 0,
   accessibility |-> 10]
MCFares == {NoDistance, 333}
MCExtras ==
  {NoFees, [NoFees EXCEPT !["tip"] = 300, !["serviceFee"] = -5],
   [NoFees EXCEPT !["tax"] = 45, !["airport"] = 400, !["serviceFee"] = 0]}

\* Stripe settles a card's refund at once or later; one that fails does so later.
MCFirstAnswers == {"pending", "succeeded"}

Near == [located |-> TRUE, near |-> TRUE, heavy |-> TRUE]
Far == [located |-> TRUE, near |-> FALSE, heavy |-> FALSE]
Lost == [located |-> FALSE, near |-> TRUE, heavy |-> TRUE]
MCFeeds ==
  {[alerts |-> {Far}, flows |-> {Near, Lost}], [alerts |-> {Lost}, flows |-> {Far}]}

Setting(provider, fallback, signals, region, keyed) ==
  [provider |-> provider, fallback |-> fallback, signals |-> signals, region |-> region,
   keyed |-> keyed]
MCSettings ==
  {Setting("osrm_self_hosted", TRUE, TRUE, "odot_tripcheck", TRUE),
   Setting("osrm_self_hosted", FALSE, FALSE, "none", FALSE),
   Setting("osrm_public", TRUE, TRUE, "odot_tripcheck", FALSE),
   Setting("haversine_fallback", TRUE, TRUE, "wsdot", TRUE),
   Setting("valhalla_self_hosted", TRUE, FALSE, "none", FALSE)}

\* The same two threads serve routes, payments and completions.
MoneySymmetry == Permutations(PayWorkers)

MoneyInit == RouteInit /\ PaymentsInit /\ SettlementInit

\* While another part runs, the routing settings are one of the choices.
RouteAtRest == RouteInit /\ env = CHOOSE s \in Settings : TRUE

MoneyNext ==
  \/ PaymentsInit /\ SettlementInit /\ RouteNext /\ UNCHANGED <<paymentsVars, settlementVars>>
  \/ SettlementInit /\ RouteAtRest /\ PaymentsNext /\ UNCHANGED <<routeVars, settlementVars>>
  \/ PaymentsInit /\ RouteAtRest /\ SettlementNext /\ UNCHANGED <<routeVars, paymentsVars>>

MoneySpec == MoneyInit /\ [][MoneyNext]_<<routeVars, paymentsVars, settlementVars>>
=============================================================================
