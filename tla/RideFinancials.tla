--------------------------- MODULE RideFinancials ---------------------------
(***************************************************************************)
(* The money arithmetic of a ride, in whole cents: the fare of a trip      *)
(* under a pricing policy, the split of the rider's total between driver,  *)
(* platform and third parties, and the settlement entries made of it.      *)
(* The fare of the distance (a rounded float in the code) is an input.     *)
(***************************************************************************)
EXTENDS Integers

NonNegative(n) == IF n > 0 THEN n ELSE 0
AtLeast(n, floor) == IF n > floor THEN n ELSE floor

\* A whole in basis points, the unit of rates and multipliers.
Whole == 10000

\* The fees a request adds to the fare; an absent service fee is NoFee.
NoFee == -1
Fees == {"serviceFee", "tip", "city", "airport", "toll", "accessibility", "tax"}
PassThrough == {"city", "airport", "toll", "accessibility"}

Policies ==
  [base : Nat, perMinute : Nat, waitPerMinute : Nat, grace : Nat, demandBps : Nat, minimum : Nat,
   serviceFee : Nat, commissionBps : 0..Whole, city : Nat, airport : Nat, accessibility : Nat]

\* compute_fare_components: what the driver and the platform share.
ShareableFare(distanceFare, minutes, wait, policy) ==
  LET subtotal == policy.base + distanceFare + NonNegative(minutes) * policy.perMinute
                  + NonNegative(wait - policy.grace) * policy.waitPerMinute
  IN AtLeast((subtotal * policy.demandBps) \div Whole, policy.minimum)

\* Mutant: the driver's share is rounded down on its own.
RoundedShare(shareable, commissionBps) == (shareable * (Whole - commissionBps)) \div Whole

Commission(shareable, commissionBps) == (shareable * commissionBps) \div Whole

\* The driver gets what the commission leaves, so that no cent is lost.
DriverShare(shareable, commissionBps) == shareable - Commission(shareable, commissionBps)

\* compute_financials, and finalize_ride_pricing's tax on top.
Breakdown(shareable, fees, policy) ==
  LET service == IF fees.serviceFee = NoFee THEN policy.serviceFee ELSE NonNegative(fees.serviceFee)
      tip == NonNegative(fees.tip)
      tax == NonNegative(fees.tax)
      through == [f \in PassThrough |-> NonNegative(fees[f])]
      cut == Commission(shareable, policy.commissionBps)
  IN [shareable |-> shareable, commission |-> cut,
      payout |-> DriverShare(shareable, policy.commissionBps),
      serviceFee |-> service, revenue |-> cut + service, tip |-> tip, tax |-> tax,
      city |-> through["city"], airport |-> through["airport"],
      toll |-> through["toll"], accessibility |-> through["accessibility"],
      total |-> shareable + service + through["city"] + through["airport"]
                + through["toll"] + through["accessibility"] + tip + tax]

\* compute_ride_financials_from_trip: a fee of zero falls back to the policy's.
WithPolicyFees(fees, policy) ==
  [f \in Fees |-> IF f \in {"city", "airport", "accessibility"} /\ fees[f] = 0 THEN policy[f] ELSE fees[f]]

\* finalize_ride_pricing: a ride without a distance keeps the fare it was
\* quoted, and its policy's fees are not added again.
FinalPricing(quoted, hasDistance, distanceFare, minutes, fees, policy) ==
  IF quoted > 0 /\ ~hasDistance THEN Breakdown(quoted, fees, policy)
  ELSE Breakdown(ShareableFare(distanceFare, minutes, 0, policy), WithPolicyFees(fees, policy), policy)

-----------------------------------------------------------------------------
(* Settlement entries *)

EntryTypes == {"customer_charge", "driver_payout", "platform_commission", "platform_service_fee",
               "platform_revenue", "tip_driver", "city_liability", "airport_liability",
               "toll_liability", "accessibility_liability", "tax_liability"}

\* The entries of a locked price; a type that is not stored has amount zero.
SettlementOf(price) ==
  [t \in EntryTypes |->
    CASE t = "customer_charge" -> price.total
      [] t = "driver_payout" -> price.payout
      [] t = "platform_commission" -> price.commission
      [] t = "platform_service_fee" -> price.serviceFee
      [] t = "platform_revenue" -> price.revenue
      [] t = "tip_driver" -> price.tip
      [] t = "city_liability" -> price.city
      [] t = "airport_liability" -> price.airport
      [] t = "toll_liability" -> price.toll
      [] t = "accessibility_liability" -> price.accessibility
      [] t = "tax_liability" -> price.tax]

\* What the rider owes is what driver, platform and third parties are owed.
Balanced(entries) ==
  /\ entries["platform_revenue"] = entries["platform_commission"] + entries["platform_service_fee"]
  /\ entries["customer_charge"] =
       entries["driver_payout"] + entries["platform_revenue"] + entries["tip_driver"]
       + entries["city_liability"] + entries["airport_liability"] + entries["toll_liability"]
       + entries["accessibility_liability"] + entries["tax_liability"]
=============================================================================
