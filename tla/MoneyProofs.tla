---------------------------- MODULE MoneyProofs -----------------------------
(***************************************************************************)
(* Proofs about money: the settlement of a ride under overlapping          *)
(* completions, the two hash chains that record what was done, and the     *)
(* payment rows as against what Stripe did.                                *)
(***************************************************************************)
EXTENDS RideSettlement, MarketLedger, Payments, CountingLemmas

-----------------------------------------------------------------------------
(***************************************************************************)
(* Proofs about RideSettlement: the settlement of a ride balances and      *)
(* agrees with its charge, for every policy, fare and set of extras and    *)
(* for any number of overlapping completions.                              *)
(*                                                                         *)
(* Breakdowns are only ever made by Breakdown, whose total is the sum of   *)
(* its parts because the driver's share is what the commission leaves. The *)
(* invariant keeps that property of every breakdown a request holds, and   *)
(* ties the entries and the charge row to one committed breakdown.         *)
(***************************************************************************)

Columns == {"shareable", "commission", "payout", "serviceFee", "revenue", "tip", "tax", "city",
            "airport", "toll", "accessibility", "total"}

\* A breakdown whose parts add up.
Sound(b) ==
  /\ b \in [shareable : Int, commission : Int, payout : Int, serviceFee : Int, revenue : Int,
            tip : Int, tax : Int, city : Int, airport : Int, toll : Int, accessibility : Int,
            total : Int]
  /\ b.revenue = b.commission + b.serviceFee
  /\ b.total = b.payout + b.revenue + b.tip + b.city + b.airport + b.toll + b.accessibility + b.tax
  /\ b.total >= 0

FeeRecords == [Fees -> Int]

-----------------------------------------------------------------------------
(* The arithmetic *)

\* An amount cut off at zero is a natural number.
LEMMA NonNegativeInt == \A n \in Int : NonNegative(n) \in Nat
  BY DEF NonNegative

\* So is one cut off at a floor.
LEMMA AtLeastNat == \A n \in Int, floor \in Nat : AtLeast(n, floor) \in Nat
  BY DEF AtLeast

\* The share of an amount is an amount in whole cents.
LEMMA DivInt == \A n \in Int : n \div Whole \in Int
  BY DEF Whole

\* Commission and driver share are amounts.
LEMMA CommissionInt ==
  ASSUME NEW n \in Int, NEW bps \in Int
  PROVE  Commission(n, bps) \in Int /\ DriverShare(n, bps) \in Int
<1>1. n * bps \in Int
  OBVIOUS
<1> QED
  BY <1>1, DivInt DEF Commission, DriverShare

\* compute_financials keeps every cent: whatever the shareable fare, the fees and the
\* policy, the total is the sum of the driver's, the platform's and third parties' parts.
LEMMA BreakdownSound ==
  ASSUME NEW n \in Nat, NEW fees \in FeeRecords, NEW policy \in Policies
  PROVE  Sound(Breakdown(n, fees, policy)) /\ Breakdown(n, fees, policy).shareable = n
<1> DEFINE service == IF fees.serviceFee = NoFee THEN policy.serviceFee ELSE NonNegative(fees.serviceFee)
           through == [f \in PassThrough |-> NonNegative(fees[f])]
           cut == Commission(n, policy.commissionBps)
           share == DriverShare(n, policy.commissionBps)
<1>1. /\ \A f \in Fees : fees[f] \in Int /\ NonNegative(fees[f]) \in Nat
      /\ policy.commissionBps \in Int /\ policy.serviceFee \in Nat
  <2>1. \A f \in Fees : fees[f] \in Int
    BY DEF FeeRecords
  <2>2. policy.commissionBps \in 0..Whole /\ policy.serviceFee \in Nat
    BY DEF Policies
  <2>3. \A f \in Fees : NonNegative(fees[f]) \in Nat
    BY <2>1, NonNegativeInt
  <2>4. policy.commissionBps \in Int
    BY <2>2
  <2> QED
    BY <2>1, <2>2, <2>3, <2>4
<1>2. /\ fees.serviceFee \in Int /\ fees.tip \in Int /\ fees.tax \in Int
      /\ NonNegative(fees.tip) \in Nat /\ NonNegative(fees.tax) \in Nat
      /\ NonNegative(fees.serviceFee) \in Nat
  BY <1>1 DEF Fees
<1>3. service \in Nat
  BY <1>1, <1>2
<1>4. /\ through["city"] \in Nat /\ through["airport"] \in Nat
      /\ through["toll"] \in Nat /\ through["accessibility"] \in Nat
  BY <1>1 DEF PassThrough, Fees
<1>5. cut \in Int /\ share \in Int /\ share + cut = n
  BY <1>1, CommissionInt DEF Commission, DriverShare
<1> HIDE DEF service, through, cut, share
<1>6. Breakdown(n, fees, policy) =
        [shareable |-> n, commission |-> cut, payout |-> share,
         serviceFee |-> service, revenue |-> cut + service, tip |-> NonNegative(fees.tip),
         tax |-> NonNegative(fees.tax),
         city |-> through["city"], airport |-> through["airport"],
         toll |-> through["toll"], accessibility |-> through["accessibility"],
         total |-> n + service + through["city"] + through["airport"] + through["toll"]
                   + through["accessibility"] + NonNegative(fees.tip) + NonNegative(fees.tax)]
  BY Zenon DEF Breakdown, service, through, cut, share
<1> QED
  BY <1>2, <1>3, <1>4, <1>5, <1>6, SMTT(60) DEF Sound

\* A fare to be shared is never negative.
LEMMA ShareableNat ==
  ASSUME NEW fare \in Int, NEW minutes \in Nat, NEW policy \in Policies
  PROVE  ShareableFare(fare, minutes, 0, policy) \in Nat
<1> DEFINE subtotal == policy.base + fare + NonNegative(minutes) * policy.perMinute
                       + NonNegative(0 - policy.grace) * policy.waitPerMinute
<1>1. /\ policy.base \in Nat /\ policy.perMinute \in Nat /\ policy.waitPerMinute \in Nat
      /\ policy.grace \in Nat /\ policy.demandBps \in Nat /\ policy.minimum \in Nat
  BY DEF Policies
<1>2. NonNegative(minutes) \in Nat /\ NonNegative(0 - policy.grace) \in Nat
  BY <1>1, NonNegativeInt
<1>3. NonNegative(minutes) * policy.perMinute \in Int
      /\ NonNegative(0 - policy.grace) * policy.waitPerMinute \in Int
  BY <1>1, <1>2
<1>4. subtotal \in Int
  BY <1>1, <1>3
<1> HIDE DEF subtotal
<1>5. subtotal * policy.demandBps \in Int
  BY <1>1, <1>4
<1>6. (subtotal * policy.demandBps) \div Whole \in Int
  BY <1>5, DivInt
<1> QED
  BY <1>1, <1>6, AtLeastNat DEF ShareableFare, subtotal

\* The fees of a policy make a record of fees.
LEMMA PolicyFeesAreFees ==
  ASSUME NEW fees \in FeeRecords, NEW policy \in Policies
  PROVE  WithPolicyFees(fees, policy) \in FeeRecords
<1>1. policy["city"] \in Int /\ policy["airport"] \in Int /\ policy["accessibility"] \in Int
  BY DEF Policies
<1>2. \A f \in Fees : fees[f] \in Int
  BY DEF FeeRecords
<1> QED
  BY <1>1, <1>2 DEF WithPolicyFees, FeeRecords

\* Whatever a completion sends, the breakdown it computes is sound.
LEMMA FinalPricingSound ==
  ASSUME NEW quoted \in Int, NEW has \in BOOLEAN, NEW fare \in Int, NEW minutes \in Nat,
         NEW fees \in FeeRecords, NEW policy \in Policies
  PROVE  /\ Sound(FinalPricing(quoted, has, fare, minutes, fees, policy))
         /\ FinalPricing(quoted, has, fare, minutes, fees, policy).shareable \in Nat
<1>1. CASE quoted > 0 /\ ~has
  <2>1. quoted \in Nat
    BY <1>1
  <2> QED
    BY <1>1, <2>1, BreakdownSound DEF FinalPricing
<1>2. CASE ~(quoted > 0 /\ ~has)
  BY <1>2, ShareableNat, PolicyFeesAreFees, BreakdownSound DEF FinalPricing
<1> QED
  BY <1>1, <1>2

\* generate_settlement_entries: the entries of a sound breakdown balance, and they are
\* told from the absence of entries by the charge.
LEMMA EntriesBalance ==
  ASSUME NEW b, Sound(b)
  PROVE  /\ Balanced(SettlementOf(b))
         /\ SettlementOf(b)["customer_charge"] = b.total
         /\ SettlementOf(b) # NoEntries
<1>1. /\ SettlementOf(b)["customer_charge"] = b.total
      /\ SettlementOf(b)["driver_payout"] = b.payout
      /\ SettlementOf(b)["platform_commission"] = b.commission
      /\ SettlementOf(b)["platform_service_fee"] = b.serviceFee
      /\ SettlementOf(b)["platform_revenue"] = b.revenue
      /\ SettlementOf(b)["tip_driver"] = b.tip
  BY DEF SettlementOf, EntryTypes
<1>2. /\ SettlementOf(b)["city_liability"] = b.city
      /\ SettlementOf(b)["airport_liability"] = b.airport
      /\ SettlementOf(b)["toll_liability"] = b.toll
      /\ SettlementOf(b)["accessibility_liability"] = b.accessibility
      /\ SettlementOf(b)["tax_liability"] = b.tax
  BY DEF SettlementOf, EntryTypes
<1>3. NoEntries["customer_charge"] = -1
  BY DEF NoEntries, EntryTypes
<1>4. b.total >= 0 /\ b.total \in Int
  BY DEF Sound
<1>5. Balanced(SettlementOf(b))
  BY <1>1, <1>2 DEF Balanced, Sound
<1> QED
  BY <1>1, <1>3, <1>4, <1>5

-----------------------------------------------------------------------------
(* The invariant *)

\* A request that has read the quote and computed a breakdown.
Open(b) == [busy |-> TRUE, read |-> Quote, computed |-> b]

Untouched ==
  /\ price = PriceRow(Quote, FALSE)
  /\ entries = NoEntries /\ chargeCents = NoChargeRow /\ earnings = 0

\* One committed breakdown stands behind the entries and the charge; as long as no two
\* completions overlapped, behind the locked price as well.
Settled(b) ==
  /\ Sound(b)
  /\ price.locked = TRUE
  /\ entries = SettlementOf(b) /\ chargeCents = b.total
  /\ ~overlapped => price.amounts = b /\ earnings = 1

SettlementInv ==
  /\ completed \in BOOLEAN /\ overlapped \in BOOLEAN
  /\ DOMAIN completer = Completers
  /\ \A w \in Completers : completer[w] = Idle \/ \E b : Sound(b) /\ completer[w] = Open(b)
  /\ ~completed => Untouched
  /\ completed => \E b : Settled(b)
  /\ completed /\ ~overlapped => \A w \in Completers : completer[w] = Idle

USE SettlementAssumption

\* So does their absence.
LEMMA NoFeesAreFees == NoFees \in FeeRecords
  BY DEF NoFees, FeeRecords, NoFee

\* The breakdown that the ride was quoted adds up.
LEMMA QuoteSound == Sound(Quote) /\ Quote.shareable \in Nat
<1>1. QuotedFare \in Int /\ 0 \in Int /\ TRUE \in BOOLEAN
  OBVIOUS
<1> QED
  BY <1>1, FinalPricingSound, NoFeesAreFees DEF Quote

\* The invariant holds before any completion.
LEMMA SettlementInitial == SettlementInit => SettlementInv
  BY DEF SettlementInit, SettlementInv, Untouched

\* A completion begins with a breakdown that adds up.
LEMMA BeginCompleteKeeps ==
  ASSUME SettlementInv, NEW w \in Completers, BeginComplete(w)
  PROVE  SettlementInv'
<1>1. ~completed /\ Untouched /\ completer[w] = Idle
  BY DEF BeginComplete, MayComplete, SettlementInv
<1>2. PICK fare \in TripFares, fees \in Extras :
        completer' = [completer EXCEPT ![w] =
          [busy |-> TRUE, read |-> price.amounts,
           computed |-> FinalPricing(price.amounts.shareable, fare # NoDistance, fare, TripMinutes,
                                     fees, PricingPolicy)]]
  BY DEF BeginComplete
<1> DEFINE b == FinalPricing(Quote.shareable, fare # NoDistance, fare, TripMinutes, fees, PricingPolicy)
<1>3. price.amounts = Quote
  BY <1>1 DEF Untouched, PriceRow
<1>4. Sound(b)
  <2>1. fare \in Int /\ fees \in FeeRecords /\ Quote.shareable \in Int /\ (fare # NoDistance) \in BOOLEAN
    BY QuoteSound DEF FeeRecords, NoDistance
  <2> QED
    BY <2>1, FinalPricingSound
<1> HIDE DEF b
<1>5. completer' = [completer EXCEPT ![w] = Open(b)]
  BY <1>2, <1>3 DEF Open, b
<1> QED
  BY <1>1, <1>4, <1>5 DEF SettlementInv, Untouched, BeginComplete

\* A completion that is abandoned writes nothing.
LEMMA AbandonCompleteKeeps ==
  ASSUME SettlementInv, NEW w \in Completers, AbandonComplete(w)
  PROVE  SettlementInv'
<1>1. completer' = [completer EXCEPT ![w] = Idle]
  BY DEF AbandonComplete
<1> QED
  BY <1>1 DEF SettlementInv, AbandonComplete, Untouched, Settled

\* The columns a completion changed, written over the quote it read, are its breakdown.
LEMMA FlushedOverQuote ==
  ASSUME NEW q, NEW b, Sound(q), Sound(b)
  PROVE  Flushed(q, q, b) = b
<1>1. DOMAIN q = Columns /\ DOMAIN b = Columns /\ b = [c \in DOMAIN b |-> b[c]]
  BY DEF Sound, Columns
<1>2. \A c \in Columns : (IF b[c] # q[c] THEN b[c] ELSE q[c]) = b[c]
  OBVIOUS
<1> QED
  BY <1>1, <1>2 DEF Flushed

\* A completion commits its charge and its entries together.
LEMMA CommitCompleteKeeps ==
  ASSUME SettlementInv, NEW w \in Completers, CommitComplete(w)
  PROVE  SettlementInv'
<1>1. PICK b : Sound(b) /\ completer[w] = Open(b)
  BY DEF CommitComplete, SettlementInv, Idle
<1>2. completer[w].read = Quote /\ completer[w].computed = b /\ completer[w] # Idle
  BY <1>1 DEF Open, Idle
<1>3. /\ price' = PriceRow(Flushed(price.amounts, Quote, b), TRUE)
      /\ entries' = EntriesAfter(entries, b)
      /\ chargeCents' = ChargeRowAfter(chargeCents, b)
      /\ completed' = TRUE /\ earnings' = earnings + 1
      /\ completer' = [completer EXCEPT ![w] = Idle]
      /\ overlapped' = (overlapped \/ \E v \in Completers \ {w} : completer[v].busy)
  BY <1>2 DEF CommitComplete
<1>4. price'.locked = TRUE /\ price'.amounts = Flushed(price.amounts, Quote, b)
  BY <1>3 DEF PriceRow
<1>5. \E x : Settled(x)'
  <2>1. CASE ~completed
    <3>1. price.amounts = Quote /\ entries = NoEntries /\ chargeCents = NoChargeRow /\ earnings = 0
      BY <2>1 DEF SettlementInv, Untouched, PriceRow
    <3>2. price'.amounts = b
      BY <1>1, <1>4, <3>1, QuoteSound, FlushedOverQuote
    <3>3. entries' = SettlementOf(b) /\ chargeCents' = b.total /\ earnings' = 1
      BY <1>3, <3>1 DEF EntriesAfter, ChargeRowAfter
    <3>4. Settled(b)'
      BY <1>1, <1>4, <3>2, <3>3 DEF Settled
    <3> QED
      BY <3>4
  <2>2. CASE completed
    <3>1. PICK x : Settled(x)
      BY <2>2 DEF SettlementInv
    <3>2. overlapped'
      BY <1>2, <1>3, <2>2 DEF SettlementInv
    <3>3. SettlementOf(x) # NoEntries /\ x.total # NoChargeRow
      BY <3>1, EntriesBalance DEF Settled, Sound, NoChargeRow
    <3>4. entries' = SettlementOf(x) /\ chargeCents' = x.total
      BY <1>3, <3>1, <3>3 DEF Settled, EntriesAfter, ChargeRowAfter
    <3>5. Settled(x)'
      BY <1>4, <3>1, <3>2, <3>4 DEF Settled
    <3> QED
      BY <3>5
  <2> QED
    BY <2>1, <2>2 DEF SettlementInv
<1>6. /\ DOMAIN completer' = Completers
      /\ \A v \in Completers : completer'[v] = IF v = w THEN Idle ELSE completer[v]
  BY <1>3 DEF SettlementInv
<1>7. ~overlapped' => \A v \in Completers : completer'[v] = Idle
  <2> SUFFICES ASSUME ~overlapped', NEW v \in Completers, v # w
               PROVE  completer[v] = Idle
    BY <1>6
  <2>1. ~completer[v].busy
    BY <1>3
  <2>2. ASSUME NEW x, completer[v] = Open(x) PROVE FALSE
    BY <2>1, <2>2 DEF Open
  <2> QED
    BY <2>2 DEF SettlementInv
<1>8. overlapped' \in BOOLEAN
  BY <1>3 DEF SettlementInv
<1> QED
  BY <1>3, <1>5, <1>6, <1>7, <1>8 DEF SettlementInv

\* What every completion keeps, in flight or committed: each breakdown adds up, and the
\* entries, the charge row and the lock are all of committed completions.
THEOREM SettlementInvariant == SettlementSpec => []SettlementInv
<1>1. SettlementInv /\ [SettlementNext]_settlementVars => SettlementInv'
  <2> SUFFICES ASSUME SettlementInv, [SettlementNext]_settlementVars
               PROVE  SettlementInv'
    OBVIOUS
  <2>1. ASSUME NEW w \in Completers, BeginComplete(w) PROVE SettlementInv'
    BY <2>1, BeginCompleteKeeps
  <2>2. ASSUME NEW w \in Completers, CommitComplete(w) PROVE SettlementInv'
    BY <2>2, CommitCompleteKeeps
  <2>3. ASSUME NEW w \in Completers, AbandonComplete(w) PROVE SettlementInv'
    BY <2>3, AbandonCompleteKeeps
  <2>4. CASE UNCHANGED settlementVars
    BY <2>4 DEF settlementVars, SettlementInv, Untouched, Settled
  <2> QED
    BY <2>1, <2>2, <2>3, <2>4 DEF SettlementNext
<1> QED
  BY <1>1, SettlementInitial, PTL DEF SettlementSpec

-----------------------------------------------------------------------------
(* What follows *)

\* generate_settlement_entries and finalize_ride_pricing: for every policy, fare and set of
\* extras, whatever the completions and their overlaps, the entries add up to the cent.
THEOREM SettlementAddsUp == SettlementSpec => []SettlementBalances
<1>1. SettlementInv => SettlementBalances
  BY EntriesBalance DEF SettlementInv, SettlementBalances, Untouched, Settled
<1> QED
  BY <1>1, SettlementInvariant, PTL

\* create_charge_intent_from_pricing and generate_settlement_entries each look for their own
\* rows; the charge and the settlement are of the same completion all the same.
THEOREM ChargeAgrees == SettlementSpec => []ChargeMatchesSettlement
<1>1. SettlementInv => ChargeMatchesSettlement
  <2>1. ASSUME SettlementInv, ~completed PROVE ChargeMatchesSettlement
    BY <2>1 DEF SettlementInv, Untouched, ChargeMatchesSettlement
  <2>2. ASSUME SettlementInv, completed PROVE ChargeMatchesSettlement
    <3>1. PICK b : Settled(b)
      BY <2>2 DEF SettlementInv
    <3>2. /\ SettlementOf(b) # NoEntries /\ b.total # NoChargeRow
          /\ SettlementOf(b)["customer_charge"] = b.total
      BY <3>1, EntriesBalance DEF Settled, Sound, NoChargeRow
    <3> QED
      BY <2>2, <3>1, <3>2 DEF Settled, ChargeMatchesSettlement
  <2> QED
    BY <2>1, <2>2
<1> QED
  BY <1>1, SettlementInvariant, PTL

\* Without two completions open at once, _complete_ride_impl's look at the lock keeps the
\* locked price, its settlement entries and the one earning record together.
THEOREM PriceFollowsSettlement == SettlementSpec => []RepricedOnlyByOverlap
<1>1. SettlementInv => RepricedOnlyByOverlap
  BY DEF SettlementInv, RepricedOnlyByOverlap, Settled
<1> QED
  BY <1>1, SettlementInvariant, PTL

-----------------------------------------------------------------------------
(***************************************************************************)
(* Proofs about MarketLedger: a fork in a hash chain needs two requests    *)
(* that were in flight together, and a stored row names a stored row, for  *)
(* any number of requests and any facts they write.                        *)
(*                                                                         *)
(* The invariant says of a row j and an earlier row i that j's request saw *)
(* i (and so names i or a row after it), or met i's request, or that i was *)
(* rolled back. As a row names an earlier one, two kept rows can name the  *)
(* same row only in the second case.                                       *)
(*                                                                         *)
(* A claim is appended to both chains by one request, so they tell the     *)
(* claims of a kept request alike.                                         *)
(***************************************************************************)

ChainRow == [request : Requests, fact : STRING, previous : Nat]

LedgerType ==
  /\ ledgerEntries \in Seq(ChainRow) /\ ledgerEvents \in Seq(ChainRow)
  /\ todo \in [Requests -> Seq(STRING)]
  /\ outcome \in [Requests -> {"new", "open", "committed", "rolled back"}]

\* Only a request that has begun appends (end: how a request stands).
Begun(rows, end) == \A i \in DOMAIN rows : end[rows[i].request] # "new"

\* A row names a row its request saw.
NamesSeen(rows, end) == \A i \in DOMAIN rows : rows[i].previous # 0 =>
  /\ rows[i].previous \in DOMAIN rows /\ rows[i].previous < i
  /\ \/ rows[rows[i].previous].request = rows[i].request
     \/ end[rows[rows[i].previous].request] = "committed"

\* A row goes past an earlier one only when it could not see it.
Passed(rows, end, pairs) == \A i, j \in DOMAIN rows : i < j =>
  \/ rows[j].previous >= i
  \/ {rows[i].request, rows[j].request} \in pairs
  \/ end[rows[i].request] = "rolled back"

ChainInv(rows, end, pairs) == Begun(rows, end) /\ NamesSeen(rows, end) /\ Passed(rows, end, pairs)

OpenRequestsMet == \A r, s \in Requests :
  r # s /\ outcome[r] = "open" /\ outcome[s] = "open" => {r, s} \in met

LedgerInv ==
  /\ LedgerType /\ OpenRequestsMet
  /\ ChainInv(ledgerEntries, outcome, met) /\ ChainInv(ledgerEvents, outcome, met)

\* A bounded set of numbers has a largest member.
LEMMA LargestOf ==
  ASSUME NEW n \in Nat, NEW S \in SUBSET (0..n), 0 \in S
  PROVE  \E t \in S : \A i \in S : i <= t
<1> DEFINE T == {n - t : t \in S}
<1>1. T \subseteq Nat /\ T # {}
  OBVIOUS
<1>2. PICK x \in T : \A y \in T : <<y, x>> \notin OpToRel(<, Nat)
  BY <1>1, WFMin, NatLessThanWellFounded, Zenon
<1>3. \A y \in T : ~ (y < x)
  BY <1>1, <1>2 DEF OpToRel
<1>4. PICK t \in S : x = n - t
  OBVIOUS
<1>5. ASSUME NEW i \in S PROVE i <= t
  <2>1. n - i \in T /\ ~ (n - i < n - t)
    BY <1>3, <1>4
  <2> QED
    BY <2>1
<1> QED
  BY <1>5

\* What a sequence holds is in the set it is a sequence of.
LEMMA MemberOf ==
  ASSUME NEW S, NEW s \in Seq(S), NEW i \in DOMAIN s
  PROVE  s[i] \in S /\ i \in Nat \ {0}
  OBVIOUS

\* The head and the tail of a sequence that is not empty.
LEMMA HeadAndTail ==
  ASSUME NEW S, NEW s \in Seq(S), s # <<>>
  PROVE  Head(s) \in S /\ Tail(s) \in Seq(S)
  OBVIOUS

\* The fields of a stored row.
LEMMA RowFields ==
  ASSUME NEW rows \in Seq(ChainRow), NEW i \in DOMAIN rows
  PROVE  rows[i].request \in Requests /\ rows[i].previous \in Nat /\ i \in Nat \ {0}
<1>1. rows[i] \in ChainRow /\ i \in Nat \ {0}
  BY MemberOf
<1> QED
  BY <1>1 DEF ChainRow

\* The tip is 0 or a row the request sees, and no row it sees is after it.
LEMMA TipIsLast ==
  ASSUME NEW rows \in Seq(ChainRow), NEW r \in Requests
  PROVE  /\ Tip(r, rows) \in Nat
         /\ Tip(r, rows) # 0 => Tip(r, rows) \in DOMAIN rows /\ Sees(r, rows[Tip(r, rows)])
         /\ \A i \in DOMAIN rows : Sees(r, rows[i]) => i <= Tip(r, rows)
<1> DEFINE seen == {i \in DOMAIN rows : Sees(r, rows[i])}
<1>1. Len(rows) \in Nat /\ DOMAIN rows = 1..Len(rows)
  OBVIOUS
<1>2. seen \union {0} \in SUBSET (0..Len(rows)) /\ 0 \in seen \union {0}
  BY <1>1
<1>3. \E t \in seen \union {0} : \A i \in seen \union {0} : i <= t
  <2> HIDE DEF seen
  <2> QED
    BY <1>1, <1>2, LargestOf
<1>4. \E t \in seen \union {0} : \A i \in seen : i <= t
  BY <1>3
<1>5. Tip(r, rows) = CHOOSE t \in seen \union {0} : \A i \in seen : i <= t
  BY DEF Tip
<1>6. Tip(r, rows) \in seen \union {0} /\ \A i \in seen : i <= Tip(r, rows)
  <2> HIDE DEF seen
  <2> QED
    BY <1>4, <1>5
<1> QED
  BY <1>1, <1>6

\* What an append does to the rows of a chain.
LEMMA AppendedRow ==
  ASSUME NEW rows \in Seq(ChainRow), NEW r \in Requests, NEW fact \in STRING,
         NEW more, more = Linked(r, rows, fact)
  PROVE  /\ more \in Seq(ChainRow) /\ DOMAIN more = 1..(Len(rows) + 1)
         /\ \A i \in DOMAIN rows : i \in 1..Len(rows) /\ more[i] = rows[i]
         /\ more[Len(rows) + 1].request = r /\ more[Len(rows) + 1].fact = fact
         /\ more[Len(rows) + 1].previous = Tip(r, rows)
<1> DEFINE row == [request |-> r, fact |-> fact, previous |-> Tip(r, rows)]
<1>1. row \in ChainRow
  BY TipIsLast DEF ChainRow
<1>2. row.request = r /\ row.fact = fact /\ row.previous = Tip(r, rows)
  OBVIOUS
<1>3. more = Append(rows, row)
  BY DEF Linked
<1> HIDE DEF row
<1> QED
  BY <1>1, <1>2, <1>3

\* An append keeps what is said of a chain.
LEMMA AppendKeepsChain ==
  ASSUME NEW rows \in Seq(ChainRow), NEW r \in Requests, NEW fact \in STRING,
         LedgerType, OpenRequestsMet, ChainInv(rows, outcome, met), outcome[r] = "open"
  PROVE  ChainInv(Linked(r, rows, fact), outcome, met)
<1> DEFINE more == Linked(r, rows, fact)
           n == Len(rows)
<1>1. /\ n \in Nat /\ DOMAIN rows = 1..n /\ DOMAIN more = 1..(n + 1)
      /\ \A i \in 1..n : more[i] = rows[i]
      /\ more[n + 1].request = r /\ more[n + 1].previous = Tip(r, rows)
  <2>1. n \in Nat /\ DOMAIN rows = 1..n
    OBVIOUS
  <2>2. more = Linked(r, rows, fact)
    OBVIOUS
  <2> HIDE DEF more
  <2> QED
    BY <2>1, <2>2, AppendedRow
<1>2. \A i \in 1..n : rows[i].request \in Requests /\ rows[i].previous \in Nat
  BY <1>1, RowFields
<1>3. /\ Tip(r, rows) \in Nat
      /\ Tip(r, rows) # 0 => Tip(r, rows) \in 1..n /\ Sees(r, rows[Tip(r, rows)])
      /\ \A i \in 1..n : Sees(r, rows[i]) => i <= Tip(r, rows)
  BY <1>1, TipIsLast
<1> HIDE DEF more, n
<1>4. Begun(more, outcome)
  BY <1>1 DEF Begun, ChainInv
<1>5. NamesSeen(more, outcome)
  <2> DEFINE p(i) == more[i].previous
  <2> SUFFICES ASSUME NEW i \in 1..(n + 1), p(i) # 0
               PROVE  /\ p(i) \in 1..(n + 1) /\ p(i) < i
                      /\ \/ more[p(i)].request = more[i].request
                         \/ outcome[more[p(i)].request] = "committed"
    BY <1>1 DEF NamesSeen
  <2>1. CASE i \in 1..n
    BY <1>1, <1>2, <2>1 DEF NamesSeen, ChainInv
  <2>2. CASE i = n + 1
    BY <1>1, <1>3, <2>2 DEF Sees
  <2> QED
    BY <1>1, <2>1, <2>2
<1>6. Passed(more, outcome, met)
  <2> SUFFICES ASSUME NEW i \in 1..(n + 1), NEW j \in 1..(n + 1), i < j
               PROVE  \/ more[j].previous >= i
                      \/ {more[i].request, more[j].request} \in met
                      \/ outcome[more[i].request] = "rolled back"
    BY <1>1 DEF Passed
  <2>0. j \in 1..n \/ j = n + 1
    BY <1>1
  <2>1. CASE j \in 1..n
    <3>1. i \in 1..n /\ more[i] = rows[i] /\ more[j] = rows[j]
      BY <1>1, <2>1
    <3>2. Passed(rows, outcome, met)
      BY DEF ChainInv
    <3> QED
      BY <1>1, <2>1, <3>1, <3>2 DEF Passed
  <2>2. CASE j = n + 1
    <3>1. i \in 1..n /\ more[i] = rows[i]
      BY <1>1, <2>2
    <3>2. CASE Sees(r, rows[i])
      BY <1>1, <1>3, <2>2, <3>1, <3>2
    <3>3. CASE ~ Sees(r, rows[i])
      <4>1. rows[i].request # r /\ outcome[rows[i].request] # "committed"
        BY <3>3 DEF Sees
      <4>2. outcome[rows[i].request] \in {"open", "rolled back"}
        BY <1>1, <1>2, <3>1, <4>1 DEF ChainInv, Begun, LedgerType
      <4>3. outcome[rows[i].request] = "open" => {rows[i].request, r} \in met
        BY <1>2, <3>1, <4>1 DEF OpenRequestsMet
      <4> QED
        BY <1>1, <2>2, <3>1, <4>2, <4>3
    <3> QED
      BY <3>2, <3>3
  <2> QED
    BY <2>0, <2>1, <2>2
<1> QED
  BY <1>4, <1>5, <1>6 DEF ChainInv, more

\* A chain that no append changes keeps what is said of it while requests
\* begin and end: what was committed or rolled back stays so.
LEMMA EndKeepsChain ==
  ASSUME NEW rows \in Seq(ChainRow), NEW end, NEW later, NEW pairs, NEW more,
         ChainInv(rows, end, pairs), pairs \subseteq more,
         \A r \in Requests : /\ end[r] \in {"committed", "rolled back"} => later[r] = end[r]
                             /\ end[r] # "new" => later[r] # "new"
  PROVE  ChainInv(rows, later, more)
<1>1. \A i \in DOMAIN rows : rows[i].request \in Requests
  BY RowFields
<1>2. Begun(rows, later)
  BY <1>1 DEF ChainInv, Begun
<1>3. NamesSeen(rows, later)
  BY <1>1 DEF ChainInv, NamesSeen
<1>4. Passed(rows, later, more)
  BY <1>1 DEF ChainInv, Passed
<1> QED
  BY <1>2, <1>3, <1>4 DEF ChainInv

\* The invariant holds of empty chains.
LEMMA LedgerInvInit == LedgerInit => LedgerInv
  BY DEF LedgerInit, LedgerInv, LedgerType, ChainInv, Begun, NamesSeen, Passed, OpenRequestsMet, ChainRow

\* A request that begins meets those that are open.
LEMMA BeginKeepsInv ==
  ASSUME LedgerInv, NEW r \in Requests, BeginRequest(r)
  PROVE  LedgerInv'
<1> USE DEF LedgerInv
<1>1. LedgerType'
  BY LedgerAssumption DEF LedgerType, BeginRequest
<1>2. \A s \in Requests : /\ outcome[s] \in {"committed", "rolled back"} => outcome'[s] = outcome[s]
                          /\ outcome[s] # "new" => outcome'[s] # "new"
  BY DEF BeginRequest, LedgerType
<1>3. met \subseteq met'
  BY DEF BeginRequest
<1>4. ChainInv(ledgerEntries, outcome, met)'
  <2>1. ledgerEntries \in Seq(ChainRow) /\ ChainInv(ledgerEntries, outcome, met) /\ ledgerEntries' = ledgerEntries
    BY DEF BeginRequest, LedgerType
  <2>2. ChainInv(ledgerEntries, outcome', met')
    BY <1>2, <1>3, <2>1, EndKeepsChain
  <2> QED
    BY <2>1, <2>2
<1>5. ChainInv(ledgerEvents, outcome, met)'
  <2>1. ledgerEvents \in Seq(ChainRow) /\ ChainInv(ledgerEvents, outcome, met) /\ ledgerEvents' = ledgerEvents
    BY DEF BeginRequest, LedgerType
  <2>2. ChainInv(ledgerEvents, outcome', met')
    BY <1>2, <1>3, <2>1, EndKeepsChain
  <2> QED
    BY <2>1, <2>2
<1>6. OpenRequestsMet'
  <2> SUFFICES ASSUME NEW p \in Requests, NEW q \in Requests, p # q,
                      outcome'[p] = "open", outcome'[q] = "open"
               PROVE  {p, q} \in met'
    BY DEF OpenRequestsMet
  <2>1. CASE p = r
    <3>1. outcome[q] = "open"
      BY <2>1 DEF BeginRequest, LedgerType
    <3> QED
      BY <2>1, <3>1 DEF BeginRequest
  <2>2. CASE q = r
    <3>1. outcome[p] = "open"
      BY <2>2 DEF BeginRequest, LedgerType
    <3>2. {p, q} = {r, p}
      BY <2>2
    <3> QED
      BY <3>1, <3>2 DEF BeginRequest
  <2>3. CASE p # r /\ q # r
    BY <1>3, <2>3 DEF BeginRequest, LedgerType, OpenRequestsMet
  <2> QED
    BY <2>1, <2>2, <2>3
<1> QED
  BY <1>1, <1>4, <1>5, <1>6

\* A row that is appended names the last row its request saw.
LEMMA AppendKeepsInv ==
  ASSUME LedgerInv, NEW r \in Requests, AppendFact(r)
  PROVE  LedgerInv'
<1> USE DEF LedgerInv
<1> DEFINE fact == Head(todo[r])
<1>1. /\ outcome[r] = "open" /\ outcome' = outcome /\ met' = met
      /\ ledgerEvents' = Linked(r, ledgerEvents, fact)
      /\ (ledgerEntries' = ledgerEntries \/ ledgerEntries' = Linked(r, ledgerEntries, fact))
  BY DEF AppendFact
<1>2. fact \in STRING /\ Tail(todo[r]) \in Seq(STRING)
  <2>1. todo[r] \in Seq(STRING) /\ todo[r] # <<>>
    BY DEF AppendFact, LedgerType
  <2> QED
    BY <2>1, HeadAndTail
<1>3. ledgerEntries \in Seq(ChainRow) /\ ledgerEvents \in Seq(ChainRow)
  BY DEF LedgerType
<1>4. todo' \in [Requests -> Seq(STRING)]
  BY <1>2 DEF AppendFact, LedgerType
<1> HIDE DEF fact
<1>5. Linked(r, ledgerEvents, fact) \in Seq(ChainRow) /\ Linked(r, ledgerEntries, fact) \in Seq(ChainRow)
  BY <1>2, <1>3, AppendedRow
<1>6. LedgerType'
  BY <1>1, <1>3, <1>4, <1>5 DEF LedgerType
<1>7. /\ ChainInv(Linked(r, ledgerEvents, fact), outcome, met)
      /\ ChainInv(Linked(r, ledgerEntries, fact), outcome, met)
  BY <1>1, <1>2, <1>3, AppendKeepsChain
<1>8. ChainInv(ledgerEvents, outcome, met)' /\ ChainInv(ledgerEntries, outcome, met)'
  BY <1>1, <1>7
<1>9. OpenRequestsMet'
  BY <1>1 DEF OpenRequestsMet
<1> QED
  BY <1>6, <1>8, <1>9

\* A request that ends keeps its rows or takes them with it.
LEMMA EndKeepsInv ==
  ASSUME LedgerInv, NEW r \in Requests, CommitRequest(r) \/ RollBackRequest(r)
  PROVE  LedgerInv'
<1> USE DEF LedgerInv
<1>1. /\ UNCHANGED <<ledgerEntries, ledgerEvents, todo, met>> /\ outcome[r] = "open"
      /\ \E e \in {"committed", "rolled back"} : outcome' = [outcome EXCEPT ![r] = e]
  BY DEF CommitRequest, RollBackRequest
<1>2. LedgerType'
  BY <1>1 DEF LedgerType
<1>3. \A s \in Requests : /\ outcome[s] \in {"committed", "rolled back"} => outcome'[s] = outcome[s]
                          /\ outcome[s] # "new" => outcome'[s] # "new"
  BY <1>1 DEF LedgerType
<1>4. ChainInv(ledgerEntries, outcome, met)'
  BY <1>1, <1>3, EndKeepsChain DEF LedgerType
<1>5. ChainInv(ledgerEvents, outcome, met)'
  BY <1>1, <1>3, EndKeepsChain DEF LedgerType
<1>6. OpenRequestsMet'
  BY <1>1 DEF OpenRequestsMet, LedgerType
<1> QED
  BY <1>2, <1>4, <1>5, <1>6

\* The invariant of the hash chains, kept by every request however the
\* requests' appends, commits and rollbacks fall between each other.
THEOREM LedgerInvariant == LedgerSpec => []LedgerInv
<1>1. LedgerInv /\ [LedgerNext]_ledgerVars => LedgerInv'
  <2> SUFFICES ASSUME LedgerInv, [LedgerNext]_ledgerVars PROVE LedgerInv'
    OBVIOUS
  <2>1. CASE LedgerNext
    BY <2>1, BeginKeepsInv, AppendKeepsInv, EndKeepsInv DEF LedgerNext
  <2>2. CASE UNCHANGED ledgerVars
    BY <2>2 DEF ledgerVars, LedgerInv, LedgerType, ChainInv, Begun, NamesSeen, Passed, OpenRequestsMet
  <2> QED
    BY <2>1, <2>2
<1> QED
  BY LedgerInvInit, <1>1, PTL DEF LedgerSpec

\* Two stored rows name the same row only if their requests were in flight
\* together: the marketplace chain is linear but for requests that overlap.
THEOREM ForksNeedOverlap == LedgerSpec => []ForkNeedsOverlap
<1>1. ASSUME LedgerInv PROVE ForkNeedsOverlap
  <2>1. ASSUME NEW rows \in Seq(ChainRow), ChainInv(rows, outcome, met),
               NEW i \in DOMAIN rows, NEW j \in DOMAIN rows, Forked(rows, i, j)
        PROVE  {rows[i].request, rows[j].request} \in met
    <3>1. i < j /\ rows[i].previous = rows[j].previous /\ outcome[rows[i].request] = "committed"
      BY <2>1 DEF Forked, Kept
    <3>2. i \in Nat \ {0} /\ rows[i].previous \in Nat
      BY RowFields
    <3>3. rows[i].previous < i
      BY <2>1, <3>2 DEF ChainInv, NamesSeen
    <3>4. ~ (rows[j].previous >= i)
      BY <3>1, <3>2, <3>3
    <3> QED
      BY <2>1, <3>1, <3>4 DEF ChainInv, Passed
  <2> QED
    BY <1>1, <2>1 DEF ForkNeedsOverlap, LedgerInv, LedgerType
<1> QED
  BY <1>1, LedgerInvariant, PTL

\* A stored row names a stored row before it in both chains, whatever was
\* appended and rolled back around it: no reader meets a dangling hash.
THEOREM StoredLinksHold == LedgerSpec => [](LinksHold(ledgerEntries) /\ LinksHold(ledgerEvents))
<1>1. ASSUME LedgerInv PROVE LinksHold(ledgerEntries) /\ LinksHold(ledgerEvents)
  <2>1. ASSUME NEW rows \in Seq(ChainRow), ChainInv(rows, outcome, met) PROVE LinksHold(rows)
    BY <2>1 DEF LinksHold, Kept, ChainInv, NamesSeen
  <2> QED
    BY <1>1, <2>1 DEF LedgerInv, LedgerType
<1> QED
  BY <1>1, LedgerInvariant, PTL

-----------------------------------------------------------------------------
(* Both chains tell a request's claims alike *)

\* An append adds its row to the claims of its request if the fact is a claim, and changes
\* the claims of no other request.
LEMMA ClaimRowsAppended ==
  ASSUME NEW rows \in Seq(ChainRow), NEW r \in Requests, NEW s \in Requests, NEW fact \in STRING,
         NEW more, more = Linked(r, rows, fact)
  PROVE  /\ ClaimRows(s, more) = IF s = r /\ fact \in ClaimFacts
                                   THEN ClaimRows(s, rows) \union {Len(rows) + 1} ELSE ClaimRows(s, rows)
         /\ \A i \in ClaimRows(s, rows) : more[i] = rows[i] /\ i \in Nat /\ i < Len(rows) + 1
         /\ more[Len(rows) + 1].fact = fact /\ Len(rows) + 1 \in Nat
<1>1. PICK n : n = Len(rows) OBVIOUS
<1>2. n \in Nat /\ DOMAIN rows = 1..n BY <1>1
<1>3. /\ DOMAIN more = 1..(n + 1) /\ \A i \in 1..n : more[i] = rows[i]
      /\ more[n + 1].request = r /\ more[n + 1].fact = fact
BY <1>1, <1>2, AppendedRow
<1>4. 1..(n + 1) = (1..n) \union {n + 1} BY <1>2
<1>5. ClaimRows(s, rows) = {i \in 1..n : rows[i].request = s /\ rows[i].fact \in ClaimFacts}
BY <1>2 DEF ClaimRows
<1>6. ClaimRows(s, more) = {i \in (1..n) \union {n + 1} : more[i].request = s /\ more[i].fact \in ClaimFacts}
BY <1>3, <1>4 DEF ClaimRows
<1>7. n + 1 \notin 1..n BY <1>2
<1>8. CASE s = r /\ fact \in ClaimFacts
  <2>1. \A i \in (1..n) \union {n + 1} : (more[i].request = s /\ more[i].fact \in ClaimFacts) <=>
          (i = n + 1 \/ (i \in 1..n /\ rows[i].request = s /\ rows[i].fact \in ClaimFacts))
  BY <1>3, <1>7, <1>8
  <2>2. ClaimRows(s, more) = ClaimRows(s, rows) \union {n + 1} BY <1>5, <1>6, <2>1
  <2> QED BY <1>1, <1>2, <1>3, <1>5, <1>8, <2>2
<1>9. CASE ~ (s = r /\ fact \in ClaimFacts)
  <2>1. \A i \in (1..n) \union {n + 1} : (more[i].request = s /\ more[i].fact \in ClaimFacts) <=>
          (i \in 1..n /\ rows[i].request = s /\ rows[i].fact \in ClaimFacts)
  BY <1>3, <1>7, <1>9
  <2>2. ClaimRows(s, more) = ClaimRows(s, rows) BY <1>5, <1>6, <2>1
  <2> QED BY <1>1, <1>2, <1>3, <1>5, <1>9, <2>2
<1> QED BY <1>8, <1>9

\* The claims that a request appends to both chains are told by both.
LEMMA AppendKeepsClaims ==
  ASSUME NEW rows \in Seq(ChainRow), NEW others \in Seq(ChainRow), NEW r \in Requests, NEW s \in Requests,
         NEW fact \in STRING, SameClaims(s, rows, others),
         NEW more, more = IF fact \in ClaimFacts THEN Linked(r, rows, fact) ELSE rows,
         NEW further, further = Linked(r, others, fact)
  PROVE  SameClaims(s, more, further)
<1>1. PICK n, m, A, B : /\ n = Len(rows) + 1 /\ m = Len(others) + 1
                        /\ A = ClaimRows(s, rows) /\ B = ClaimRows(s, others)
OBVIOUS
<1>2. PICK twin \in [A -> B] :
        /\ \A i, j \in A : i < j => twin[i] < twin[j]
        /\ \A k \in B : \E i \in A : twin[i] = k
        /\ \A i \in A : rows[i].fact = others[twin[i]].fact
BY <1>1 DEF SameClaims
<1>3. /\ ClaimRows(s, further) = IF s = r /\ fact \in ClaimFacts THEN B \union {m} ELSE B
      /\ \A k \in B : further[k] = others[k] /\ k \in Nat /\ k < m
      /\ further[m].fact = fact /\ m \in Nat
BY <1>1, ClaimRowsAppended
<1>4. fact \in ClaimFacts =>
        /\ ClaimRows(s, more) = IF s = r THEN A \union {n} ELSE A
        /\ \A i \in A : more[i] = rows[i] /\ i \in Nat /\ i < n
        /\ more[n].fact = fact /\ n \in Nat
  <2>1. SUFFICES ASSUME fact \in ClaimFacts
                 PROVE  /\ ClaimRows(s, more) = IF s = r THEN A \union {n} ELSE A
                        /\ \A i \in A : more[i] = rows[i] /\ i \in Nat /\ i < n
                        /\ more[n].fact = fact /\ n \in Nat
  OBVIOUS
  <2>2. more = Linked(r, rows, fact) BY <2>1
  <2> QED BY <1>1, <2>1, <2>2, ClaimRowsAppended
<1>5. CASE s = r /\ fact \in ClaimFacts
  <2>1. PICK longer : longer = [i \in A \union {n} |-> IF i = n THEN m ELSE twin[i]] OBVIOUS
  <2>2. /\ ClaimRows(s, more) = A \union {n} /\ ClaimRows(s, further) = B \union {m}
        /\ n \notin A /\ \A i \in A : twin[i] \in B
  BY <1>2, <1>3, <1>4, <1>5
  <2>3. longer \in [A \union {n} -> B \union {m}] BY <1>2, <2>1
  <2>4. longer[n] = m /\ \A i \in A : longer[i] = twin[i] BY <2>1, <2>2
  <2>5. ASSUME NEW i \in A \union {n}, NEW j \in A \union {n}, i < j PROVE longer[i] < longer[j]
    <3>1. CASE i \in A /\ j \in A BY <1>2, <2>4, <2>5, <3>1
    <3>2. CASE i \in A /\ j = n BY <1>3, <2>2, <2>4, <3>2
    <3>3. CASE i = n
      <4>1. j \in A => j < n BY <1>4, <1>5
      <4>2. n \in Nat /\ (j \in A => j \in Nat) BY <1>4, <1>5
      <4> QED BY <2>5, <3>3, <4>1, <4>2
    <3> QED BY <3>1, <3>2, <3>3
  <2>6. ASSUME NEW k \in B \union {m} PROVE \E i \in A \union {n} : longer[i] = k
    <3>1. CASE k \in B BY <1>2, <2>4, <3>1
    <3>2. CASE k = m BY <2>4, <3>2
    <3> QED BY <3>1, <3>2
  <2>7. ASSUME NEW i \in A \union {n} PROVE more[i].fact = further[longer[i]].fact
    <3>1. CASE i \in A BY <1>2, <1>3, <1>4, <1>5, <2>2, <2>4, <3>1
    <3>2. CASE i = n BY <1>3, <1>4, <1>5, <2>4, <3>2
    <3> QED BY <3>1, <3>2
  <2>8. PICK C, D : C = ClaimRows(s, more) /\ D = ClaimRows(s, further) OBVIOUS
  <2>9. C = A \union {n} /\ D = B \union {m} BY <2>2, <2>8
  <2>10. /\ longer \in [C -> D]
         /\ \A i, j \in C : i < j => longer[i] < longer[j]
         /\ \A k \in D : \E i \in C : longer[i] = k
         /\ \A i \in C : more[i].fact = further[longer[i]].fact
  BY <2>3, <2>5, <2>6, <2>7, <2>9
  <2> QED BY <2>8, <2>10 DEF SameClaims
<1>6. CASE ~ (s = r /\ fact \in ClaimFacts)
  <2>1. ClaimRows(s, more) = A /\ ClaimRows(s, further) = B BY <1>1, <1>3, <1>4, <1>6
  <2>2. \A i \in A : more[i] = rows[i] BY <1>4
  <2>3. \A i \in A : more[i].fact = further[twin[i]].fact BY <1>2, <1>3, <2>2
  <2> QED BY <1>2, <2>1, <2>3 DEF SameClaims
<1> QED BY <1>5, <1>6

\* What both chains tell of a request's claims is the same at every moment, not only once
\* the request is committed.
ClaimsAgree == \A r \in Requests : SameClaims(r, ledgerEntries, ledgerEvents)

\* In every behaviour both chains tell the claims of every request alike.
LEMMA ClaimsAgreeAlways == LedgerSpec => []ClaimsAgree
<1>1. LedgerInit => ClaimsAgree
  <2> SUFFICES ASSUME LedgerInit, NEW r \in Requests PROVE SameClaims(r, ledgerEntries, ledgerEvents)
  BY DEF ClaimsAgree
  <2>1. ClaimRows(r, ledgerEntries) = {} /\ ClaimRows(r, ledgerEvents) = {} BY DEF LedgerInit, ClaimRows
  <2>2. [i \in {} |-> 0] \in [{} -> {}] OBVIOUS
  <2> QED BY <2>1, <2>2 DEF SameClaims
<1>2. LedgerInv /\ ClaimsAgree /\ [LedgerNext]_ledgerVars => ClaimsAgree'
  <2> SUFFICES ASSUME LedgerInv, ClaimsAgree, [LedgerNext]_ledgerVars, NEW s \in Requests
               PROVE  SameClaims(s, ledgerEntries, ledgerEvents)'
  BY DEF ClaimsAgree
  <2>1. SameClaims(s, ledgerEntries, ledgerEvents) BY DEF ClaimsAgree
  <2>2. ASSUME NEW r \in Requests, AppendFact(r) PROVE SameClaims(s, ledgerEntries, ledgerEvents)'
    <3>1. PICK fact : fact = Head(todo[r]) OBVIOUS
    <3>2. /\ ledgerEvents' = Linked(r, ledgerEvents, fact)
          /\ ledgerEntries' = IF fact \in ClaimFacts THEN Linked(r, ledgerEntries, fact) ELSE ledgerEntries
          /\ todo[r] # <<>>
    BY <2>2, <3>1 DEF AppendFact, InBothChains
    <3>3. /\ fact \in STRING /\ ledgerEntries \in Seq(ChainRow) /\ ledgerEvents \in Seq(ChainRow)
      <4>1. todo[r] \in Seq(STRING) BY DEF LedgerInv, LedgerType
      <4>2. fact \in STRING BY <3>1, <3>2, <4>1, HeadAndTail
      <4> QED BY <4>2 DEF LedgerInv, LedgerType
    <3>4. PICK more, further : more = ledgerEntries' /\ further = ledgerEvents' OBVIOUS
    <3>5. SameClaims(s, more, further) BY <2>1, <3>2, <3>3, <3>4, AppendKeepsClaims
    <3> QED BY <3>4, <3>5
  <2>3. CASE UNCHANGED <<ledgerEntries, ledgerEvents>> BY <2>1, <2>3
  <2> QED BY <2>2, <2>3 DEF LedgerNext, BeginRequest, CommitRequest, RollBackRequest, ledgerVars
<1> QED BY <1>1, <1>2, LedgerInvariant, PTL DEF LedgerSpec

\* The chain a reader of the ledger finds is whole: stored rows name stored rows, and both
\* chains tell the claims of a committed request in the same order.
THEOREM AuditTrailIsWhole == LedgerSpec => []AuditTrailHolds
<1>1. LinksHold(ledgerEntries) /\ LinksHold(ledgerEvents) /\ ClaimsAgree => AuditTrailHolds
BY DEF AuditTrailHolds, ClaimsAgree
<1> QED BY <1>1, StoredLinksHold, ClaimsAgreeAlways, PTL

-----------------------------------------------------------------------------
(***************************************************************************)
(* Proofs about Payments for any number of requests, any charge and any    *)
(* number of events: a ride has one payment intent, no row claims money    *)
(* that Stripe did not collect, and no refund row stands without a refund  *)
(* at Stripe.                                                              *)
(*                                                                         *)
(* The argument rests on what Stripe never takes back: an intent that      *)
(* succeeded and a refund that settled stay so. So the events that say so  *)
(* are true whenever they are delivered, however late, and a request that  *)
(* holds Stripe's answer may commit it at any later time.                  *)
(***************************************************************************)

ChargeRow == [status : ChargeStatuses \union {None}, ext : {None, ChargeKey}]
PayReplies == {None, "kept", "requires_driver_connect", "requires_payment_method", "failed"}
RefundReplies == RefundStatuses \union {None, "raised"}
PayRequest == [op : {"idle", "complete", "intent", "refund"}, amount : Nat,
               saw : {None, ChargeKey}, reply : PayReplies \union RefundReplies]

PaymentsType ==
  /\ charge \in ChargeRow
  /\ intent \in [IntentKeys -> IntentStatuses \union {None}]
  /\ refundRow \in [Amounts -> RefundStatuses \union {None}]
  /\ stripeRefund \in [Amounts -> RefundStatuses \union {None}]
  /\ refundAnswer \in [Amounts -> RefundStatuses \union {None}]
  /\ payer \in [PayWorkers -> PayRequest]

\* Every creation names the ride's key.
OnlyTheCharge == \A k \in IntentKeys : intent[k] # None => k = ChargeKey

\* An event that reports an end reports what is still true.
EventsAreTrue == \A e \in events :
  /\ e.type = "intent" => /\ e.object \in IntentKeys /\ e.status \in IntentStatuses
                          /\ e.status = "succeeded" => intent[e.object] = "succeeded"
  /\ e.type = "refund" => /\ e.object \in Amounts /\ e.status \in RefundStatuses
                          /\ stripeRefund[e.object] # None
                          /\ e.status # "pending" => stripeRefund[e.object] = e.status

\* Stripe answered of every refund it made, and of an end what is still true.
AnswersAreTrue == \A a \in Amounts :
  /\ refundAnswer[a] = None <=> stripeRefund[a] = None
  /\ refundAnswer[a] \in {"succeeded", "failed"} => stripeRefund[a] = refundAnswer[a]

\* A refund request has the answer that Stripe gives of its refund, and no other request is told
\* of one.
Accepted(p) ==
  /\ p.op = "refund" => p.amount \in Amounts /\ p.reply \in RefundReplies
  /\ p.op # "refund" => p.reply \in PayReplies
  /\ p.op = "refund" /\ p.reply \in RefundStatuses => p.reply = refundAnswer[p.amount]
AcceptedIsThere == \A w \in PayWorkers : Accepted(payer[w])

PaymentsInv ==
  /\ PaymentsType /\ OnlyTheCharge /\ EventsAreTrue /\ AnswersAreTrue /\ AcceptedIsThere
  /\ CollectedIsReal /\ RefundRowsAreReal

-----------------------------------------------------------------------------
(* Steps of Stripe *)

\* An answer once given is repeated, so what requests were told stays true.
LEMMA AnswersStay ==
  ASSUME PaymentsInv, UNCHANGED payer,
         \A a \in Amounts : refundAnswer[a] # None => refundAnswer'[a] = refundAnswer[a]
  PROVE  AcceptedIsThere'
<1> SUFFICES ASSUME NEW w \in PayWorkers PROVE Accepted(payer[w])'
  BY DEF AcceptedIsThere
<1>1. Accepted(payer[w])
  BY DEF PaymentsInv, AcceptedIsThere
<1>2. None \notin RefundStatuses
  BY DEF None, RefundStatuses
<1> QED
  BY <1>1, <1>2 DEF Accepted

\* Stripe's intents and refunds move on without taking back an end, and an event that
\* reports the move is true.
LEMMA StripeKeeps ==
  ASSUME PaymentsInv, UNCHANGED <<charge, refundRow>>,
         payer' \in [PayWorkers -> PayRequest], AcceptedIsThere',
         intent' \in [IntentKeys -> IntentStatuses \union {None}],
         stripeRefund' \in [Amounts -> RefundStatuses \union {None}],
         refundAnswer' \in [Amounts -> RefundStatuses \union {None}], AnswersAreTrue',
         \A k \in IntentKeys : /\ intent'[k] # None => intent[k] # None
                               /\ intent[k] = "succeeded" => intent'[k] = "succeeded",
         \A a \in Amounts : /\ stripeRefund[a] # None => stripeRefund'[a] # None
                            /\ stripeRefund[a] \in {"succeeded", "failed"} => stripeRefund'[a] = stripeRefund[a],
         NEW e, events' \subseteq events \union {e},
         e.type = "intent" => /\ e.object \in IntentKeys /\ e.status \in IntentStatuses
                              /\ e.status = "succeeded" => intent'[e.object] = "succeeded",
         e.type = "refund" => /\ e.object \in Amounts /\ e.status \in RefundStatuses
                              /\ stripeRefund'[e.object] # None
                              /\ e.status # "pending" => stripeRefund'[e.object] = e.status
  PROVE  PaymentsInv'
<1> USE DEF PaymentsInv
<1>1. PaymentsType'
  BY DEF PaymentsType
<1>2. OnlyTheCharge'
  BY DEF OnlyTheCharge
<1>3. EventsAreTrue'
  <2> SUFFICES ASSUME NEW f \in events'
               PROVE  /\ f.type = "intent" => /\ f.object \in IntentKeys /\ f.status \in IntentStatuses
                                              /\ f.status = "succeeded" => intent'[f.object] = "succeeded"
                      /\ f.type = "refund" => /\ f.object \in Amounts /\ f.status \in RefundStatuses
                                              /\ stripeRefund'[f.object] # None
                                              /\ f.status # "pending" => stripeRefund'[f.object] = f.status
    BY DEF EventsAreTrue
  <2>1. CASE f = e
    BY <2>1
  <2>2. CASE f \in events
    BY <2>2 DEF EventsAreTrue, RefundStatuses
  <2> QED
    BY <2>1, <2>2
<1>4. CollectedIsReal'
  <2>1. charge.ext \in IntentKeys \/ charge.ext = None
    BY DEF PaymentsType, ChargeRow, IntentKeys
  <2>2. charge.status = "succeeded" => charge.ext # None /\ intent[charge.ext] = "succeeded"
    BY DEF CollectedIsReal
  <2> QED
    BY <2>1, <2>2 DEF CollectedIsReal
<1>5. RefundRowsAreReal'
  BY DEF RefundRowsAreReal
<1> QED
  BY <1>1, <1>2, <1>3, <1>4, <1>5

\* An intent that moves tells so, and one that succeeded never moves.
LEMMA IntentMovesKeeps ==
  ASSUME PaymentsInv, NEW k \in IntentKeys, IntentMoves(k)
  PROVE  PaymentsInv'
<1>1. PICK move \in {<<"requires_payment_method", "processing">>, <<"requires_payment_method", "succeeded">>,
                     <<"processing", "succeeded">>,
                     <<"processing", "requires_payment_method">>, <<"requires_payment_method", "canceled">>} :
        intent[k] = move[1] /\ intent' = [intent EXCEPT ![k] = move[2]] /\ Sends("intent", k, move[2])
  BY DEF IntentMoves
<1> DEFINE e == [id |-> Cardinality(events) + 1, type |-> "intent", object |-> k, status |-> move[2]]
<1>2. move[1] \in {"requires_payment_method", "processing"} /\ move[2] \in IntentStatuses
  BY <1>1 DEF IntentStatuses
<1>3. events' = events \union {e} /\ e.type = "intent" /\ e.object = k /\ e.status = move[2]
  BY <1>1 DEF Sends
<1>4. UNCHANGED <<charge, refundRow, payer, stripeRefund, refundAnswer>>
  BY DEF IntentMoves, dbRows
<1>5. /\ intent \in [IntentKeys -> IntentStatuses \union {None}] /\ payer' \in [PayWorkers -> PayRequest]
      /\ stripeRefund' \in [Amounts -> RefundStatuses \union {None}]
      /\ refundAnswer' \in [Amounts -> RefundStatuses \union {None}] /\ AnswersAreTrue' /\ AcceptedIsThere'
  BY <1>4, AnswersStay DEF PaymentsInv, PaymentsType, AnswersAreTrue
<1> HIDE DEF e
<1>6. /\ intent' \in [IntentKeys -> IntentStatuses \union {None}] /\ intent'[k] = move[2]
      /\ \A j \in IntentKeys : /\ intent'[j] # None => intent[j] # None
                               /\ intent[j] = "succeeded" => intent'[j] = "succeeded"
  BY <1>1, <1>2, <1>5 DEF None
<1> QED
  BY <1>2, <1>3, <1>4, <1>5, <1>6, StripeKeeps

\* A refund settles once.
LEMMA RefundSettlesKeeps ==
  ASSUME PaymentsInv, NEW a \in Amounts, RefundSettles(a)
  PROVE  PaymentsInv'
<1>1. PICK s \in {"succeeded", "failed"} :
        stripeRefund' = [stripeRefund EXCEPT ![a] = s] /\ Sends("refund", a, s)
  BY DEF RefundSettles
<1> DEFINE e == [id |-> Cardinality(events) + 1, type |-> "refund", object |-> a, status |-> s]
<1>2. events' = events \union {e} /\ e.type = "refund" /\ e.object = a /\ e.status = s
  BY <1>1 DEF Sends
<1>3. UNCHANGED <<charge, refundRow, payer, intent, refundAnswer>> /\ stripeRefund[a] = "pending"
  BY DEF RefundSettles, dbRows
<1>4. /\ intent' \in [IntentKeys -> IntentStatuses \union {None}] /\ payer' \in [PayWorkers -> PayRequest]
      /\ stripeRefund \in [Amounts -> RefundStatuses \union {None}]
      /\ refundAnswer' \in [Amounts -> RefundStatuses \union {None}] /\ AcceptedIsThere'
  BY <1>3, AnswersStay DEF PaymentsInv, PaymentsType
<1> HIDE DEF e
<1>5. /\ stripeRefund' \in [Amounts -> RefundStatuses \union {None}] /\ stripeRefund'[a] = s
      /\ \A b \in Amounts : /\ stripeRefund[b] # None => stripeRefund'[b] # None
                            /\ stripeRefund[b] \in {"succeeded", "failed"} => stripeRefund'[b] = stripeRefund[b]
  BY <1>1, <1>3, <1>4 DEF None, RefundStatuses
<1>6. AnswersAreTrue'
  <2> SUFFICES ASSUME NEW b \in Amounts
               PROVE  /\ refundAnswer[b] = None <=> stripeRefund'[b] = None
                      /\ refundAnswer[b] \in {"succeeded", "failed"} => stripeRefund'[b] = refundAnswer[b]
    BY <1>3 DEF AnswersAreTrue
  <2>1. /\ refundAnswer[b] = None <=> stripeRefund[b] = None
        /\ refundAnswer[b] \in {"succeeded", "failed"} => stripeRefund[b] = refundAnswer[b]
    BY DEF PaymentsInv, AnswersAreTrue
  <2>2. CASE b = a
    BY <1>3, <1>5, <2>1, <2>2 DEF None
  <2>3. CASE b # a
    <3>1. stripeRefund'[b] = stripeRefund[b]
      BY <1>1, <1>4, <2>3
    <3> QED
      BY <2>1, <3>1
  <2> QED
    BY <2>2, <2>3
<1>7. e.type = "refund" => /\ e.object \in Amounts /\ e.status \in RefundStatuses
                           /\ stripeRefund'[e.object] # None
                           /\ e.status # "pending" => stripeRefund'[e.object] = e.status
  BY <1>2, <1>5 DEF RefundStatuses, None
<1> QED
  BY <1>2, <1>3, <1>4, <1>5, <1>6, <1>7, StripeKeeps

\* Disputes, transfers and payouts touch neither intents nor refunds.
LEMMA OtherMovesKeep ==
  ASSUME PaymentsInv, NEW k \in IntentKeys, DisputeMoves(k) \/ TransferMoves(k) \/ PayoutMoves(k)
  PROVE  PaymentsInv'
<1>1. UNCHANGED <<charge, refundRow, payer, intent, stripeRefund, refundAnswer>>
  BY DEF DisputeMoves, TransferMoves, PayoutMoves, dbRows
<1>2. \E type \in {"dispute.created", "dispute.updated", "dispute.closed", "transfer", "payout"} :
        \E status : Sends(type, k, status)
  BY DEF DisputeMoves, TransferMoves, PayoutMoves
<1>3. PICK type \in {"dispute.created", "dispute.updated", "dispute.closed", "transfer", "payout"} :
        \E status : Sends(type, k, status)
  BY <1>2
<1>4. PICK status : Sends(type, k, status)
  BY <1>3
<1> DEFINE e == [id |-> Cardinality(events) + 1, type |-> type, object |-> k, status |-> status]
<1>5. events' = events \union {e} /\ e.type \notin {"intent", "refund"}
  BY <1>3, <1>4 DEF Sends
<1>6. /\ intent' \in [IntentKeys -> IntentStatuses \union {None}] /\ payer' \in [PayWorkers -> PayRequest]
      /\ stripeRefund' \in [Amounts -> RefundStatuses \union {None}]
      /\ refundAnswer' \in [Amounts -> RefundStatuses \union {None}] /\ AnswersAreTrue' /\ AcceptedIsThere'
  BY <1>1, AnswersStay DEF PaymentsInv, PaymentsType, AnswersAreTrue
<1> HIDE DEF e
<1> QED
  BY <1>1, <1>5, <1>6, StripeKeeps

-----------------------------------------------------------------------------
(* Steps of the requests *)

\* A request takes up, goes on or ends, and the rows stay as they are.
LEMMA RequestKeeps ==
  ASSUME PaymentsInv, UNCHANGED <<charge, refundRow, intent, stripeRefund, refundAnswer, events>>,
         NEW w \in PayWorkers, NEW p \in PayRequest, payer' = [payer EXCEPT ![w] = p], Accepted(p)
  PROVE  PaymentsInv'
<1> USE DEF PaymentsInv
<1>1. payer'[w] = p /\ \A v \in PayWorkers : v # w => payer'[v] = payer[v]
  BY DEF PaymentsType
<1>2. PaymentsType'
  BY DEF PaymentsType
<1>3. AcceptedIsThere'
  BY <1>1 DEF AcceptedIsThere, Accepted
<1>4. OnlyTheCharge' /\ CollectedIsReal' /\ RefundRowsAreReal' /\ EventsAreTrue' /\ AnswersAreTrue'
  BY DEF OnlyTheCharge, CollectedIsReal, RefundRowsAreReal, EventsAreTrue, AnswersAreTrue
<1> QED
  BY <1>2, <1>3, <1>4

\* A worker that is not paying holds an empty request.
LEMMA IdleIsRequest == NotPaying \in PayRequest /\ NotPaying.op = "idle" /\ NotPaying.reply = None
  BY DEF NotPaying, PayRequest, PayReplies

\* A request without an answer was told nothing.
LEMMA NothingTold ==
  ASSUME NEW p, p.reply = None, p.op = "refund" => p.amount \in Amounts
  PROVE  Accepted(p)
BY DEF Accepted, PayReplies, RefundReplies, RefundStatuses, None

\* A request begins with what it read.
LEMMA BeginPayKeeps ==
  ASSUME PaymentsInv, NEW w \in PayWorkers,
         \/ \E op \in {"complete", "intent"} : BeginPay(w, op)
         \/ \E a \in Amounts : BeginRefund(w, a)
  PROVE  PaymentsInv'
<1>1. charge.ext \in {None, ChargeKey}
  BY DEF PaymentsInv, PaymentsType, ChargeRow
<1>2. ASSUME NEW op \in {"complete", "intent"}, BeginPay(w, op) PROVE PaymentsInv'
  <2> DEFINE p == [op |-> op, amount |-> 0, saw |-> charge.ext, reply |-> None]
  <2>1. payer' = [payer EXCEPT ![w] = p] /\ UNCHANGED <<charge, refundRow, intent, stripeRefund, refundAnswer, events>>
    BY <1>2 DEF BeginPay, dbRows, stripe
  <2>2. p \in PayRequest /\ Accepted(p)
    <3>1. p \in PayRequest /\ p.op # "refund" /\ p.reply = None
      BY <1>1 DEF PayRequest, PayReplies
    <3> QED
      BY <3>1, NothingTold
  <2> HIDE DEF p
  <2> QED
    BY <2>1, <2>2, RequestKeeps
<1>3. ASSUME NEW a \in Amounts, BeginRefund(w, a) PROVE PaymentsInv'
  <2> DEFINE p == [op |-> "refund", amount |-> a, saw |-> charge.ext, reply |-> None]
  <2>1. payer' = [payer EXCEPT ![w] = p] /\ UNCHANGED <<charge, refundRow, intent, stripeRefund, refundAnswer, events>>
    BY <1>3 DEF BeginRefund, dbRows, stripe
  <2>2. p \in PayRequest /\ Accepted(p)
    <3>1. p \in PayRequest /\ p.amount = a /\ p.reply = None
      BY <1>1, PaymentsAssumption DEF PayRequest, PayReplies, Amounts
    <3> QED
      BY <3>1, NothingTold
  <2> HIDE DEF p
  <2> QED
    BY <2>1, <2>2, RequestKeeps
<1> QED
  BY <1>2, <1>3

\* A request that skips Stripe has an answer that claims nothing.
LEMMA SkipKeeps ==
  ASSUME PaymentsInv, NEW w \in PayWorkers, SkipStripe(w)
  PROVE  PaymentsInv'
<1>1. PICK r \in {"kept", "requires_driver_connect"} : payer' = [payer EXCEPT ![w].reply = r]
  BY DEF SkipStripe
<1> DEFINE p == [payer[w] EXCEPT !.reply = r]
<1>2. payer[w] \in PayRequest /\ payer[w].op # "refund"
  BY DEF PaymentsInv, PaymentsType, SkipStripe, Paying
<1>3. p \in PayRequest /\ Accepted(p)
  <2>1. p \in PayRequest /\ p.op = payer[w].op /\ p.reply = r
    BY <1>2 DEF PayRequest, PayReplies
  <2> QED
    BY <1>2, <2>1 DEF Accepted, PayReplies
<1>4. payer' = [payer EXCEPT ![w] = p] /\ UNCHANGED <<charge, refundRow, intent, stripeRefund, refundAnswer, events>>
  BY <1>1 DEF SkipStripe, dbRows, stripe
<1> HIDE DEF p
<1> QED
  BY <1>2, <1>3, <1>4, RequestKeeps

\* A request that fails writes nothing.
LEMMA DropKeeps ==
  ASSUME PaymentsInv, NEW w \in PayWorkers, DropRequest(w)
  PROVE  PaymentsInv'
<1>1. payer' = [payer EXCEPT ![w] = NotPaying] /\ UNCHANGED <<charge, refundRow, intent, stripeRefund, refundAnswer, events>>
  BY DEF DropRequest, dbRows, stripe
<1>2. Accepted(NotPaying)
  BY IdleIsRequest, NothingTold
<1> QED
  BY <1>1, <1>2, IdleIsRequest, RequestKeeps

\* The intent is there before the answer is, and its key is the ride's.
LEMMA CreateIntentKeeps ==
  ASSUME PaymentsInv, NEW w \in PayWorkers, CreateIntent(w)
  PROVE  PaymentsInv'
<1> USE DEF PaymentsInv
<1>1. PICK r \in {"requires_payment_method", "failed"} : payer' = [payer EXCEPT ![w].reply = r]
  BY DEF CreateIntent, Response
<1> DEFINE made == IF intent[ChargeKey] = None THEN "requires_payment_method" ELSE intent[ChargeKey]
<1>2. /\ intent' = [intent EXCEPT ![ChargeKey] = made]
      /\ UNCHANGED <<charge, refundRow, stripeRefund, refundAnswer, events>>
  BY DEF CreateIntent, IntentKey, dbRows
<1>3. payer[w] \in PayRequest /\ payer[w].op # "refund"
  BY DEF PaymentsType, CreateIntent, Paying
<1>4. ChargeKey \in IntentKeys /\ made \in IntentStatuses
  BY DEF IntentKeys, PaymentsType, IntentStatuses
<1>5. /\ intent' \in [IntentKeys -> IntentStatuses \union {None}]
      /\ \A k \in IntentKeys : k # ChargeKey => intent'[k] = intent[k]
      /\ intent[ChargeKey] = "succeeded" => intent'[ChargeKey] = "succeeded"
  BY <1>2, <1>4 DEF PaymentsType, None
<1>6. /\ payer'[w] \in PayRequest /\ payer'[w].op # "refund" /\ payer'[w].reply = r
      /\ \A v \in PayWorkers : v # w => payer'[v] = payer[v]
  BY <1>1, <1>3 DEF PaymentsType, PayRequest, PayReplies
<1>7. PaymentsType'
  <2>1. payer' \in [PayWorkers -> PayRequest]
    BY <1>1, <1>6 DEF PaymentsType
  <2> QED
    BY <1>2, <1>5, <2>1 DEF PaymentsType
<1>8. OnlyTheCharge'
  BY <1>5 DEF OnlyTheCharge
<1>9. \A k \in IntentKeys : intent[k] = "succeeded" => intent'[k] = "succeeded"
  BY <1>5
<1> HIDE DEF made
<1>10. EventsAreTrue'
  BY <1>2, <1>9 DEF EventsAreTrue
<1>11. AcceptedIsThere' /\ AnswersAreTrue'
  BY <1>1, <1>2, <1>6 DEF AcceptedIsThere, Accepted, PayReplies, AnswersAreTrue
<1>12. CollectedIsReal'
  <2>1. charge.ext \in IntentKeys \/ charge.ext = None
    BY DEF PaymentsType, ChargeRow, IntentKeys
  <2> QED
    BY <1>2, <1>9, <2>1 DEF CollectedIsReal
<1>13. RefundRowsAreReal'
  BY <1>2 DEF RefundRowsAreReal
<1> QED
  BY <1>7, <1>8, <1>10, <1>11, <1>12, <1>13

\* What a payment request commits never says that money was collected, unless the row said so.
LEMMA CommitPayKeeps ==
  ASSUME PaymentsInv, NEW w \in PayWorkers, CommitPay(w)
  PROVE  PaymentsInv'
<1> USE DEF PaymentsInv
<1>1. /\ payer' = [payer EXCEPT ![w] = NotPaying] /\ charge' = RowAfterPay(w)
      /\ UNCHANGED <<refundRow, intent, stripeRefund, refundAnswer, events>>
      /\ payer[w].op \in {"complete", "intent"} /\ payer[w].reply # None
  BY DEF CommitPay, stripe
<1>2. payer[w].reply \in {"kept", "requires_driver_connect", "requires_payment_method", "failed"}
  BY <1>1 DEF AcceptedIsThere, Accepted, PayReplies
<1>3. /\ charge \in ChargeRow /\ charge.ext \in {None, ChargeKey}
      /\ charge.status = "succeeded" => charge.ext # None /\ intent[charge.ext] = "succeeded"
  BY DEF PaymentsType, ChargeRow, CollectedIsReal
<1>4. charge' \in ChargeRow /\ (charge' = charge \/ charge'.status # "succeeded")
  <2>1. CASE payer[w].reply = "failed"
    <3> DEFINE failed == [status |-> "pending", ext |-> None]
    <3>1. charge' = failed \/ charge' = charge
      BY <1>1, <2>1 DEF RowAfterPay
    <3>2. failed \in ChargeRow /\ failed.status = "pending"
      BY DEF ChargeRow, ChargeStatuses
    <3> HIDE DEF failed
    <3> QED
      BY <1>3, <3>1, <3>2
  <2>2. CASE payer[w].reply = "kept"
    BY <1>1, <1>3, <2>2 DEF RowAfterPay
  <2>3. CASE payer[w].reply = "requires_driver_connect"
    <3> DEFINE unconnected == [charge EXCEPT !.status = "requires_driver_connect"]
    <3>1. charge' = unconnected
      BY <1>1, <2>3 DEF RowAfterPay
    <3>2. unconnected \in ChargeRow /\ unconnected.status = "requires_driver_connect"
      BY <1>3 DEF ChargeRow, ChargeStatuses
    <3> HIDE DEF unconnected
    <3> QED
      BY <3>1, <3>2
  <2>4. CASE payer[w].reply = "requires_payment_method"
    <3> DEFINE linked == [status |-> "requires_payment_method", ext |-> ChargeKey]
    <3>1. charge' = linked
      BY <1>1, <2>4 DEF RowAfterPay, IntentKey
    <3>2. linked \in ChargeRow /\ linked.status = "requires_payment_method"
      BY DEF ChargeRow, ChargeStatuses, IntentStatuses
    <3> HIDE DEF linked
    <3> QED
      BY <3>1, <3>2
  <2> QED
    BY <1>2, <2>1, <2>2, <2>3, <2>4
<1>5. payer'[w] = NotPaying /\ \A v \in PayWorkers : v # w => payer'[v] = payer[v]
  BY <1>1 DEF PaymentsType
<1>6. PaymentsType'
  BY <1>1, <1>4, IdleIsRequest DEF PaymentsType
<1>7. AcceptedIsThere'
  <2>1. Accepted(NotPaying)
    BY IdleIsRequest, NothingTold
  <2> QED
    BY <1>1, <1>5, <2>1 DEF AcceptedIsThere, Accepted
<1>8. CollectedIsReal'
  BY <1>1, <1>3, <1>4 DEF CollectedIsReal
<1>9. OnlyTheCharge' /\ EventsAreTrue' /\ RefundRowsAreReal' /\ AnswersAreTrue'
  BY <1>1 DEF OnlyTheCharge, EventsAreTrue, RefundRowsAreReal, AnswersAreTrue
<1> QED
  BY <1>6, <1>7, <1>8, <1>9

\* Stripe makes a refund: it stands as Stripe answers, and so says the event, if there is one.
LEMMA MakingKeeps ==
  ASSUME PaymentsInv, NEW a \in Amounts, MakesRefund(a), UNCHANGED <<charge, refundRow, intent>>,
         payer' \in [PayWorkers -> PayRequest], AcceptedIsThere'
  PROVE  PaymentsInv'
<1>1. PICK s \in {"pending", "succeeded", "failed"} :
        /\ stripeRefund' = [stripeRefund EXCEPT ![a] = s]
        /\ refundAnswer' = [refundAnswer EXCEPT ![a] = s]
        /\ UNCHANGED events \/ Sends("refund", a, s)
  BY PaymentsAssumption DEF MakesRefund
<1>2. /\ intent' \in [IntentKeys -> IntentStatuses \union {None}]
      /\ stripeRefund \in [Amounts -> RefundStatuses \union {None}] /\ stripeRefund[a] = None
      /\ refundAnswer \in [Amounts -> RefundStatuses \union {None}]
  BY DEF PaymentsInv, PaymentsType, MakesRefund
<1>3. s \in RefundStatuses /\ s # None
  BY DEF RefundStatuses, None
<1>4. /\ stripeRefund' \in [Amounts -> RefundStatuses \union {None}] /\ stripeRefund'[a] = s
      /\ refundAnswer' \in [Amounts -> RefundStatuses \union {None}] /\ refundAnswer'[a] = s
      /\ \A b \in Amounts : b # a => stripeRefund'[b] = stripeRefund[b] /\ refundAnswer'[b] = refundAnswer[b]
  BY <1>1, <1>2, <1>3
<1>5. \A b \in Amounts : /\ stripeRefund[b] # None => stripeRefund'[b] # None
                         /\ stripeRefund[b] \in {"succeeded", "failed"} => stripeRefund'[b] = stripeRefund[b]
  BY <1>2, <1>4 DEF None
<1>6. AnswersAreTrue'
  BY <1>3, <1>4 DEF PaymentsInv, AnswersAreTrue
<1> DEFINE told == [id |-> Cardinality(events) + 1, type |-> "refund", object |-> a, status |-> s]
<1>7. told.type = "refund" /\ told.object = a /\ told.status = s
  OBVIOUS
<1>8. events' \subseteq events \union {told}
  BY <1>1 DEF Sends
<1> HIDE DEF told
<1>9. /\ told.type = "refund" => /\ told.object \in Amounts /\ told.status \in RefundStatuses
                                 /\ stripeRefund'[told.object] # None
                                 /\ told.status # "pending" => stripeRefund'[told.object] = told.status
      /\ told.type # "intent"
  BY <1>3, <1>4, <1>7
<1> QED
  BY <1>2, <1>4, <1>5, <1>6, <1>8, <1>9, StripeKeeps

\* Stripe accepts a refund and is heard, or not: it answers as the refund stands, or as before.
LEMMA AskRefundKeeps ==
  ASSUME PaymentsInv, NEW w \in PayWorkers, AskRefund(w)
  PROVE  PaymentsInv'
<1>1. PICK a : a = payer[w].amount
  OBVIOUS
<1>2. /\ payer[w] \in PayRequest /\ payer[w].op = "refund" /\ a \in Amounts
      /\ payer \in [PayWorkers -> PayRequest]
      /\ UNCHANGED <<charge, refundRow, intent>>
  BY <1>1 DEF AskRefund, PaymentsInv, PaymentsType, AcceptedIsThere, Accepted, dbRows
<1>3. ASSUME NEW r \in RefundReplies
      PROVE  /\ [payer[w] EXCEPT !.reply = r] \in PayRequest
             /\ [payer[w] EXCEPT !.reply = r].op = "refund"
             /\ [payer[w] EXCEPT !.reply = r].amount = a
             /\ [payer[w] EXCEPT !.reply = r].reply = r
  BY <1>1, <1>2 DEF PayRequest
<1>4. ASSUME UNCHANGED <<stripeRefund, refundAnswer, events>>,
             NEW r \in RefundReplies, r \in RefundStatuses => r = refundAnswer[a],
             payer' = [payer EXCEPT ![w].reply = r]
      PROVE  PaymentsInv'
  <2>1. PICK p : p = [payer[w] EXCEPT !.reply = r]
    OBVIOUS
  <2>2. p \in PayRequest /\ p.op = "refund" /\ p.amount = a /\ p.reply = r
    BY <1>3, <2>1
  <2>3. Accepted(p)
    BY <1>2, <1>4, <2>2 DEF Accepted
  <2>4. payer' = [payer EXCEPT ![w] = p]
    BY <1>4, <2>1
  <2> QED
    BY <1>2, <1>4, <2>2, <2>3, <2>4, RequestKeeps
<1>5. ASSUME MakesRefund(a),
             NEW r \in {refundAnswer'[a], "raised"}, payer' = [payer EXCEPT ![w].reply = r]
      PROVE  PaymentsInv'
  <2>1. PICK s \in {"pending", "succeeded", "failed"} : refundAnswer' = [refundAnswer EXCEPT ![a] = s]
    BY <1>5, PaymentsAssumption DEF MakesRefund
  <2>2. /\ refundAnswer \in [Amounts -> RefundStatuses \union {None}] /\ AnswersAreTrue /\ AcceptedIsThere
        /\ stripeRefund[a] = None
    BY <1>5 DEF PaymentsInv, PaymentsType, MakesRefund
  <2>3. refundAnswer'[a] = s /\ \A b \in Amounts : b # a => refundAnswer'[b] = refundAnswer[b]
    BY <1>2, <2>1, <2>2
  <2>4. r \in RefundReplies /\ (r \in RefundStatuses => r = refundAnswer'[a])
    BY <2>1, <2>3 DEF RefundReplies, RefundStatuses
  <2>5. PICK p : p = [payer[w] EXCEPT !.reply = r]
    OBVIOUS
  <2>6. p \in PayRequest /\ p.op = "refund" /\ p.amount = a /\ p.reply = r
    BY <1>3, <2>4, <2>5
  <2>7. payer'[w] = p /\ \A v \in PayWorkers : v # w => payer'[v] = payer[v]
    BY <1>2, <1>5, <2>5
  <2>8. payer' \in [PayWorkers -> PayRequest]
    BY <1>2, <1>5, <2>5, <2>6
  <2>9. AcceptedIsThere'
    <3> SUFFICES ASSUME NEW v \in PayWorkers PROVE Accepted(payer[v])'
      BY DEF AcceptedIsThere
    <3>1. CASE v = w
      BY <1>2, <2>4, <2>6, <2>7, <3>1 DEF Accepted
    <3>2. CASE v # w
      <4>1. Accepted(payer[v]) /\ payer'[v] = payer[v]
        BY <2>2, <2>7, <3>2 DEF AcceptedIsThere
      <4>2. refundAnswer[a] = None /\ None \notin RefundStatuses
        BY <1>2, <2>2 DEF AnswersAreTrue, None, RefundStatuses
      <4> QED
        BY <2>3, <4>1, <4>2 DEF Accepted
    <3> QED
      BY <3>1, <3>2
  <2> QED
    BY <1>2, <1>5, <2>8, <2>9, MakingKeeps
<1>6. ASSUME RepeatsAnswer(a),
             NEW r \in {refundAnswer'[a], "raised"}, payer' = [payer EXCEPT ![w].reply = r]
      PROVE  PaymentsInv'
  <2>1. UNCHANGED <<stripeRefund, refundAnswer, events>> /\ refundAnswer[a] \in RefundStatuses \union {None}
    BY <1>2, <1>6 DEF RepeatsAnswer, PaymentsInv, PaymentsType
  <2>2. r \in RefundReplies /\ (r \in RefundStatuses => r = refundAnswer[a])
    BY <1>6, <2>1 DEF RefundReplies, RefundStatuses
  <2> QED
    BY <1>4, <1>6, <2>1, <2>2
<1>7. ASSUME UNCHANGED <<stripeRefund, refundAnswer, events>>, payer' = [payer EXCEPT ![w].reply = "raised"]
      PROVE  PaymentsInv'
  <2>1. "raised" \in RefundReplies /\ "raised" \notin RefundStatuses
    BY DEF RefundReplies, RefundStatuses
  <2> QED
    BY <1>4, <1>7, <2>1
<1> QED
  BY <1>1, <1>5, <1>6, <1>7 DEF AskRefund

\* A refund is committed as Stripe answered: its row stands for a refund at Stripe.
LEMMA CommitRefundKeeps ==
  ASSUME PaymentsInv, NEW w \in PayWorkers, CommitRefund(w)
  PROVE  PaymentsInv'
<1> USE DEF PaymentsInv
<1>1. PICK a, s : a = payer[w].amount /\ s = payer[w].reply
  OBVIOUS
<1>2. /\ payer' = [payer EXCEPT ![w] = NotPaying] /\ payer[w].op = "refund" /\ s # None
      /\ UNCHANGED <<charge, intent, stripeRefund, refundAnswer, events>>
  BY <1>1 DEF CommitRefund, stripe
<1>3. /\ a \in Amounts /\ s \in RefundReplies /\ (s \in RefundStatuses => s = refundAnswer[a])
      /\ payer'[w] = NotPaying /\ \A v \in PayWorkers : v # w => payer'[v] = payer[v]
  BY <1>1, <1>2 DEF PaymentsType, AcceptedIsThere, Accepted
<1>4. \/ refundRow' = refundRow
      \/ /\ refundRow' = [refundRow EXCEPT ![a] = s] /\ s \in RefundStatuses
         /\ stripeRefund[a] # None /\ (s = "succeeded" => stripeRefund[a] = "succeeded")
  <2>1. CASE KeepsRefund(w)
    <3>1. s \in RefundStatuses
      BY <1>1, <1>2, <1>3, <2>1 DEF KeepsRefund, RefundReplies
    <3>2. refundRow' = [refundRow EXCEPT ![a] = s]
      BY <1>1, <2>1 DEF CommitRefund, StatusOfAnswer, KeepsRefund
    <3>3. refundAnswer[a] = s /\ s # None
      BY <1>2, <1>3, <3>1
    <3> QED
      BY <1>3, <3>1, <3>2, <3>3 DEF AnswersAreTrue
  <2>2. CASE ~ KeepsRefund(w)
    BY <2>2 DEF CommitRefund
  <2> QED
    BY <2>1, <2>2
<1>5. PaymentsType'
  BY <1>2, <1>3, <1>4, IdleIsRequest DEF PaymentsType
<1>6. AcceptedIsThere'
  <2>1. Accepted(NotPaying)
    BY IdleIsRequest, NothingTold
  <2> QED
    BY <1>2, <1>3, <2>1 DEF AcceptedIsThere, Accepted
<1>7. RefundRowsAreReal'
  BY <1>2, <1>3, <1>4 DEF RefundRowsAreReal, PaymentsType
<1>8. OnlyTheCharge' /\ EventsAreTrue' /\ CollectedIsReal' /\ AnswersAreTrue'
  BY <1>2 DEF OnlyTheCharge, EventsAreTrue, CollectedIsReal, AnswersAreTrue
<1> QED
  BY <1>5, <1>6, <1>7, <1>8

-----------------------------------------------------------------------------
(* The webhook *)

\* A delivery copies what was true when the event was sent and, for an end, still is.
LEMMA WebhookKeeps ==
  ASSUME PaymentsInv, NEW e \in events, Webhook(e)
  PROVE  PaymentsInv'
<1> USE DEF PaymentsInv
<1>1. /\ UNCHANGED <<intent, stripeRefund, refundAnswer, events, payer>>
      /\ charge' = ChargeAfter(e) /\ refundRow' = RefundsAfter(e)
  BY DEF Webhook, stripe
<1>2. charge \in ChargeRow
  BY DEF PaymentsType
<1>3. charge' \in ChargeRow /\ CollectedIsReal'
  <2>1. CASE e.type = "intent" /\ NamesCharge(e)
    <3> DEFINE row == [charge EXCEPT !.status = e.status]
    <3>1. /\ e.object \in IntentKeys /\ e.status \in IntentStatuses
          /\ e.status = "succeeded" => intent[e.object] = "succeeded"
      BY <2>1 DEF EventsAreTrue
    <3>2. charge' = row
      BY <1>1, <2>1 DEF ChargeAfter
    <3>3. row \in ChargeRow /\ row.status = e.status /\ row.ext = e.object
      BY <1>2, <2>1, <3>1 DEF ChargeRow, ChargeStatuses, NamesCharge
    <3>4. e.status = "succeeded" => e.object # None
      <4>1. \A k \in IntentKeys : intent[k] # None => k = ChargeKey
        BY DEF OnlyTheCharge
      <4> QED
        BY <3>1, <4>1 DEF None, ChargeKey
    <3> HIDE DEF row
    <3> QED
      BY <1>1, <3>1, <3>2, <3>3, <3>4 DEF CollectedIsReal
  <2>2. CASE ~ (e.type = "intent" /\ NamesCharge(e))
    <3>1. charge' = charge
      BY <1>1, <2>2 DEF ChargeAfter
    <3> QED
      BY <1>1, <1>2, <3>1 DEF CollectedIsReal
  <2> QED
    BY <2>1, <2>2
<1>4. refundRow' \in [Amounts -> RefundStatuses \union {None}] /\ RefundRowsAreReal'
  <2>1. CASE e.type = "refund" /\ refundRow[e.object] # None
    <3>1. /\ e.object \in Amounts /\ e.status \in RefundStatuses /\ stripeRefund[e.object] # None
          /\ e.status = "succeeded" => stripeRefund[e.object] = "succeeded"
      BY <2>1 DEF EventsAreTrue
    <3>2. refundRow' = [refundRow EXCEPT ![e.object] = e.status]
      BY <1>1, <2>1 DEF RefundsAfter
    <3>3. refundRow' \in [Amounts -> RefundStatuses \union {None}]
      BY <3>1, <3>2 DEF PaymentsType, RefundStatuses
    <3>4. \A b \in Amounts : refundRow'[b] = IF b = e.object THEN e.status ELSE refundRow[b]
      BY <3>2 DEF PaymentsType
    <3> QED
      BY <1>1, <3>1, <3>3, <3>4 DEF RefundRowsAreReal, None
  <2>2. CASE ~ (e.type = "refund" /\ refundRow[e.object] # None)
    <3>1. refundRow' = refundRow
      BY <1>1, <2>2 DEF RefundsAfter
    <3> QED
      BY <1>1, <3>1 DEF RefundRowsAreReal, PaymentsType
  <2> QED
    BY <2>1, <2>2
<1>5. PaymentsType'
  BY <1>1, <1>3, <1>4 DEF PaymentsType
<1>6. OnlyTheCharge' /\ EventsAreTrue' /\ AcceptedIsThere' /\ AnswersAreTrue'
  BY <1>1 DEF OnlyTheCharge, EventsAreTrue, AcceptedIsThere, Accepted, AnswersAreTrue
<1> QED
  BY <1>3, <1>4, <1>5, <1>6

-----------------------------------------------------------------------------
(* The theorems *)

\* The invariant holds before anything is paid.
LEMMA PaymentsInvInit == PaymentsInit => PaymentsInv
<1> SUFFICES ASSUME PaymentsInit PROVE PaymentsInv
  OBVIOUS
<1>1. NoCharge \in ChargeRow /\ NoCharge.status # "succeeded"
  BY DEF NoCharge, ChargeRow, None
<1>2. PaymentsType
  BY <1>1, IdleIsRequest DEF PaymentsInit, PaymentsType
<1>3. AcceptedIsThere
  BY IdleIsRequest, NothingTold DEF PaymentsInit, AcceptedIsThere
<1>4. OnlyTheCharge /\ EventsAreTrue /\ AnswersAreTrue /\ CollectedIsReal /\ RefundRowsAreReal
  BY <1>1 DEF PaymentsInit, OnlyTheCharge, EventsAreTrue, AnswersAreTrue, CollectedIsReal, RefundRowsAreReal, None
<1> QED
  BY <1>2, <1>3, <1>4 DEF PaymentsInv

\* What requests, Stripe and the webhook keep in every order of their steps: the types, the
\* truth of the events and of the answers in flight, and the rows' agreement with Stripe.
THEOREM PaymentsInvariant == PaymentsSpec => []PaymentsInv
<1>1. PaymentsInv /\ [PaymentsNext]_paymentsVars => PaymentsInv'
  <2> SUFFICES ASSUME PaymentsInv, [PaymentsNext]_paymentsVars PROVE PaymentsInv'
    OBVIOUS
  <2>1. CASE ConnectStart \/ ConnectRefresh \/ UNCHANGED paymentsVars
    <3>1. UNCHANGED <<charge, refundRow, intent, stripeRefund, refundAnswer, events, payer>>
      BY <2>1 DEF ConnectStart, ConnectRefresh, paymentsVars, dbRows, stripe
    <3> QED
      BY <3>1 DEF PaymentsInv, PaymentsType, OnlyTheCharge, EventsAreTrue, AnswersAreTrue, AcceptedIsThere,
                  Accepted, CollectedIsReal, RefundRowsAreReal
  <2>2. ASSUME NEW w \in PayWorkers,
               \/ \E op \in {"complete", "intent"} : BeginPay(w, op)
               \/ SkipStripe(w) \/ CreateIntent(w) \/ CommitPay(w) \/ DropRequest(w)
               \/ \E a \in Amounts : BeginRefund(w, a)
               \/ AskRefund(w) \/ CommitRefund(w)
        PROVE  PaymentsInv'
    BY <2>2, BeginPayKeeps, SkipKeeps, CreateIntentKeeps, CommitPayKeeps, DropKeeps, AskRefundKeeps,
       CommitRefundKeeps
  <2>3. ASSUME NEW k \in IntentKeys,
               IntentMoves(k) \/ DisputeMoves(k) \/ TransferMoves(k) \/ PayoutMoves(k)
        PROVE  PaymentsInv'
    BY <2>3, IntentMovesKeeps, OtherMovesKeep
  <2>4. ASSUME NEW a \in Amounts, RefundSettles(a) PROVE PaymentsInv'
    BY <2>4, RefundSettlesKeeps
  <2>5. ASSUME NEW e \in events, Webhook(e) PROVE PaymentsInv'
    BY <2>5, WebhookKeeps
  <2> QED
    BY <2>1, <2>2, <2>3, <2>4, <2>5 DEF PaymentsNext
<1> QED
  BY PaymentsInvInit, <1>1, PTL DEF PaymentsSpec

\* The idempotency key of the ride gives it one payment intent, whatever requests race, are
\* retried or lose Stripe's answer.
THEOREM ChargedOnce == PaymentsSpec => []OneIntent
<1>1. PaymentsInv => OneIntent
  <2> SUFFICES ASSUME PaymentsInv PROVE OneIntent
    OBVIOUS
  <2> DEFINE made == {k \in IntentKeys : intent[k] # None}
  <2>1. made = {} \/ made = {ChargeKey}
    BY DEF PaymentsInv, OnlyTheCharge
  <2>2. Cardinality({}) = 0 /\ Cardinality({ChargeKey}) = 1
    BY FS_EmptySet, FS_Singleton
  <2>3. Cardinality(made) <= 1
    <3> HIDE DEF made
    <3> QED
      BY <2>1, <2>2
  <2> QED
    BY <2>3 DEF OneIntent
<1> QED
  BY PaymentsInvariant, <1>1, PTL

\* The charge row says succeeded only of an intent that Stripe collected, in whatever order
\* the events are delivered and the requests commit.
THEOREM CollectionIsReal == PaymentsSpec => []CollectedIsReal
<1>1. PaymentsInv => CollectedIsReal
  BY DEF PaymentsInv
<1> QED
  BY PaymentsInvariant, <1>1, PTL

\* A refund row stands for a refund at Stripe, and says succeeded only of one that did.
THEOREM RefundRowsReal == PaymentsSpec => []RefundRowsAreReal
<1>1. PaymentsInv => RefundRowsAreReal
  BY DEF PaymentsInv
<1> QED
  BY PaymentsInvariant, <1>1, PTL

-----------------------------------------------------------------------------
(***************************************************************************)
(* Refunds are covered, and quiet rows agree with Stripe: the second half  *)
(* of the invariant of payments.                                           *)
(*                                                                         *)
(* Stripe keeps its refunds within the charge, with those that may yet     *)
(* succeed, and a row claims only what Stripe did. Rows agree with Stripe  *)
(* by way of the events: Stripe's newest event on an object says how it    *)
(* stands, a row says what the newest event heard says, and when all were  *)
(* heard these are one event. The sums of refunds are those of             *)
(* CountingLemmas.                                                         *)
(***************************************************************************)

(* How far the rows are from Stripe: what it sent, and what was heard of it *)

\* Events are numbered in the order Stripe sent them, and only events it sent are recorded.
EventIds ==
  /\ IsFiniteSet(events) /\ recorded \subseteq 1..Cardinality(events)
  /\ \A e \in events : e.id \in 1..Cardinality(events)
  /\ \A e, f \in events : e.id = f.id => e = f

IntentNews == {e \in events : e.type = "intent"}
RefundNews == {e \in events : e.type = "refund"}
NewsOf(a) == {e \in RefundNews : e.object = a}
Newest(e, news) == e \in news /\ \A f \in news : f.id <= e.id

\* Stripe's news are complete: the newest says how the intent or the refund stands, and where
\* there are none it stands as answered.  Stripe refunds only what it collected.
StripeTells ==
  /\ \A e \in IntentNews : e.object = ChargeKey /\ intent[ChargeKey] # None
  /\ \A e \in IntentNews : Newest(e, IntentNews) => intent[ChargeKey] = e.status
  /\ IntentNews = {} => intent[ChargeKey] \in {None, "requires_payment_method"}
  /\ \A a \in Amounts : /\ \A e \in NewsOf(a) : Newest(e, NewsOf(a)) => stripeRefund[a] = e.status
                        /\ NewsOf(a) = {} => stripeRefund[a] = refundAnswer[a]
                        /\ stripeRefund[a] # None => intent[ChargeKey] = "succeeded"

\* What a request read and was answered.
Knows(p) ==
  /\ p.op = "complete" => p.saw = None
  /\ p.op = "refund" => p.saw = ChargeKey
  /\ p.reply \in {"requires_driver_connect", "requires_payment_method"} => p.saw = None
  /\ p.reply = "requires_payment_method" => intent[ChargeKey] # None
RequestsKnow == \A w \in PayWorkers : Knows(payer[w])

\* A linked charge has its intent, and a refund that failed did so at Stripe.
RowsKnow ==
  /\ charge.ext # None => intent[ChargeKey] # None
  /\ \A a \in Amounts : refundRow[a] = "failed" => stripeRefund[a] = "failed"

\* Stripe's refunds, with those that may yet succeed, are covered by the charge.
Budget == RowsSum(stripeRefund, {"pending", "succeeded"}) <= Total

HeardIntents == {e \in IntentNews : e.id \in recorded}
HeardOf(a) == {e \in NewsOf(a) : e.id \in recorded}

\* The rows say what was heard last, or was answered when nothing was heard, and nothing was
\* heard before there was a row for it.
InStep ==
  /\ HeardIntents # {} => charge.ext # None
  /\ charge.ext # None /\ HeardIntents = {} => charge.status = "requires_payment_method"
  /\ \A e \in HeardIntents : Newest(e, HeardIntents) => charge.status = e.status
  /\ \A a \in Amounts : /\ \A e \in HeardOf(a) : Newest(e, HeardOf(a)) => refundRow[a] = e.status
                        /\ HeardOf(a) # {} => refundRow[a] # None
                        /\ refundRow[a] # None /\ HeardOf(a) = {} => refundRow[a] = refundAnswer[a]
                        /\ refundRow[a] # None => charge.ext # None
  /\ \A w \in PayWorkers : payer[w].op = "refund" => charge.ext # None

QuietInv ==
  /\ PaymentsInv /\ EventIds /\ StripeTells /\ RequestsKnow /\ RowsKnow /\ Budget
  /\ slips = {} => InStep

-----------------------------------------------------------------------------
(* Sums of refunds *)

\* The sum of the refunds in some states: more of them sum to no less, and one more adds its
\* amount.
LEMMA RefundSums ==
  /\ \A T \in SUBSET Amounts : SumFunctionOnSet([a \in Amounts |-> a], T) \in Nat
  /\ \A T \in SUBSET Amounts : \A S \in SUBSET T :
       SumFunctionOnSet([a \in Amounts |-> a], S) <= SumFunctionOnSet([a \in Amounts |-> a], T)
  /\ \A T \in SUBSET Amounts : \A a \in T :
       SumFunctionOnSet([x \in Amounts |-> x], T) = a + SumFunctionOnSet([x \in Amounts |-> x], T \ {a})
  /\ SumFunctionOnSet([a \in Amounts |-> a], {}) = 0
<1>1. Total \in Nat BY PaymentsAssumption
<1>2. IsFiniteSet(Amounts) BY <1>1, FS_Interval DEF Amounts
<1>3. PICK f : f = [a \in Amounts |-> a] OBVIOUS
<1>4. f \in [Amounts -> Nat] /\ \A a \in Amounts : f[a] = a BY <1>1, <1>3 DEF Amounts
<1>5. /\ SumFunctionOnSet(f, {}) = 0
      /\ \A T \in SUBSET Amounts :
           /\ SumFunctionOnSet(f, T) \in Nat
           /\ \A x \in T : SumFunctionOnSet(f, T) = f[x] + SumFunctionOnSet(f, T \ {x})
           /\ \A S \in SUBSET T : SumFunctionOnSet(f, S) <= SumFunctionOnSet(f, T)
BY <1>2, <1>4, SumOver
<1>6. \A T \in SUBSET Amounts : \A x \in T : SumFunctionOnSet(f, T) = x + SumFunctionOnSet(f, T \ {x})
  <2> SUFFICES ASSUME NEW T \in SUBSET Amounts, NEW x \in T
               PROVE  SumFunctionOnSet(f, T) = x + SumFunctionOnSet(f, T \ {x})
  OBVIOUS
  <2>1. SumFunctionOnSet(f, T) = f[x] + SumFunctionOnSet(f, T \ {x}) BY <1>5
  <2>2. f[x] = x BY <1>4
  <2> QED BY <2>1, <2>2
<1> QED BY <1>3, <1>5, <1>6

\* Rows that claim less than others sum to no more.
LEMMA LessRefunded ==
  ASSUME NEW rows, NEW others, NEW some, NEW more,
         \A a \in Amounts : rows[a] \in some => others[a] \in more
  PROVE  /\ RowsSum(rows, some) \in Nat /\ RowsSum(others, more) \in Nat
         /\ RowsSum(rows, some) <= RowsSum(others, more)
<1>1. PICK S, T : S = {a \in Amounts : rows[a] \in some} /\ T = {a \in Amounts : others[a] \in more} OBVIOUS
<1>2. T \in SUBSET Amounts /\ S \in SUBSET T /\ S \in SUBSET Amounts BY <1>1
<1>3. /\ RowsSum(rows, some) = SumFunctionOnSet([a \in Amounts |-> a], S)
      /\ RowsSum(others, more) = SumFunctionOnSet([a \in Amounts |-> a], T)
BY <1>1 DEF RowsSum
<1> QED BY <1>2, <1>3, RefundSums

\* One refund more.
LEMMA OneMoreRefund ==
  ASSUME NEW rows, NEW others, NEW some, NEW a \in Amounts, rows[a] \notin some, others[a] \in some,
         \A b \in Amounts : b # a => others[b] = rows[b]
  PROVE  RowsSum(others, some) = RowsSum(rows, some) + a
<1>1. PICK S, T : S = {b \in Amounts : rows[b] \in some} /\ T = {b \in Amounts : others[b] \in some} OBVIOUS
<1>2. T \in SUBSET Amounts /\ a \in T /\ S = T \ {a} /\ S \in SUBSET Amounts BY <1>1
<1>3. /\ RowsSum(rows, some) = SumFunctionOnSet([x \in Amounts |-> x], S)
      /\ RowsSum(others, some) = SumFunctionOnSet([x \in Amounts |-> x], T)
BY <1>1 DEF RowsSum
<1>4. SumFunctionOnSet([x \in Amounts |-> x], T) = a + SumFunctionOnSet([x \in Amounts |-> x], S)
BY <1>2, RefundSums
<1>5. SumFunctionOnSet([x \in Amounts |-> x], S) \in Nat /\ a \in Nat
  <2>1. a \in Nat BY PaymentsAssumption DEF Amounts
  <2> QED BY <1>2, <2>1, RefundSums
<1> QED BY <1>3, <1>4, <1>5

-----------------------------------------------------------------------------
(* Requests that read and are answered *)

\* A request takes up, goes on or ends, and nothing else changes.
LEMMA RequestStaysInStep ==
  ASSUME QuietInv, PaymentsInv', UNCHANGED <<charge, refundRow, intent, stripeRefund, refundAnswer, events, recorded, slips>>,
         NEW w \in PayWorkers, NEW p, payer' = [payer EXCEPT ![w] = p],
         Knows(p), slips = {} /\ p.op = "refund" => charge.ext # None
  PROVE  QuietInv'
<1>1. payer'[w] = p /\ \A v \in PayWorkers : v # w => payer'[v] = payer[v]
BY DEF QuietInv, PaymentsInv, PaymentsType
<1>2. EventIds' /\ StripeTells' /\ RowsKnow' /\ Budget'
BY DEF QuietInv, EventIds, StripeTells, RowsKnow, Budget, IntentNews, RefundNews, NewsOf, Newest
<1>3. RequestsKnow'
  <2> SUFFICES ASSUME NEW v \in PayWorkers PROVE Knows(payer[v])' BY DEF RequestsKnow
  <2>1. CASE v = w BY <1>1, <2>1 DEF Knows
  <2>2. CASE v # w BY <1>1, <2>2 DEF QuietInv, RequestsKnow, Knows
  <2> QED BY <2>1, <2>2
<1>4. ASSUME slips' = {} PROVE InStep'
  <2>1. InStep BY <1>4 DEF QuietInv
  <2>2. \A v \in PayWorkers : payer'[v].op = "refund" => charge.ext # None
  BY <1>1, <1>4, <2>1 DEF InStep
  <2> QED BY <2>1, <2>2 DEF InStep, HeardIntents, HeardOf, IntentNews, NewsOf, RefundNews, Newest
<1> QED BY <1>2, <1>3, <1>4 DEF QuietInv

\* A request reads the rows, needs no call to Stripe, or ends with nothing done.
LEMMA OtherRequestSteps ==
  ASSUME QuietInv, PaymentsInv', NEW w \in PayWorkers,
         \/ \E op \in {"complete", "intent"} : BeginPay(w, op)
         \/ \E a \in Amounts : BeginRefund(w, a)
         \/ SkipStripe(w) \/ DropRequest(w)
  PROVE  QuietInv'
<1>1. /\ charge.ext \in {None, ChargeKey} /\ payer[w] \in PayRequest /\ Knows(payer[w])
      /\ charge = NoCharge => charge.ext = None
BY DEF QuietInv, PaymentsInv, PaymentsType, ChargeRow, RequestsKnow, NoCharge
<1>2. ASSUME NEW op \in {"complete", "intent"}, BeginPay(w, op) PROVE QuietInv'
  <2>1. PICK p : p = [op |-> op, amount |-> 0, saw |-> charge.ext, reply |-> None] OBVIOUS
  <2>2. /\ payer' = [payer EXCEPT ![w] = p] /\ (op = "complete" => charge = NoCharge)
        /\ UNCHANGED <<charge, refundRow, intent, stripeRefund, refundAnswer, events, recorded, slips>>
  BY <1>2, <2>1 DEF BeginPay, dbRows, stripe
  <2>3. p.op = op /\ p.saw = charge.ext /\ p.reply = None BY <2>1
  <2>4. Knows(p) /\ p.op # "refund" BY <1>1, <2>2, <2>3 DEF Knows, None
  <2> QED BY <2>2, <2>4, RequestStaysInStep
<1>3. ASSUME NEW a \in Amounts, BeginRefund(w, a) PROVE QuietInv'
  <2>1. PICK p : p = [op |-> "refund", amount |-> a, saw |-> charge.ext, reply |-> None] OBVIOUS
  <2>2. /\ payer' = [payer EXCEPT ![w] = p] /\ charge.ext # None
        /\ UNCHANGED <<charge, refundRow, intent, stripeRefund, refundAnswer, events, recorded, slips>>
  BY <1>3, <2>1 DEF BeginRefund, dbRows, stripe
  <2>3. p.op = "refund" /\ p.saw = charge.ext /\ p.reply = None BY <2>1
  <2>4. Knows(p) BY <1>1, <2>2, <2>3 DEF Knows, None
  <2> QED BY <2>2, <2>4, RequestStaysInStep
<1>4. CASE SkipStripe(w)
  <2>1. PICK r \in {"kept", "requires_driver_connect"} :
          payer' = [payer EXCEPT ![w].reply = r] /\ (r = "requires_driver_connect" => payer[w].saw = None)
  BY <1>4 DEF SkipStripe
  <2>2. PICK p : p = [payer[w] EXCEPT !.reply = r] OBVIOUS
  <2>3. /\ payer' = [payer EXCEPT ![w] = p] /\ payer[w].op # "refund"
        /\ UNCHANGED <<charge, refundRow, intent, stripeRefund, refundAnswer, events, recorded, slips>>
  BY <1>4, <2>1, <2>2 DEF SkipStripe, Paying, dbRows, stripe
  <2>4. p.op = payer[w].op /\ p.saw = payer[w].saw /\ p.reply = r BY <1>1, <2>2 DEF PayRequest
  <2>5. Knows(p) BY <1>1, <2>1, <2>4 DEF Knows
  <2> QED BY <2>3, <2>4, <2>5, RequestStaysInStep
<1>5. CASE DropRequest(w)
  <2>1. /\ payer' = [payer EXCEPT ![w] = NotPaying]
        /\ UNCHANGED <<charge, refundRow, intent, stripeRefund, refundAnswer, events, recorded, slips>>
  BY <1>5 DEF DropRequest, dbRows, stripe
  <2>2. NotPaying.op = "idle" /\ NotPaying.reply = None BY DEF NotPaying
  <2>3. Knows(NotPaying) BY <2>2 DEF Knows, None
  <2> QED BY <2>1, <2>2, <2>3, RequestStaysInStep
<1> QED BY <1>2, <1>3, <1>4, <1>5

\* The intent is there once a request may be told so; a repeated key changes nothing.
LEMMA CreationStaysInStep ==
  ASSUME QuietInv, PaymentsInv', NEW w \in PayWorkers, CreateIntent(w)
  PROVE  QuietInv'
<1>1. PICK r \in {"requires_payment_method", "failed"} : payer' = [payer EXCEPT ![w].reply = r]
BY DEF CreateIntent, Response
<1>2. PICK p : p = [payer[w] EXCEPT !.reply = r] OBVIOUS
<1>3. /\ payer[w] \in PayRequest /\ Knows(payer[w]) /\ payer[w].saw = None /\ payer[w].op # "refund"
      /\ intent \in [IntentKeys -> IntentStatuses \union {None}] /\ ChargeKey \in IntentKeys
BY DEF QuietInv, PaymentsInv, PaymentsType, CreateIntent, Paying, RequestsKnow, IntentKeys
<1>4. /\ p.op = payer[w].op /\ p.saw = None /\ p.reply = r
      /\ payer'[w] = p /\ \A v \in PayWorkers : v # w => payer'[v] = payer[v]
  <2>1. payer \in [PayWorkers -> PayRequest] BY DEF QuietInv, PaymentsInv, PaymentsType
  <2> QED BY <1>1, <1>2, <1>3, <2>1 DEF PayRequest
<1>5. /\ intent'[ChargeKey] = IF intent[ChargeKey] = None THEN "requires_payment_method" ELSE intent[ChargeKey]
      /\ intent'[ChargeKey] # None
      /\ UNCHANGED <<charge, refundRow, stripeRefund, refundAnswer, events, recorded, slips>>
BY <1>3 DEF CreateIntent, IntentKey, dbRows, None
<1>6. EventIds' /\ RowsKnow' /\ Budget' BY <1>5 DEF QuietInv, EventIds, RowsKnow, Budget
<1>7. StripeTells'
  <2>1. IntentNews' = IntentNews /\ \A a \in Amounts : NewsOf(a)' = NewsOf(a)
  BY <1>5 DEF IntentNews, RefundNews, NewsOf
  <2>2. StripeTells BY DEF QuietInv
  <2>3. IntentNews # {} => intent'[ChargeKey] = intent[ChargeKey] BY <1>5, <2>2 DEF StripeTells
  <2>4. intent[ChargeKey] = "succeeded" => intent'[ChargeKey] = "succeeded" BY <1>5 DEF None
  <2>5. IntentNews = {} => intent'[ChargeKey] \in {None, "requires_payment_method"}
  BY <1>5, <2>2 DEF StripeTells
  <2> QED BY <1>5, <2>1, <2>2, <2>3, <2>4, <2>5 DEF StripeTells, Newest
<1>8. RequestsKnow'
  <2> SUFFICES ASSUME NEW v \in PayWorkers PROVE Knows(payer[v])' BY DEF RequestsKnow
  <2>1. CASE v = w BY <1>3, <1>4, <1>5, <2>1 DEF Knows
  <2>2. CASE v # w BY <1>4, <1>5, <2>2 DEF QuietInv, RequestsKnow, Knows
  <2> QED BY <2>1, <2>2
<1>9. ASSUME slips' = {} PROVE InStep'
  <2>1. InStep BY <1>5, <1>9 DEF QuietInv
  <2>2. \A v \in PayWorkers : payer'[v].op = payer[v].op BY <1>4
  <2> QED BY <1>5, <2>1, <2>2 DEF InStep, HeardIntents, HeardOf, IntentNews, NewsOf, RefundNews, Newest
<1> QED BY <1>6, <1>7, <1>8, <1>9 DEF QuietInv

-----------------------------------------------------------------------------
(* Stripe's objects change *)

\* A new event is the newest, and nobody has heard of it.
LEMMA NewEvent ==
  ASSUME EventIds, NEW e, e.id = Cardinality(events) + 1, events' = events \union {e}, recorded' = recorded
  PROVE  /\ EventIds' /\ e \notin events /\ e.id \notin recorded
         /\ \A f \in events : f.id < e.id /\ f.id \in Nat
         /\ e.id \in Nat
<1>1. PICK n : n = Cardinality(events) OBVIOUS
<1>2. /\ IsFiniteSet(events) /\ n \in Nat /\ \A f \in events : f.id \in 1..n
      /\ recorded \subseteq 1..n /\ \A f, g \in events : f.id = g.id => f = g
BY <1>1, FS_CardinalityType DEF EventIds
<1>3. n + 1 \notin 1..n BY <1>2
<1>4. e \notin events /\ e.id \notin recorded BY <1>1, <1>2, <1>3
<1>5. IsFiniteSet(events') /\ Cardinality(events') = n + 1 BY <1>1, <1>2, <1>4, FS_AddElement
<1>6. \A f \in events' : f.id \in 1..(n + 1) BY <1>1, <1>2
<1>7. \A f, g \in events' : f.id = g.id => f = g BY <1>1, <1>2, <1>3
<1>8. recorded' \subseteq 1..(n + 1) BY <1>2
<1>9. EventIds' BY <1>5, <1>6, <1>7, <1>8 DEF EventIds
<1> QED BY <1>1, <1>2, <1>4, <1>9

\* What is newest of more news: the one that came last.
LEMMA NewestOfMore ==
  ASSUME NEW e, NEW news, NEW more, more = news \union {e}, e.id \in Nat,
         \A f \in news : f.id < e.id /\ f.id \in Nat
  PROVE  \A f \in more : Newest(f, more) => f = e
<1> SUFFICES ASSUME NEW f \in more, \A g \in more : g.id <= f.id PROVE f = e BY DEF Newest
<1>1. e.id <= f.id OBVIOUS
<1>2. f \in news => f.id < e.id /\ f.id \in Nat OBVIOUS
<1> QED BY <1>1, <1>2

\* Stripe sends an event, or none: the rows stay as they are, and as far as they had heard.
LEMMA SendingStaysInStep ==
  ASSUME QuietInv, PaymentsInv', UNCHANGED <<charge, refundRow, recorded, slips>>,
         \A w \in PayWorkers : payer'[w].op = payer[w].op, RequestsKnow',
         NEW e, e.id = Cardinality(events) + 1, events' = events \union {e} \/ events' = events,
         StripeTells', Budget', intent[ChargeKey] # None => intent'[ChargeKey] # None,
         \A a \in Amounts : /\ stripeRefund[a] = "failed" => stripeRefund'[a] = "failed"
                            /\ refundAnswer[a] # None => refundAnswer'[a] = refundAnswer[a]
  PROVE  QuietInv'
<1>1. EventIds' /\ (events' = events \/ e.id \notin recorded)
  <2>1. CASE events' = events BY <2>1 DEF QuietInv, EventIds
  <2>2. CASE events' = events \union {e} BY <2>2, NewEvent DEF QuietInv
  <2> QED BY <2>1, <2>2
<1>2. RowsKnow' BY DEF QuietInv, RowsKnow
<1>3. HeardIntents' = HeardIntents /\ \A a \in Amounts : HeardOf(a)' = HeardOf(a)
BY <1>1 DEF HeardIntents, HeardOf, IntentNews, NewsOf, RefundNews
<1>4. \A a \in Amounts : refundRow[a] # None => refundAnswer'[a] = refundAnswer[a]
BY DEF QuietInv, PaymentsInv, RefundRowsAreReal, AnswersAreTrue
<1>5. slips' = {} => InStep' BY <1>3, <1>4 DEF QuietInv, InStep, Newest
<1> QED BY <1>1, <1>2, <1>5 DEF QuietInv

\* Stripe makes a refund only of money it collected, and within the charge.
LEMMA MakingStaysInStep ==
  ASSUME QuietInv, PaymentsInv', NEW a \in Amounts, MakesRefund(a),
         UNCHANGED <<charge, refundRow, intent, recorded, slips>>,
         \A w \in PayWorkers : payer'[w].op = payer[w].op, RequestsKnow',
         intent[ChargeKey] = "succeeded", RowsSum(stripeRefund, {"pending", "succeeded"}) + a <= Total
  PROVE  QuietInv'
<1>1. PICK s \in {"pending", "succeeded", "failed"} :
        /\ stripeRefund' = [stripeRefund EXCEPT ![a] = s]
        /\ refundAnswer' = [refundAnswer EXCEPT ![a] = s]
        /\ UNCHANGED events \/ Sends("refund", a, s)
BY PaymentsAssumption DEF MakesRefund
<1>2. PICK e : e = [id |-> Cardinality(events) + 1, type |-> "refund", object |-> a, status |-> s] OBVIOUS
<1>3. /\ e.id = Cardinality(events) + 1 /\ e.type = "refund" /\ e.object = a /\ e.status = s
      /\ events' = events \union {e} \/ events' = events
BY <1>1, <1>2 DEF Sends
<1>4. /\ stripeRefund \in [Amounts -> RefundStatuses \union {None}] /\ stripeRefund[a] = None
      /\ refundAnswer \in [Amounts -> RefundStatuses \union {None}] /\ refundAnswer[a] = None
BY DEF QuietInv, PaymentsInv, PaymentsType, MakesRefund, AnswersAreTrue
<1>5. /\ stripeRefund'[a] = s /\ refundAnswer'[a] = s
      /\ \A b \in Amounts : b # a => stripeRefund'[b] = stripeRefund[b] /\ refundAnswer'[b] = refundAnswer[b]
BY <1>1, <1>4
<1>6. NewsOf(a) = {}
BY <1>4 DEF QuietInv, PaymentsInv, EventsAreTrue, NewsOf, RefundNews
<1>7. StripeTells'
  <2>1. IntentNews' = IntentNews /\ \A b \in Amounts : b # a => NewsOf(b)' = NewsOf(b)
  BY <1>3 DEF IntentNews, NewsOf, RefundNews
  <2>2. NewsOf(a)' = {} \/ NewsOf(a)' = {e} BY <1>3, <1>6 DEF NewsOf, RefundNews
  <2>3. \A b \in Amounts : /\ \A f \in NewsOf(b)' : Newest(f, NewsOf(b))' => stripeRefund'[b] = f.status
                           /\ NewsOf(b)' = {} => stripeRefund'[b] = refundAnswer'[b]
    <3> SUFFICES ASSUME NEW b \in Amounts
                 PROVE  /\ \A f \in NewsOf(b)' : Newest(f, NewsOf(b))' => stripeRefund'[b] = f.status
                        /\ NewsOf(b)' = {} => stripeRefund'[b] = refundAnswer'[b]
    OBVIOUS
    <3>1. CASE b = a BY <1>3, <1>5, <2>2, <3>1
    <3>2. CASE b # a BY <1>5, <2>1, <3>2 DEF QuietInv, StripeTells, Newest
    <3> QED BY <3>1, <3>2
  <2> QED BY <2>1, <2>3 DEF QuietInv, StripeTells, Newest
<1>8. Budget'
  <2>1. PICK rows, others : rows = stripeRefund /\ others = stripeRefund' OBVIOUS
  <2>2. \A b \in Amounts : b # a => others[b] = rows[b] BY <1>5, <2>1
  <2>3. rows[a] \notin {"pending", "succeeded"} BY <1>4, <2>1 DEF None
  <2>4. CASE s \in {"pending", "succeeded"}
    <3>1. others[a] \in {"pending", "succeeded"} BY <1>5, <2>1, <2>4
    <3>2. RowsSum(others, {"pending", "succeeded"}) = RowsSum(rows, {"pending", "succeeded"}) + a
    BY ONLY <2>2, <2>3, <3>1, a \in Amounts, OneMoreRefund
    <3> QED BY <2>1, <3>2 DEF Budget, RowsSum
  <2>5. CASE s = "failed"
    <3>1. \A b \in Amounts : others[b] \in {"pending", "succeeded"} => rows[b] \in {"pending", "succeeded"}
    BY <1>5, <2>1, <2>2, <2>5
    <3>2. /\ RowsSum(others, {"pending", "succeeded"}) \in Nat /\ RowsSum(rows, {"pending", "succeeded"}) \in Nat
          /\ RowsSum(others, {"pending", "succeeded"}) <= RowsSum(rows, {"pending", "succeeded"})
    BY ONLY <3>1, LessRefunded
    <3>3. Total \in Nat BY PaymentsAssumption
    <3>4. RowsSum(others, {"pending", "succeeded"}) <= Total BY <2>1, <3>2, <3>3 DEF QuietInv, Budget
    <3> QED BY <2>1, <3>4 DEF Budget, RowsSum
  <2> QED BY <2>4, <2>5
<1>9. \A b \in Amounts : /\ stripeRefund[b] = "failed" => stripeRefund'[b] = "failed"
                         /\ refundAnswer[b] # None => refundAnswer'[b] = refundAnswer[b]
BY <1>4, <1>5 DEF None
<1> QED BY <1>3, <1>7, <1>8, <1>9, SendingStaysInStep

\* Stripe is asked for a refund, and makes it, repeats its answer, or refuses.
LEMMA AskingStaysInStep ==
  ASSUME QuietInv, PaymentsInv', NEW w \in PayWorkers, AskRefund(w)
  PROVE  QuietInv'
<1>1. PICK a : a = payer[w].amount OBVIOUS
<1>2. /\ payer[w] \in PayRequest /\ Knows(payer[w]) /\ payer[w].op = "refund" /\ a \in Amounts
      /\ payer[w].saw = ChargeKey /\ payer \in [PayWorkers -> PayRequest]
      /\ UNCHANGED <<charge, refundRow, intent, recorded, slips>>
BY <1>1 DEF QuietInv, PaymentsInv, PaymentsType, AcceptedIsThere, Accepted, AskRefund, RequestsKnow, Knows, dbRows
<1>3. PICK r : payer' = [payer EXCEPT ![w].reply = r] BY DEF AskRefund
<1>4. PICK p : p = [payer[w] EXCEPT !.reply = r] OBVIOUS
<1>5. /\ p.op = "refund" /\ p.saw = ChargeKey /\ p.amount = a
      /\ payer' = [payer EXCEPT ![w] = p]
      /\ payer'[w] = p /\ \A v \in PayWorkers : v # w => payer'[v] = payer[v]
BY <1>1, <1>2, <1>3, <1>4 DEF PayRequest
<1>6. Knows(p)
  <2>1. p.reply \in RefundReplies BY <1>5 DEF PaymentsInv, AcceptedIsThere, Accepted
  <2> QED BY <1>5, <2>1 DEF Knows, RefundReplies, RefundStatuses, None
<1>7. CASE UNCHANGED <<stripeRefund, refundAnswer, events>>
  <2>1. slips = {} => charge.ext # None BY <1>2 DEF QuietInv, InStep
  <2> QED BY <1>2, <1>5, <1>6, <1>7, <2>1, RequestStaysInStep
<1>8. CASE StripeAccepts(w) /\ MakesRefund(a)
  <2>1. stripeRefund[a] = None BY <1>8 DEF MakesRefund
  <2>2. /\ intent[ChargeKey] = "succeeded"
        /\ RowsSum(stripeRefund, {"pending", "succeeded"}) + a <= Total
  BY <1>1, <1>2, <1>8, <2>1 DEF StripeAccepts
  <2>3. RequestsKnow'
    <3> SUFFICES ASSUME NEW v \in PayWorkers PROVE Knows(payer[v])' BY DEF RequestsKnow
    <3>1. CASE v = w BY <1>2, <1>5, <1>6, <3>1 DEF Knows
    <3>2. CASE v # w BY <1>2, <1>5, <3>2 DEF QuietInv, RequestsKnow, Knows
    <3> QED BY <3>1, <3>2
  <2>4. \A v \in PayWorkers : payer'[v].op = payer[v].op BY <1>2, <1>5
  <2> QED BY <1>2, <1>8, <2>2, <2>3, <2>4, MakingStaysInStep
<1> QED BY <1>1, <1>7, <1>8 DEF AskRefund, RepeatsAnswer

\* The intent moves, and the event that says so is the newest.
LEMMA IntentStaysInStep ==
  ASSUME QuietInv, PaymentsInv', NEW k \in IntentKeys, IntentMoves(k)
  PROVE  QuietInv'
<1>1. PICK move \in {<<"requires_payment_method", "processing">>, <<"requires_payment_method", "succeeded">>,
                     <<"processing", "succeeded">>,
                     <<"processing", "requires_payment_method">>, <<"requires_payment_method", "canceled">>} :
        intent[k] = move[1] /\ intent' = [intent EXCEPT ![k] = move[2]] /\ Sends("intent", k, move[2])
BY DEF IntentMoves
<1>2. PICK e : e = [id |-> Cardinality(events) + 1, type |-> "intent", object |-> k, status |-> move[2]]
OBVIOUS
<1>3. /\ events' = events \union {e} /\ e.id = Cardinality(events) + 1 /\ e.type = "intent" /\ e.object = k
      /\ e.status = move[2]
BY <1>1, <1>2 DEF Sends
<1>4. UNCHANGED <<charge, refundRow, payer, recorded, slips, stripeRefund, refundAnswer>> BY DEF IntentMoves, dbRows
<1>5. /\ move[1] # None /\ move[1] # "succeeded" /\ move[2] # None
BY <1>1 DEF None
<1>6. k = ChargeKey /\ intent'[ChargeKey] = move[2] /\ intent[ChargeKey] # "succeeded"
  <2>1. intent \in [IntentKeys -> IntentStatuses \union {None}] /\ OnlyTheCharge
  BY DEF QuietInv, PaymentsInv, PaymentsType
  <2>2. k = ChargeKey BY <1>1, <1>5, <2>1 DEF OnlyTheCharge
  <2> QED BY <1>1, <1>5, <2>1, <2>2
<1>7. e \notin events /\ (\A f \in events : f.id < e.id /\ f.id \in Nat) /\ e.id \in Nat
BY <1>3, <1>4, NewEvent DEF QuietInv
<1>8. StripeTells'
  <2>1. IntentNews' = IntentNews \union {e} /\ \A a \in Amounts : NewsOf(a)' = NewsOf(a)
  BY <1>3 DEF IntentNews, RefundNews, NewsOf
  <2>2. \A f \in IntentNews' : f.object = ChargeKey /\ intent'[ChargeKey] # None
  BY <1>3, <1>5, <1>6, <2>1 DEF QuietInv, StripeTells
  <2>3. PICK news, more : news = IntentNews /\ more = IntentNews' OBVIOUS
  <2>4. \A f \in more : Newest(f, more) => f = e
    <3>1. more = news \union {e} /\ \A f \in news : f.id < e.id /\ f.id \in Nat
    BY <1>7, <2>1, <2>3 DEF IntentNews
    <3> QED BY ONLY <1>7, <3>1, NewestOfMore
  <2>5. \A f \in IntentNews' : Newest(f, IntentNews)' => intent'[ChargeKey] = f.status
  BY <1>3, <1>6, <2>3, <2>4 DEF Newest
  <2>6. \A a \in Amounts : stripeRefund[a] = None BY <1>6 DEF QuietInv, StripeTells
  <2> QED BY <1>4, <2>1, <2>2, <2>5, <2>6 DEF QuietInv, StripeTells, Newest
<1>9. Budget' BY <1>4 DEF QuietInv, Budget
<1>10. RequestsKnow' BY <1>4, <1>5, <1>6 DEF QuietInv, RequestsKnow, Knows
<1> QED BY <1>3, <1>4, <1>5, <1>6, <1>8, <1>9, <1>10, SendingStaysInStep

\* A refund settles, and the event that says so is the newest of its refund.
LEMMA SettlingStaysInStep ==
  ASSUME QuietInv, PaymentsInv', NEW a \in Amounts, RefundSettles(a)
  PROVE  QuietInv'
<1>1. PICK s \in {"succeeded", "failed"} :
        stripeRefund' = [stripeRefund EXCEPT ![a] = s] /\ Sends("refund", a, s)
BY DEF RefundSettles
<1>2. PICK e : e = [id |-> Cardinality(events) + 1, type |-> "refund", object |-> a, status |-> s] OBVIOUS
<1>3. /\ events' = events \union {e} /\ e.id = Cardinality(events) + 1 /\ e.type = "refund" /\ e.object = a
      /\ e.status = s
BY <1>1, <1>2 DEF Sends
<1>4. UNCHANGED <<charge, refundRow, payer, recorded, slips, intent, refundAnswer>> /\ stripeRefund[a] = "pending"
BY DEF RefundSettles, dbRows
<1>5. stripeRefund'[a] = s /\ \A b \in Amounts : b # a => stripeRefund'[b] = stripeRefund[b]
BY <1>1 DEF QuietInv, PaymentsInv, PaymentsType
<1>6. StripeTells'
  <2>1. IntentNews' = IntentNews BY <1>3 DEF IntentNews
  <2>2. NewsOf(a)' = NewsOf(a) \union {e} /\ \A b \in Amounts : b # a => NewsOf(b)' = NewsOf(b)
  BY <1>3 DEF NewsOf, RefundNews
  <2>3. intent[ChargeKey] = "succeeded" BY <1>4 DEF QuietInv, StripeTells, None
  <2>4. \A f \in events : f.id < e.id /\ f.id \in Nat BY <1>3, <1>4, NewEvent DEF QuietInv
  <2>5. e.id \in Nat BY <1>3, <1>4, NewEvent DEF QuietInv
  <2>6. PICK news, more : news = NewsOf(a) /\ more = NewsOf(a)' OBVIOUS
  <2>7. \A f \in more : Newest(f, more) => f = e
    <3>1. more = news \union {e} /\ \A f \in news : f.id < e.id /\ f.id \in Nat
    BY <2>2, <2>4, <2>6 DEF NewsOf, RefundNews
    <3> QED BY ONLY <2>5, <3>1, NewestOfMore
  <2>8. \A b \in Amounts : /\ \A f \in NewsOf(b)' : Newest(f, NewsOf(b))' => stripeRefund'[b] = f.status
                           /\ NewsOf(b)' = {} => stripeRefund'[b] = refundAnswer'[b]
    <3> SUFFICES ASSUME NEW b \in Amounts
                 PROVE  /\ \A f \in NewsOf(b)' : Newest(f, NewsOf(b))' => stripeRefund'[b] = f.status
                        /\ NewsOf(b)' = {} => stripeRefund'[b] = refundAnswer'[b]
    OBVIOUS
    <3>1. CASE b = a BY <1>3, <1>5, <2>2, <2>6, <2>7, <3>1 DEF Newest
    <3>2. CASE b # a BY <1>4, <1>5, <2>2, <3>2 DEF QuietInv, StripeTells, Newest
    <3> QED BY <3>1, <3>2
  <2> QED BY <1>4, <2>1, <2>3, <2>8 DEF QuietInv, StripeTells, Newest
<1>7. Budget'
  <2>1. PICK others : others = stripeRefund' OBVIOUS
  <2>2. \A b \in Amounts : others[b] \in {"pending", "succeeded"} => stripeRefund[b] \in {"pending", "succeeded"}
  BY <1>4, <1>5, <2>1
  <2>3. /\ RowsSum(others, {"pending", "succeeded"}) \in Nat
        /\ RowsSum(stripeRefund, {"pending", "succeeded"}) \in Nat
        /\ RowsSum(others, {"pending", "succeeded"}) <= RowsSum(stripeRefund, {"pending", "succeeded"})
  BY <2>2, LessRefunded
  <2>4. RowsSum(others, {"pending", "succeeded"}) <= Total
    <3>1. Total \in Nat BY PaymentsAssumption
    <3> QED BY <2>3, <3>1 DEF QuietInv, Budget
  <2> QED BY <2>1, <2>4 DEF Budget, RowsSum
<1>8. \A b \in Amounts : stripeRefund[b] = "failed" => stripeRefund'[b] = "failed" BY <1>4, <1>5
<1>9. RequestsKnow' BY <1>4 DEF QuietInv, RequestsKnow, Knows
<1> QED BY <1>3, <1>4, <1>6, <1>7, <1>8, <1>9, SendingStaysInStep

\* Events of disputes, transfers and payouts are about neither.
LEMMA OtherMovesStayInStep ==
  ASSUME QuietInv, PaymentsInv', NEW k \in IntentKeys, DisputeMoves(k) \/ TransferMoves(k) \/ PayoutMoves(k)
  PROVE  QuietInv'
<1>1. UNCHANGED <<charge, refundRow, payer, recorded, slips, intent, stripeRefund, refundAnswer>>
BY DEF DisputeMoves, TransferMoves, PayoutMoves, dbRows
<1>2. \E type \in {"dispute.created", "dispute.updated", "dispute.closed", "transfer", "payout"} :
        \E status : Sends(type, k, status)
BY DEF DisputeMoves, TransferMoves, PayoutMoves
<1>3. PICK type \in {"dispute.created", "dispute.updated", "dispute.closed", "transfer", "payout"} :
        \E status : Sends(type, k, status)
BY <1>2
<1>4. PICK status : Sends(type, k, status) BY <1>3
<1>5. PICK e : e = [id |-> Cardinality(events) + 1, type |-> type, object |-> k, status |-> status] OBVIOUS
<1>6. /\ events' = events \union {e} /\ e.id = Cardinality(events) + 1
      /\ e.type \notin {"intent", "refund"}
BY <1>3, <1>4, <1>5 DEF Sends
<1>7. IntentNews' = IntentNews /\ \A a \in Amounts : NewsOf(a)' = NewsOf(a)
BY <1>6 DEF IntentNews, RefundNews, NewsOf
<1>8. StripeTells' /\ Budget' /\ RequestsKnow'
BY <1>1, <1>7 DEF QuietInv, StripeTells, Budget, RequestsKnow, Knows, Newest
<1> QED BY <1>1, <1>6, <1>8, SendingStaysInStep

-----------------------------------------------------------------------------
(* Requests commit *)

\* A payment request that commits what it saw links a row of which nothing was heard, or
\* leaves it as it is.
LEMMA PayStaysInStep ==
  ASSUME QuietInv, PaymentsInv', NEW w \in PayWorkers, CommitPay(w)
  PROVE  QuietInv'
<1>1. /\ payer[w] \in PayRequest /\ Knows(payer[w]) /\ payer \in [PayWorkers -> PayRequest]
      /\ payer[w].op \in {"complete", "intent"} /\ payer[w].reply # None
      /\ charge.ext \in {None, ChargeKey} /\ charge \in ChargeRow
BY DEF QuietInv, PaymentsInv, PaymentsType, CommitPay, RequestsKnow, ChargeRow
<1>2. /\ charge' = RowAfterPay(w) /\ payer' = [payer EXCEPT ![w] = NotPaying]
      /\ slips' = IF charge.ext # payer[w].saw THEN slips \union {"overwrite"} ELSE slips
      /\ UNCHANGED <<refundRow, intent, stripeRefund, refundAnswer, events, recorded>>
BY DEF CommitPay, stripe
<1>3. payer[w].reply \in {"kept", "requires_driver_connect", "requires_payment_method", "failed"}
BY <1>1 DEF QuietInv, PaymentsInv, AcceptedIsThere, Accepted, PayReplies
<1>4. /\ NotPaying.op = "idle" /\ NotPaying.reply = None /\ payer'[w] = NotPaying
      /\ \A v \in PayWorkers : v # w => payer'[v] = payer[v]
BY <1>1, <1>2 DEF NotPaying
<1>5. \/ charge' = charge
      \/ /\ payer[w].saw = None
         /\ \/ charge'.ext = None
            \/ charge'.ext = charge.ext /\ payer[w].reply = "requires_driver_connect"
            \/ /\ charge'.ext = ChargeKey /\ charge'.status = "requires_payment_method"
               /\ intent[ChargeKey] # None
  <2>1. CASE payer[w].reply = "failed"
    <3>1. CASE payer[w].op = "complete"
      <4>1. charge' = [status |-> "pending", ext |-> None] BY <1>2, <2>1, <3>1 DEF RowAfterPay
      <4>2. charge'.ext = None BY <4>1
      <4> QED BY <1>1, <3>1, <4>2 DEF Knows
    <3>2. CASE payer[w].op = "intent" BY <1>2, <2>1, <3>2 DEF RowAfterPay
    <3> QED BY <1>1, <3>1, <3>2
  <2>2. CASE payer[w].reply = "kept" BY <1>2, <2>2 DEF RowAfterPay
  <2>3. CASE payer[w].reply = "requires_driver_connect"
    <3>1. charge' = [charge EXCEPT !.status = "requires_driver_connect"] BY <1>2, <2>3 DEF RowAfterPay
    <3>2. charge'.ext = charge.ext BY <1>1, <3>1 DEF ChargeRow
    <3> QED BY <1>1, <2>3, <3>2 DEF Knows
  <2>4. CASE payer[w].reply = "requires_payment_method"
    <3>1. charge' = [status |-> "requires_payment_method", ext |-> ChargeKey]
    BY <1>2, <2>4 DEF RowAfterPay, IntentKey
    <3>2. charge'.ext = ChargeKey /\ charge'.status = "requires_payment_method" BY <3>1
    <3> QED BY <1>1, <2>4, <3>2 DEF Knows
  <2> QED BY <1>3, <2>1, <2>2, <2>3, <2>4
<1>6. EventIds' /\ StripeTells' /\ Budget'
BY <1>2 DEF QuietInv, EventIds, StripeTells, Budget, IntentNews, RefundNews, NewsOf, Newest
<1>7. RowsKnow' BY <1>2, <1>5 DEF QuietInv, RowsKnow
<1>8. RequestsKnow'
  <2> SUFFICES ASSUME NEW v \in PayWorkers PROVE Knows(payer[v])' BY DEF RequestsKnow
  <2>1. CASE v = w BY <1>4, <2>1 DEF Knows, None
  <2>2. CASE v # w BY <1>2, <1>4, <2>2 DEF QuietInv, RequestsKnow, Knows
  <2> QED BY <2>1, <2>2
<1>9. ASSUME slips' = {} PROVE InStep'
  <2>1. charge.ext = payer[w].saw /\ slips = {} BY <1>2, <1>9
  <2>2. InStep BY <2>1 DEF QuietInv
  <2>3. HeardIntents' = HeardIntents /\ \A a \in Amounts : HeardOf(a)' = HeardOf(a)
  BY <1>2 DEF HeardIntents, HeardOf, IntentNews, NewsOf, RefundNews
  <2>4. \A v \in PayWorkers : payer'[v].op = "refund" => payer[v].op = "refund" BY <1>4
  <2>5. CASE charge' = charge BY <1>2, <2>2, <2>3, <2>4, <2>5 DEF InStep, Newest
  <2>6. CASE charge' # charge
    <3>1. charge.ext = None BY <1>5, <2>1, <2>6
    <3>2. /\ HeardIntents = {} /\ \A a \in Amounts : refundRow[a] = None
          /\ \A v \in PayWorkers : payer[v].op # "refund"
          /\ \A a \in Amounts : HeardOf(a) = {}
    BY <2>2, <3>1 DEF InStep
    <3>3. charge'.ext = None \/ charge'.status = "requires_payment_method" BY <1>5, <2>6, <3>1
    <3> QED BY <1>2, <2>3, <2>4, <3>2, <3>3 DEF InStep
  <2> QED BY <2>5, <2>6
<1> QED BY <1>6, <1>7, <1>8, <1>9 DEF QuietInv

\* A refund that commits has a row of its own from now on, which says what was answered, and
\* nothing was heard of it.
LEMMA RefundStaysInStep ==
  ASSUME QuietInv, PaymentsInv', NEW w \in PayWorkers, CommitRefund(w)
  PROVE  QuietInv'
<1>1. PICK a, s : a = payer[w].amount /\ s = payer[w].reply OBVIOUS
<1>2. /\ a \in Amounts /\ payer[w].op = "refund" /\ payer \in [PayWorkers -> PayRequest]
      /\ s \in RefundReplies /\ s # None /\ (s \in RefundStatuses => s = refundAnswer[a])
      /\ refundRow \in [Amounts -> RefundStatuses \union {None}]
      /\ payer' = [payer EXCEPT ![w] = NotPaying]
      /\ UNCHANGED <<charge, intent, stripeRefund, refundAnswer, events, recorded, slips>>
BY <1>1 DEF QuietInv, PaymentsInv, PaymentsType, AcceptedIsThere, Accepted, CommitRefund, stripe
<1>3. /\ NotPaying.op = "idle" /\ NotPaying.reply = None /\ payer'[w] = NotPaying
      /\ \A v \in PayWorkers : v # w => payer'[v] = payer[v]
BY <1>2 DEF NotPaying
<1>4. \/ refundRow' = refundRow
      \/ /\ refundRow[a] = None /\ refundRow'[a] = refundAnswer[a]
         /\ \A b \in Amounts : b # a => refundRow'[b] = refundRow[b]
  <2>1. CASE KeepsRefund(w)
    <3>1. s \in RefundStatuses BY <1>1, <1>2, <2>1 DEF KeepsRefund, RefundReplies
    <3>2. refundRow' = [refundRow EXCEPT ![a] = s] /\ refundRow[a] = None
    BY <1>1, <2>1 DEF CommitRefund, StatusOfAnswer, KeepsRefund
    <3> QED BY <1>2, <3>1, <3>2
  <2>2. CASE ~ KeepsRefund(w) BY <2>2 DEF CommitRefund
  <2> QED BY <2>1, <2>2
<1>5. EventIds' /\ StripeTells' /\ Budget'
BY <1>2 DEF QuietInv, EventIds, StripeTells, Budget, IntentNews, RefundNews, NewsOf, Newest
<1>6. RowsKnow'
  <2>1. \A b \in Amounts : refundAnswer[b] = "failed" => stripeRefund[b] = "failed"
  BY DEF QuietInv, PaymentsInv, AnswersAreTrue
  <2> QED BY <1>2, <1>4, <2>1 DEF QuietInv, RowsKnow
<1>7. RequestsKnow'
  <2> SUFFICES ASSUME NEW v \in PayWorkers PROVE Knows(payer[v])' BY DEF RequestsKnow
  <2>1. CASE v = w BY <1>3, <2>1 DEF Knows, None
  <2>2. CASE v # w BY <1>2, <1>3, <2>2 DEF QuietInv, RequestsKnow, Knows
  <2> QED BY <2>1, <2>2
<1>8. ASSUME slips' = {} PROVE InStep'
  <2>1. InStep BY <1>2, <1>8 DEF QuietInv
  <2>2. HeardIntents' = HeardIntents /\ \A b \in Amounts : HeardOf(b)' = HeardOf(b)
  BY <1>2 DEF HeardIntents, HeardOf, IntentNews, NewsOf, RefundNews
  <2>3. \A v \in PayWorkers : payer'[v].op = "refund" => payer[v].op = "refund" BY <1>3
  <2>4. charge.ext # None BY <1>2, <2>1 DEF InStep
  <2>5. \A b \in Amounts : /\ \A e \in HeardOf(b) : Newest(e, HeardOf(b)) => refundRow'[b] = e.status
                           /\ HeardOf(b) # {} => refundRow'[b] # None
                           /\ refundRow'[b] # None /\ HeardOf(b) = {} => refundRow'[b] = refundAnswer[b]
    <3> SUFFICES ASSUME NEW b \in Amounts
                 PROVE  /\ \A e \in HeardOf(b) : Newest(e, HeardOf(b)) => refundRow'[b] = e.status
                        /\ HeardOf(b) # {} => refundRow'[b] # None
                        /\ refundRow'[b] # None /\ HeardOf(b) = {} => refundRow'[b] = refundAnswer[b]
    OBVIOUS
    <3>1. CASE refundRow'[b] = refundRow[b] BY <2>1, <3>1 DEF InStep
    <3>2. CASE refundRow'[b] # refundRow[b]
      <4>1. b = a /\ refundRow[a] = None /\ refundRow'[a] = refundAnswer[a] BY <1>4, <3>2
      <4>2. HeardOf(a) = {} BY <1>2, <2>1, <4>1 DEF InStep
      <4> QED BY <4>1, <4>2
    <3> QED BY <3>1, <3>2
  <2> QED BY <1>2, <2>1, <2>2, <2>3, <2>4, <2>5 DEF InStep, Newest
<1> QED BY <1>5, <1>6, <1>7, <1>8 DEF QuietInv

-----------------------------------------------------------------------------
(* The webhook, and the theorems *)

\* A delivery that finds its row and comes in order is the last word on its object.
LEMMA DeliveryStaysInStep ==
  ASSUME QuietInv, PaymentsInv', NEW e \in events, Webhook(e)
  PROVE  QuietInv'
<1>1. /\ UNCHANGED <<intent, stripeRefund, refundAnswer, events, payer>>
      /\ charge' = ChargeAfter(e) /\ refundRow' = RefundsAfter(e)
      /\ recorded' = recorded \union {e.id} /\ slips' = slips \union SlipsOf(e) /\ e.id \notin recorded
BY DEF Webhook, FirstDelivery, stripe
<1>2. /\ charge \in ChargeRow /\ charge.ext \in {None, ChargeKey} /\ EventsAreTrue
      /\ refundRow \in [Amounts -> RefundStatuses \union {None}] /\ EventIds /\ StripeTells /\ RowsKnow
BY DEF QuietInv, PaymentsInv, PaymentsType, ChargeRow
<1>3. EventIds' BY <1>1, <1>2 DEF EventIds
<1>4. StripeTells' /\ Budget' /\ RequestsKnow'
BY <1>1 DEF QuietInv, StripeTells, Budget, RequestsKnow, Knows, IntentNews, RefundNews, NewsOf, Newest
<1>5. charge'.ext = charge.ext BY <1>1, <1>2 DEF ChargeAfter, ChargeRow
<1>6. /\ e.type = "refund" /\ refundRow[e.object] # None =>
           /\ refundRow'[e.object] = e.status
           /\ \A b \in Amounts : b # e.object => refundRow'[b] = refundRow[b]
      /\ ~ (e.type = "refund" /\ refundRow[e.object] # None) => refundRow' = refundRow
BY <1>1, <1>2 DEF RefundsAfter, EventsAreTrue
<1>7. e.type = "refund" => /\ e.object \in Amounts /\ e.status # None
                           /\ e.status = "failed" => stripeRefund[e.object] = "failed"
BY <1>2 DEF EventsAreTrue, RefundStatuses, None
<1>8. RowsKnow' BY <1>1, <1>2, <1>5, <1>6, <1>7 DEF RowsKnow
<1>9. ASSUME NEW f \in events PROVE f.id \in recorded' <=> f = e \/ f.id \in recorded
BY <1>1, <1>2 DEF EventIds
<1>10. ASSUME slips' = {} PROVE InStep'
  <2>1. InStep /\ SlipsOf(e) = {} BY <1>1, <1>10 DEF QuietInv
  <2>2. \A b \in Amounts : refundRow'[b] # None <=> refundRow[b] # None BY <1>6, <1>7
  <2>3. CASE e.type = "intent"
    <3>1. /\ NamesCharge(e)
          /\ \A f \in events : f.id \in recorded /\ f.type = "intent" /\ f.object = e.object => ~ (f.id > e.id)
    BY <1>1, <2>1, <2>3 DEF SlipsOf
    <3>2. e \in IntentNews /\ e.object = ChargeKey BY <1>2, <2>3 DEF IntentNews, StripeTells
    <3>3. charge' = [charge EXCEPT !.status = e.status] BY <1>1, <2>3, <3>1 DEF ChargeAfter
    <3>4. charge'.status = e.status /\ charge'.ext = ChargeKey
    BY <1>2, <3>1, <3>2, <3>3 DEF ChargeRow, NamesCharge
    <3>5. refundRow' = refundRow BY <1>6, <2>3
    <3>6. HeardIntents' = HeardIntents \union {e} /\ \A a \in Amounts : HeardOf(a)' = HeardOf(a)
    BY <1>1, <1>9, <2>3 DEF HeardIntents, HeardOf, IntentNews, NewsOf, RefundNews
    <3>7. ASSUME NEW f \in HeardIntents', \A g \in HeardIntents' : g.id <= f.id PROVE f = e
      <4>1. f \in events /\ e.id <= f.id /\ (f \in HeardIntents \/ f = e)
      BY <3>6, <3>7 DEF HeardIntents, IntentNews
      <4>2. f \in HeardIntents => ~ (f.id > e.id)
      BY <1>2, <3>1, <3>2 DEF HeardIntents, IntentNews, StripeTells
      <4>3. f.id \in Nat /\ e.id \in Nat /\ (f.id = e.id => f = e) BY <1>2, <4>1 DEF EventIds
      <4> QED BY <4>1, <4>2, <4>3
    <3>8. \A f \in HeardIntents' : Newest(f, HeardIntents)' => charge'.status = f.status
    BY <3>4, <3>7 DEF Newest
    <3>9. ChargeKey # None BY DEF ChargeKey, None
    <3>10. HeardIntents' # {} BY <3>6
    <3> QED BY <1>1, <2>1, <3>4, <3>5, <3>6, <3>8, <3>9, <3>10 DEF InStep, Newest
  <2>4. CASE e.type = "refund"
    <3>1. /\ refundRow[e.object] # None
          /\ \A f \in events : f.id \in recorded /\ f.type = "refund" /\ f.object = e.object => ~ (f.id > e.id)
    BY <1>1, <2>1, <2>4 DEF SlipsOf
    <3>2. charge' = charge BY <1>1, <2>4 DEF ChargeAfter
    <3>3. /\ HeardIntents' = HeardIntents /\ HeardOf(e.object)' = HeardOf(e.object) \union {e}
          /\ \A b \in Amounts : b # e.object => HeardOf(b)' = HeardOf(b)
    BY <1>1, <1>9, <2>4 DEF HeardIntents, HeardOf, IntentNews, NewsOf, RefundNews
    <3>4. refundRow'[e.object] = e.status /\ \A b \in Amounts : b # e.object => refundRow'[b] = refundRow[b]
    BY <1>6, <2>4, <3>1
    <3>5. ASSUME NEW f \in HeardOf(e.object)', \A g \in HeardOf(e.object)' : g.id <= f.id PROVE f = e
      <4>1. f \in events /\ e.id <= f.id /\ (f \in HeardOf(e.object) \/ f = e)
      BY <3>3, <3>5 DEF HeardOf, NewsOf, RefundNews
      <4>2. f \in HeardOf(e.object) => ~ (f.id > e.id) BY <3>1 DEF HeardOf, NewsOf, RefundNews
      <4>3. f.id \in Nat /\ e.id \in Nat /\ (f.id = e.id => f = e) BY <1>2, <4>1 DEF EventIds
      <4> QED BY <4>1, <4>2, <4>3
    <3>6. \A b \in Amounts : /\ \A f \in HeardOf(b)' : Newest(f, HeardOf(b))' => refundRow'[b] = f.status
                             /\ HeardOf(b)' # {} => refundRow'[b] # None
                             /\ refundRow'[b] # None /\ HeardOf(b)' = {} => refundRow'[b] = refundAnswer[b]
      <4> SUFFICES ASSUME NEW b \in Amounts
                   PROVE  /\ \A f \in HeardOf(b)' : Newest(f, HeardOf(b))' => refundRow'[b] = f.status
                          /\ HeardOf(b)' # {} => refundRow'[b] # None
                          /\ refundRow'[b] # None /\ HeardOf(b)' = {} => refundRow'[b] = refundAnswer[b]
      OBVIOUS
      <4>1. CASE b = e.object BY <1>7, <2>4, <3>3, <3>4, <3>5, <4>1 DEF Newest
      <4>2. CASE b # e.object BY <2>1, <3>3, <3>4, <4>2 DEF InStep, Newest
      <4> QED BY <4>1, <4>2
    <3> QED BY <1>1, <2>1, <2>2, <3>2, <3>3, <3>6 DEF InStep, Newest
  <2>5. CASE e.type \notin {"intent", "refund"}
    <3>1. charge' = charge /\ refundRow' = refundRow BY <1>1, <1>6, <2>5 DEF ChargeAfter
    <3>2. HeardIntents' = HeardIntents /\ \A a \in Amounts : HeardOf(a)' = HeardOf(a)
    BY <1>1, <1>9, <2>5 DEF HeardIntents, HeardOf, IntentNews, NewsOf, RefundNews
    <3> QED BY <1>1, <2>1, <3>1, <3>2 DEF InStep, Newest
  <2> QED BY <2>3, <2>4, <2>5
<1> QED BY <1>3, <1>4, <1>8, <1>10 DEF QuietInv

\* Before anything is paid, nothing was sent or heard.
LEMMA QuietInvInit == PaymentsInit => QuietInv
<1> SUFFICES ASSUME PaymentsInit PROVE QuietInv OBVIOUS
<1>1. PaymentsInv BY PaymentsInvInit
<1>2. /\ events = {} /\ recorded = {} /\ charge.ext = None /\ slips = {}
      /\ \A a \in Amounts : refundRow[a] = None /\ stripeRefund[a] = None /\ refundAnswer[a] = None
      /\ intent[ChargeKey] = None
      /\ \A w \in PayWorkers : payer[w].op = "idle" /\ payer[w].reply = None
BY DEF PaymentsInit, NoCharge, NotPaying, IntentKeys
<1>3. EventIds BY <1>2, FS_EmptySet DEF EventIds
<1>4. IntentNews = {} /\ HeardIntents = {} /\ \A a \in Amounts : NewsOf(a) = {} /\ HeardOf(a) = {}
BY <1>2 DEF IntentNews, HeardIntents, HeardOf, NewsOf, RefundNews
<1>5. StripeTells BY <1>2, <1>4 DEF StripeTells, None
<1>6. RequestsKnow BY <1>2 DEF RequestsKnow, Knows, None
<1>7. RowsKnow BY <1>2 DEF RowsKnow, None
<1>8. Budget
  <2>1. {a \in Amounts : stripeRefund[a] \in {"pending", "succeeded"}} = {} BY <1>2 DEF None
  <2>2. RowsSum(stripeRefund, {"pending", "succeeded"}) = 0 BY <2>1, RefundSums DEF RowsSum
  <2> QED BY <2>2, PaymentsAssumption DEF Budget
<1>9. InStep BY <1>2, <1>4 DEF InStep
<1> QED BY <1>1, <1>3, <1>5, <1>6, <1>7, <1>8, <1>9 DEF QuietInv

\* What keeps the rows in step with Stripe while events come in time and requests commit what
\* they saw, and what Stripe's refunds keep to at all times.
THEOREM QuietInvariant == PaymentsSpec => []QuietInv
<1>1. QuietInv /\ PaymentsInv' /\ [PaymentsNext]_paymentsVars => QuietInv'
  <2> SUFFICES ASSUME QuietInv, PaymentsInv', [PaymentsNext]_paymentsVars PROVE QuietInv' OBVIOUS
  <2>1. CASE ConnectStart \/ ConnectRefresh \/ UNCHANGED paymentsVars
    <3>1. UNCHANGED <<charge, refundRow, intent, stripeRefund, refundAnswer, events, payer, recorded, slips>>
    BY <2>1 DEF ConnectStart, ConnectRefresh, paymentsVars, dbRows, stripe
    <3> QED BY <3>1 DEF QuietInv, EventIds, StripeTells, RequestsKnow, Knows, RowsKnow, Budget, InStep,
               HeardIntents, HeardOf, IntentNews, NewsOf, RefundNews, Newest
  <2>2. ASSUME NEW w \in PayWorkers,
               \/ \E op \in {"complete", "intent"} : BeginPay(w, op)
               \/ SkipStripe(w) \/ CreateIntent(w) \/ CommitPay(w) \/ DropRequest(w)
               \/ \E a \in Amounts : BeginRefund(w, a)
               \/ AskRefund(w) \/ CommitRefund(w)
        PROVE  QuietInv'
  BY <2>2, OtherRequestSteps, CreationStaysInStep, PayStaysInStep, AskingStaysInStep, RefundStaysInStep
  <2>3. ASSUME NEW k \in IntentKeys,
               IntentMoves(k) \/ DisputeMoves(k) \/ TransferMoves(k) \/ PayoutMoves(k)
        PROVE  QuietInv'
  BY <2>3, IntentStaysInStep, OtherMovesStayInStep
  <2>4. ASSUME NEW a \in Amounts, RefundSettles(a) PROVE QuietInv' BY <2>4, SettlingStaysInStep
  <2>5. ASSUME NEW e \in events, Webhook(e) PROVE QuietInv' BY <2>5, DeliveryStaysInStep
  <2> QED BY <2>1, <2>2, <2>3, <2>4, <2>5 DEF PaymentsNext
<1> QED BY QuietInvInit, PaymentsInvariant, <1>1, PTL DEF PaymentsSpec

\* The refunds on the rows are refunds at Stripe, and no more money than the rider paid,
\* however many were pending together.
THEOREM RefundsAreCovered == PaymentsSpec => []RefundsAreReal
<1>1. QuietInv => RefundsAreReal
  <2> SUFFICES ASSUME QuietInv PROVE RefundsAreReal OBVIOUS
  <2>1. RefundRowsAreReal BY DEF QuietInv, PaymentsInv
  <2>2. \A a \in Amounts : refundRow[a] \in {"succeeded"} => stripeRefund[a] \in {"pending", "succeeded"}
  BY <2>1 DEF RefundRowsAreReal
  <2>3. /\ Refunded \in Nat /\ RowsSum(stripeRefund, {"pending", "succeeded"}) \in Nat
        /\ Refunded <= RowsSum(stripeRefund, {"pending", "succeeded"})
  BY <2>2, LessRefunded DEF Refunded
  <2>4. Total \in Nat BY PaymentsAssumption
  <2> QED BY <2>1, <2>3, <2>4 DEF RefundsAreReal, QuietInv, Budget
<1> QED BY QuietInvariant, <1>1, PTL

\* Where there are news, one is the newest.
LEMMA NewestExists ==
  ASSUME EventIds, NEW news, news \subseteq events, news # {}
  PROVE  \E e \in news : Newest(e, news)
<1>1. PICK n, ids : n = Cardinality(events) /\ ids = {e.id : e \in news} OBVIOUS
<1>2. n \in Nat BY <1>1, FS_CardinalityType DEF EventIds
<1>3. ids \in SUBSET (1..n) /\ ids # {} BY <1>1 DEF EventIds
<1>4. PICK i \in ids : \A j \in ids : j <= i BY <1>2, <1>3, GreatestIndex
<1>5. PICK e \in news : e.id = i BY <1>1, <1>4
<1>6. \A f \in news : f.id <= e.id BY <1>1, <1>4, <1>5
<1> QED BY <1>6 DEF Newest

\* Once all is heard, and nothing came early, late or was overwritten, the rows are Stripe's
\* state, and the net collected hides no debt.
THEOREM QuietRowsAreStripes == PaymentsSpec => []QuietRowsAgree
<1>1. QuietInv /\ RefundsAreReal => QuietRowsAgree
  <2> SUFFICES ASSUME QuietInv, RefundsAreReal, slips = {}, \A e \in IntentEvents : e.id \in recorded
               PROVE  /\ charge.ext # None => charge.status = intent[charge.ext]
                      /\ \A a \in Amounts : refundRow[a] # None => refundRow[a] = stripeRefund[a]
                      /\ NetCollected = Collected - Refunded
  BY DEF QuietRowsAgree
  <2>1. InStep /\ StripeTells /\ RowsKnow /\ EventIds /\ EventsAreTrue BY DEF QuietInv, PaymentsInv
  <2>2. HeardIntents = IntentNews /\ \A a \in Amounts : HeardOf(a) = NewsOf(a)
  BY DEF HeardIntents, HeardOf, IntentNews, NewsOf, RefundNews, IntentEvents
  <2>3. charge.ext \in {None, ChargeKey} BY DEF QuietInv, PaymentsInv, PaymentsType, ChargeRow
  <2>4. ASSUME charge.ext # None PROVE charge.status = intent[ChargeKey]
    <3>1. CASE IntentNews = {}
      <4>1. intent[ChargeKey] = "requires_payment_method" BY <2>1, <2>4, <3>1 DEF StripeTells, RowsKnow
      <4>2. charge.status = "requires_payment_method" BY <2>1, <2>2, <2>4, <3>1 DEF InStep
      <4> QED BY <4>1, <4>2
    <3>2. CASE IntentNews # {}
      <4>1. IntentNews \subseteq events BY DEF IntentNews
      <4>2. PICK e \in IntentNews : Newest(e, IntentNews) BY <2>1, <3>2, <4>1, NewestExists
      <4>3. intent[ChargeKey] = e.status BY <2>1, <4>2 DEF StripeTells
      <4>4. charge.status = e.status BY <2>1, <2>2, <4>2 DEF InStep
      <4> QED BY <4>3, <4>4
    <3> QED BY <3>1, <3>2
  <2>5. ASSUME NEW a \in Amounts, refundRow[a] # None PROVE refundRow[a] = stripeRefund[a]
    <3>1. CASE NewsOf(a) = {}
      <4>1. stripeRefund[a] = refundAnswer[a] BY <2>1, <3>1 DEF StripeTells
      <4>2. refundRow[a] = refundAnswer[a] BY <2>1, <2>2, <2>5, <3>1 DEF InStep
      <4> QED BY <4>1, <4>2
    <3>2. CASE NewsOf(a) # {}
      <4>1. NewsOf(a) \subseteq events BY DEF NewsOf, RefundNews
      <4>2. PICK e \in NewsOf(a) : Newest(e, NewsOf(a)) BY <2>1, <3>2, <4>1, NewestExists
      <4>3. stripeRefund[a] = e.status BY <2>1, <4>2 DEF StripeTells
      <4>4. refundRow[a] = e.status BY <2>1, <2>2, <4>2 DEF InStep
      <4> QED BY <4>3, <4>4
    <3> QED BY <3>1, <3>2
  <2>6. Refunded \in Nat /\ Collected \in Nat /\ Refunded <= Collected
    <3>1. Refunded \in Nat /\ Total \in Nat /\ Refunded <= Total
    BY LessRefunded, PaymentsAssumption DEF Refunded, RefundsAreReal
    <3>2. CASE charge.status = "succeeded" BY <3>1, <3>2 DEF Collected
    <3>3. CASE charge.status # "succeeded"
      <4>1. ASSUME NEW a \in Amounts, refundRow[a] = "succeeded" PROVE FALSE
        <5>1. refundRow[a] # None BY <4>1 DEF None
        <5>2. charge.ext # None /\ stripeRefund[a] # None
        BY <2>1, <5>1 DEF InStep, RefundsAreReal, RefundRowsAreReal
        <5>3. intent[ChargeKey] = "succeeded" BY <2>1, <5>2 DEF StripeTells
        <5> QED BY <2>4, <3>3, <5>2, <5>3
      <4>2. {a \in Amounts : refundRow[a] \in {"succeeded"}} = {} BY <4>1
      <4>3. Refunded = 0 BY <4>2, RefundSums DEF Refunded, RowsSum
      <4> QED BY <3>3, <4>3 DEF Collected
    <3> QED BY <3>2, <3>3
  <2>7. NetCollected = Collected - Refunded BY <2>6 DEF NetCollected, AtLeastZero
  <2> QED BY <2>3, <2>4, <2>5, <2>7
<1> QED BY QuietInvariant, RefundsAreCovered, <1>1, PTL
=============================================================================
