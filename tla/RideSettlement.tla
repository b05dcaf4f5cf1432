--------------------------- MODULE RideSettlement ---------------------------
(***************************************************************************)
(* Completing one ride: requests that read the unlocked price, compute the *)
(* final one, lock it, write the settlement entries and the charge row.    *)
(*                                                                         *)
(* _complete_ride_impl takes no lock when it reads.  Its first flush locks *)
(* the ride and pricing rows until the commit, so everything from there on *)
(* is one step: two completions overlap as read, read, commit, commit.     *)
(* The session writes only the columns it changed from what it had read.   *)
(***************************************************************************)
EXTENDS RideFinancials

CONSTANTS
  Completers,      \* requests that may complete the ride
  PricingPolicy,   \* the active pricing policy
  QuotedFare,      \* fare of the distance, when the ride was created
  TripMinutes,     \* the ride's duration
  TripFares,       \* fares of the distance driven; NoDistance for none
  Extras           \* fee records a driver may send

NoDistance == -1

ASSUME SettlementAssumption ==
  /\ PricingPolicy \in Policies
  /\ QuotedFare \in Nat /\ TripMinutes \in Nat
  /\ TripFares \subseteq Nat \union {NoDistance}
  /\ Extras \subseteq [Fees -> Int]

VARIABLES
  price,        \* the ride_pricing row
  completed,    \* the ride is completed (it starts in progress)
  entries,      \* the settlement entries, NoEntries before
  chargeCents,  \* amount of the charge row, NoChargeRow before
  earnings,     \* how often earning.calculated was recorded
  completer,    \* request -> the price it read and the price it computed
  overlapped    \* history: a completion committed while another was open

settlementVars == <<price, completed, entries, chargeCents, earnings, completer, overlapped>>

NoFees == [f \in Fees |-> IF f = "serviceFee" THEN NoFee ELSE 0]
NoEntries == [t \in EntryTypes |-> -1]
NoChargeRow == -1
Idle == [busy |-> FALSE]

\* The row create_ride quoted: a breakdown without extras, not locked.
Quote == FinalPricing(0, TRUE, QuotedFare, TripMinutes, NoFees, PricingPolicy)
PriceRow(breakdown, locked) == [amounts |-> breakdown, locked |-> locked]

SettlementInit ==
  /\ price = PriceRow(Quote, FALSE)
  /\ completed = FALSE
  /\ entries = NoEntries
  /\ chargeCents = NoChargeRow
  /\ earnings = 0
  /\ completer = [w \in Completers |-> Idle]
  /\ overlapped = FALSE

\* Mutant: a completed ride may be completed again.
MayCompleteAgain(w) == completer[w] = Idle

\* The status and the lock are both looked at before anything is written.
MayComplete(w) == completer[w] = Idle /\ ~completed /\ ~price.locked

BeginComplete(w) ==
  /\ MayComplete(w)
  /\ \E fare \in TripFares, fees \in Extras :
       completer' = [completer EXCEPT ![w] =
         [busy |-> TRUE, read |-> price.amounts,
          computed |-> FinalPricing(price.amounts.shareable, fare # NoDistance, fare, TripMinutes, fees, PricingPolicy)]]
  /\ UNCHANGED <<price, completed, entries, chargeCents, earnings, overlapped>>

\* Columns the request changed are overwritten, the others keep what is there.
Flushed(current, read, computed) ==
  [c \in DOMAIN current |-> IF computed[c] # read[c] THEN computed[c] ELSE current[c]]

\* Mutant: entries are written whenever a ride completes.
RewriteEntries(existing, computed) == SettlementOf(computed)

\* generate_settlement_entries keeps entries that are there.
EntriesAfter(existing, computed) == IF existing # NoEntries THEN existing ELSE SettlementOf(computed)

\* create_charge_intent_from_pricing: one charge row per ride.
ChargeRowAfter(existing, computed) == IF existing # NoChargeRow THEN existing ELSE computed.total

CommitComplete(w) ==
  /\ completer[w].busy
  /\ LET c == completer[w] IN
       /\ price' = PriceRow(Flushed(price.amounts, c.read, c.computed), TRUE)
       /\ entries' = EntriesAfter(entries, c.computed)
       /\ chargeCents' = ChargeRowAfter(chargeCents, c.computed)
  /\ completed' = TRUE
  /\ earnings' = earnings + 1
  /\ completer' = [completer EXCEPT ![w] = Idle]
  /\ overlapped' = (overlapped \/ \E v \in Completers \ {w} : completer[v].busy)

\* An error or a crash before the commit leaves nothing behind.
AbandonComplete(w) ==
  /\ completer[w].busy
  /\ completer' = [completer EXCEPT ![w] = Idle]
  /\ UNCHANGED <<price, completed, entries, chargeCents, earnings, overlapped>>

SettlementNext ==
  \E w \in Completers : BeginComplete(w) \/ CommitComplete(w) \/ AbandonComplete(w)

SettlementSpec == SettlementInit /\ [][SettlementNext]_settlementVars

-----------------------------------------------------------------------------

\* Whatever the policy, the trip and the extras are, and however completions
\* overlap, the settlement entries of generate_settlement_entries add up: what
\* the rider is charged is what driver, platform and third parties are owed.
SettlementBalances == entries # NoEntries => Balanced(entries)

\* The charge row of a ride and its settlement entries come from the same
\* completion, although each is guarded by an existence check of its own.
ChargeMatchesSettlement ==
  /\ completed <=> entries # NoEntries
  /\ completed <=> chargeCents # NoChargeRow
  /\ completed => entries["customer_charge"] = chargeCents

\* A locked price that disagrees with the settlement entries made of it, or an
\* earning recorded twice, takes two completions that were open at once: a
\* completion that starts later is refused by _complete_ride_impl.
RepricedOnlyByOverlap ==
  completed /\ ~overlapped => entries = SettlementOf(price.amounts) /\ earnings = 1
=============================================================================
