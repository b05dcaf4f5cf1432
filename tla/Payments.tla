------------------------------ MODULE Payments ------------------------------
(***************************************************************************)
(* Payment execution for one completed ride: the payment_execution rows    *)
(* (charge, refunds, dispute) and payout tables of the backend, the        *)
(* requests that write them around a call to Stripe, and the webhook that  *)
(* mirrors Stripe's objects into them.                                     *)
(*                                                                         *)
(* A request (ride completion, payment-intent, admin refund) reads rows,   *)
(* calls Stripe and commits; the call and the commit are separate steps,   *)
(* and either may fail.  The webhook handler is an async function that     *)
(* awaits only the request body, so a delivery is one step.  Stripe sends  *)
(* an event for every change of its objects, and may send one when it      *)
(* makes a refund; it delivers them at least once, in any order; an event  *)
(* that is never delivered stays in `events`.  Stripe itself is external:  *)
(* it honours idempotency keys, answers a repeated one as it did the first *)
(* time, and refuses to refund more than it collected.                     *)
(***************************************************************************)
EXTENDS Integers, FiniteSets, Functions

CONSTANTS
  PayWorkers,    \* threads that serve payment requests
  Total,         \* the charge, in cents
  FirstAnswers,  \* the statuses Stripe may give a refund it has just made
  MaxEvents      \* bound: changes Stripe makes to its objects

ASSUME PaymentsAssumption ==
  /\ Total \in Nat \ {0}
  /\ FirstAnswers \subseteq {"pending", "succeeded", "failed"}
  /\ MaxEvents \in Nat

None == "none"
Amounts == 1..Total          \* the refunds an admin may ask for
ChargeKey == "charge_rider"  \* the idempotency key of the ride's charge
IntentKeys == {ChargeKey} \union PayWorkers

IntentStatuses == {"requires_payment_method", "processing", "succeeded", "canceled"}
RefundStatuses == {"pending", "succeeded", "failed"}
ChargeStatuses == IntentStatuses \union {"pending", "requires_driver_connect"}

VARIABLES
  connect,        \* the driver's Connect account row: none, disabled, enabled
  charge,         \* the charge row: its status and the intent it names
  chargeLinked,   \* the charge row knows Stripe's charge id
  refundRow,      \* refund rows by amount: the key holds ride and amount only
  disputeRow,     \* status of the dispute row
  transferRow,    \* none, or whether the transfer row names the charge row
  payoutRow,      \* status of the payout row
  recorded,       \* payment_events: ids of the events recorded
  intent,         \* Stripe: payment intents by idempotency key
  stripeRefund,   \* Stripe: refunds by idempotency key, that is by amount
  refundAnswer,   \* Stripe: what it answered to the key first, and repeats
  stripeDispute, stripePayout,  \* Stripe: the dispute, the payout
  events,         \* Stripe: the events sent so far
  payer,          \* worker -> its request in flight
  slips           \* history: how the rows may have fallen behind Stripe

dbRows == <<connect, charge, chargeLinked, refundRow, disputeRow, transferRow, payoutRow, recorded>>
stripe == <<intent, stripeRefund, refundAnswer, stripeDispute, stripePayout, events>>
paymentsVars == <<dbRows, stripe, payer, slips>>

NotPaying == [op |-> "idle", amount |-> 0, saw |-> None, reply |-> None]
NoCharge == [status |-> None, ext |-> None]

PaymentsInit ==
  /\ connect = None
  /\ charge = NoCharge
  /\ chargeLinked = FALSE
  /\ refundRow = [a \in Amounts |-> None]
  /\ disputeRow = None /\ transferRow = None /\ payoutRow = None
  /\ recorded = {}
  /\ intent = [k \in IntentKeys |-> None]
  /\ stripeRefund = [a \in Amounts |-> None] /\ refundAnswer = stripeRefund
  /\ stripeDispute = None /\ stripePayout = None
  /\ events = {}
  /\ payer = [w \in PayWorkers |-> NotPaying]
  /\ slips = {}

RowsSum(rows, statuses) == SumFunctionOnSet([a \in Amounts |-> a], {a \in Amounts : rows[a] \in statuses})

-----------------------------------------------------------------------------
(* The Connect account *)

\* get_or_create_express_account, then refresh_account_flags copies what
\* Stripe says of the account.
ConnectStart ==
  /\ connect = None
  /\ connect' = "disabled"
  /\ UNCHANGED <<charge, chargeLinked, refundRow, disputeRow, transferRow, payoutRow, recorded, stripe, payer, slips>>

ConnectRefresh ==
  /\ connect # None
  /\ connect' \in {"disabled", "enabled"}
  /\ UNCHANGED <<charge, chargeLinked, refundRow, disputeRow, transferRow, payoutRow, recorded, stripe, payer, slips>>

-----------------------------------------------------------------------------
(* Charging the rider *)

\* Completion creates the charge row; a payment-intent request finds it.
\* Completions that race are RideSettlement's: one at a time here.
BeginPay(w, op) ==
  /\ payer[w] = NotPaying
  /\ \/ /\ op = "complete"
        /\ charge = NoCharge
        /\ \A v \in PayWorkers : payer[v].op # "complete"
     \/ op = "intent" /\ charge # NoCharge
  /\ payer' = [payer EXCEPT ![w] = [op |-> op, amount |-> 0, saw |-> charge.ext, reply |-> None]]
  /\ UNCHANGED <<dbRows, stripe, slips>>

\* Mutant: a key of the request's own instead of the ride's.
FreshIntentKey(w) == w

\* The key sent with the creation of the payment intent.
IntentKey(w) == ChargeKey

\* Mutant: the charge counts as collected once the intent exists.
ResponsePaid(w) == "succeeded"

\* Stripe's answer to the creation; a repeated key replays the first answer.
Response(w) == "requires_payment_method"

Paying(w) == payer[w].op \in {"complete", "intent"} /\ payer[w].reply = None

\* An intent that is already linked, or a driver who cannot be paid, needs no
\* call to Stripe.
SkipStripe(w) ==
  /\ Paying(w)
  /\ \/ payer[w].saw # None /\ payer' = [payer EXCEPT ![w].reply = "kept"]
     \/ /\ payer[w].saw = None /\ connect # "enabled"
        /\ payer' = [payer EXCEPT ![w].reply = "requires_driver_connect"]
  /\ UNCHANGED <<dbRows, stripe, slips>>

\* PaymentIntent.create: the intent exists from now on, whether or not the
\* answer arrives.
CreateIntent(w) ==
  /\ Paying(w) /\ payer[w].saw = None /\ connect = "enabled"
  /\ intent' = [intent EXCEPT ![IntentKey(w)] = IF @ = None THEN "requires_payment_method" ELSE @]
  /\ \E reply \in {Response(w), "failed"} : payer' = [payer EXCEPT ![w].reply = reply]
  /\ UNCHANGED <<dbRows, stripeRefund, refundAnswer, stripeDispute, stripePayout, events, slips>>

\* What the request commits.  Completion swallows an error of Stripe's and
\* keeps a pending row; the payment-intent route rolls back.
RowAfterPay(w) ==
  LET p == payer[w] IN
  CASE p.reply = "failed" -> IF p.op = "complete" THEN [status |-> "pending", ext |-> None] ELSE charge
    [] p.reply = "kept" -> charge
    [] p.reply = "requires_driver_connect" -> [charge EXCEPT !.status = "requires_driver_connect"]
    [] OTHER -> [status |-> p.reply, ext |-> IntentKey(w)]

CommitPay(w) ==
  /\ payer[w].op \in {"complete", "intent"} /\ payer[w].reply # None
  /\ charge' = RowAfterPay(w)
  /\ slips' = IF charge.ext # payer[w].saw THEN slips \union {"overwrite"} ELSE slips
  /\ payer' = [payer EXCEPT ![w] = NotPaying]
  /\ UNCHANGED <<connect, chargeLinked, refundRow, disputeRow, transferRow, payoutRow, recorded, stripe>>

\* The process dies, or the commit fails: nothing of the request is kept.
DropRequest(w) ==
  /\ payer[w] # NotPaying
  /\ payer' = [payer EXCEPT ![w] = NotPaying]
  /\ UNCHANGED <<dbRows, stripe, slips>>

-----------------------------------------------------------------------------
(* Refunding the rider *)

\* create_refund_execution's checks: only refunds that succeeded count.
MayRefund(a) == a <= Total /\ RowsSum(refundRow, {"succeeded"}) + a <= Total

\* An existing row of the same amount is returned as it is.
BeginRefund(w, a) ==
  /\ payer[w] = NotPaying
  /\ charge # NoCharge /\ MayRefund(a)
  /\ charge.ext # None
  /\ refundRow[a] = None
  /\ payer' = [payer EXCEPT ![w] = [op |-> "refund", amount |-> a, saw |-> charge.ext, reply |-> None]]
  /\ UNCHANGED <<dbRows, stripe, slips>>

\* External: Stripe refunds a collected charge up to its amount, once per key.
StripeAccepts(w) ==
  LET a == payer[w].amount IN
  \/ stripeRefund[a] # None
  \/ intent[payer[w].saw] = "succeeded" /\ RowsSum(stripeRefund, {"pending", "succeeded"}) + a <= Total

Sends(type, object, status) ==
  /\ Cardinality(events) < MaxEvents
  /\ events' = events \union {[id |-> Cardinality(events) + 1, type |-> type, object |-> object, status |-> status]}

\* Stripe makes the refund, which is pending or settled at once.
MakesRefund(a) ==
  /\ stripeRefund[a] = None
  /\ \E s \in FirstAnswers :
       /\ stripeRefund' = [stripeRefund EXCEPT ![a] = s]
       /\ refundAnswer' = [refundAnswer EXCEPT ![a] = s]
       /\ UNCHANGED events \/ Sends("refund", a, s)

RepeatsAnswer(a) == stripeRefund[a] # None /\ UNCHANGED <<stripeRefund, refundAnswer, events>>

\* Refund.create; the answer may be lost.
AskRefund(w) ==
  /\ payer[w].op = "refund" /\ payer[w].reply = None
  /\ \/ /\ StripeAccepts(w)
        /\ MakesRefund(payer[w].amount) \/ RepeatsAnswer(payer[w].amount)
        /\ \E reply \in {refundAnswer'[payer[w].amount], "raised"} :
             payer' = [payer EXCEPT ![w].reply = reply]
     \/ /\ ~StripeAccepts(w)
        /\ payer' = [payer EXCEPT ![w].reply = "raised"]
        /\ UNCHANGED <<stripeRefund, refundAnswer, events>>
  /\ UNCHANGED <<dbRows, intent, stripeDispute, stripePayout, slips>>

\* An error of Stripe's rolls the row back, and the row's unique key refuses a
\* second row of the same amount.
KeepsRefund(w) == payer[w].reply # "raised" /\ refundRow[payer[w].amount] = None

\* Mutant: the row says that the money went back as soon as Stripe answers.
CountsAsRefunded(answer) == "succeeded"

\* The row is created pending, and takes the status of Stripe's answer.
StatusOfAnswer(answer) == IF answer = "raised" THEN "pending" ELSE answer

CommitRefund(w) ==
  /\ payer[w].op = "refund" /\ payer[w].reply # None
  /\ refundRow' = IF KeepsRefund(w)
                  THEN [refundRow EXCEPT ![payer[w].amount] = StatusOfAnswer(payer[w].reply)]
                  ELSE refundRow
  /\ payer' = [payer EXCEPT ![w] = NotPaying]
  /\ UNCHANGED <<connect, charge, chargeLinked, disputeRow, transferRow, payoutRow, recorded, stripe, slips>>

-----------------------------------------------------------------------------
(* Stripe (external): its objects change, and every change sends an event *)

IntentMoves(k) ==
  /\ \E move \in {<<"requires_payment_method", "processing">>, <<"requires_payment_method", "succeeded">>,
                  <<"processing", "succeeded">>,
                  <<"processing", "requires_payment_method">>, <<"requires_payment_method", "canceled">>} :
       /\ intent[k] = move[1]
       /\ intent' = [intent EXCEPT ![k] = move[2]]
       /\ Sends("intent", k, move[2])
  /\ UNCHANGED <<dbRows, stripeRefund, refundAnswer, stripeDispute, stripePayout, payer, slips>>

RefundSettles(a) ==
  /\ stripeRefund[a] = "pending"
  /\ \E s \in {"succeeded", "failed"} :
       stripeRefund' = [stripeRefund EXCEPT ![a] = s] /\ Sends("refund", a, s)
  /\ UNCHANGED <<dbRows, intent, refundAnswer, stripeDispute, stripePayout, payer, slips>>

DisputeMoves(k) ==
  /\ intent[k] = "succeeded"
  /\ \E move \in {<<None, "needs_response", "dispute.created">>,
                  <<"needs_response", "under_review", "dispute.updated">>,
                  <<"under_review", "lost", "dispute.closed">>} :
       /\ stripeDispute = move[1]
       /\ stripeDispute' = move[2]
       /\ Sends(move[3], k, move[2])
  /\ UNCHANGED <<dbRows, intent, stripeRefund, refundAnswer, stripePayout, payer, slips>>

TransferMoves(k) ==
  /\ intent[k] = "succeeded"
  /\ Sends("transfer", k, "created")
  /\ UNCHANGED <<dbRows, intent, stripeRefund, refundAnswer, stripeDispute, stripePayout, payer, slips>>

PayoutMoves(k) ==
  /\ intent[k] = "succeeded"
  /\ \E move \in {<<None, "pending">>, <<"pending", "paid">>, <<"pending", "failed">>} :
       /\ stripePayout = move[1]
       /\ stripePayout' = move[2]
       /\ Sends("payout", k, move[2])
  /\ UNCHANGED <<dbRows, intent, stripeRefund, refundAnswer, stripeDispute, payer, slips>>

-----------------------------------------------------------------------------
(* The webhook *)

\* Mutant: a redelivered event is processed again.
AnyDelivery(e) == TRUE

\* record_event_once: a repeated delivery is acknowledged and does nothing.
FirstDelivery(e) == e.id \notin recorded

NamesCharge(e) == charge.ext = e.object

ChargeAfter(e) ==
  IF e.type = "intent" /\ NamesCharge(e) THEN [charge EXCEPT !.status = e.status] ELSE charge

RefundsAfter(e) ==
  IF e.type = "refund" /\ refundRow[e.object] # None THEN [refundRow EXCEPT ![e.object] = e.status] ELSE refundRow

\* A dispute is stored with the charge it names; an update of one that is not
\* stored creates it.  No handler takes charge.dispute.closed.
DisputeAfter(e) ==
  IF \/ e.type = "dispute.created" /\ NamesCharge(e)
     \/ e.type = "dispute.updated" /\ (disputeRow # None \/ NamesCharge(e))
  THEN e.status ELSE disputeRow

\* ingest_transfer links the row only if the charge id is known by then, and
\* keeps a link.
TransferAfter(e) ==
  IF e.type # "transfer" THEN transferRow
  ELSE IF chargeLinked \/ transferRow = "linked" THEN "linked" ELSE "unlinked"

\* How this delivery may leave a row behind Stripe: no row carries the object
\* yet, or a later event of the object was delivered before.
SlipsOf(e) ==
  (IF \/ e.type = "intent" /\ ~NamesCharge(e)
      \/ e.type = "refund" /\ refundRow[e.object] = None
   THEN {"early"} ELSE {})
  \union
  (IF e.id \notin recorded /\ \E f \in events : f.id \in recorded /\ f.id > e.id /\ f.type = e.type /\ f.object = e.object
   THEN {"late"} ELSE {})

Webhook(e) ==
  /\ FirstDelivery(e)
  /\ charge' = ChargeAfter(e)
  /\ chargeLinked' = (chargeLinked \/ (e.type = "intent" /\ e.status = "succeeded" /\ NamesCharge(e)))
  /\ refundRow' = RefundsAfter(e)
  /\ disputeRow' = DisputeAfter(e)
  /\ transferRow' = TransferAfter(e)
  /\ payoutRow' = IF e.type = "payout" THEN e.status ELSE payoutRow
  /\ recorded' = recorded \union {e.id}
  /\ slips' = slips \union SlipsOf(e)
  /\ UNCHANGED <<connect, stripe, payer>>

-----------------------------------------------------------------------------
PaymentsNext ==
  \/ ConnectStart \/ ConnectRefresh
  \/ \E w \in PayWorkers :
       \/ \E op \in {"complete", "intent"} : BeginPay(w, op)
       \/ SkipStripe(w) \/ CreateIntent(w) \/ CommitPay(w) \/ DropRequest(w)
       \/ \E a \in Amounts : BeginRefund(w, a)
       \/ AskRefund(w) \/ CommitRefund(w)
  \/ \E k \in IntentKeys : IntentMoves(k) \/ DisputeMoves(k) \/ TransferMoves(k) \/ PayoutMoves(k)
  \/ \E a \in Amounts : RefundSettles(a)
  \/ \E e \in events : Webhook(e)

PaymentsSpec == PaymentsInit /\ [][PaymentsNext]_paymentsVars

-----------------------------------------------------------------------------
(* What reconciliation reports (compute_driver_payment_reconciliation) *)

Collected == IF charge.status = "succeeded" THEN Total ELSE 0
Refunded == RowsSum(refundRow, {"succeeded"})
AtLeastZero(n) == IF n > 0 THEN n ELSE 0
NetCollected == AtLeastZero(Collected - Refunded)

-----------------------------------------------------------------------------
(* Properties *)

\* The rider is never charged twice: whatever requests race, fail after
\* Stripe answered or are retried, a ride has one payment intent.
OneIntent == Cardinality({k \in IntentKeys : intent[k] # None}) <= 1

\* Earnings pages call money collected only when Stripe collected it, in
\* whatever order events and requests reach the rows.
CollectedIsReal == charge.status = "succeeded" => charge.ext # None /\ intent[charge.ext] = "succeeded"

\* Every refund row stands for a refund at Stripe, even when Stripe's call or
\* the commit failed, and the rows never claim that money went back which did
\* not, nor more of it than the charge: the backend's own check looks at
\* refunds that succeeded only, and several may be pending.
RefundRowsAreReal == \A a \in Amounts :
  /\ refundRow[a] # None => stripeRefund[a] # None
  /\ refundRow[a] = "succeeded" => stripeRefund[a] = "succeeded"
RefundsAreReal == RefundRowsAreReal /\ Refunded <= Total

IntentEvents == {e \in events : e.type \in {"intent", "refund"}}

\* Once every event of the intent and its refunds is delivered, the rows agree
\* with Stripe unless an event came before the row it is about, an older event
\* came after a newer one, or a request committed over a row linked meanwhile:
\* these are the only ways for the mirror to go stale.  The money collected
\* then covers what was refunded, so NetCollected never hides a debt.
QuietRowsAgree ==
  (slips = {} /\ \A e \in IntentEvents : e.id \in recorded) =>
    /\ charge.ext # None => charge.status = intent[charge.ext]
    /\ \A a \in Amounts : refundRow[a] # None => refundRow[a] = stripeRefund[a]
    /\ NetCollected = Collected - Refunded
=============================================================================
