---------------------------- MODULE MarketLedger ----------------------------
(***************************************************************************)
(* The two hash chains of services/ledger.py: marketplace_ledger_entries   *)
(* (claims) and marketplace_ledger_events (all marketplace facts).         *)
(*                                                                         *)
(* A request appends its facts one by one inside its transaction.  An      *)
(* append takes the hash of the row with the largest id it can see, its    *)
(* own rows and the committed ones, as the row's previous hash.  Nothing   *)
(* locks the tip, so requests in flight together may append to one row.    *)
(* A hash is modelled by the id of the row it was computed from, 0 for     *)
(* none.  Ids come from a sequence and are not given back by a rollback.   *)
(***************************************************************************)
EXTENDS Sequences, Integers

CONSTANTS
  Requests,     \* requests that write to the ledger, each run once
  Scripts       \* request kinds: the facts their handlers append, in order

ASSUME LedgerAssumption == Scripts \subseteq Seq(STRING)

VARIABLES
  ledgerEntries,   \* rows of marketplace_ledger_entries by id, as appended
  ledgerEvents,    \* rows of marketplace_ledger_events by id, as appended
  todo,            \* request -> facts it has yet to append
  outcome,         \* request -> new, open, committed or rolled back
  met              \* history: pairs of requests that were open together

ledgerVars == <<ledgerEntries, ledgerEvents, todo, outcome, met>>

\* _LEGACY_CLAIM_EVENT_TYPES: facts record_ledger_entry writes to both chains.
ClaimFacts == {"claim_attempted", "claim_won", "claim_lost", "claim_released"}

LedgerInit ==
  /\ ledgerEntries = <<>> /\ ledgerEvents = <<>>
  /\ todo = [r \in Requests |-> <<>>]
  /\ outcome = [r \in Requests |-> "new"]
  /\ met = {}

BeginRequest(r) ==
  /\ outcome[r] = "new"
  /\ \E s \in Scripts : todo' = [todo EXCEPT ![r] = s]
  /\ outcome' = [outcome EXCEPT ![r] = "open"]
  /\ met' = met \union {{r, s} : s \in {q \in Requests : outcome[q] = "open"}}
  /\ UNCHANGED <<ledgerEntries, ledgerEvents>>

\* Mutant: an append also sees what other requests have not committed.
SeesAll(r, row) == TRUE

\* Mutant: an append does not see the rows its own request has not committed.
SeesCommitted(r, row) == outcome[row.request] = "committed"

Sees(r, row) == row.request = r \/ outcome[row.request] = "committed"

Tip(r, rows) ==
  LET seen == {i \in DOMAIN rows : Sees(r, rows[i])}
  IN CHOOSE t \in seen \union {0} : \A i \in seen : i <= t

Linked(r, rows, fact) == Append(rows, [request |-> r, fact |-> fact, previous |-> Tip(r, rows)])

InBothChains(fact) == fact \in ClaimFacts

\* record_ledger_entry and append_marketplace_event.
AppendFact(r) ==
  /\ outcome[r] = "open" /\ todo[r] # <<>>
  /\ LET fact == Head(todo[r]) IN
       /\ ledgerEvents' = Linked(r, ledgerEvents, fact)
       /\ ledgerEntries' = IF InBothChains(fact) THEN Linked(r, ledgerEntries, fact) ELSE ledgerEntries
  /\ todo' = [todo EXCEPT ![r] = Tail(@)]
  /\ UNCHANGED <<outcome, met>>

CommitRequest(r) ==
  /\ outcome[r] = "open" /\ todo[r] = <<>>
  /\ outcome' = [outcome EXCEPT ![r] = "committed"]
  /\ UNCHANGED <<ledgerEntries, ledgerEvents, todo, met>>

\* An error after some appends, or a crash.
RollBackRequest(r) ==
  /\ outcome[r] = "open"
  /\ outcome' = [outcome EXCEPT ![r] = "rolled back"]
  /\ UNCHANGED <<ledgerEntries, ledgerEvents, todo, met>>

LedgerNext ==
  \E r \in Requests : BeginRequest(r) \/ AppendFact(r) \/ CommitRequest(r) \/ RollBackRequest(r)

LedgerSpec == LedgerInit /\ [][LedgerNext]_ledgerVars

-----------------------------------------------------------------------------

Kept(rows) == {i \in DOMAIN rows : outcome[rows[i].request] = "committed"}
ClaimRows(r, rows) == {i \in DOMAIN rows : rows[i].request = r /\ rows[i].fact \in ClaimFacts}

\* The claims of a request stand in two chains in the same order.
SameClaims(r, rows, others) ==
  \E twin \in [ClaimRows(r, rows) -> ClaimRows(r, others)] :
    /\ \A i, j \in ClaimRows(r, rows) : i < j => twin[i] < twin[j]
    /\ \A k \in ClaimRows(r, others) : \E i \in ClaimRows(r, rows) : twin[i] = k
    /\ \A i \in ClaimRows(r, rows) : rows[i].fact = others[twin[i]].fact

\* A stored row names a stored row before it.
LinksHold(rows) == \A i \in Kept(rows) : rows[i].previous \in {0} \union {j \in Kept(rows) : j < i}

\* The chain a reader of the ledger finds: a stored row names a stored row
\* before it, however many requests that never committed appended around it,
\* and the claims of a request stand in both chains in the same order.
AuditTrailHolds ==
  /\ LinksHold(ledgerEntries) /\ LinksHold(ledgerEvents)
  /\ \A r \in Requests : outcome[r] = "committed" => SameClaims(r, ledgerEntries, ledgerEvents)

Forked(rows, i, j) == {i, j} \subseteq Kept(rows) /\ i < j /\ rows[i].previous = rows[j].previous

\* The chain of ledger.py is linear except where two requests were in flight
\* together: only they can have taken the same row for the tip.
ForkNeedsOverlap ==
  \A rows \in {ledgerEntries, ledgerEvents} : \A i, j \in DOMAIN rows :
    Forked(rows, i, j) => {rows[i].request, rows[j].request} \in met
=============================================================================
