---------------------------- MODULE DossierSpine ----------------------------
(***************************************************************************)
(* The dossier marketplace slice: drivers known by heartbeat, trips whose  *)
(* state is their last lifecycle event, and a double-entry ledger written  *)
(* at completion.  On PostgreSQL: a demand locks the driver it selects and *)
(* skips locked ones; nothing else is locked before it is written.         *)
(*                                                                         *)
(* Every demand makes a new trip.  The idempotency key of a request only   *)
(* suppresses the events and the transaction that carry it.  Positions,    *)
(* vehicle types and the plausibility of a movement are abstracted: they   *)
(* decide which drivers a demand may find, and whether a heartbeat counts. *)
(***************************************************************************)
EXTENDS Integers, Sequences, FiniteSets, FiniteSetsExt

CONSTANTS
  SpineWorkers,  \* threads that serve the slice
  SpineDrivers, NoSpineDriver,
  Keys,          \* idempotency keys clients send; a retry repeats its key
  MaxTrips,      \* bound: trips ever requested
  Splits         \* fare splits a completion may send

ASSUME SpineAssumption ==
  /\ NoSpineDriver \notin SpineDrivers
  /\ MaxTrips \in Nat
  /\ Splits \subseteq [fare : Nat, driver : Nat, processing : Nat, platform : Nat]

Trips == 1..MaxTrips

VARIABLES
  active,      \* active_drivers: driver -> [status, trip]; status "absent" has no row
  events,      \* trip_lifecycle_events in id order: [trip, to, driver, key]
  books,       \* ledger_transactions with their entries: {[ref, trip, entries]}
  wallets,     \* drivers with a wallet account
  serving,     \* worker -> the writes of its open transaction
  trips,       \* trip ids handed out
  suppressed,  \* history: trips a repeated key kept an event from
  late,        \* history: trips touched by a completion that had read an older
               \* state, or completes again what a repeated key left open, or
               \* completes a trip so touched: it frees a driver another trip has
  mispaid      \* history: trips a completion ended with a key used before, or
               \* paid for when another completion had ended them meanwhile

spineVars == <<active, events, books, wallets, serving, trips, suppressed, late, mispaid>>

Idle == [op |-> "none", trip |-> 0, driver |-> NoSpineDriver, events |-> <<>>, books |-> {}, wallets |-> {}]

SpineInit ==
  /\ active = [d \in SpineDrivers |-> [status |-> "absent", trip |-> 0]]
  /\ events = <<>> /\ books = {} /\ wallets = {}
  /\ serving = [w \in SpineWorkers |-> Idle]
  /\ trips = 0
  /\ suppressed = {} /\ late = {} /\ mispaid = {}

-----------------------------------------------------------------------------

\* The positions in the log of a trip's events, and of those that chose its driver.
EventsOf(t) == {i \in DOMAIN events : events[i].trip = t}
ChoicesOf(t) == {i \in EventsOf(t) : events[i].to = "DRIVER_EN_ROUTE"}

StateOf(t) == IF EventsOf(t) = {} THEN "IDLE" ELSE events[Max(EventsOf(t))].to
DriverOf(t) == events[Max(ChoicesOf(t))].driver

Recorded(key) == \E i \in DOMAIN events : events[i].key = key

\* append_trip_event: nothing when the key is on record, whatever trip it was for.
Append1(t, to, driver, key) ==
  IF Recorded(key) THEN <<>> ELSE <<[trip |-> t, to |-> to, driver |-> driver, key |-> key]>>

\* build_trip_payment_entries: the totals of its debits and credits, and the
\* credit to the driver's wallet.
Entries(d, s) ==
  [debit |-> (s.fare - s.processing) + s.processing,
   credit |-> s.driver + s.platform + s.processing, wallet |-> d, share |-> s.driver]

\* The split adds up, and no entry but the processing pair may be zero.
Splittable(s) ==
  /\ s.driver + s.platform + s.processing = s.fare
  /\ s.fare > s.processing /\ s.driver > 0 /\ s.platform > 0

\* Mutant: another transaction's uncommitted choice is not seen.
NotLocked(d) == active[d].status = "AVAILABLE"

\* FOR NO KEY UPDATE SKIP LOCKED.
Selectable(d) ==
  /\ active[d].status = "AVAILABLE"
  /\ ~\E w \in SpineWorkers : serving[w].op = "demand" /\ serving[w].driver = d

-----------------------------------------------------------------------------
(* supply/heartbeat: a row that exists keeps its status *)

SupplyHeartbeat(d) ==
  /\ active[d].status = "absent"
  /\ active' = [active EXCEPT ![d].status = "AVAILABLE"]
  /\ UNCHANGED <<events, books, wallets, serving, trips, suppressed, late, mispaid>>

(* demand/request *)

BeginDemand(w, key, d) ==
  /\ serving[w] = Idle /\ trips < MaxTrips
  /\ d # NoSpineDriver => Selectable(d)
  /\ LET t == trips + 1
         matching == Append1(t, "MATCHING", NoSpineDriver, <<key, "matching">>)
         accepted == IF d = NoSpineDriver THEN <<>>
                     ELSE Append1(t, "DRIVER_EN_ROUTE", d, <<key, "accepted">>)
     IN /\ serving' = [serving EXCEPT ![w] =
               [op |-> "demand", trip |-> t, driver |-> d, events |-> matching \o accepted,
                books |-> {}, wallets |-> {}]]
        /\ suppressed' = IF matching = <<>> \/ (d # NoSpineDriver /\ accepted = <<>>)
                         THEN suppressed \union {t} ELSE suppressed
  /\ trips' = trips + 1
  /\ UNCHANGED <<active, events, books, wallets, late, mispaid>>

\* idempotency_key, reference_key and the account id are unique: the loser of
\* two inserts rolls back.
Unique(w) ==
  /\ \A i \in DOMAIN serving[w].events : ~Recorded(serving[w].events[i].key)
  /\ \A b \in serving[w].books : \A c \in books : c.ref # b.ref
  /\ serving[w].wallets \intersect wallets = {}

CommitDemand(w) ==
  /\ serving[w].op = "demand" /\ Unique(w)
  /\ events' = events \o serving[w].events
  /\ active' = IF serving[w].driver = NoSpineDriver THEN active
               ELSE [active EXCEPT ![serving[w].driver] = [status |-> "DISPATCHED", trip |-> serving[w].trip]]
  /\ serving' = [serving EXCEPT ![w] = Idle]
  /\ UNCHANGED <<books, wallets, trips, suppressed, late, mispaid>>

-----------------------------------------------------------------------------
(* trip/complete *)

\* Mutant: any trip with a driver completes.
CompletableAgain(t) == StateOf(t) \in {"DRIVER_EN_ROUTE", "TRIP_COMPLETED"}

Completable(t) == StateOf(t) = "DRIVER_EN_ROUTE"

\* The trip's state is read a first time; the transaction is inserted unless
\* its key is on record.  The event is the one to append later.
BeginTripComplete(w, t, key, s) ==
  /\ serving[w] = Idle /\ Completable(t) /\ Splittable(s)
  /\ LET d == DriverOf(t) IN
     serving' = [serving EXCEPT ![w] =
       [op |-> "paying", trip |-> t, driver |-> d,
        events |-> <<[trip |-> t, to |-> "TRIP_COMPLETED", driver |-> d, key |-> <<key, "completed">>]>>,
        books |-> IF \E b \in books : b.ref = key THEN {}
                  ELSE {[ref |-> key, trip |-> t, entries |-> Entries(d, s)]},
        wallets |-> {d} \ wallets]]
  /\ UNCHANGED <<active, events, books, wallets, trips, suppressed, late, mispaid>>

\* complete_trip reads the state a second time, and the trip may have been
\* completed meanwhile: then there is no event and no release.
CheckAgain(w) ==
  /\ serving[w].op = "paying"
  /\ LET e == Head(serving[w].events) IN
     serving' = [serving EXCEPT
       ![w].op = IF Completable(e.trip) THEN "complete" ELSE "refused",
       ![w].events = IF Completable(e.trip) THEN Append1(e.trip, e.to, e.driver, e.key) ELSE <<>>]
  /\ UNCHANGED <<active, events, books, wallets, trips, suppressed, late, mispaid>>

\* The driver's row is written wherever the driver is by now, once the demand
\* that holds its lock is over.
CommitTripComplete(w) ==
  /\ serving[w].op = "complete" /\ Unique(w)
  /\ LET t == serving[w].trip
         d == serving[w].driver
     IN /\ ~\E v \in SpineWorkers : serving[v].op = "demand" /\ serving[v].driver = d
        /\ active' = [active EXCEPT ![d] = [status |-> "AVAILABLE", trip |-> 0]]
        /\ suppressed' = IF serving[w].events = <<>> THEN suppressed \union {t} ELSE suppressed
        /\ late' = IF Completable(t) /\ t \notin suppressed \union late THEN late ELSE late \union {t, active[d].trip}
        /\ mispaid' = IF Completable(t) /\ serving[w].books # {} /\ serving[w].events # <<>>
                      THEN mispaid ELSE mispaid \union {t}
  /\ wallets' = wallets \union serving[w].wallets
  /\ events' = events \o serving[w].events
  /\ books' = books \union serving[w].books
  /\ serving' = [serving EXCEPT ![w] = Idle]
  /\ UNCHANGED trips

\* INVALID_TRANSITION is an answer and no error: what was inserted before the
\* second read is committed.
CommitInvalidTransition(w) ==
  /\ serving[w].op = "refused" /\ Unique(w)
  /\ wallets' = wallets \union serving[w].wallets
  /\ books' = books \union serving[w].books
  /\ mispaid' = IF serving[w].books = {} THEN mispaid ELSE mispaid \union {serving[w].trip}
  /\ serving' = [serving EXCEPT ![w] = Idle]
  /\ UNCHANGED <<active, events, trips, suppressed, late>>

\* A crash, a lost connection or a duplicate key: the transaction rolls back.
RollBackSpine(w) ==
  /\ serving[w] # Idle
  /\ serving' = [serving EXCEPT ![w] = Idle]
  /\ UNCHANGED <<active, events, books, wallets, trips, suppressed, late, mispaid>>

SpineNext ==
  \/ \E d \in SpineDrivers : SupplyHeartbeat(d)
  \/ \E w \in SpineWorkers :
       \/ \E k \in Keys, d \in SpineDrivers \union {NoSpineDriver} : BeginDemand(w, k, d)
       \/ \E k \in Keys, t \in Trips, s \in Splits : BeginTripComplete(w, t, k, s)
       \/ CommitDemand(w) \/ CheckAgain(w) \/ CommitTripComplete(w)
       \/ CommitInvalidTransition(w) \/ RollBackSpine(w)

SpineSpec == SpineInit /\ [][SpineNext]_spineVars

-----------------------------------------------------------------------------

\* A dispatched driver and a trip under way name each other: no trip loses
\* its driver to another trip and no driver stays dispatched to a trip that is
\* not under way, unless a repeated key suppressed the trip's event or a late
\* or repeated completion touched it, at first hand or through its driver.
TripsHoldDrivers ==
  /\ \A d \in SpineDrivers : active[d].status = "DISPATCHED" =>
       \/ active[d].trip \in suppressed
       \/ StateOf(active[d].trip) = "DRIVER_EN_ROUTE" /\ DriverOf(active[d].trip) = d
  /\ \A t \in Trips \ (suppressed \union late) : StateOf(t) = "DRIVER_EN_ROUTE" =>
       active[DriverOf(t)] = [status |-> "DISPATCHED", trip |-> t]

\* The driver of a completed trip is paid for it exactly once, by a
\* transaction that balances, and nobody is paid for a trip not completed:
\* whatever became of its driver, it takes a completion of the trip itself
\* with a key used before, or one that overlapped another of the same trip.
SettledOnce ==
  /\ \A b \in books : b.entries.debit = b.entries.credit /\ b.entries.wallet = DriverOf(b.trip)
  /\ \A t \in Trips \ mispaid :
       Cardinality({b \in books : b.trip = t}) = IF StateOf(t) = "TRIP_COMPLETED" THEN 1 ELSE 0
=============================================================================
