# Verification of HalfApp

TLA+ models, TLC configurations and TLAPS proofs for this repository: the ride
board of the backend (`src/backend`, FastAPI and SQLAlchemy) with everything
that hangs on a ride (routes, prices, payments, ledgers, what drivers are told
of it), the driver's account and presence, the city maps, the dossier slice, the
stream and the retries of the driver app (`src/driver-app`), and the shot loop
of the video gate (`src/video-gate`). Paths below are relative to `src/`.

## 1. The system

Customers and drivers call HTTP handlers. Most handlers are plain functions that
FastAPI runs in a worker thread with a database session of its own
(`backend/database.py`: no autoflush, no version columns), so requests run
concurrently and meet only in the database: SQLite by default, PostgreSQL at
READ COMMITTED in deployment (`DATABASE_URL`). There is no background scheduler:
dispatch timeouts are processed by the poll of whichever eligible driver calls
`GET /drivers/available-rides` next, and a map is recomputed by whoever looks at
it. The Stripe webhook is an async function that awaits the request's body only.

### Inventory

| Component | State it keeps | Operations | What makes it correct |
|---|---|---|---|
| Ride lifecycle (`services/lifecycle.py`) | none; the transition table | next status, release to pool | ended rides never change |
| Dispatch cascade (`services/ride_dispatch_cascade.py`) | `dispatch_*` columns of the ride, `ride_dispatch_log` | start, decline, timeout, refresh, exhaustion | one open log per open offer; nobody asked twice; exhaustion only after enough offers; no offer hangs |
| Claim (`services/dispatch.py`, `claim_eligibility.py`) | `rides.driver_id`, `status` | claim | one winner; one active ride per driver; another driver's offer binds |
| Driver ride handlers (`routes/drivers.py`) | ride row, stamps, claim ledger, events | accept, decline-ride, decline-dispatch, arrive, start, complete, hide, poll, stream | row, ledger, logs and stamps agree |
| Rider handlers (`routes/rider_rides.py`) | ride row | create, cancel, status stream | cancel is final |
| Driver approval (`services/driver_approval.py`) | `driver_approvals.status` | review | no new work without approval; work under way can end |
| Presence and driver status (`services/presence.py`, `driver_status_service.py`) | two rows and a profile column per driver | online, offline, pause, heartbeat, location, expiry | who stopped gets no offers, whatever still arrives |
| Idempotent writes (`services/driver_idempotency.py`) | replay table | begin, complete, abandon | a retried request takes effect once |
| Pricing and settlement (`pricing_service.py`, `ride_pricing.py`, `ride_settlement.py`) | pricing row, settlement entries | quote, finalize and lock, settle | locked once; entries add up; one charge that agrees with them |
| Payments (`payment_execution.py`, `routes/payments_webhooks.py`, `stripe_*_ingest.py`) | executions, events, transfers, payouts, disputes | charge, refund, webhook, reconcile | one intent; collected and refunded mean what they say; each webhook applied once |
| Pool broadcast (`event_bus.py`, `ride_pool_broadcast.py`) | subscriber queues | publish, subscribe | snapshot plus deltas give the pool |
| Visibility (`services/metrics.py`) | `ride_visibility`, `ride_claim_attempts` | list, hide, transparency | hidden until the time limit; the view names the real winner |
| Ledgers (`services/ledger.py`) | two hash chains | append | stored links hold; one chain |
| Authentication (`services/auth*.py`, `refresh_tokens.py`, `password_reset.py`) | users, refresh and reset tokens | register, login, rotate, revoke, change, reset | a token is spent once; a revocation ends the sessions before it |
| Dossier spine (`dossier_*.py`) | `active_drivers`, trip events, double-entry ledger | heartbeat, demand, complete; off by default | drivers and trips name each other; each trip paid once |
| Routing and quotes (`routing_service.py`, `osrm_self_hosted_provider.py`, `traffic_signals_service.py`, `route_quote_service.py`) | route and signal caches, receipts, snapshots | route, quote, snapshot | fresh answers; a road route is claimed only where there was one |
| City maps (`sil_compute.py`, `sil_map.py`, `crl_compute.py`, `crl_attribution.py`, `crl_map.py`) | one row per cell and five-minute bucket | compute, map, suggest, explain | a bucket is one computation; what is shown is backed by data |
| Video gate (`video-gate/core/`) | a manifest per shot, promoted files | generate, audit, promote, retry | an approved shot can be made again |
| Driver app (`driver-app`) | client cache, keys, the card | polling, stream, retries | the card is a ride that can be had |

They interact through shared rows. The handlers call the cascade and the claim
as functions inside their own transaction; the cascade reads approval, presence
and the drivers' active rides; creation calls routing and pricing; completion
calls pricing, settlement and the payment provider before its commit; committed
changes are then announced to the broadcast, to which the cockpits listen. The
hard parts are the interleavings of handlers between read and commit, late
answers to expired offers, answers of Stripe that are lost after they took
effect, webhooks that come early, late or twice, long sequences of claims and
releases, and progress without a scheduler. `PROJECT.json` lists the hazards
line by line, with the property that covers each or the reason why none does.

## 2. Modules

| Module | Models |
|---|---|
| `RideLifecycle` | the statuses, `_TRANSITIONS`, `next_ride_status`, `release_accepted_ride_to_pool` |
| `DispatchCascade` | the cascade, the claim and the release as functions from one ride row to the rows that may result |
| `RideBoard` | the handlers, each as one transaction over all rides, approvals, the claim ledger and settlement; the properties |
| `RideAssignment` | abstract: who has which ride, and nothing else |
| `RideSessions` | the same handlers split into "read" and "commit", any number of requests in flight |
| `IdempotentWrites` | the driver app's keys and retries against the server's replay table |
| `RouteTruth` | route, signals and caches under concurrent threads; what rides, quotes and audits say of a route |
| `RideFinancials` | fares, shares, fees and settlement entries, in cents |
| `RideSettlement` | overlapping completions of one ride |
| `Payments` | payment rows against Stripe, requests around its calls, webhooks |
| `MarketLedger` | the two hash chains under overlapping transactions |
| `RideFeed` | visibility, hides, claim attempts and the transparency view of one ride |
| `Presence` | the rows that say whether one driver is at work |
| `Accounts` | one account: tokens, rotation, logout, passwords |
| `CityCells` | the two city maps: computation of a bucket, gates, causes, answers |
| `PoolStream` | one cockpit, its event stream and its card |
| `DossierSpine` | heartbeats, demands, completions and the ledger of the dossier slice |
| `ShotLoop` | the video gate's loop for one shot, with crashes |
| `CountingLemmas` | lemmas about natural numbers, positions in a sequence and sums, used by the proofs |
| `RideBoardProofs`, `RideSessionsProofs`, `RouteTruthProofs` | the theorems about those modules |
| `RideWritesProofs` | the theorems about `IdempotentWrites` and `RideFeed` |
| `MoneyProofs` | the theorems about `RideSettlement`, `MarketLedger` and `Payments` |
| `DriversProofs` | the theorems about `Accounts`, `Presence` and `CityCells` |
| `MarketProofs` | the theorems about `PoolStream`, `DossierSpine` and `ShotLoop` |
| `MCRideBoard`, `MCRideSessions`, `MCIdempotentWrites` | symmetry sets for TLC |
| `MCMoney`, `MCDrivers`, `MCMarket`, `MCRideWrites`, `MCClaimRaces` | several components in one run, and their constants |
| `MCStream` | `PoolStream` alone, for liveness |

`RideSettlement` extends `RideFinancials`; `RideBoard` and `RideSessions` stand on
`DispatchCascade` and `RideLifecycle`. The others are specifications of their
own, each with the part of the database that its properties are about: `RideBoard` takes presence as an input that `Presence` produces,
`RideSettlement` and `Payments` each follow one completed ride, `RideFeed` the
same ride on the board.

### The board

A ride row is a record of the columns that decide something: `status`,
`driver` (`driver_id`), `offer` (`dispatch_driver_id`), `attempts`
(`dispatch_attempt_count`), `stamps` (which `*_at` columns are set), `reason`
(whether `lifecycle_reason` is the dispatcher's own `no_drivers_available`) and
`log`, the results found in the `ride_dispatch_log` rows of each driver. A row
not yet inserted has status `absent`. The functions return sets of rows, because
the nearest driver depends on positions that are left open: any driver who may
be asked may be the nearest. Handlers that raise leave the database unchanged
and are not steps. There are two exceptions. A refused accept with an
`Idempotency-Key` commits the offer that it made on the way (`RefuseAccept`).
The conflict paths of accept commit claim-attempt entries, which `RideFeed`
models and nothing on the board reads.

| Action | Code |
|---|---|
| `CreateRide` | `create_ride` (also `create_simulation_ride`, which dispatches in the same way) |
| `AcceptRide`, `RefuseAccept` | `_accept_ride_impl`, `claim_ride`, `record_dispatch_accepted` |
| `DeclineRide` | `_decline_ride_impl` |
| `DeclineDispatch` | `_decline_dispatch_offer_impl`, `record_dispatch_declined` |
| `ArrivePickup`, `StartRide`, `CompleteRide` | the handlers of these names |
| `CancelRide` | `cancel_ride` |
| `PollAvailableRides` | `_list_available_rides_for_driver`, `refresh_open_dispatch_offers` |
| `ReviewDriver` | `patch_driver_approval` |

`holder` is what the claim ledger says: the driver of the last `claim_won` entry
unless a `claim_released` came after it. `settled` is the set of rides with
locked pricing and settlement entries. `sequential` is the deployment's choice
of dispatch mode and never changes. Presence and time are inputs of a request:
`online` is the set of drivers that are online, fresh and not profile-busy at
that moment, and `due` the set of rides whose offer has expired.

`RideSessions` has a variable `session`: for each worker the request it serves,
the rows it read (`before`) and what it made of them (`after`). A commit writes
the columns that differ (`Merge`), as the ORM does. The conditional UPDATE of
`claim_ride` is evaluated on the row of that moment, and a claim that finds it
false is lost and rolled back. Accept and poll write the `driver_status` row of
their driver before they look for an active ride, which makes two of them of
one driver wait for each other (`StatusLocked`). `overwritten` is a history
variable: the rides that some commit changed without having seen their latest
row.

### Keys and retries

`IdempotentWrites` stands apart from the board. It follows one action of one
driver on one ride, `accept` or `hide`, through the app (`Tap`, `Resend`,
`GiveUp`, `Reload`: `callRideWrite`, `resilientFetch`, `idempotencyKeys.js`) and
the server (`Begin`, `Replay`, `Busy`, `Refuse`, `Finish`, `RaiseError`,
`LoseSession`, `Crash`: `begin_or_replay` and `execute_idempotent_ride_write`). The
handler is a step of its own, because accept and hide commit before the wrapper
completes the row: `Write`; `LogRefusal` for an accept that commits its log entries
before it is refused; or `LoseClaim`, where `claim_ride` rolls back and the row goes
with it. An unexpected error has two outcomes. If the session is still usable
(`RaiseError`), the row is deleted and what was flushed is committed. If a flush or
a commit failed (`LoseSession`), the session wants a rollback that the wrapper does
not make, so its clean-up raises too, and a row that the handler had committed stays
in progress, as after a crash; `stuck` remembers those keys. `Undo` is a release of the accepted ride or the hide's time limit.
Everything else that may make a handler refuse is left open. `inFlight` holds the
copies sent and not yet taken up; a copy that is never taken up is a lost
request, and an answer to a copy that the app no longer waits for is a lost
answer. A row that is inserted but not committed is not yet in `replay`; it makes
other inserts of its key wait (`MayBegin`). Release, arrive, start, complete and
decline-dispatch go through the same wrapper and, like accept, refuse when their
change has already been made.

### Routes and money

`RouteTruth`: `env` is the settings of the process (`config.py`),
`routeCache` and `signalCache` the two module-level dictionaries of
`routing_service.py` and `traffic_signals_service.py`, which hold no lock, `work` the call each thread is in,
`booked` a ride's route columns with its snapshots, `receipts` the proof receipts
of quotes. A call is `StartCall` (the cache lookup of `route()`), `ResolveRoute`
(OSRM or the straight line), then `WithoutFetch`, or `StartFetch` with `EndFetch`
or `FailFetch` (the signal feeds); its estimate is used by `BookRouted`
(`create_ride`), `BookSimulated`, or `QuoteRoute`. `BookUnrouted` is a ride
without coordinates, `CompleteBooked` the snapshot at completion, `ViewSignals`
the endpoint that shares the feeds' cache, `RestartRouting` a restart.

`RideFinancials` gives `compute_fare_components`, `compute_financials` and
`finalize_ride_pricing` as integer arithmetic; the fare of a distance, a rounded
float, is an input. `RideSettlement` has the pricing row (`price`), the
settlement `entries`, the amount of the charge row and the number of earnings
recorded. `BeginComplete` is `_complete_ride_impl` up to its first flush, which
takes the row locks; `CommitComplete` is the rest, with the checks for existing
entries and an existing charge row; `AbandonComplete` an error before the commit.

`Payments` keeps our rows (`charge`, `refundRow`, `disputeRow`, `transferRow`,
`payoutRow`, `recorded`) apart from Stripe's objects (`intent`, `stripeRefund`,
`stripeDispute`, `stripePayout`, `events`), which are external. A request is
`BeginPay`, then `SkipStripe` or `CreateIntent`, then `CommitPay`; or
`BeginRefund`, `AskRefund`, `CommitRefund`; `DropRequest` is a crash. Stripe may
take a request into effect and the answer be lost. It may answer a refund with any
of `FirstAnswers` (pending, succeeded or failed), with or without an event, and
answers a repeated key as it did at first (`refundAnswer`), whatever became of the
refund; the row takes the status of the answer (`StatusOfAnswer`). `Webhook` delivers any event
sent, in any order and again and again; one that never comes stays in `events`.
`slips` is a history variable: the ways in which a row may have fallen behind.
There is no handler for `charge.dispute.closed`, and the key of a refund holds
the ride and the amount only, so a second refund of the same amount is the first.

`MarketLedger` has the rows of the two chains in id order, what each request has
yet to append, and its `outcome`. A hash is represented by the id of the row it
was computed from. `AppendFact` is `record_ledger_entry` and
`append_marketplace_event`, which link to the largest id that is visible.

### What drivers are told

`RideFeed` follows one ride. `visibility` is the `ride_visibility` row of each
driver, `attempts` the rows of `ride_claim_attempts`. A poll is `BeginPollFeed`
(the list is read), `LoadRow` and `CommitPollFeed` or, when the unique index
refuses an insert, `RefusePollFeed`; a hide is `BeginHideFeed` and its commit or
refusal; a claim is `BeginClaim`, then `WinClaim`, or `MissClaim` (the rollback),
`ReadMiss` (the ride is read again) and `RecordMiss` (the commit). `ClaimTooLate` is
a claim that reads at once that somebody has the ride; it too ends in `RecordMiss`.
Nothing holds the ride between that read and the commit, so a release, and another
driver's claim, may come in between: `outdated` are the attempts committed after the
release of the driver they name. `ReleaseClaim` and `EndRide` are whole. `View` is
`build_driver_scoped_transparency`. The code records a "conflict" of a driver
with themselves when they accept their own ride again, and the winner it names is
the first success on record, which is out of date once a ride was released and
claimed anew; the property says how much of the view can be relied on.

`Presence` has the columns of `driver_presence` (`requested`, `beat`),
`driver_status` (`online`, `seen`, `coords`) and the profile's `avail`. Times are
ages. Each endpoint computes new columns from what it read (`Begins`) and writes
those that differ at `CommitCall`; `PassTime` ages rows and requests alike.

`CityCells` has the current bucket (`slot`), the rows of both layers (`table`) and
what each thread is doing (`query`). `BeginCompute` counts, `DeleteBucket` and
`CommitBucket` replace the bucket's rows; the `Show...` and `Read...` actions are
the answers of `/v1/sil/map`, `/suggest`, `/v1/crl/map`, `/explain` and the
overview. Each row keeps what it was computed from. No unique index keeps a cell
to one row per bucket; suggestions are drawn from every bucket there ever was;
and since the baseline is the average of a one per ride, it is one, so at the
commute hours the commute is nearly always named as the cause.

`PoolStream` has the rides as the server knows them (`pool`, `offer`, `hidden`),
the deltas not yet published (`unsent`), the stream with its `snapshot` and
`queue`, and the cockpit (`cockpit`, `card`, `conflict`: `MapHome.jsx`). Handlers
publish after their commit from their own threads, so any delta may come first.
`Publish` to a full queue drops the subscriber and leaves the stream open.

### Accounts, the dossier slice and the video gate

`Accounts`: `Begin...` reads and checks, `Commit...` writes: login, rotation,
password change and reset. Reuse detection, expiry and logout everywhere are one
UPDATE each. A reset, unlike a change, leaves the sessions alone.

`DossierSpine`: `active` is `active_drivers`, `events` the trips' lifecycle events
in id order, `books` the ledger transactions. `BeginDemand` selects with
`FOR NO KEY UPDATE SKIP LOCKED`, which `Selectable` expresses by the demands in
flight; commits fail when a unique key has been taken. Each demand makes a new
trip, and a key only suppresses events: a retried demand makes a trip without an
event and dispatches a second driver to it, and a completion whose key another
trip has used frees the driver and pays nobody. A completion reads the trip's state
twice: `BeginTripComplete` is the first reading, the check of the split and the
ledger insert, `CheckAgain` the second reading in `complete_trip`, and then either
`CommitTripComplete` or `CommitInvalidTransition`, which commits the booking without
an event or a release. Three histories name the trips touched in these ways, and the
properties except exactly those. `mispaid`, which `SettledOnce` excepts: trips a
completion of their own ended with a used key, or paid for after another completion
had ended them. `suppressed` and `late`, which `TripsHoldDrivers` excepts:
`suppressed` are those a repeated key kept an event from; `late` those touched by a completion that had read an
older state, completed again what a repeated key had left open, or completed a
trip so touched, together with the trip whose driver it freed. It spreads: a
completion frees the driver whatever trip the driver is on by then, so a trip
that loses its driver in this way may, when it is completed, free the driver of a
third.

`ShotLoop`: `StartShot` saves a new manifest, `Generated` is one generation of a
batch, in any order; `AllFailed`, `Reject` and `Promote` are the three ends of a
round, `SaveApproved` the save that follows the copy, `Die` a crash at any point,
which leaves an `IN_PROGRESS` manifest for ever. `results` are the seeds of the
generations of the round as they complete, `drafts` the files they left, in the
same order. `Record` is `zip(batch_results, reports)` (`loop.py:394`): when a
generation failed, the reports of the others are put down under the wrong seeds,
which is why the property speaks of rounds in which every generation left one
file.

## 3. What the runs check

| Run | Instance | Shows |
|---|---|---|
| `board` | 2 drivers, 2 rides, 2 attempts; 56,145 states | the safety invariants, the action properties, and that `RideBoard` implements `RideAssignment` |
| `cascade` | 3 drivers, 1 ride, 3 attempts, fairness; 43,548 states | `CascadeMovesOn`: no offer stays open for ever |
| `attempts` | 3 drivers, 1 ride, 3 attempts | violated: a ride may be offered more often than `DISPATCH_MAX_ATTEMPTS` |
| `claim_races` | 3 drivers, 1 ride, 2 requests in flight; ledger: 3 requests; 363,911 states | nobody steals a ride; consistent unless a commit overwrote an unseen row; links of the hash chains hold, and only overlap forks them |
| `one_driver_races` | 1 driver, 2 rides, 2 requests in flight; 256,054 states | the `driver_status` lock serialises one driver's accepts |
| `lost_update` | 1 driver, 1 ride, 2 requests in flight | violated: a cancelled ride goes back to the pool |
| `idempotency` | keys: 2 threads, 2 keys, 1 retry, 3 requests per key; feed: 2 threads, 2 drivers; 1,910,530 states | one change per key, successes are real, only a crash or a lost session leaves a key in progress; hides hold, the transparency view fits |
| `stale_replay` | 1 thread, 2 retries | violated: a stored success is replayed for a change since undone |
| `money` | 2 threads, 1 ride, 5 settings; a charge of 3, 2 events; 2 completions; 1,218,236 states | routes, payments and settlement |
| `drivers` | 2 threads, 2 devices, 2 cells; 1,329,737 states | accounts, presence and the city maps |
| `market` | 2 threads, 2 drivers, 3 trips; 2 pool rides; 2 seeds, 2 rounds; 989,758 states | the dossier slice, the pool stream and the shot loop |
| `claimed_card` | 1 ride, 1 cockpit, fairness | violated: the card of a ride that somebody else claimed stays |

`money`, `drivers`, `market`, `idempotency` and `claim_races` check components that share no
state: a behaviour runs one and the others stay at their initial states, so the
state spaces add up instead of multiplying.

Properties of `RideBoard`:

- `OneActiveRidePerDriver`: offers ignore each other, and a driver may hold
  offers of several rides; the lookup at the claim is what keeps two active
  rides apart.
- `LedgerAgrees`, `SettledIffCompleted`, `StampsFitStatus`: tables and columns
  written by different statements of several handlers tell one story.
- `OpenLogIsTheOffer`, `NoSecondOffer`: whatever the order of offers, timeouts,
  late declines, claims and releases.
- `ExhaustionIsEarned`: exhaustion hits only unclaimed rides, after enough offers.
- `TerminalIsFinal`, `ClaimRespectsOffer`, `SuspensionStopsNewWork`: what no
  step may do.
- `CascadeMovesOn`: progress.

Properties of `IdempotentWrites`:

- `OneEffectPerKey`: over all copies, answers, refusals and crashes. It exempts
  keys whose handler raised an unexpected error: `except Exception` deletes the
  row even if the handler had already committed, and a late copy makes the
  change again.
- `SuccessIsReal`: a stored or fresh success is about a change that was made.
- `StuckOnlyByFailure`: a key that gets a 409 for ever was left by a crash or a lost
  session, after a commit of its handler; for a hide, which commits once, the hide
  was made. Nothing deletes such a row later.
- What does not hold, and is no property: a refusal is not final. An early copy
  may still be on its way when the driver is told that a later one was refused,
  and may succeed.

Properties of the other modules:

- `CleanRidesAgree` and the other properties of `RideSessions` speak of the rides that
  no stale commit touched. Two polls of one ride that lose an offer and an increment
  of the count leave an `overwritten` ride: the model contains it, and no property
  judges it.
- `ServedFresh`: an estimate in use was made at most a cache lifetime before its
  call began, although slow calls overwrite the entries of quicker ones.
- `RoadClaimsAreReal`: road routes are claimed only where OSRM answered, by
  snapshots, audits and receipts alike. The exception is written into it: the
  columns of a simulated or unrouted ride hold defaults that the audit takes for
  a road route.
- `OneIntent`, `CollectedIsReal`, `RefundsAreReal`: lost answers, repeated
  requests and reordered webhooks never charge twice, nor make the rows claim
  money that Stripe did not move, nor more of it than the charge, although the
  backend does not count pending refunds and Stripe's limit alone stands in the way.
- `QuietRowsAgree`: when every event has come, the rows agree with Stripe unless
  one of three named slips happened.
- `SettlementBalances`, `ChargeMatchesSettlement`: for all amounts and overlapping
  completions. `RepricedOnlyByOverlap`: a locked price that disagrees with its
  entries, or an earning counted twice, takes two completions at once.
- `AuditTrailHolds`, `ForkNeedsOverlap`: rollbacks never break a stored chain,
  both chains tell the claims of a committed request alike and in one order
  (`SameClaims`), and only requests in flight together fork a chain.
- `HideHolds`: a hide lasts exactly its time, but for polls that crossed it.
  `TransparencyFits`: attempts, winner and claimability against the ride, and a
  conflict names the driver who had the ride, but for those committed after its
  release, which name an earlier one.
- `SpentOnce`, `RevocationHolds`: rotation and reset spend a token once, and a
  revocation ends what came before it, but for requests that had read their rows.
- `RestHolds`: who went offline or paused is offered nothing, whatever heartbeats
  and polls still arrive.
- `BucketsAreWhole`, `ShownIsBacked`: one computation per bucket and facts behind
  what is shown, but for overlapping computations and torn answers. Those two are
  what this code does when requests overlap; the properties say that nothing else
  leads there.
- `TripsHoldDrivers`, `SettledOnce`: the dossier slice's drivers, trips and books,
  each with the exceptions of section 2.
- `IdleOverlooks`: the only reasons for which an idle cockpit may overlook a ride.
- `ApprovedIsReproducible`: an approved manifest names a file that is there, that
  was the best of its round, with the seed that made it, unless a generation of the
  round failed: then the seed may be wrong.

### Bounds

- `ReleaseBound`: no decline-ride once a ride has had that many offers. It is
  the only bound of `RideBoard`. With two drivers and `MaxAttempts = 2` every
  outcome occurs: offers declined, timed out, accepted and released; everybody
  asked with the ride open to all; exhaustion; a second leg after a release. Two
  rides are needed for two claims of one driver. The proofs have no such bound.
- `attempts` needs three drivers, since an offer is never repeated unless it was
  accepted, and a bound of four offers to let the fourth happen.
- `RideSessions`: two requests in flight. Every race the code is exposed to is
  between a reader and one commit that it misses. Three drivers give a holder,
  a rival and a third who may be offered the ride. A ride that lost an update
  gets no new requests, since there is nothing left to keep for it; requests in
  flight still commit. Approvals are fixed there.
- Deadlock is not checked in the session runs: once every ride has ended,
  nothing remains to be done.
- `IdempotentWrites`: `MaxKeys` and `MaxSends` bound the app. Two keys let a copy
  of the old one arrive when the new one is in use; three requests per key are a
  tap with its retry and a second tap. The code's two retries are in
  `stale_replay`; the theorems hold for any number. The app may stop once its keys
  are used up, so deadlock is not checked.
- `RideFeed`: two drivers, two threads. A hide lasts one tick and the clock makes
  one, so hides run out; three claim attempts are a win, a miss and another win
  after a release, in the order that makes the miss outdated included; that takes
  one release (`MaxReleases`).
- `RouteTruth`: a tick is 30 seconds; the route cache lasts two, the signal caches
  one (ODOT) or three (WSDOT), the clock makes two: entries expire, and a call may
  be older than the entry that it writes. One record is enough, as every claim is
  about one. The five settings reach every branch of the provider choice.
- `Payments`: a charge of three cents can be refunded whole or in parts of one and
  two, which may be pending or have succeeded together, while a further refund of
  three is asked for, which the charge no longer covers. Stripe answers a refund with pending or succeeded at
  first, and the theorems add failed; two events are one overtaken by another.
  The dispute, transfer and payout rows and the Connect account are there because
  their webhooks share the handler and its record of deliveries; no property is about
  their values. `RideSettlement`: two
  completions, fares with and without a distance, extras that are absent, zero and
  negative. `MarketLedger`: three requests let two fork while a third rolls back.
- `Accounts`: three tokens are a login and two rotations of it; two revocations,
  one reset token. `Presence`: stale, disconnected and fresh limits of one, two and
  one ticks keep the order of the code's; two devices.
- `CityCells`: the gates are the code's numbers (5 requests, 3 drivers, 20
  samples); a cell has few requests and the speeds of three drivers, or many requests
  and the speeds of two, so that each gate is passed by one and failed by the other. Two computations
  overlap in every way, in two buckets. Two cells tell a full recount from a
  partial one.
- `DossierSpine`: three trips, two keys: a retry and the reuse of a key for another
  trip. `PoolStream`: a queue of one for the code's 100, since what matters is
  that it may be full; `MaxUnsent` bounds the deltas between commit and
  publication. `ShotLoop`: two seeds, two rounds and at most two files per
  generation, a cap of three candidates that is hit in the middle, two runs.
- Deadlock is not checked in the summed runs: every component may come to its end.
- Symmetry is over drivers, rides, threads, devices, cells and requests, which
  nothing orders, where it makes a run smaller (in the summed runs, over threads). Runs with liveness use none.

### Fairness

`LiveSpec` assumes strong fairness of one thing: a poll by an eligible driver at
a time when the open offers are due. The driver app polls on a timer, so while
drivers keep being eligible some poll comes after each deadline; it is strong
because approvals and active rides make eligibility come and go. Nothing is
assumed of people: nobody has to accept, decline, drive, cancel or review. If no
driver is ever eligible, the code processes no timeout, and the property says
nothing either (its left side).

`PoolSpec` assumes weak fairness of what runs by itself: the publication of a
committed delta, the opening of the stream by an idle cockpit, its subscription,
the reading of what has arrived, and the countdown of a card. No person has to
act, and a delta may still be lost: to a full queue or to a stream that was closed.

## 4. Where code and documents disagree

- `attempts`: `docs/RIDE_003_DISPATCH_CASCADE_REPORT.md:34` calls
  `DISPATCH_MAX_ATTEMPTS` the "Max sequential offers before exhaustion";
  `start_dispatch_for_ride` does not look at the count, and decline-ride keeps
  it, so a ride given back after the last offer is offered again.
- `lost_update`: the documents call ended rides immutable. Apart from the claim,
  handlers check the status that they read and write the new one later, and a
  cancellation committed in between is overwritten.
- `stale_replay`: the slice document asks for a "stable key per user intent" and
  a replay "within TTL". The key in `idempotencyKeys.js` is per (ride, action)
  until a success is heard, and stored answers do not expire. After an unheard
  success and an undo, the next tap is answered 200 and does nothing. For hide
  all of it can happen in `MapHome.jsx`; a release of an accepted ride needs
  `decline-ride`, which `RideList.jsx` calls and no route shows at present.
- `claimed_card`: the stream's contract (`docs/SSE_RIDE_POOL_V0_1.md:12`) removes
  a claimed ride from the cockpit. `MapHome.jsx` closes the stream while a card is
  shown, so the delta never reaches the card it is about; unless the card has a
  countdown, it stays until the driver acts and is refused.
- Not a run: `rider_rides.py:6` and `docs/RIDE_LIFECYCLE_CONTRACT.md:16` say that
  a customer may cancel from `requested` or `accepted` only, while the table in
  `lifecycle.py` and `docs/RIDE_001_STATE_MACHINE_GUARDS_REPORT.md:40` also allow
  it at the pickup and under way. The model follows the code.

## 5. What is proved

`RideBoardProofs` proves, for every set of drivers and rides, every
`MaxAttempts` and `ReleaseBound` and both dispatch modes, each safety property of
the `board` run as a theorem of `Spec`, and that `Spec` implements
`RideAssignment`. The assumptions are that `NoDriver` is not a driver and that
`MaxAttempts` is a natural number.

Invariants such as `OpenLogIsTheOffer` are not inductive alone. The inductive
invariant `IInv` joins

- `TypeOK`;
- `RowOK` of every row: driver, log, stamps and reason fit the status. They lean
  on each other: a cancelled row may keep an open log, because a customer's
  cancellation does not close it, but not if the dispatcher gave the ride up;
- `OpenBoardFits`: on an open board there are no offers and no open logs, so that
  a decline cannot withdraw one that another driver relies on;
- one active ride per driver, the ledger's holder as a function of the row, and
  settlement.

Nearly all of it is about one row, so it is proved first of the row functions
(`OfferedOK` ... `CancelledOK`), then of each handler. `StepOK` collects what a
step must establish: `IInv'`, the three action properties and the abstract step.
`OneRowStep` derives it from facts about the one row that a handler changes;
`PollAvailableRidesOK`, the one handler that changes many, is done directly.
The theorems at the end follow by temporal reasoning.

The other theorems are laid out in the same way: an inductive invariant of named
parts, one lemma for each action or group of actions, a lemma for the steps that
change one row or one request only, and at the end the theorems by temporal
reasoning. What follows says what each invariant adds to its properties and why
it is needed.

`RideSessionsProofs` proves `NoTheft`, `OneCleanRidePerDriver` and
`CleanRidesAgree` for any number of threads, drivers and rides. `RowOK` does not
survive concurrency: a claim may merge with an offer it has not seen. What
survives is the trip of a row, its status, driver and stamps (`TripOK`), on every
ride that is not `overwritten` (`CleanRow`). A request in flight is described by
what it does to the trip that it read (`SessionOK`), in terms of the row functions
whose lemmas `RideBoardProofs` states. Of one driver's accepts and polls, one at a
time is in flight (`OneLockEach`), and an accept in flight is of a driver who has
no clean ride (`ClaimersAreFree`): the `driver_status` lock, without which a driver
could take two rides at once. `NoTheft` is an action property and follows from the steps.

`RideWritesProofs`, first part: the four invariants of `IdempotentWrites` for any
number of workers, retries, keys and sends, from the assumption that the three
bounds are natural numbers. The invariant relates each row to the request being
served with its key (`RequestOK`: at most one, at the stage that the row shows; a
request that lost its claim has none) or to the crash or lost session that left it,
and to the changes made (`RowOK`), and bounds what a waiting tap may still send
(`AppInv`). `OneKeyStep` reduces a server step to the one key and the one worker it
is about; `AnswerOK` treats the answer.

`RideWritesProofs`, second part: `HideHolds` and `TransparencyFits` for any number
of drivers, requests, ticks and attempts. For a hide in force there is no poll in
flight that would write over the row (`Undoes`, `AsPromised`), and a row that a
request read is still there when it commits (`StillThere`). The list of attempts
grows at its end, so the last success is known by its position. A claim in flight
names a driver with a success on record, and the last one unless the ride was
released since it read (`ToldFits`), so each conflict keeps a success it was
against. The number of successes is the cardinality of
the set of their positions, which are finitely many.

`MoneyProofs`, settlement: the three properties of `RideSettlement` for every
policy, fare, fee and any number of completions. Every breakdown a
request holds is sound (it was made by `Breakdown`, so its parts add up), and the
entries and the charge row of a completed ride come from one such breakdown; only
a completion that overlapped another leaves a request open after it. Nothing is
said of the pricing row's soundness after an overlap, and nothing may be: a flush
writes the columns that changed, so the row may mix two breakdowns, and the
entries do not depend on it.

`MoneyProofs`, hash chains: `ForkNeedsOverlap` and `AuditTrailHolds` for any number
of requests and any scripts. A row names a row that its request saw, and links
past an earlier row only if their requests met or the earlier one was rolled back;
a request that has not begun has no rows. The chains tell claims alike at every
moment, since a step appends a claim to both (`ClaimsAgree`); the correspondence of
the two sets of positions is carried from step to step.

`MoneyProofs`, payments: `OneIntent` and `CollectedIsReal` for every amount, number
of threads and number of events. The invariant rests on Stripe never taking an end
back: an event that comes late is still true of its object, so writing it can make
a row old and not false. A request that holds Stripe's answer to a refund may
commit it at any later time: the refund is there, and an answer other than pending
is final.

`MoneyProofs`, quiet rows: `RefundsAreReal` and `QuietRowsAgree`. `QuietInv` says
that Stripe's newest event on an object tells how it stands (`StripeTells`), that
without a slip a row says what the newest event heard said and nothing was heard
before there was a row (`InStep`), and what each request has read and been answered
(`RequestsKnow`). When all events have been heard, the newest heard is Stripe's
newest. `Budget` is the sum:
the refunds at Stripe that have succeeded or still may are within the charge. It is
stronger than the property, which counts the refunds that succeeded, and inductive
because a refund that fails leaves room for another.

`RouteTruthProofs`: `ServedFresh` and `RoadClaimsAreReal` for any number of threads
and rides. An estimate is backed by an answer of OSRM no older than itself
(`EstimateOK`). The cache is filed under a time no later than its estimate's, so
the entry of a slow thread expires early and never late; a call in flight holds an
estimate made since it began, or one from the cache within its lifetime (`CallOK`).
Each record made of an estimate keeps what it rests on (`BookingOK`).

`DriversProofs`, accounts: `SpentOnce` and `RevocationHolds` for any number of
threads, tokens, resets and revocations. The invariant adds what
requests in flight hold: a token that has been spent is revoked, and a request
that still holds it has raced; a rotation's token belongs to a session that began
after the last revocation the rotation saw, or is one of the late ones.

`DriversProofs`, presence: `RestHolds` for any number of devices. While the driver
is stopping, one request says so, no other in flight says what they want, and its
outcome column by column is rest (`StopsWith`, `Outcome`); once they have stopped,
the requested state is rest and no request in flight wants otherwise (`Stopped`). A
request that does not say what the driver wants leaves the requested state alone
(`RequestOK`), which is what every endpoint has to be checked for.

`DriversProofs`, city maps: both properties for any cells, counts, contexts and
gates within the assumptions. A computation that has deleted and not committed
knows every row of its bucket or has crossed the computation that stored it;
numbers are used once; the rows held by an answer that is not torn are still in
the table.

`MarketProofs`, the stream: `IdleOverlooks` for any number of rides and any queue.
While a stream is open, each ride that could be taken is in the snapshot, queued,
about to be published or excepted (`Announced`); when nothing is on its way, the
exceptions are left.

`MarketProofs`, the dossier slice: `TripsHoldDrivers` and `SettledOnce` for any
number of drivers, workers, trips, keys and splits. The state of a trip is that of
its last event, so the lemmas say what appending one trip's events does to the
states and drivers of all trips (`LogGrows`, `LogStays`). An open transaction is
described by what it will append: a demand ends with the choice of a driver whose
row it keeps locked and available (`DemandOK`, `Apart`), a completion has at most one
booking, and one event, none, or one that it refused, before and after its second
reading (`CompletionOK`; `CompletionReadsOn` and `RefusalCommits` are the steps of
that reading). The two properties need different histories and are carried apart:
`TripHolds` over `suppressed` and `late`, `TripPaid` over `mispaid`, which does not
spread from trip to trip. The attempt to prove this showed that `late` used
to stop one step too early: with four trips and four keys a trip that lost its
driver to a late completion could, on completion, free the driver of a trip that
neither history named, and `TripsHoldDrivers` was false. The history now follows
the chain; with three trips and two keys, the instance of the run, the difference
does not show.

`MarketProofs`, the shot loop: `ApprovedIsReproducible` for any seeds, findings,
number of rounds, candidates and files. Files and seeds of a round stand at the
same positions while every generation left one file (`BatchInv`); while the loop
runs, every candidate on record is from an earlier round and was rejected
(`RejectedSoFar`), so a file of this round is on record at most once and with the
verdict of this round.

`CountingLemmas` holds what these proofs share: a set of positions has a greatest
and a least member, and `SumOver`, what `SumFunctionOnSet` is over any finite set:
there is a function that has the sums, a sum is taken apart at any element, and it
does not shrink as the set grows. The library defines the sum by recursion over
subsets and its induction principles are about operators; here induction is stated
over a set (`SetInduction`, from the well-foundedness of strict inclusion), and
the recursion is shown to have one solution.

The assumptions are those named in the modules: ranges of the constants, that
`MinDemand` is at least two, that policies and extras have their types. TLC
evaluates them in the runs. Each component's types, as far as the proofs need
them, are part of its inductive invariant. No bound is given a value.

So every safety property that a run checks is a theorem, action properties and
the refinement of `RideAssignment` included. Only model-checked are

- liveness (`CascadeMovesOn`), which is out of the prover's reach;
- the four properties of the runs that end in a violation, which are false.

## 6. Not modelled

- Positions, texts, notifications, counters and events that nothing reads back.
- The arithmetic of distances in floats, and the loading of a pricing policy from
  the database: the policy is a constant.
- Row ids: SQLite reuses the id of a row that `claim_ride` rolled back, which
  `abandon_in_progress` then deletes by that id.
- The database's own deadlock detection, and two open logs of one driver for one
  ride, which the session model counts as one.
- Presence inside `RideBoard`, beyond being an input: any set of drivers may be
  online at any request, which includes every history `Presence` can produce.
- Password hashing, the encoding of tokens and rate limits, which count attempts in
  memory. `users.is_active` never changes at run time.
- What Stripe does beyond the changes listed in `Payments`, OSRM and the signal
  feeds: external, any answer they may give.
- What an audit of the video gate finds in a file, its probes and report writers.
- Profiles, settings, messages and notifications: rows that only their owner writes
  and reads. Routers that `main.py` does not mount, the legacy frontends and the
  deployment files: nothing of the running system depends on them.
- The remaining parts of components marked `partly` in `PROJECT.json`, with the
  reason there.

## 7. Plan

Done: sections 2 to 5. Next:

1. Composition of `RideSettlement` and `Payments`: a completion whose commit fails
   after Stripe has created the intent, with the amounts of the retry; then its
   invariant as a theorem.
2. An abstract specification of one claim of a ride that `RideSessions` implements
   on the rides no stale commit touched, in the way `RideBoard` implements
   `RideAssignment`.
3. A liveness property of `PoolStream` for cards with a countdown.
