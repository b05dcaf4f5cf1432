------------------------------ MODULE RouteTruth ------------------------------
(***************************************************************************)
(* Where a ride's distance comes from, and what the records say about it.  *)
(* route() asks the self-hosted OSRM, falls back to a straight line, adds  *)
(* a buffer for official traffic signals, and caches the result for a      *)
(* minute; ride creation, route quotes and their proof receipts, and the   *)
(* snapshots kept as evidence name the provider that answered.             *)
(*                                                                         *)
(* All calls are for one route (one cache key) served by concurrent        *)
(* threads; the caches are plain dictionaries without a lock.  A tick is   *)
(* 30 seconds.  A feed's answer keeps of each item whether its coordinates *)
(* parse, whether it is near the route, and whether it is a flow reading   *)
(* of some weight; a route result keeps who answered, when, and its buffer.*)
(***************************************************************************)
EXTENDS Integers, FiniteSets, FiniteSetsExt

CONSTANTS
  RouteWorkers,  \* threads that need the route
  RouteRides,    \* rides to be created
  Settings,      \* the environment's settings, see RouteInit
  Feeds,         \* what the signal feed may answer
  LastTick,      \* the bound on the clock
  MaxRecords     \* the bound on the rides and receipts

NoEntry == [at |-> -10]
NoRide == [provider |-> "none"]
Resting == [pc |-> "idle"]
Viewing == [pc |-> "fetch"]

RouteTTL == 2                                          \* _ROUTE_CACHE_TTL_SECONDS
SignalTTL(region) == IF region = "wsdot" THEN 3 ELSE 1 \* _WSDOT_TTL, _ODOT_TTL

VARIABLES
  env,          \* settings read from the environment, fixed while it runs
  clock,
  routeCache,   \* _ROUTE_CACHE's entry for the route
  signalCache,  \* _SIGNAL_CACHE's entry for the route's region
  work,         \* worker -> the call it is in
  booked,       \* ride -> its route fields and its snapshots
  receipts,     \* proof receipts of route quotes
  answered      \* history: the last tick at which OSRM answered with a route

routeVars == <<env, clock, routeCache, signalCache, work, booked, receipts, answered>>

RouteInit ==
  /\ env \in Settings   \* [provider, fallback, signals, region, keyed]
  /\ clock = 0
  /\ routeCache = NoEntry /\ signalCache = NoEntry
  /\ work = [w \in RouteWorkers |-> Resting]
  /\ booked = [r \in RouteRides |-> NoRide]
  /\ receipts = {} /\ answered = NoEntry.at

-----------------------------------------------------------------------------
(* Estimates *)

OsrmEstimate ==
  [provider |-> "osrm_self_hosted", fallback |-> FALSE, confidence |-> "medium",
   at |-> clock, buffer |-> 0]

StraightLine ==
  [provider |-> "haversine_fallback", fallback |-> TRUE, confidence |-> "low",
   at |-> clock, buffer |-> 0]

\* parse_osrm_route_response refuses every answer but "Ok" with a positive distance;
\* a failure of any kind becomes None.
OsrmAnswers == {"route", "no route", "zero distance", "unreachable"}
TryOsrm(answer) == IF answer = "route" THEN {OsrmEstimate} ELSE {}

\* No element: the call raises.
ResolveEstimate(answer) ==
  LET osrm == TryOsrm(answer) IN
  CASE env.provider = "haversine_fallback" -> {StraightLine}
    [] env.provider = "valhalla_self_hosted" -> {}
    [] env.provider = "osrm_self_hosted" ->
         IF osrm # {} THEN osrm ELSE IF env.fallback THEN {StraightLine} ELSE {}
    [] OTHER -> IF osrm # {} THEN osrm ELSE {StraightLine}

-----------------------------------------------------------------------------
(* Traffic signals *)

Alerts(feed) == {i \in feed.alerts : i.located}
Flows(feed) == {i \in feed.flows : i.located /\ i.heavy}
OdotIncidents(feed) == Alerts(feed)

\* WSDOT adds the flow readings, when that second request succeeds.
SignalsOf(feed) ==
  IF env.region = "wsdot" THEN Alerts(feed) \union Flows(feed) ELSE OdotIncidents(feed)

NearRoute(signals) == {i \in signals : i.near}
EtaBuffer(n) == Min({10, n * 2})

\* resolve_traffic_signals_for_route, given what the feed or its cache returned.
Resolved(signals) ==
  [buffer |-> EtaBuffer(Cardinality(NearRoute(signals))),
   confidence |-> IF signals # {} THEN "medium" ELSE "low"]

\* Signals off: the estimate stays.  Signals on: an OSRM route takes the signals'
\* confidence, "low" when there are none, and a straight line keeps its own.
ApplySignals(est, signals) ==
  IF ~env.signals THEN est
  ELSE LET s == Resolved(signals) IN
       [est EXCEPT !.buffer = s.buffer, !.confidence = IF est.fallback THEN @ ELSE s.confidence]

\* The region has a provider and its key is configured: a feed is asked at all.
AsksFeed == env.signals /\ env.region # "none" /\ env.keyed

SignalsFresh == signalCache.at >= clock - SignalTTL(env.region)

RouteFresh == routeCache.at > clock - RouteTTL

-----------------------------------------------------------------------------
(* Calls *)

Step(w, next) == work' = [work EXCEPT ![w] = next]

\* route(): the cache is read and the call's time taken.  What it is for shows when its
\* estimate is used: a rider's ride, a simulated ride, or a route quote.
StartCall(w) ==
  /\ work[w] = Resting
  /\ Step(w, IF RouteFresh
             THEN [pc |-> "use", since |-> clock, est |-> routeCache.est]
             ELSE [pc |-> "resolve", since |-> clock])
  /\ UNCHANGED <<env, clock, routeCache, signalCache, booked, receipts, answered>>

ResolveRoute(w, answer) ==
  /\ work[w].pc = "resolve"
  /\ answered' = IF OsrmEstimate \in ResolveEstimate(answer) THEN clock ELSE answered
  /\ IF ResolveEstimate(answer) = {}
     THEN Step(w, Resting)
     ELSE \E est \in ResolveEstimate(answer) :
            Step(w, [pc |-> "signals", since |-> work[w].since, est |-> est])
  /\ UNCHANGED <<env, clock, routeCache, signalCache, booked, receipts>>

\* Mutant: an entry is stamped with the time it is written.
StampedNow(since) == clock

\* An entry is stamped with the time its call began.
Stamp(since) == since

\* The call's end: the entry goes to the cache, over whatever another call put there.
Estimated(w, signals) ==
  LET est == ApplySignals(work[w].est, signals) IN
  /\ routeCache' = [at |-> Stamp(work[w].since), est |-> est]
  /\ Step(w, [pc |-> "use", since |-> work[w].since, est |-> est])

\* No feed is asked, or its cached answer still serves.
WithoutFetch(w) ==
  /\ work[w].pc = "signals"
  /\ \/ ~AsksFeed /\ Estimated(w, {})
     \/ AsksFeed /\ SignalsFresh /\ Estimated(w, signalCache.signals)
  /\ UNCHANGED <<env, clock, signalCache, booked, receipts, answered>>

StartFetch(w) ==
  /\ work[w].pc = "signals" /\ AsksFeed /\ ~SignalsFresh
  /\ Step(w, [work[w] EXCEPT !.pc = "fetch"])
  /\ UNCHANGED <<env, clock, routeCache, signalCache, booked, receipts, answered>>

\* fetch_odot_signals, fetch_wsdot_signals: the answer is cached when it is there, and
\* a failure is an empty answer that is not cached.
EndFetch(w, feed) ==
  /\ work[w].pc = "fetch"
  /\ signalCache' = [at |-> clock, signals |-> SignalsOf(feed)]
  /\ IF work[w] = Viewing
     THEN Step(w, Resting) /\ UNCHANGED routeCache
     ELSE Estimated(w, SignalsOf(feed))
  /\ UNCHANGED <<env, clock, booked, receipts, answered>>

FailFetch(w) ==
  /\ work[w].pc = "fetch"
  /\ IF work[w] = Viewing
     THEN Step(w, Resting) /\ UNCHANGED routeCache
     ELSE Estimated(w, {})
  /\ UNCHANGED <<env, clock, signalCache, booked, receipts, answered>>

\* GET /drivers/traffic-signals: the same feeds and cache, no route.  Without a feed to
\* ask, or with a fresh answer, it changes nothing and is left out.
ViewSignals(w) ==
  /\ work[w] = Resting
  /\ AsksFeed /\ ~SignalsFresh
  /\ Step(w, Viewing)
  /\ UNCHANGED <<env, clock, routeCache, signalCache, booked, receipts, answered>>

-----------------------------------------------------------------------------
(* Records *)

\* History: OSRM answered at most a cache lifetime before a call that began at `since`,
\* or during it.
Backed(since) == answered > since - RouteTTL

\* apply_map_foundation_defaults on a row without route fields: the provider set, whether
\* or not it was asked.
MapDefaults == [provider |-> env.provider, confidence |-> "medium"]

FieldsFromEstimate(est) == [provider |-> est.provider, fallback |-> est.fallback]
FieldsFromRide(row) ==
  [provider |-> row.provider, fallback |-> row.provider = "haversine_fallback"]

\* Mutant: a ride that nothing was estimated for is labelled by its default provider.
SkippedAsRouted(row) == FieldsFromRide(row)

\* create_route_snapshot without an estimate, at creation (estimate_skipped).
SkippedSnapshot(row) == [FieldsFromRide(row) EXCEPT !.fallback = TRUE]

\* A booked ride: its route columns, its two snapshots (a ride that is not complete has
\* its quote snapshot in both places), and for the properties whether OSRM is behind it
\* and whether its columns describe an estimate.
Row(fields, quote, since, routed) ==
  [provider |-> fields.provider, confidence |-> fields.confidence,
   quote |-> quote, last |-> quote, backed |-> Backed(since), routed |-> routed,
   complete |-> FALSE]

RecordsLeft ==
  Cardinality({r \in RouteRides : booked[r] # NoRide}) + Cardinality(receipts) < MaxRecords

Book(r, row) ==
  /\ booked[r] = NoRide /\ RecordsLeft
  /\ booked' = [booked EXCEPT ![r] = row]

\* POST /rides with coordinates.
BookRouted(w, r) ==
  /\ work[w].pc = "use"
  /\ LET est == work[w].est IN
       Book(r, Row(est, FieldsFromEstimate(est), work[w].since, TRUE))
  /\ Step(w, Resting)
  /\ UNCHANGED <<env, clock, routeCache, signalCache, receipts, answered>>

\* POST /drivers/simulate-ride: a distance in the body, 4 km unless given as 0, keeps the
\* defaults on the row; the snapshot is the estimate's either way.
BookSimulated(w, r, supplied) ==
  /\ work[w].pc = "use"
  /\ LET est == work[w].est IN
       Book(r, Row(IF supplied THEN MapDefaults ELSE est, FieldsFromEstimate(est),
                   work[w].since, ~supplied))
  /\ Step(w, Resting)
  /\ UNCHANGED <<env, clock, routeCache, signalCache, receipts, answered>>

\* POST /rides without coordinates: nothing is estimated.
BookUnrouted(r) ==
  /\ Book(r, Row(MapDefaults, SkippedSnapshot(MapDefaults), clock, FALSE))
  /\ UNCHANGED <<env, clock, routeCache, signalCache, work, receipts, answered>>

\* complete-ride adds a snapshot taken from the row.
CompleteBooked(r) ==
  /\ booked[r] # NoRide /\ ~booked[r].complete
  /\ booked' = [booked EXCEPT ![r].last = FieldsFromRide(booked[r]), ![r].complete = TRUE]
  /\ UNCHANGED <<env, clock, routeCache, signalCache, work, receipts, answered>>

ProofLevel(method, fallback) ==
  CASE fallback \/ method = "fallback_straight_line" -> "B_APPROXIMATE"
    [] ~fallback /\ method = "osrm_route" -> "A_ROAD_ACCURATE"
    [] OTHER -> "C_NONE"

RouteMethod(est) ==
  IF est.fallback \/ est.provider = "haversine_fallback"
  THEN "fallback_straight_line" ELSE "osrm_route"

\* POST /v1/sil/route/quote: quote and receipt in one transaction.
QuoteRoute(w) ==
  /\ work[w].pc = "use" /\ RecordsLeft
  /\ receipts' = receipts \union
       {[level |-> ProofLevel(RouteMethod(work[w].est), work[w].est.fallback),
         backed |-> Backed(work[w].since)]}
  /\ Step(w, Resting)
  /\ UNCHANGED <<env, clock, routeCache, signalCache, booked, answered>>

\* Time passes; the calls of a process that restarts are lost with its caches.
Tick == clock < LastTick /\ clock' = clock + 1
        /\ UNCHANGED <<env, routeCache, signalCache, work, booked, receipts, answered>>

RestartRouting ==
  /\ routeCache # NoEntry \/ signalCache # NoEntry
  /\ routeCache' = NoEntry /\ signalCache' = NoEntry
  /\ work' = [w \in RouteWorkers |-> Resting]
  /\ UNCHANGED <<env, clock, booked, receipts, answered>>

RouteNext ==
  \/ \E w \in RouteWorkers : StartCall(w) \/ ViewSignals(w) \/ QuoteRoute(w)
  \/ \E w \in RouteWorkers, a \in OsrmAnswers : ResolveRoute(w, a)
  \/ \E w \in RouteWorkers : WithoutFetch(w) \/ StartFetch(w) \/ FailFetch(w)
  \/ \E w \in RouteWorkers, f \in Feeds : EndFetch(w, f)
  \/ \E w \in RouteWorkers, r \in RouteRides : BookRouted(w, r)
  \/ \E w \in RouteWorkers, r \in RouteRides, s \in BOOLEAN : BookSimulated(w, r, s)
  \/ \E r \in RouteRides : BookUnrouted(r) \/ CompleteBooked(r)
  \/ Tick
  \/ RestartRouting

RouteSpec == RouteInit /\ [][RouteNext]_routeVars

-----------------------------------------------------------------------------
(* What readers are told *)

\* build_route_snapshots_driver_read: straight line, or the provider's name.
ReadAsFallback(row) ==
  row.provider = "haversine_fallback" \/ row.quote.fallback \/ row.last.fallback

\* _route_truth_block of the trip audit.
AuditAsFallback(row) == row.provider = "haversine_fallback"

-----------------------------------------------------------------------------
(* Properties *)

\* An estimate in use was made at most a cache lifetime before its call began, whichever
\* call wrote the entry and however slow that call's signal feed was.
ServedFresh ==
  \A w \in RouteWorkers :
    work[w].pc = "use" => work[w].est.at > work[w].since - RouteTTL

\* Whoever reads a ride's route snapshots is told of a road route only where OSRM gave
\* one, simulated and unrouted rides included; so is the trip audit, but for the rides
\* whose columns are the defaults.  A road-accurate receipt has OSRM behind it.
RoadClaimsAreReal ==
  /\ \A r \in RouteRides : booked[r] # NoRide =>
       LET row == booked[r] IN
       /\ ~ReadAsFallback(row) => row.backed
       /\ row.routed /\ ~AuditAsFallback(row) => row.backed
       /\ row.routed /\ row.confidence = "medium" => row.backed
  /\ \A q \in receipts : q.level = "A_ROAD_ACCURATE" => q.backed
=============================================================================
