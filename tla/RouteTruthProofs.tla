-------------------------- MODULE RouteTruthProofs --------------------------
(***************************************************************************)
(* Proofs about RouteTruth, for any number of threads and rides and any    *)
(* times at which OSRM answers or fails: a route that is served is fresh,  *)
(* and what is recorded of a ride claims a road route only where OSRM has  *)
(* answered.                                                               *)
(*                                                                         *)
(* An estimate carries the time of the answer it rests on.  A call in      *)
(* flight holds one that is no older than the call, or than the lifetime   *)
(* of the cache before it; the cache is filed under a time that is not     *)
(* later than its estimate, which is why a thread that stores late does no *)
(* harm.                                                                   *)
(***************************************************************************)
EXTENDS RouteTruth, TLAPS

\* An estimate says straight line exactly when it fell back, and is backed by an answer
\* of OSRM no older than itself otherwise.
EstimateOK(est) ==
  /\ est = [provider |-> est.provider, fallback |-> est.fallback, confidence |-> est.confidence,
            at |-> est.at, buffer |-> est.buffer]
  /\ est.fallback \in BOOLEAN /\ est.at \in Int
  /\ est.fallback <=> est.provider = "haversine_fallback"
  /\ est.fallback => est.confidence = "low"
  /\ ~est.fallback => est.at <= answered

\* A call carries the time it began, and an estimate that is not older; one taken from
\* the cache may be older by less than the cache's lifetime.
CallOK(q) ==
  \/ q \in {Resting, Viewing}
  \/ /\ q = [pc |-> "resolve", since |-> q.since]
     /\ q.since \in Int /\ q.since <= clock
  \/ /\ q = [pc |-> q.pc, since |-> q.since, est |-> q.est]
     /\ q.pc \in {"signals", "fetch", "use"}
     /\ q.since \in Int /\ q.since <= clock
     /\ EstimateOK(q.est)
     /\ IF q.pc = "use" THEN q.est.at > q.since - RouteTTL ELSE q.est.at >= q.since

\* What is recorded of a ride claims no road route without an answer of OSRM.
BookingOK(row) ==
  /\ row = [provider |-> row.provider, confidence |-> row.confidence, quote |-> row.quote,
            last |-> row.last, backed |-> row.backed, routed |-> row.routed,
            complete |-> row.complete]
  /\ ~(row.provider = "haversine_fallback" \/ row.quote.fallback) => row.backed
  /\ row.routed /\ ~AuditAsFallback(row) => row.backed
  /\ row.routed /\ row.confidence = "medium" => row.backed

RouteInv ==
  /\ clock \in Nat /\ answered \in Int /\ answered <= clock
  /\ routeCache # NoEntry =>
       /\ routeCache = [at |-> routeCache.at, est |-> routeCache.est]
       /\ routeCache.at \in Int /\ EstimateOK(routeCache.est)
       /\ routeCache.est.at >= routeCache.at
  /\ DOMAIN work = RouteWorkers /\ DOMAIN booked = RouteRides
  /\ \A w \in RouteWorkers : CallOK(work[w])
  /\ \A r \in RouteRides : booked[r] # NoRide => BookingOK(booked[r])
  /\ \A q \in receipts : q.level = "A_ROAD_ACCURATE" => q.backed

\* What a later answer of OSRM, or the clock, leaves true of an estimate and of a call.
LEMMA EstimateStays ==
  ASSUME RouteInv, answered' \in Int, answered' >= answered, NEW est, EstimateOK(est)
  PROVE  EstimateOK(est)'
<1>1. answered \in Int BY DEF RouteInv
<1> QED BY <1>1 DEF EstimateOK

\* So a call that is not touched by a step stays as described.
LEMMA CallStays ==
  ASSUME RouteInv, answered' \in Int, answered' >= answered, clock' \in Int, clock' >= clock,
         NEW q, CallOK(q)
  PROVE  CallOK(q)'
<1>1. \A est : EstimateOK(est) => EstimateOK(est)' BY EstimateStays
<1>2. clock \in Int BY DEF RouteInv
<1> QED BY <1>1, <1>2 DEF CallOK

\* A step that changes at most one call, and keeps the records, keeps the invariant.
LEMMA OneCallStep ==
  ASSUME RouteInv, UNCHANGED clock, answered' \in Int, answered' >= answered, answered' <= clock,
         NEW w \in RouteWorkers, NEW next, Step(w, next), CallOK(next)',
         \/ UNCHANGED routeCache
         \/ \E at, est : /\ routeCache' = [at |-> at, est |-> est]
                         /\ at \in Int /\ EstimateOK(est)' /\ est.at >= at,
         DOMAIN booked' = RouteRides,
         \A r \in RouteRides : booked'[r] \in {NoRide, booked[r]} \/ BookingOK(booked'[r]),
         \A q \in receipts' \ receipts : q.level = "A_ROAD_ACCURATE" => q.backed
  PROVE  RouteInv'
<1>1. /\ DOMAIN work' = RouteWorkers /\ work'[w] = next
      /\ \A v \in RouteWorkers \ {w} : work'[v] = work[v]
  BY DEF RouteInv, Step
<1>2. clock' = clock /\ clock \in Nat BY DEF RouteInv
<1>3. \A q : CallOK(q) => CallOK(q)' BY <1>2, CallStays
<1>4. \A v \in RouteWorkers : CallOK(work[v])'
  <2>1. ASSUME NEW v \in RouteWorkers, v # w PROVE CallOK(work[v])'
    <3>1. PICK q : q = work[v] OBVIOUS
    <3>2. CallOK(q)' /\ work'[v] = q BY <1>1, <1>3, <2>1, <3>1 DEF RouteInv
    <3> QED BY <3>2 DEF CallOK, EstimateOK
  <2>2. CallOK(work[w])' BY <1>1 DEF CallOK, EstimateOK
  <2> QED BY <2>1, <2>2
<1>5. (routeCache # NoEntry =>
         /\ routeCache = [at |-> routeCache.at, est |-> routeCache.est]
         /\ routeCache.at \in Int /\ EstimateOK(routeCache.est)
         /\ routeCache.est.at >= routeCache.at)'
  <2>1. CASE UNCHANGED routeCache
    <3>1. ASSUME routeCache # NoEntry PROVE EstimateOK(routeCache.est)'
      <4>1. PICK est : est = routeCache.est OBVIOUS
      <4>2. EstimateOK(est)' BY <3>1, <4>1, EstimateStays DEF RouteInv
      <4> QED BY <2>1, <4>1, <4>2 DEF EstimateOK
    <3> QED BY <2>1, <3>1 DEF RouteInv
  <2>2. ASSUME NEW at, NEW est, routeCache' = [at |-> at, est |-> est], at \in Int,
               EstimateOK(est)', est.at >= at
        PROVE  /\ routeCache' = [at |-> routeCache'.at, est |-> routeCache'.est]
               /\ routeCache'.at \in Int /\ EstimateOK(routeCache.est)'
               /\ routeCache'.est.at >= routeCache'.at
    <3>1. routeCache'.at = at /\ routeCache'.est = est BY <2>2
    <3> QED BY <2>2, <3>1 DEF EstimateOK
  <2> QED BY <2>1, <2>2
<1>6. \A r \in RouteRides : (booked[r] # NoRide => BookingOK(booked[r]))'
  BY DEF RouteInv, BookingOK, AuditAsFallback
<1>7. \A q \in receipts' : q.level = "A_ROAD_ACCURATE" => q.backed BY DEF RouteInv
<1> QED BY <1>1, <1>2, <1>4, <1>5, <1>6, <1>7 DEF RouteInv

\* The estimate a call ends with is the one it has, with the signals' buffer and perhaps
\* another confidence: who answered, and when, is the same.
LEMMA SignalsKeepTheSource ==
  ASSUME NEW est, NEW signals, EstimateOK(est)
  PROVE  EstimateOK(ApplySignals(est, signals)) /\ ApplySignals(est, signals).at = est.at
<1>1. CASE ~env.signals BY <1>1 DEF ApplySignals
<1>2. CASE env.signals
  <2>1. PICK s : s = Resolved(signals) OBVIOUS
  <2>2. ApplySignals(est, signals)
          = [est EXCEPT !.buffer = s.buffer, !.confidence = IF est.fallback THEN @ ELSE s.confidence]
  BY <1>2, <2>1 DEF ApplySignals
  <2> QED BY <2>2 DEF EstimateOK
<1> QED BY <1>1, <1>2

\* A call that ends puts an entry into the cache that says no more than it knows.
LEMMA EstimatedKeeps ==
  ASSUME RouteInv, NEW w \in RouteWorkers, NEW signals,
         work[w].pc \in {"signals", "fetch"}, work[w] # Viewing, Estimated(w, signals),
         UNCHANGED <<env, clock, booked, receipts, answered>>
  PROVE  RouteInv'
<1> DEFINE q == work[w]
           est == ApplySignals(q.est, signals)
           next == [pc |-> "use", since |-> q.since, est |-> est]
<1>1. /\ q.pc \in {"signals", "fetch"} /\ q.since \in Int /\ q.since <= clock
      /\ EstimateOK(q.est) /\ q.est.at >= q.since
BY DEF RouteInv, CallOK, Resting, Viewing
<1>2. EstimateOK(est) /\ est.at = q.est.at BY <1>1, SignalsKeepTheSource
<1>3. /\ routeCache' = [at |-> q.since, est |-> est] /\ Step(w, next)
BY DEF Estimated, Stamp
<1> HIDE DEF est
<1>4. PICK e : e = est OBVIOUS
<1>5. PICK s : s = q.since OBVIOUS
<1>6. EstimateOK(e)' BY <1>2, <1>4, EstimateStays DEF RouteInv
<1>7. s \in Int /\ s <= clock /\ e.at >= s /\ e.at \in Int BY <1>1, <1>2, <1>4, <1>5 DEF EstimateOK
<1>8. Step(w, [pc |-> "use", since |-> s, est |-> e]) BY <1>3, <1>4, <1>5
<1>9. CallOK([pc |-> "use", since |-> s, est |-> e])' BY <1>6, <1>7 DEF CallOK, RouteTTL
<1>10. routeCache' = [at |-> s, est |-> e] BY <1>3, <1>4, <1>5
<1>11. UNCHANGED clock /\ answered' \in Int /\ answered' >= answered /\ answered' <= clock BY DEF RouteInv
<1>12. DOMAIN booked' = RouteRides BY DEF RouteInv
<1> HIDE DEF q, next
<1> QED BY <1>6, <1>7, <1>8, <1>9, <1>10, <1>11, <1>12, OneCallStep

\* The parts of a call that write no record.
LEMMA CallSteps ==
  ASSUME RouteInv, NEW w \in RouteWorkers,
         \/ StartCall(w) \/ ViewSignals(w) \/ WithoutFetch(w) \/ StartFetch(w) \/ FailFetch(w)
         \/ \E feed \in Feeds : EndFetch(w, feed)
         \/ \E answer \in OsrmAnswers : ResolveRoute(w, answer)
  PROVE  RouteInv'
<1>1. clock \in Nat /\ answered \in Int /\ answered <= clock /\ DOMAIN booked = RouteRides /\ CallOK(work[w])
BY DEF RouteInv
<1>2. CallOK(Resting)' /\ CallOK(Viewing)' BY DEF CallOK
<1>3. CASE StartCall(w)
  <2>0. UNCHANGED <<clock, routeCache, booked, receipts, answered>> BY <1>3 DEF StartCall
  <2>1. CASE RouteFresh
    <3>1. routeCache # NoEntry BY <1>1, <2>1 DEF RouteFresh, NoEntry, RouteTTL
    <3>2. PICK est : est = routeCache.est OBVIOUS
    <3>3. PICK now : now = clock OBVIOUS
    <3>4. EstimateOK(est) /\ est.at > now - RouteTTL BY <1>1, <2>1, <3>1, <3>2, <3>3 DEF RouteInv, RouteFresh, RouteTTL, EstimateOK
    <3>5. EstimateOK(est)' BY <1>1, <2>0, <3>4, EstimateStays
    <3>6. CallOK([pc |-> "use", since |-> now, est |-> est])' BY <1>1, <2>0, <3>3, <3>4, <3>5 DEF CallOK
    <3>7. Step(w, [pc |-> "use", since |-> now, est |-> est]) BY <1>3, <2>1, <3>2, <3>3 DEF StartCall
    <3> QED BY <1>1, <2>0, <3>6, <3>7, OneCallStep
  <2>2. CASE ~RouteFresh
    <3>1. PICK now : now = clock OBVIOUS
    <3>2. CallOK([pc |-> "resolve", since |-> now])' BY <1>1, <2>0, <3>1 DEF CallOK
    <3>3. Step(w, [pc |-> "resolve", since |-> now]) BY <1>3, <2>2, <3>1 DEF StartCall
    <3> QED BY <1>1, <2>0, <3>2, <3>3, OneCallStep
  <2> QED BY <2>1, <2>2
<1>4. CASE ViewSignals(w)
  <2>1. Step(w, Viewing) /\ UNCHANGED <<clock, routeCache, booked, receipts, answered>> BY <1>4 DEF ViewSignals
  <2> QED BY <1>1, <1>2, <2>1, OneCallStep
<1>5. CASE WithoutFetch(w)
  <2>1. \E signals : Estimated(w, signals) BY <1>5 DEF WithoutFetch
  <2>2. /\ work[w].pc = "signals" /\ work[w] # Viewing
        /\ UNCHANGED <<env, clock, booked, receipts, answered>>
  BY <1>5 DEF WithoutFetch, Viewing
  <2> QED BY <2>1, <2>2, EstimatedKeeps
<1>6. CASE StartFetch(w)
  <2>1. PICK q : q = work[w] OBVIOUS
  <2>2. PICK est, since : est = q.est /\ since = q.since OBVIOUS
  <2>3. /\ q = [pc |-> "signals", since |-> since, est |-> est]
        /\ EstimateOK(est) /\ since \in Int /\ since <= clock /\ est.at >= since
  BY <1>1, <1>6, <2>1, <2>2 DEF StartFetch, CallOK, Resting, Viewing
  <2>4. Step(w, [pc |-> "fetch", since |-> since, est |-> est]) BY <1>6, <2>1, <2>3 DEF StartFetch
  <2>5. UNCHANGED <<clock, routeCache, booked, receipts, answered>> BY <1>6 DEF StartFetch
  <2>6. EstimateOK(est)' BY <1>1, <2>3, <2>5, EstimateStays
  <2>7. CallOK([pc |-> "fetch", since |-> since, est |-> est])' BY <2>3, <2>5, <2>6 DEF CallOK
  <2> QED BY <1>1, <2>4, <2>5, <2>7, OneCallStep
<1>7. CASE FailFetch(w)
  <2>1. CASE work[w] = Viewing
    <3>1. Step(w, Resting) /\ UNCHANGED <<clock, routeCache, booked, receipts, answered>> BY <1>7, <2>1 DEF FailFetch
    <3> QED BY <1>1, <1>2, <3>1, OneCallStep
  <2>2. CASE work[w] # Viewing
    <3>1. Estimated(w, {}) /\ work[w].pc = "fetch" /\ UNCHANGED <<env, clock, booked, receipts, answered>>
    BY <1>7, <2>2 DEF FailFetch
    <3> QED BY <2>2, <3>1, EstimatedKeeps
  <2> QED BY <2>1, <2>2
<1>8. ASSUME NEW feed \in Feeds, EndFetch(w, feed) PROVE RouteInv'
  <2>1. CASE work[w] = Viewing
    <3>1. Step(w, Resting) /\ UNCHANGED <<clock, routeCache, booked, receipts, answered>> BY <1>8, <2>1 DEF EndFetch
    <3> QED BY <1>1, <1>2, <3>1, OneCallStep
  <2>2. CASE work[w] # Viewing
    <3>1. Estimated(w, SignalsOf(feed)) /\ work[w].pc = "fetch" /\ UNCHANGED <<env, clock, booked, receipts, answered>>
    BY <1>8, <2>2 DEF EndFetch
    <3> QED BY <2>2, <3>1, EstimatedKeeps
  <2> QED BY <2>1, <2>2
<1>9. ASSUME NEW answer \in OsrmAnswers, ResolveRoute(w, answer) PROVE RouteInv'
  <2>1. UNCHANGED <<clock, routeCache, booked, receipts>> BY <1>9 DEF ResolveRoute
  <2>2. answered' \in Int /\ answered' >= answered /\ answered' <= clock BY <1>1, <1>9 DEF ResolveRoute
  <2>3. CASE ResolveEstimate(answer) = {}
    <3>1. Step(w, Resting) BY <1>9, <2>3 DEF ResolveRoute
    <3> QED BY <1>1, <1>2, <2>1, <2>2, <3>1, OneCallStep
  <2>4. CASE ResolveEstimate(answer) # {}
    <3>1. PICK since : since = work[w].since OBVIOUS
    <3>2. since \in Int /\ since <= clock BY <1>1, <1>9, <3>1 DEF ResolveRoute, CallOK, Resting, Viewing
    <3>3. PICK est \in ResolveEstimate(answer) : Step(w, [pc |-> "signals", since |-> since, est |-> est])
    BY <1>9, <2>4, <3>1 DEF ResolveRoute
    <3>4. est = StraightLine \/ est = OsrmEstimate
      <4>1. CASE env.provider = "haversine_fallback" BY <4>1 DEF ResolveEstimate
      <4>2. CASE env.provider = "valhalla_self_hosted" BY <4>2, <2>4 DEF ResolveEstimate
      <4>3. CASE env.provider = "osrm_self_hosted" BY <4>3, <2>4 DEF ResolveEstimate, TryOsrm
      <4>4. CASE env.provider \notin {"haversine_fallback", "valhalla_self_hosted", "osrm_self_hosted"}
      BY <4>4, <2>4 DEF ResolveEstimate, TryOsrm
      <4> QED BY <4>1, <4>2, <4>3, <4>4
    <3>5. est = OsrmEstimate => answered' = clock BY <1>9, <3>3 DEF ResolveRoute
    <3>6. EstimateOK(est)' /\ est.at = clock
      <4>1. CASE est = StraightLine BY <1>1, <4>1 DEF EstimateOK, StraightLine
      <4>2. CASE est = OsrmEstimate BY <1>1, <3>5, <4>2 DEF EstimateOK, OsrmEstimate
      <4> QED BY <3>4, <4>1, <4>2
    <3>7. CallOK([pc |-> "signals", since |-> since, est |-> est])' BY <1>1, <2>1, <3>2, <3>6 DEF CallOK
    <3> QED BY <1>1, <2>1, <2>2, <3>3, <3>7, OneCallStep
  <2> QED BY <2>3, <2>4
<1> QED BY <1>3, <1>4, <1>5, <1>6, <1>7, <1>8, <1>9

\* A call whose estimate is used is at its end; what it knows of OSRM is what is recorded.
LEMMA UsedEstimate ==
  ASSUME RouteInv, NEW w \in RouteWorkers, work[w].pc = "use"
  PROVE  /\ EstimateOK(work[w].est) /\ work[w].since \in Int
         /\ ~work[w].est.fallback => Backed(work[w].since)
<1>1. CallOK(work[w]) /\ answered \in Int BY DEF RouteInv
<1>2. /\ EstimateOK(work[w].est) /\ work[w].since \in Int
      /\ work[w].est.at > work[w].since - RouteTTL
BY <1>1 DEF CallOK, Resting, Viewing
<1> QED BY <1>1, <1>2 DEF EstimateOK, Backed, RouteTTL

\* A step that records a quote or a ride, and ends the call it came from.
LEMMA RecordSteps ==
  ASSUME RouteInv, NEW w \in RouteWorkers,
         \/ QuoteRoute(w)
         \/ \E r \in RouteRides : BookRouted(w, r)
         \/ \E r \in RouteRides, supplied \in BOOLEAN : BookSimulated(w, r, supplied)
  PROVE  RouteInv'
<1>1. /\ clock \in Nat /\ answered \in Int /\ answered <= clock
      /\ DOMAIN booked = RouteRides
BY DEF RouteInv
<1>2. CallOK(Resting)' BY DEF CallOK
<1>3. PICK est, since : est = work[w].est /\ since = work[w].since OBVIOUS
<1>4. /\ work[w].pc = "use" /\ Step(w, Resting)
      /\ UNCHANGED <<clock, routeCache, answered>>
BY DEF QuoteRoute, BookRouted, BookSimulated
<1>5. EstimateOK(est) /\ (~est.fallback => Backed(since)) BY <1>3, <1>4, UsedEstimate
<1>6. CASE QuoteRoute(w)
  <2>1. /\ UNCHANGED booked
        /\ receipts' = receipts \union
             {[level |-> ProofLevel(RouteMethod(est), est.fallback), backed |-> Backed(since)]}
  BY <1>3, <1>6 DEF QuoteRoute
  <2>2. ProofLevel(RouteMethod(est), est.fallback) = "A_ROAD_ACCURATE" => ~est.fallback
  BY <1>5 DEF ProofLevel, EstimateOK
  <2>3. \A q \in receipts' \ receipts : q.level = "A_ROAD_ACCURATE" => q.backed
  BY <1>5, <2>1, <2>2
  <2> QED BY <1>1, <1>2, <1>4, <2>1, <2>3, OneCallStep
<1>7. ASSUME NEW r \in RouteRides, BookRouted(w, r) PROVE RouteInv'
  <2> DEFINE row == Row(est, FieldsFromEstimate(est), since, TRUE)
  <2>1. UNCHANGED receipts /\ booked' = [booked EXCEPT ![r] = row]
  BY <1>3, <1>7 DEF BookRouted, Book
  <2>2. BookingOK(row) BY <1>5 DEF BookingOK, Row, FieldsFromEstimate, EstimateOK, AuditAsFallback
  <2> HIDE DEF row
  <2>3. DOMAIN booked' = RouteRides /\ \A s \in RouteRides : booked'[s] = booked[s] \/ BookingOK(booked'[s])
  BY <1>1, <2>1, <2>2
  <2> QED BY <1>1, <1>2, <1>4, <2>1, <2>3, OneCallStep
<1>8. ASSUME NEW r \in RouteRides, NEW supplied \in BOOLEAN, BookSimulated(w, r, supplied) PROVE RouteInv'
  <2> DEFINE row == Row(IF supplied THEN MapDefaults ELSE est, FieldsFromEstimate(est), since, ~supplied)
  <2>1. UNCHANGED receipts /\ booked' = [booked EXCEPT ![r] = row]
  BY <1>3, <1>8 DEF BookSimulated, Book
  <2>2. BookingOK(row)
    <3>1. CASE supplied
    BY <1>5, <3>1 DEF BookingOK, Row, FieldsFromEstimate, EstimateOK, AuditAsFallback, MapDefaults
    <3>2. CASE ~supplied
    BY <1>5, <3>2 DEF BookingOK, Row, FieldsFromEstimate, EstimateOK, AuditAsFallback
    <3> QED BY <3>1, <3>2
  <2> HIDE DEF row
  <2>3. DOMAIN booked' = RouteRides /\ \A s \in RouteRides : booked'[s] = booked[s] \/ BookingOK(booked'[s])
  BY <1>1, <2>1, <2>2
  <2> QED BY <1>1, <1>2, <1>4, <2>1, <2>3, OneCallStep
<1> QED BY <1>6, <1>7, <1>8

\* A step without a call: a ride booked without a route, a ride completed, the clock, and
\* a restart, which forgets every call.
LEMMA OtherSteps ==
  ASSUME RouteInv,
         \/ \E r \in RouteRides : BookUnrouted(r) \/ CompleteBooked(r)
         \/ Tick \/ RestartRouting \/ UNCHANGED routeVars
  PROVE  RouteInv'
<1>1. /\ clock \in Nat /\ answered \in Int /\ answered <= clock
      /\ DOMAIN booked = RouteRides /\ DOMAIN work = RouteWorkers
BY DEF RouteInv
<1>2. ASSUME NEW r \in RouteRides, NEW row, booked[r] # NoRide => BookingOK(booked[r]), BookingOK(row),
             booked' = [booked EXCEPT ![r] = row],
             UNCHANGED <<clock, routeCache, work, receipts, answered>>
      PROVE  RouteInv'
  <2>1. DOMAIN booked' = RouteRides /\ \A s \in RouteRides : booked'[s] = IF s = r THEN row ELSE booked[s]
  BY <1>1, <1>2
  <2>2. \A s \in RouteRides : (booked[s] # NoRide => BookingOK(booked[s]))'
  BY <1>2, <2>1 DEF RouteInv, BookingOK, AuditAsFallback
  <2> QED BY <1>2, <2>1, <2>2 DEF RouteInv, CallOK, EstimateOK
<1>3. ASSUME NEW r \in RouteRides, BookUnrouted(r) PROVE RouteInv'
  <2> DEFINE row == Row(MapDefaults, SkippedSnapshot(MapDefaults), clock, FALSE)
  <2>1. PICK new : new = row OBVIOUS
  <2>2. BookingOK(new)
  BY <2>1 DEF BookingOK, Row, SkippedSnapshot, FieldsFromRide, MapDefaults, AuditAsFallback
  <2>3. booked' = [booked EXCEPT ![r] = new] /\ UNCHANGED <<clock, routeCache, work, receipts, answered>>
  BY <1>3, <2>1 DEF BookUnrouted, Book
  <2>4. booked[r] # NoRide => BookingOK(booked[r]) BY DEF RouteInv
  <2> HIDE DEF row
  <2> QED BY <1>2, <2>2, <2>3, <2>4
<1>4. ASSUME NEW r \in RouteRides, CompleteBooked(r) PROVE RouteInv'
  <2>1. PICK old : old = booked[r] OBVIOUS
  <2>2. PICK new : new = [old EXCEPT !.last = FieldsFromRide(old), !.complete = TRUE] OBVIOUS
  <2>3. BookingOK(old) BY <1>4, <2>1 DEF RouteInv, CompleteBooked
  <2>4. new = [provider |-> old.provider, confidence |-> old.confidence, quote |-> old.quote,
               last |-> FieldsFromRide(old), backed |-> old.backed, routed |-> old.routed,
               complete |-> TRUE]
  BY <2>2, <2>3 DEF BookingOK
  <2>5. BookingOK(new) BY <2>3, <2>4 DEF BookingOK, AuditAsFallback
  <2>6. booked' = [booked EXCEPT ![r] = new] /\ UNCHANGED <<clock, routeCache, work, receipts, answered>>
    <3>1. /\ booked' = [booked EXCEPT ![r].last = FieldsFromRide(booked[r]), ![r].complete = TRUE]
          /\ UNCHANGED <<clock, routeCache, work, receipts, answered>>
    BY <1>4 DEF CompleteBooked
    <3> QED BY <1>1, <2>1, <2>2, <3>1
  <2> QED BY <1>2, <2>1, <2>3, <2>5, <2>6
<1>5. CASE Tick
  <2>1. clock' = clock + 1 /\ UNCHANGED <<routeCache, work, booked, receipts, answered>> BY <1>5 DEF Tick
  <2>2. \A w \in RouteWorkers : CallOK(work[w])'
    <3> TAKE w \in RouteWorkers
    <3>1. PICK q : q = work[w] OBVIOUS
    <3>2. CallOK(q)' BY <1>1, <2>1, <3>1, CallStays DEF RouteInv
    <3> QED BY <2>1, <3>1, <3>2 DEF CallOK, EstimateOK
  <2> QED BY <1>1, <2>1, <2>2 DEF RouteInv, EstimateOK, BookingOK, AuditAsFallback
<1>6. CASE RestartRouting
  <2>1. /\ routeCache' = NoEntry /\ work' = [w \in RouteWorkers |-> Resting]
        /\ UNCHANGED <<clock, booked, receipts, answered>>
  BY <1>6 DEF RestartRouting
  <2>2. \A w \in RouteWorkers : CallOK(work[w])' BY <2>1 DEF CallOK
  <2> QED BY <1>1, <2>1, <2>2 DEF RouteInv, BookingOK, AuditAsFallback
<1>7. CASE UNCHANGED routeVars
  BY <1>7 DEF routeVars, RouteInv, CallOK, EstimateOK, BookingOK, AuditAsFallback
<1> QED BY <1>3, <1>4, <1>5, <1>6, <1>7

\* Every reachable state of the routing service satisfies the invariant above: a cache
\* entry, whichever of several overlapping calls wrote it last, is stamped no later than
\* its estimate was made, and every record is as honest as the estimate it came from.
THEOREM RouteInvariant == RouteSpec => []RouteInv
<1>1. RouteInit => RouteInv
  <2> SUFFICES ASSUME RouteInit PROVE RouteInv OBVIOUS
  <2>1. \A w \in RouteWorkers : CallOK(work[w]) BY DEF RouteInit, CallOK
  <2> QED BY <2>1 DEF RouteInit, RouteInv, NoEntry
<1>2. RouteInv /\ [RouteNext]_routeVars => RouteInv'
  BY CallSteps, RecordSteps, OtherSteps DEF RouteNext
<1> QED BY <1>1, <1>2, PTL DEF RouteSpec

\* route() never hands out an estimate older than the cache lifetime, however its callers
\* overlap and however slow the routing engine or the signal feed is.
THEOREM RoutesAreFresh == RouteSpec => []ServedFresh
<1>1. RouteInv => ServedFresh
  <2> SUFFICES ASSUME RouteInv, NEW w \in RouteWorkers, work[w].pc = "use"
               PROVE  work[w].est.at > work[w].since - RouteTTL
  BY DEF ServedFresh
  <2>1. CallOK(work[w]) BY DEF RouteInv
  <2> QED BY <2>1 DEF CallOK, Resting, Viewing
<1> QED BY <1>1, RouteInvariant, PTL

\* A ride's snapshots, its audit and a quote's proof receipt claim a road route only when
\* OSRM answered within the cache lifetime before the call, or during it.
THEOREM RoadClaimsHold == RouteSpec => []RoadClaimsAreReal
<1>1. RouteInv => RoadClaimsAreReal
  BY DEF RouteInv, BookingOK, RoadClaimsAreReal, ReadAsFallback
<1> QED BY <1>1, RouteInvariant, PTL

=============================================================================
