---------------------------- MODULE MarketProofs ----------------------------
(***************************************************************************)
(* Proofs about the parts around the ride board: the stream of the pool of *)
(* rides, the dispatch spine of the dossier, and the loop that makes a     *)
(* shot of a video.                                                        *)
(***************************************************************************)
EXTENDS DossierSpine, PoolStream, ShotLoop, CountingLemmas

-----------------------------------------------------------------------------
(***************************************************************************)
(* The stream of the pool (PoolStream), for any number of rides and any    *)
(* queue limit.                                                            *)
(*                                                                         *)
(* While its stream is open the cockpit is idle, and each ride it could    *)
(* take is on its way to it, in the snapshot, in the queue or not yet      *)
(* published, or is one of the exceptions: it returned or was created      *)
(* unannounced, or was lost to another driver before. When the stream is   *)
(* quiet nothing is on its way, and the exceptions are left.               *)
(***************************************************************************)

Announcement(r) == <<"ride.created", r>>

\* A cockpit with an open stream is idle, and each ride it could take is in the snapshot it
\* has yet to read, announced in the queue or about to be, or one of the exceptions.
Announced(r) ==
  \/ r \in snapshot \union missed \union {conflict}
  \/ Announcement(r) \in unsent
  \/ \E i \in 1..Len(queue) : queue[i] = Announcement(r)

PoolInv ==
  /\ DOMAIN pool = PoolRides /\ \E D : queue \in Seq(D)
  /\ stream # "closed" => cockpit = "idle" /\ \A r \in PoolRides : Visible(r) => Announced(r)

\* A sequence stays one when more is allowed in it.
LEMMA SeqGrows ==
  ASSUME NEW D, NEW q \in Seq(D), NEW d
  PROVE  q \in Seq(D \union {d})
OBVIOUS

\* What the other drivers and the riders do makes a ride visible only with an announcement
\* or as one of the exceptions.
LEMMA RideSteps ==
  ASSUME PoolInv, NEW r \in PoolRides,
         \/ ClaimByOther(r) \/ ReleaseByOther(r) \/ CancelByRider(r) \/ HideExpires(r)
         \/ \E to \in {"all", "me", "other"} : CreateRide(r, to) \/ OfferMoves(r, to)
  PROVE  PoolInv'
<1> USE DEF streamVars, clientVars
<1>1. ASSUME UNCHANGED <<stream, snapshot, queue, cockpit, conflict>>, DOMAIN pool' = DOMAIN pool,
             unsent \subseteq unsent', missed \subseteq missed',
             \A s \in PoolRides : Visible(s)' => Visible(s) \/ s \in missed' \/ Announcement(s)' \in unsent'
      PROVE  PoolInv'
  <2>1. \A s \in PoolRides : Announced(s) => Announced(s)' BY <1>1 DEF Announced, Announcement
  <2>2. \A s \in PoolRides : Visible(s)' => Visible(s) \/ Announced(s)' BY <1>1 DEF Announced
  <2> QED BY <1>1, <2>1, <2>2 DEF PoolInv
<1>2. ASSUME NEW to \in {"all", "me", "other"}, CreateRide(r, to) PROVE PoolInv'
BY <1>1, <1>2 DEF PoolInv, CreateRide, Visible, Announcement
<1>3. CASE ClaimByOther(r) BY <1>1, <1>3 DEF PoolInv, ClaimByOther, Visible
<1>4. CASE ReleaseByOther(r) BY <1>1, <1>4 DEF PoolInv, ReleaseByOther, Visible
<1>5. CASE CancelByRider(r) BY <1>1, <1>5 DEF PoolInv, CancelByRider, Visible
<1>6. ASSUME NEW to \in {"all", "me", "other"}, OfferMoves(r, to) PROVE PoolInv'
BY <1>1, <1>6 DEF PoolInv, OfferMoves, Visible
<1>7. CASE HideExpires(r) BY <1>1, <1>7 DEF PoolInv, HideExpires, Visible
<1> QED BY <1>2, <1>3, <1>4, <1>5, <1>6, <1>7

\* An announcement that leaves the bus is in the queue, or its ride is an exception.
LEMMA PublishStep ==
  ASSUME PoolInv, NEW delta \in unsent, Publish(delta)
  PROVE  PoolInv'
<1>1. /\ UNCHANGED <<pool, offer, hidden, snapshot, cockpit, conflict>>
      /\ unsent' = unsent \ {delta}
BY DEF Publish, PoolInv, clientVars
<1>2. CASE stream = "subscribed" /\ Len(queue) < QueueLimit
  <2>1. queue' = Append(queue, delta) /\ UNCHANGED <<stream, missed>> BY <1>2 DEF Publish
  <2>2. PICK D : queue \in Seq(D) /\ delta \in D
    <3>1. PICK E : queue \in Seq(E) BY DEF PoolInv
    <3>2. queue \in Seq(E \union {delta}) BY <3>1, SeqGrows
    <3> QED BY <3>2
  <2>3. queue' \in Seq(D) /\ Len(queue') = Len(queue) + 1 /\ Len(queue) \in Nat /\ queue'[Len(queue) + 1] = delta
        /\ \A i \in 1..Len(queue) : queue'[i] = queue[i]
  BY <2>1, <2>2
  <2>4. \A r \in PoolRides : Announced(r) => Announced(r)'
    <3> SUFFICES ASSUME NEW r \in PoolRides, Announced(r) PROVE Announced(r)' OBVIOUS
    <3>1. CASE r \in snapshot \union missed \union {conflict} BY <1>1, <2>1, <3>1 DEF Announced
    <3>2. CASE Announcement(r) \in unsent
      <4>1. CASE Announcement(r) = delta
        <5>1. Len(queue) + 1 \in 1..Len(queue') BY <2>3
        <5> QED BY <4>1, <5>1, <2>3 DEF Announced, Announcement
      <4>2. CASE Announcement(r) # delta BY <1>1, <3>2, <4>2 DEF Announced, Announcement
      <4> QED BY <4>1, <4>2
    <3>3. ASSUME NEW i \in 1..Len(queue), queue[i] = Announcement(r) PROVE Announced(r)'
      <4>1. i \in 1..Len(queue') /\ queue'[i] = Announcement(r) BY <2>3, <3>3
      <4> QED BY <4>1 DEF Announced, Announcement
    <3> QED BY <3>1, <3>2, <3>3 DEF Announced
  <2>5. \A r \in PoolRides : Visible(r)' <=> Visible(r) BY <1>1 DEF Visible
  <2> QED BY <1>1, <2>1, <2>3, <2>4, <2>5 DEF PoolInv
<1>3. CASE ~(stream = "subscribed" /\ Len(queue) < QueueLimit)
  <2>1. /\ stream' \in {stream, "dropped"} /\ (stream = "closed" => stream' = "closed")
        /\ queue' = queue
        /\ missed' = IF delta[1] = "ride.created" THEN missed \union {delta[2]} ELSE missed
  BY <1>3 DEF Publish
  <2>2. \A r \in PoolRides : Announced(r) => Announced(r)'
  BY <1>1, <2>1 DEF Announced, Announcement
  <2>3. \A r \in PoolRides : Visible(r)' <=> Visible(r) BY <1>1 DEF Visible
  <2> QED BY <1>1, <2>1, <2>2, <2>3 DEF PoolInv
<1> QED BY <1>2, <1>3

\* The stream opens with every visible ride in its snapshot; a delta that is not presented
\* announces no ride but the lost one; and a card, whatever brought it, closes the stream.
LEMMA ClientSteps ==
  ASSUME PoolInv,
         \/ OpenStream \/ Subscribe \/ LoseStream \/ ReadSnapshot \/ ReadDelta
         \/ Accept \/ Decline \/ CountdownEnds \/ ShowTab \/ Refresh
         \/ GoOnline \/ GoOffline \/ FinishTrip \/ UNCHANGED poolVars
  PROVE  PoolInv'
<1> USE DEF rideVars, streamVars, clientVars
<1>1. ASSUME queue' \in {queue, <<>>}, stream' = "closed", DOMAIN pool' = PoolRides PROVE PoolInv'
  <2>1. PICK D : queue \in Seq(D) BY DEF PoolInv
  <2>2. <<>> \in Seq(D) OBVIOUS
  <2>3. queue' \in Seq(D) BY <1>1, <2>1, <2>2
  <2> QED BY <1>1, <2>3 DEF PoolInv
<1>3. CASE OpenStream
BY <1>3 DEF OpenStream, PoolInv, Announced, Visible
<1>4. CASE Subscribe
BY <1>4 DEF Subscribe, PoolInv, Announced, Visible
<1>5. CASE LoseStream \/ GoOffline
BY <1>1, <1>5 DEF LoseStream, GoOffline, Closed, PoolInv
<1>6. CASE ReadSnapshot \/ Refresh
BY <1>1, <1>6 DEF ReadSnapshot, Refresh, Shows, Closed, PoolInv
<1>7. CASE ReadDelta
  <2>1. CASE Presents(Head(queue))
  BY <1>1, <1>7, <2>1 DEF ReadDelta, Shows, Closed, PoolInv
  <2>2. CASE ~Presents(Head(queue))
    <3>1. queue # <<>> /\ queue' = Tail(queue)
          /\ UNCHANGED <<pool, offer, hidden, unsent, stream, snapshot, cockpit, conflict, missed>>
    BY <1>7, <2>2 DEF ReadDelta
    <3>2. /\ \E D : queue' \in Seq(D)
          /\ Len(queue) \in Nat /\ Len(queue') = Len(queue) - 1 /\ Head(queue) = queue[1]
          /\ \A i \in 1..Len(queue') : queue'[i] = queue[i + 1]
    BY <3>1 DEF PoolInv
    <3>3. \A r \in PoolRides : Announced(r) => Announced(r)'
      <4> SUFFICES ASSUME NEW r \in PoolRides, Announced(r) PROVE Announced(r)' OBVIOUS
      <4>1. CASE r \in snapshot \union missed \union {conflict} \/ Announcement(r) \in unsent
      BY <3>1, <4>1 DEF Announced, Announcement
      <4>2. ASSUME NEW i \in 1..Len(queue), queue[i] = Announcement(r) PROVE Announced(r)'
        <5>1. CASE i = 1
          <6>1. r = conflict BY <2>2, <3>2, <4>2, <5>1 DEF Presents, Announcement
          <6> QED BY <3>1, <6>1 DEF Announced
        <5>2. CASE i # 1
          <6>1. i - 1 \in 1..Len(queue') /\ queue'[i - 1] = Announcement(r) BY <3>2, <4>2, <5>2
          <6> QED BY <6>1 DEF Announced, Announcement
        <5> QED BY <5>1, <5>2
      <4> QED BY <4>1, <4>2 DEF Announced
    <3>4. \A r \in PoolRides : Visible(r)' <=> Visible(r) BY <3>1 DEF Visible
    <3> QED BY <3>1, <3>2, <3>3, <3>4 DEF PoolInv
  <2> QED BY <2>1, <2>2
<1>8. CASE Accept BY <1>1, <1>8 DEF Accept, PoolInv
<1>9. CASE Decline \/ CountdownEnds \/ ShowTab
BY <1>1, <1>9 DEF Decline, CountdownEnds, ShowTab, PoolInv
<1>10. CASE GoOnline \/ FinishTrip
BY <1>1, <1>10 DEF GoOnline, FinishTrip, PoolInv
<1>11. CASE UNCHANGED poolVars
BY <1>11 DEF poolVars, PoolInv, Announced, Visible
<1> QED BY <1>3, <1>4, <1>5, <1>6, <1>7, <1>8, <1>9, <1>10, <1>11

\* Every reachable state of the cockpit, its stream and the pool satisfies the invariant.
THEOREM StreamInvariant == PoolSpec => []PoolInv
<1>1. PoolInit => PoolInv
  <2>1. <<>> \in Seq({}) OBVIOUS
  <2> QED BY <2>1 DEF PoolInit, PoolInv
<1>2. PoolInv /\ [PoolNext]_poolVars => PoolInv'
  BY RideSteps, PublishStep, ClientSteps DEF PoolNext
<1> QED BY <1>1, <1>2, PTL DEF PoolSpec

\* An idle driver who has read everything misses a ride they could take only when it came
\* back unannounced, was announced to nobody, or was lost to another driver before.
THEOREM NothingElseOverlooked == PoolSpec => []IdleOverlooks
<1>1. PoolInv => IdleOverlooks
  BY DEF PoolInv, Announced, IdleOverlooks, Quiet
<1> QED BY <1>1, StreamInvariant, PTL

-----------------------------------------------------------------------------
(***************************************************************************)
(* The dispatch spine (DossierSpine), for any number of drivers, demands,  *)
(* completions and repeated idempotency keys.                              *)
(*                                                                         *)
(* The state of a trip is that of its last event, so each open transaction *)
(* is described by the events it will append: a demand ends with the       *)
(* choice of a driver it keeps locked, and a completion has one event and  *)
(* one booking, or less. A trip loses its driver only by a suppressed      *)
(* event or a late completion, and is paid for wrongly only by a           *)
(* completion of its own that lacked one of the two or came after another. *)
(***************************************************************************)

(* The spine: the log *)

EventSet ==
  [trip : Nat, to : {"MATCHING", "DRIVER_EN_ROUTE", "TRIP_COMPLETED"},
   driver : SpineDrivers \union {NoSpineDriver}, key : Keys \X {"matching", "accepted", "completed"}]

DriverRows == [SpineDrivers -> [status : {"absent", "AVAILABLE", "DISPATCHED"}, trip : Nat]]

\* Events are of trips handed out, and a choice names a driver.
LogInv ==
  /\ trips \in Nat /\ events \in Seq(EventSet)
  /\ \A i \in DOMAIN events :
       events[i].trip \in 1..trips /\ (events[i].to = "DRIVER_EN_ROUTE" => events[i].driver \in SpineDrivers)

\* What a demand is about to write: the events of a new trip, whose choice comes last,
\* unless a repeated key suppressed it, and a driver it keeps available meanwhile.
DemandOK(q) ==
  /\ q.driver \in SpineDrivers \union {NoSpineDriver} /\ EventsOf(q.trip) = {}
  /\ q.driver # NoSpineDriver => active[q.driver].status = "AVAILABLE"
  /\ \A i \in DOMAIN q.events :
       /\ q.events[i].to \in {"MATCHING", "DRIVER_EN_ROUTE"}
       /\ q.events[i].to = "DRIVER_EN_ROUTE" => q.events[i].driver = q.driver /\ q.driver \in SpineDrivers
  /\ q.driver # NoSpineDriver /\ q.trip \notin suppressed =>
       q.events # <<>> /\ q.events[Len(q.events)].to = "DRIVER_EN_ROUTE"
  /\ q.books = {}

\* A transaction pays the driver the trip chose, and balances.
BookOK(b) ==
  /\ ChoicesOf(b.trip) # {} /\ b.entries.wallet = DriverOf(b.trip)
  /\ b.entries.debit = b.entries.credit

\* What a completion is about to write: its event, which the second read may take away,
\* and one transaction, unless a repeated key suppressed it.
CompletionOK(q) ==
  /\ ChoicesOf(q.trip) # {} /\ q.driver = DriverOf(q.trip)
  /\ \A i \in DOMAIN q.events : q.events[i].to = "TRIP_COMPLETED"
  /\ q.op = "paying" => q.events # <<>>
  /\ q.op = "refused" => q.events = <<>>
  /\ q.books = {} \/ \E b : q.books = {b}
  /\ \A b \in q.books : b.trip = q.trip /\ BookOK(b)

ServingOK(q) ==
  \/ q = Idle
  \/ /\ q.op \in {"demand", "paying", "complete", "refused"} /\ q.trip \in 1..trips
     /\ q.events \in Seq(EventSet) /\ \A i \in DOMAIN q.events : q.events[i].trip = q.trip
     /\ DOMAIN q = {"op", "trip", "driver", "events", "books", "wallets"}
     /\ q.op = "demand" => DemandOK(q)
     /\ q.op # "demand" => CompletionOK(q)

\* Two demands serve two trips and have locked two drivers.
Apart(p, q) ==
  p.op = "demand" /\ q.op = "demand" =>
    p.trip # q.trip /\ (p.driver = q.driver => p.driver = NoSpineDriver)

ServingInv ==
  /\ DOMAIN serving = SpineWorkers
  /\ \A w \in SpineWorkers : ServingOK(serving[w])
  /\ \A v, w \in SpineWorkers : v # w => Apart(serving[v], serving[w])

DriverHolds(d) ==
  active[d].status = "DISPATCHED" =>
    \/ active[d].trip \in suppressed
    \/ StateOf(active[d].trip) = "DRIVER_EN_ROUTE" /\ DriverOf(active[d].trip) = d

TripHolds(t) ==
  t \notin suppressed \union late /\ StateOf(t) = "DRIVER_EN_ROUTE" =>
    active[DriverOf(t)] = [status |-> "DISPATCHED", trip |-> t]

TripPaid(t) ==
  t \notin mispaid =>
    IF StateOf(t) = "TRIP_COMPLETED" THEN \E b : {c \in books : c.trip = t} = {b}
    ELSE {c \in books : c.trip = t} = {}

SpineInv ==
  /\ LogInv /\ ServingInv
  /\ active \in DriverRows
  /\ \A d \in SpineDrivers : DriverHolds(d)
  /\ \A b \in books : BookOK(b)
  /\ \A t \in Nat : TripHolds(t) /\ TripPaid(t)

-----------------------------------------------------------------------------
(* The spine: steps *)

\* Events of one trip more: the log of the others is as it was, its own ends with them.
LEMMA LogGrows ==
  ASSUME LogInv, NEW t \in Nat, NEW more \in Seq(EventSet), \A j \in DOMAIN more : more[j].trip = t,
         events' = events \o more
  PROVE  /\ events' \in Seq(EventSet)
         /\ \A u : u # t => EventsOf(u)' = EventsOf(u)
         /\ \A u : u # t => StateOf(u)' = StateOf(u)
         /\ more = <<>> => StateOf(t)' = StateOf(t)
         /\ more # <<>> => StateOf(t)' = more[Len(more)].to
         /\ \A u : ChoicesOf(u) # {} /\ (u = t => \A j \in DOMAIN more : more[j].to # "DRIVER_EN_ROUTE") =>
              ChoicesOf(u)' # {} /\ DriverOf(u)' = DriverOf(u)
         /\ more # <<>> /\ more[Len(more)].to = "DRIVER_EN_ROUTE" =>
              ChoicesOf(t)' # {} /\ DriverOf(t)' = more[Len(more)].driver
<1>1. PICK m, n : m = Len(more) /\ n = Len(events) OBVIOUS
<1>2. /\ m \in Nat /\ n \in Nat /\ events \in Seq(EventSet) /\ events' \in Seq(EventSet)
      /\ DOMAIN more = 1..m /\ DOMAIN events = 1..n /\ DOMAIN events' = 1..(n + m)
      /\ \A i \in 1..n : events'[i] = events[i]
      /\ \A j \in 1..m : events'[n + j] = more[j]
      /\ more # <<>> => m \in 1..m
  <2>1. events \in Seq(EventSet) BY DEF LogInv
  <2> QED BY <1>1, <2>1
<1>3. \A i \in 1..(n + m) : i \in 1..n \/ (i - n \in 1..m /\ i = n + (i - n)) BY <1>2
<1>4. \A u : u # t \/ more = <<>> => EventsOf(u)' = EventsOf(u) /\ ChoicesOf(u)' = ChoicesOf(u)
  <2> SUFFICES ASSUME NEW u, u # t \/ more = <<>>
               PROVE  EventsOf(u)' = EventsOf(u) /\ ChoicesOf(u)' = ChoicesOf(u)
  OBVIOUS
  <2>1. \A i \in 1..(n + m) : i \in 1..n \/ events'[i].trip # u
    <3>1. SUFFICES ASSUME NEW i \in 1..(n + m), i \notin 1..n PROVE events'[i].trip # u OBVIOUS
    <3>2. PICK j \in 1..m : i = n + j BY <1>3, <3>1
    <3>3. m # 0 /\ more # <<>> BY <1>1, <1>2, <3>2
    <3> QED BY <1>2, <3>2, <3>3
  <2>2. 1..n \subseteq 1..(n + m) BY <1>2
  <2>3. PICK after, mine : after = events' /\ mine = EventsOf(u) OBVIOUS
  <2>4. {i \in 1..(n + m) : after[i].trip = u} = mine BY <1>2, <2>1, <2>2, <2>3 DEF EventsOf
  <2>5. EventsOf(u)' = mine BY <1>2, <2>3, <2>4 DEF EventsOf
  <2>6. \A i \in mine : after[i] = events[i] BY <1>2, <2>3 DEF EventsOf
  <2> QED BY <2>3, <2>5, <2>6 DEF ChoicesOf
<1>5. ASSUME NEW u, u # t \/ more = <<>> PROVE StateOf(u)' = StateOf(u)
  <2>1. EventsOf(u)' = EventsOf(u) BY <1>4, <1>5
  <2>2. EventsOf(u) # {} => events'[Max(EventsOf(u))] = events[Max(EventsOf(u))]
    <3>1. EventsOf(u) \in SUBSET (1..n) BY <1>2 DEF EventsOf
    <3> QED BY <1>2, <3>1, MaxIndex
  <2> QED BY <2>1, <2>2 DEF StateOf
<1>6. ASSUME NEW u, ChoicesOf(u) # {}, u = t => \A j \in DOMAIN more : more[j].to # "DRIVER_EN_ROUTE"
      PROVE  ChoicesOf(u)' # {} /\ DriverOf(u)' = DriverOf(u)
  <2>1. \A i \in 1..(n + m) : i \in 1..n \/ events'[i].trip # u \/ events'[i].to # "DRIVER_EN_ROUTE"
    <3>1. SUFFICES ASSUME NEW i \in 1..(n + m), i \notin 1..n
                   PROVE  events'[i].trip # u \/ events'[i].to # "DRIVER_EN_ROUTE"
    OBVIOUS
    <3>2. PICK j \in 1..m : i = n + j BY <1>3, <3>1
    <3> QED BY <1>2, <1>6, <3>2
  <2>2. 1..n \subseteq 1..(n + m) BY <1>2
  <2>3. ChoicesOf(u)' = ChoicesOf(u) BY <1>2, <2>1, <2>2 DEF EventsOf, ChoicesOf
  <2>4. ChoicesOf(u) \in SUBSET (1..n) BY <1>2 DEF EventsOf, ChoicesOf
  <2>5. events'[Max(ChoicesOf(u))] = events[Max(ChoicesOf(u))] BY <1>2, <1>6, <2>4, MaxIndex
  <2> QED BY <1>6, <2>3, <2>5 DEF DriverOf
<1>7. ASSUME more # <<>>
      PROVE  /\ StateOf(t)' = more[m].to
             /\ more[m].to = "DRIVER_EN_ROUTE" => ChoicesOf(t)' # {} /\ DriverOf(t)' = more[m].driver
  <2>1. n + m \in 1..(n + m) /\ events'[n + m] = more[m] /\ more[m].trip = t BY <1>2, <1>7
  <2>2. PICK E, C : E = EventsOf(t)' /\ C = ChoicesOf(t)' OBVIOUS
  <2>3. E \in SUBSET (1..(n + m)) /\ C \in SUBSET (1..(n + m)) BY <1>2, <2>2 DEF EventsOf, ChoicesOf
  <2>4. n + m \in E BY <1>2, <2>1, <2>2 DEF EventsOf
  <2>5. Max(E) = n + m
    <3>1. n + m \in Nat /\ \A i \in E : i <= n + m BY <1>2, <2>3
    <3>2. E # {} BY <2>4
    <3> QED BY <2>3, <2>4, <3>1, <3>2, MaxIndex
  <2>6. more[m].to = "DRIVER_EN_ROUTE" => n + m \in C BY <2>1, <2>2, <2>4 DEF ChoicesOf
  <2>7. more[m].to = "DRIVER_EN_ROUTE" => C # {} /\ Max(C) = n + m
    <3>1. n + m \in Nat /\ \A i \in C : i <= n + m BY <1>2, <2>3
    <3>2. n + m \in C => C # {} OBVIOUS
    <3> QED BY <2>3, <2>6, <3>1, <3>2, MaxIndex
  <2>8. StateOf(t)' = more[m].to
    <3>1. E # {} BY <2>4
    <3> QED BY <2>1, <2>2, <2>5, <3>1 DEF StateOf
  <2> QED BY <2>1, <2>2, <2>7, <2>8 DEF DriverOf
<1> QED BY <1>1, <1>2, <1>4, <1>5, <1>6, <1>7

\* A trip under way has chosen a driver.
LEMMA UnderWay ==
  ASSUME LogInv, NEW t, StateOf(t) = "DRIVER_EN_ROUTE"
  PROVE  ChoicesOf(t) # {} /\ DriverOf(t) \in SpineDrivers
<1>1. PICK n : n = Len(events) OBVIOUS
<1>2. n \in Nat /\ DOMAIN events = 1..n BY <1>1 DEF LogInv
<1>3. EventsOf(t) # {} /\ events[Max(EventsOf(t))].to = "DRIVER_EN_ROUTE" BY DEF StateOf
<1>4. EventsOf(t) \in SUBSET (1..n) BY <1>2 DEF EventsOf
<1>5. Max(EventsOf(t)) \in EventsOf(t) BY <1>2, <1>3, <1>4, MaxIndex
<1>6. Max(EventsOf(t)) \in ChoicesOf(t) BY <1>3, <1>5 DEF ChoicesOf
<1>7. ChoicesOf(t) \in SUBSET (1..n) BY <1>4 DEF ChoicesOf
<1>8. Max(ChoicesOf(t)) \in ChoicesOf(t) BY <1>2, <1>6, <1>7, MaxIndex
<1> QED BY <1>2, <1>6, <1>7, <1>8 DEF LogInv, DriverOf, ChoicesOf

\* A request in flight stays what it was while its trip has no event and its driver is
\* left alone, if it is a demand.
LEMMA ServingStays ==
  ASSUME LogInv, NEW q, ServingOK(q), trips' \in Nat, trips <= trips', suppressed \subseteq suppressed',
         \A u : ChoicesOf(u) # {} => ChoicesOf(u)' # {} /\ DriverOf(u)' = DriverOf(u),
         q.op = "demand" =>
           /\ EventsOf(q.trip) = {} => EventsOf(q.trip)' = {}
           /\ q.driver # NoSpineDriver => active'[q.driver].status = active[q.driver].status
  PROVE  ServingOK(q)'
<1>1. CASE q = Idle BY <1>1 DEF ServingOK
<1>2. CASE q # Idle
  <2>1. /\ q.op \in {"demand", "paying", "complete", "refused"} /\ q.trip \in 1..trips /\ trips \in Nat
        /\ q.events \in Seq(EventSet) /\ \A i \in DOMAIN q.events : q.events[i].trip = q.trip
        /\ DOMAIN q = {"op", "trip", "driver", "events", "books", "wallets"}
  BY <1>2 DEF ServingOK, LogInv
  <2>2. q.trip \in 1..trips' BY <2>1
  <2>3. q.op = "demand" => DemandOK(q)' BY <1>2 DEF ServingOK, DemandOK
  <2>4. ASSUME q.op # "demand" PROVE CompletionOK(q)'
    <3>1. CompletionOK(q) BY <1>2, <2>4 DEF ServingOK
    <3>2. \A b \in q.books : BookOK(b)' BY <3>1 DEF CompletionOK, BookOK
    <3> QED BY <3>1, <3>2 DEF CompletionOK
  <2> QED BY <2>1, <2>2, <2>3, <2>4 DEF ServingOK
<1> QED BY <1>1, <1>2

\* With the log as it was, the trips are.
LEMMA LogStays ==
  ASSUME UNCHANGED events
  PROVE  \A u : /\ EventsOf(u)' = EventsOf(u) /\ ChoicesOf(u)' = ChoicesOf(u)
                /\ StateOf(u)' = StateOf(u) /\ DriverOf(u)' = DriverOf(u)
BY DEF EventsOf, ChoicesOf, StateOf, DriverOf

\* What the workers serve next, each fit for the state it is in.
LEMMA ServingNext ==
  ASSUME NEW next, DOMAIN next = SpineWorkers, serving' = next,
         \A w \in SpineWorkers : ServingOK(next[w])',
         \A v, w \in SpineWorkers : v # w => Apart(next[v], next[w])
  PROVE  ServingInv'
<1>1. ASSUME NEW w \in SpineWorkers PROVE ServingOK(serving[w])'
  <2>1. PICK q : q = next[w] OBVIOUS
  <2>2. ServingOK(q)' /\ serving'[w] = q BY <2>1
  <2>3. DemandOK(q)' => DemandOK(serving[w])' BY <2>2 DEF DemandOK
  <2>4. CompletionOK(q)' => CompletionOK(serving[w])' BY <2>2 DEF CompletionOK, BookOK
  <2> QED BY <2>2, <2>3, <2>4 DEF ServingOK
<1>2. \A v, w \in SpineWorkers : v # w => Apart(serving[v], serving[w])' BY DEF Apart
<1> QED BY <1>1, <1>2 DEF ServingInv

\* A request that begins, reads on or is dropped writes nothing.
LEMMA RequestBegins ==
  ASSUME SpineInv, NEW w \in SpineWorkers, NEW q, serving' = [serving EXCEPT ![w] = q],
         UNCHANGED <<active, events, books, late, mispaid>>, trips' \in Nat, trips <= trips',
         suppressed \subseteq suppressed',
         ServingOK(q)', \A v \in SpineWorkers \ {w} : Apart(serving[v], q)
  PROVE  SpineInv'
<1>1. LogInv'
  <2>1. trips \in Nat /\ \A i \in 1..trips : i \in 1..trips' BY DEF SpineInv, LogInv
  <2> QED BY <2>1 DEF SpineInv, LogInv
<1>2. \A u : /\ EventsOf(u)' = EventsOf(u) /\ ChoicesOf(u)' = ChoicesOf(u)
             /\ StateOf(u)' = StateOf(u) /\ DriverOf(u)' = DriverOf(u)
BY LogStays
<1>3. PICK next : next = [serving EXCEPT ![w] = q] OBVIOUS
<1>4. /\ DOMAIN next = SpineWorkers
      /\ \A v \in SpineWorkers : next[v] = IF v = w THEN q ELSE serving[v]
BY <1>3 DEF SpineInv, ServingInv
<1>6. \A v \in SpineWorkers : ServingOK(next[v])'
  <2>1. ASSUME NEW p, ServingOK(p) PROVE ServingOK(p)' BY <1>2, <2>1, ServingStays DEF SpineInv
  <2> QED BY <1>4, <2>1 DEF SpineInv, ServingInv
<1>7. \A u, v \in SpineWorkers : u # v => Apart(next[u], next[v])
BY <1>4 DEF SpineInv, ServingInv, Apart
<1>8. ServingInv'
  <2>1. serving' = next BY <1>3
  <2> HIDE DEF ServingInv
  <2> QED BY <2>1, <1>4, <1>6, <1>7, ServingNext
<1>9. /\ \A d \in SpineDrivers : DriverHolds(d)'
      /\ \A b \in books' : BookOK(b)'
      /\ \A t \in Nat : TripHolds(t)' /\ TripPaid(t)'
BY <1>2 DEF SpineInv, DriverHolds, BookOK, TripHolds, TripPaid
<1> QED BY <1>1, <1>8, <1>9 DEF SpineInv, DriverHolds, TripHolds, TripPaid

\* A sequence of one event.
LEMMA OneEvent ==
  ASSUME NEW x \in EventSet
  PROVE  <<x>> \in Seq(EventSet) /\ <<x>> # <<>> /\ \A i \in DOMAIN <<x>> : <<x>>[i] = x
<1>1. PICK S : S = EventSet OBVIOUS
<1>2. <<>> \in Seq(S) /\ Append(<<>>, x) \in Seq(S) BY <1>1
<1>3. <<x>> = Append(<<>>, x) OBVIOUS
<1> QED BY <1>1, <1>2, <1>3

\* The events a demand prepares.
LEMMA Prepared ==
  ASSUME NEW t \in Nat, NEW to, NEW d \in SpineDrivers \union {NoSpineDriver}, NEW k \in Keys, NEW what,
         \/ to = "MATCHING" /\ what = "matching"
         \/ to = "DRIVER_EN_ROUTE" /\ what = "accepted",
         NEW e, e = Append1(t, to, d, <<k, what>>)
  PROVE  /\ e \in Seq(EventSet) /\ Len(e) \in {0, 1} /\ (e # <<>> => Len(e) = 1)
         /\ \A i \in DOMAIN e : i = 1 /\ e[i].trip = t /\ e[i].to = to /\ e[i].driver = d
<1>1. PICK x : x = [trip |-> t, to |-> to, driver |-> d, key |-> <<k, what>>] OBVIOUS
<1>2. x \in EventSet /\ x.trip = t /\ x.to = to /\ x.driver = d
  <2>1. <<k, what>> \in Keys \X {"matching", "accepted", "completed"} OBVIOUS
  <2> QED BY <1>1, <2>1 DEF EventSet
<1>3. e = <<>> \/ e = <<x>> BY <1>1 DEF Append1
<1>4. CASE e = <<>>
  <2>1. e \in Seq(EventSet) /\ Len(e) = 0 /\ DOMAIN e = {} BY <1>4
  <2> QED BY <1>4, <2>1
<1>5. CASE e = <<x>>
  <2>1. e \in Seq(EventSet) BY <1>2, <1>5, OneEvent
  <2>2. Len(e) = 1 /\ e[1] = x BY <1>5
  <2>3. \A i \in DOMAIN e : i = 1 BY <1>5
  <2> QED BY <1>2, <2>1, <2>2, <2>3
<1> QED BY <1>3, <1>4, <1>5

\* A demand begins with a trip of its own and a driver nobody else has locked.
LEMMA DemandBegins ==
  ASSUME SpineInv, NEW w \in SpineWorkers, NEW k \in Keys,
         NEW d \in SpineDrivers \union {NoSpineDriver}, BeginDemand(w, k, d)
  PROVE  SpineInv'
<1>1. trips \in Nat /\ LogInv /\ ServingInv BY DEF SpineInv, LogInv
<1>2. PICK t : t = trips + 1 OBVIOUS
<1>3. t \in Nat /\ t \in 1..t /\ t \notin 1..trips /\ trips <= t BY <1>1, <1>2
<1>4. PICK matching, accepted :
        /\ matching = Append1(t, "MATCHING", NoSpineDriver, <<k, "matching">>)
        /\ accepted = IF d = NoSpineDriver THEN <<>> ELSE Append1(t, "DRIVER_EN_ROUTE", d, <<k, "accepted">>)
OBVIOUS
<1>5. PICK q : q = [op |-> "demand", trip |-> t, driver |-> d, events |-> matching \o accepted,
                    books |-> {}, wallets |-> {}] OBVIOUS
<1>6. /\ serving' = [serving EXCEPT ![w] = q] /\ trips' = t /\ UNCHANGED <<active, events, books, late, mispaid>>
      /\ suppressed' = IF matching = <<>> \/ (d # NoSpineDriver /\ accepted = <<>>)
                       THEN suppressed \union {t} ELSE suppressed
BY <1>2, <1>4, <1>5 DEF BeginDemand
<1>7. EventsOf(t)' = {}
  <2>1. EventsOf(t)' = EventsOf(t) BY <1>6, LogStays
  <2> QED BY <1>1, <1>3, <2>1 DEF LogInv, EventsOf
<1>8. d # NoSpineDriver => active'[d].status = "AVAILABLE"
BY <1>6 DEF BeginDemand, Selectable
<1>9. /\ matching \in Seq(EventSet) /\ Len(matching) \in {0, 1} /\ (matching # <<>> => Len(matching) = 1)
      /\ \A i \in DOMAIN matching : i = 1 /\ matching[i].trip = t /\ matching[i].to = "MATCHING"
BY <1>3, <1>4, Prepared
<1>10. /\ accepted \in Seq(EventSet) /\ Len(accepted) \in {0, 1} /\ (accepted # <<>> => Len(accepted) = 1)
       /\ \A i \in DOMAIN accepted : /\ i = 1 /\ accepted[i].trip = t /\ accepted[i].to = "DRIVER_EN_ROUTE"
                                   /\ accepted[i].driver = d /\ d \in SpineDrivers
  <2>1. CASE d = NoSpineDriver BY <1>4, <2>1
  <2>2. CASE d # NoSpineDriver
    <3>1. accepted = Append1(t, "DRIVER_EN_ROUTE", d, <<k, "accepted">>) /\ d \in SpineDrivers BY <1>4, <2>2
    <3>2. /\ accepted \in Seq(EventSet) /\ Len(accepted) \in {0, 1} /\ (accepted # <<>> => Len(accepted) = 1)
          /\ \A i \in DOMAIN accepted : /\ i = 1 /\ accepted[i].trip = t
                                      /\ accepted[i].to = "DRIVER_EN_ROUTE" /\ accepted[i].driver = d
      <4>1. d \in SpineDrivers \union {NoSpineDriver} /\ t \in Nat BY <1>3
      <4>2. PICK to, what : to = "DRIVER_EN_ROUTE" /\ what = "accepted" OBVIOUS
      <4>3. accepted = Append1(t, to, d, <<k, what>>) BY <3>1, <4>2
      <4>4. /\ accepted \in Seq(EventSet) /\ Len(accepted) \in {0, 1} /\ (accepted # <<>> => Len(accepted) = 1)
            /\ \A i \in DOMAIN accepted : i = 1 /\ accepted[i].trip = t /\ accepted[i].to = to
                                         /\ accepted[i].driver = d
      BY <4>1, <4>2, <4>3, Prepared
      <4> QED BY <4>2, <4>4
    <3> QED BY <3>1, <3>2
  <2> QED BY <2>1, <2>2
<1>11. PICK more : more = matching \o accepted OBVIOUS
<1>12. /\ more \in Seq(EventSet)
       /\ \A i \in DOMAIN more :
            /\ more[i].trip = t /\ more[i].to \in {"MATCHING", "DRIVER_EN_ROUTE"}
            /\ more[i].to = "DRIVER_EN_ROUTE" => more[i].driver = d /\ d \in SpineDrivers
       /\ accepted # <<>> => more # <<>> /\ more[Len(more)].to = "DRIVER_EN_ROUTE"
BY <1>9, <1>10, <1>11
<1>13. ServingOK(q)'
  <2>1. d # NoSpineDriver /\ t \notin suppressed' => accepted # <<>> BY <1>6
  <2>2. DemandOK(q)' BY <1>5, <1>7, <1>8, <1>11, <1>12, <2>1 DEF DemandOK
  <2> QED BY <1>3, <1>5, <1>6, <1>11, <1>12, <2>2 DEF ServingOK
<1>14. ASSUME NEW v \in SpineWorkers \ {w} PROVE Apart(serving[v], q)
  <2>1. serving[v].op = "demand" => serving[v].trip \in 1..trips BY <1>1 DEF ServingInv, ServingOK, Idle
  <2>2. d # NoSpineDriver /\ serving[v].op = "demand" => serving[v].driver # d BY DEF BeginDemand, Selectable
  <2> QED BY <1>3, <1>5, <2>1, <2>2 DEF Apart
<1>15. trips' \in Nat /\ trips <= trips' /\ suppressed \subseteq suppressed' BY <1>3, <1>6
<1> QED BY <1>6, <1>13, <1>14, <1>15, RequestBegins

\* A completion begins with what the log says of the trip: its driver, and a split that
\* balances.
LEMMA CompletionBegins ==
  ASSUME SpineInv, NEW w \in SpineWorkers, NEW k \in Keys, NEW t \in Trips, NEW s \in Splits,
         BeginTripComplete(w, t, k, s)
  PROVE  SpineInv'
<1>1. trips \in Nat /\ LogInv /\ ServingInv BY DEF SpineInv, LogInv
<1>2. StateOf(t) = "DRIVER_EN_ROUTE" BY DEF BeginTripComplete, Completable
<1>3. PICK d \in SpineDrivers : d = DriverOf(t) BY <1>1, <1>2, UnderWay
<1>4. ChoicesOf(t) # {} /\ t \in 1..trips /\ t \in Nat
  <2>1. ChoicesOf(t) # {} BY <1>1, <1>2, UnderWay
  <2>2. PICK i \in DOMAIN events : events[i].trip = t BY <2>1 DEF ChoicesOf, EventsOf
  <2>3. t \in 1..trips BY <1>1, <2>2 DEF LogInv
  <2> QED BY <2>1, <2>3
<1>5. PICK paid, e :
        /\ paid = IF \E b \in books : b.ref = k THEN {}
                  ELSE {[ref |-> k, trip |-> t, entries |-> Entries(d, s)]}
        /\ e = [trip |-> t, to |-> "TRIP_COMPLETED", driver |-> d, key |-> <<k, "completed">>]
OBVIOUS
<1>6. PICK q : q = [op |-> "paying", trip |-> t, driver |-> d, events |-> <<e>>, books |-> paid,
                    wallets |-> {d} \ wallets] OBVIOUS
<1>7. /\ serving' = [serving EXCEPT ![w] = q]
      /\ UNCHANGED <<active, events, books, late, mispaid, suppressed, trips>>
BY <1>3, <1>5, <1>6 DEF BeginTripComplete
<1>8. e \in EventSet /\ e.trip = t /\ e.to = "TRIP_COMPLETED"
  <2>1. <<k, "completed">> \in Keys \X {"matching", "accepted", "completed"} OBVIOUS
  <2> QED BY <1>4, <1>5, <2>1 DEF EventSet
<1>9. ChoicesOf(t)' # {} /\ DriverOf(t)' = d BY <1>3, <1>4, <1>7, LogStays
<1>10. ASSUME NEW b \in paid PROVE b.trip = t /\ BookOK(b)'
  <2>1. b = [ref |-> k, trip |-> t, entries |-> Entries(d, s)] BY <1>5, <1>10
  <2>2. /\ s.fare \in Nat /\ s.driver \in Nat /\ s.processing \in Nat /\ s.platform \in Nat
        /\ s.driver + s.platform + s.processing = s.fare
  BY SpineAssumption DEF BeginTripComplete, Splittable
  <2>3. PICK x : x = Entries(d, s) OBVIOUS
  <2>4. x.wallet = d /\ x.debit = x.credit BY <2>2, <2>3 DEF Entries
  <2>5. b.trip = t /\ b.entries = x BY <2>1, <2>3
  <2> QED BY <1>9, <2>4, <2>5 DEF BookOK, ChoicesOf, DriverOf, EventsOf
<1>11. paid = {} \/ \E b : paid = {b} BY <1>5
<1>12. ServingOK(q)'
  <2>1. q.events \in Seq(EventSet) /\ q.events # <<>> /\ \A i \in DOMAIN q.events : q.events[i] = e
  BY <1>6, <1>8, OneEvent
  <2>2. CompletionOK(q)' BY <1>6, <1>8, <1>9, <1>10, <1>11, <2>1 DEF CompletionOK
  <2> QED BY <1>4, <1>6, <1>7, <1>8, <2>1, <2>2 DEF ServingOK
<1>13. \A v \in SpineWorkers \ {w} : Apart(serving[v], q) BY <1>6 DEF Apart
<1>14. trips' \in Nat /\ trips <= trips' /\ suppressed \subseteq suppressed' BY <1>1, <1>7
<1> QED BY <1>7, <1>12, <1>13, <1>14, RequestBegins

\* The second read keeps the event of a completion, or takes it away.
LEMMA CompletionReadsOn ==
  ASSUME SpineInv, NEW w \in SpineWorkers, CheckAgain(w)
  PROVE  SpineInv'
<1>1. PICK q, t : q = serving[w] /\ t = q.trip OBVIOUS
<1>2. /\ trips \in Nat /\ ServingInv /\ q.op = "paying" /\ ServingOK(q) /\ q # Idle
BY <1>1 DEF SpineInv, ServingInv, LogInv, CheckAgain, Idle
<1>3. /\ CompletionOK(q) /\ t \in 1..trips
      /\ q.events \in Seq(EventSet) /\ q.events # <<>> /\ \A i \in DOMAIN q.events : q.events[i].trip = t
BY <1>1, <1>2 DEF ServingOK, CompletionOK
<1>4. PICK e : e = Head(q.events) OBVIOUS
<1>5. e \in EventSet /\ e.trip = t /\ e.to = "TRIP_COMPLETED"
  <2>1. 1 \in DOMAIN q.events /\ e = q.events[1] /\ e \in EventSet BY <1>3, <1>4
  <2> QED BY <1>3, <2>1 DEF CompletionOK
<1>6. PICK op, more :
        /\ op = IF Completable(e.trip) THEN "complete" ELSE "refused"
        /\ more = IF Completable(e.trip) THEN Append1(e.trip, e.to, e.driver, e.key) ELSE <<>>
OBVIOUS
<1>7. PICK p : p = [q EXCEPT !.op = op, !.events = more] OBVIOUS
<1>8. /\ serving' = [serving EXCEPT ![w] = p]
      /\ UNCHANGED <<active, events, books, late, mispaid, suppressed, trips>>
  <2>1. serving' = [serving EXCEPT ![w].op = op, ![w].events = more]
  BY <1>1, <1>4, <1>6 DEF CheckAgain
  <2> QED BY <1>1, <1>2, <1>7, <2>1 DEF CheckAgain, ServingInv
<1>9. more = <<>> \/ (more = <<e>> /\ op = "complete")
  <2>1. e = [trip |-> e.trip, to |-> e.to, driver |-> e.driver, key |-> e.key] BY <1>5 DEF EventSet
  <2> QED BY <1>6, <2>1 DEF Append1
<1>10. more \in Seq(EventSet) /\ \A i \in DOMAIN more : more[i].trip = t /\ more[i].to = "TRIP_COMPLETED"
  <2>1. CASE more = <<>>
    <3>1. more \in Seq(EventSet) /\ DOMAIN more = {} BY <2>1
    <3> QED BY <3>1
  <2>2. CASE more = <<e>> BY <1>5, <2>2, OneEvent
  <2> QED BY <1>9, <2>1, <2>2
<1>11. /\ p.op = op /\ p.events = more /\ p.trip = t /\ p.driver = q.driver /\ p.books = q.books
       /\ op \in {"complete", "refused"} /\ (op = "refused" => more = <<>>)
       /\ DOMAIN p = {"op", "trip", "driver", "events", "books", "wallets"}
  <2>1. DOMAIN q = {"op", "trip", "driver", "events", "books", "wallets"} BY <1>2 DEF ServingOK
  <2>2. /\ p.op = op /\ p.events = more /\ p.trip = q.trip /\ p.driver = q.driver /\ p.books = q.books
        /\ DOMAIN p = DOMAIN q
  BY <1>7, <2>1
  <2> QED BY <1>1, <1>6, <2>1, <2>2
<1>12. CompletionOK(p)'
  <2>1. \A b \in q.books : BookOK(b)' BY <1>3, <1>8, LogStays DEF CompletionOK, BookOK
  <2>2. ChoicesOf(t)' # {} /\ q.driver = DriverOf(t)' BY <1>1, <1>3, <1>8, LogStays DEF CompletionOK
  <2> QED BY <1>1, <1>3, <1>10, <1>11, <2>1, <2>2 DEF CompletionOK
<1>13. ServingOK(p)' BY <1>3, <1>8, <1>10, <1>11, <1>12 DEF ServingOK
<1>14. \A v \in SpineWorkers \ {w} : Apart(serving[v], p) BY <1>11 DEF Apart
<1>15. trips' \in Nat /\ trips <= trips' /\ suppressed \subseteq suppressed' BY <1>2, <1>8
<1> QED BY <1>8, <1>13, <1>14, <1>15, RequestBegins

\* What a worker writes is its trip's alone, whoever else is being served.
LEMMA Committing ==
  ASSUME SpineInv, NEW w \in SpineWorkers, serving[w] # Idle,
         events' = events \o serving[w].events, serving' = [serving EXCEPT ![w] = Idle],
         trips' = trips, suppressed \subseteq suppressed',
         \A v \in SpineWorkers : v # w /\ serving[v].op = "demand" /\ serving[v].driver # NoSpineDriver =>
                                  active'[serving[v].driver] = active[serving[v].driver]
  PROVE  LogInv' /\ ServingInv'
<1>q. PICK q : q = serving[w] OBVIOUS
<1>1. LogInv /\ ServingInv /\ ServingOK(q) /\ q # Idle BY <1>q DEF SpineInv, ServingInv
<1>2. /\ q.trip \in Nat /\ q.trip \in 1..trips /\ q.events \in Seq(EventSet) /\ trips \in Nat
      /\ \A i \in DOMAIN q.events : q.events[i].trip = q.trip
  <2>1. trips \in Nat BY <1>1 DEF LogInv
  <2> QED BY <1>1, <2>1 DEF ServingOK
<1>3. /\ q.op = "demand" => DemandOK(q)
      /\ q.op # "demand" => CompletionOK(q)
BY <1>1 DEF ServingOK
<1>a. PICK t, more : t = q.trip /\ more = q.events OBVIOUS
<1>b. /\ t \in Nat /\ more \in Seq(EventSet) /\ \A j \in DOMAIN more : more[j].trip = t
      /\ events' = events \o more
BY <1>2, <1>a, <1>q
<1>c. /\ \A u : u # t => EventsOf(u)' = EventsOf(u)
      /\ \A u : ChoicesOf(u) # {} /\ (u = t => \A j \in DOMAIN more : more[j].to # "DRIVER_EN_ROUTE") =>
           ChoicesOf(u)' # {} /\ DriverOf(u)' = DriverOf(u)
  <2>1. ASSUME NEW u, u # t PROVE EventsOf(u)' = EventsOf(u) BY <1>1, <1>b, <2>1, LogGrows
  <2>2. ASSUME NEW u, ChoicesOf(u) # {}, u = t => \A j \in DOMAIN more : more[j].to # "DRIVER_EN_ROUTE"
        PROVE  ChoicesOf(u)' # {} /\ DriverOf(u)' = DriverOf(u)
  BY <1>1, <1>b, <2>2, LogGrows
  <2> QED BY <2>1, <2>2
<1>4. \A u : ChoicesOf(u) # {} => ChoicesOf(u)' # {} /\ DriverOf(u)' = DriverOf(u)
  <2> SUFFICES ASSUME ChoicesOf(t) # {} PROVE \A i \in DOMAIN more : more[i].to # "DRIVER_EN_ROUTE"
  BY <1>c
  <2>1. q.op # "demand" BY <1>3, <1>a DEF DemandOK, ChoicesOf
  <2> QED BY <1>2, <1>3, <1>a, <2>1 DEF CompletionOK
<1>5. LogInv'
  <2>1. \A i \in DOMAIN q.events : q.events[i].trip \in 1..trips /\
          (q.events[i].to = "DRIVER_EN_ROUTE" => q.events[i].driver \in SpineDrivers)
  BY <1>2, <1>3 DEF DemandOK, CompletionOK
  <2>3. events \in Seq(EventSet) /\ more \in Seq(EventSet) /\ events' = events \o more
  BY <1>1, <1>b DEF LogInv
  <2>4. events' \in Seq(EventSet) BY <2>3
  <2>5. ASSUME NEW i \in DOMAIN events'
        PROVE  (i \in DOMAIN events /\ events'[i] = events[i]) \/ \E j \in DOMAIN more : events'[i] = more[j]
  BY <2>3, <2>5
  <2>6. \A i \in DOMAIN events : events[i].trip \in 1..trips /\
          (events[i].to = "DRIVER_EN_ROUTE" => events[i].driver \in SpineDrivers)
  BY <1>1 DEF LogInv
  <2>7. ASSUME NEW i \in DOMAIN events'
        PROVE  events'[i].trip \in 1..trips /\
                 (events'[i].to = "DRIVER_EN_ROUTE" => events'[i].driver \in SpineDrivers)
  BY <1>a, <2>1, <2>5, <2>6
  <2> QED BY <1>2, <2>4, <2>7 DEF LogInv
<1>6. PICK next : next = [serving EXCEPT ![w] = Idle] OBVIOUS
<1>7. /\ DOMAIN next = SpineWorkers
      /\ \A v \in SpineWorkers : next[v] = IF v = w THEN Idle ELSE serving[v]
BY <1>1, <1>6 DEF ServingInv
<1>8. ServingOK(Idle)' BY DEF ServingOK
<1>9. ASSUME NEW v \in SpineWorkers, v # w PROVE ServingOK(next[v])'
  <2>1. PICK p : p = serving[v] OBVIOUS
  <2>2. ServingOK(p) /\ Apart(p, q) BY <1>1, <1>9, <1>q, <2>1 DEF ServingInv
  <2>3. p.op = "demand" => /\ EventsOf(p.trip) = {} => EventsOf(p.trip)' = {}
                           /\ p.driver # NoSpineDriver => active'[p.driver].status = active[p.driver].status
    <3>1. SUFFICES ASSUME p.op = "demand"
                   PROVE  /\ EventsOf(p.trip) = {} => EventsOf(p.trip)' = {}
                          /\ p.driver # NoSpineDriver => active'[p.driver].status = active[p.driver].status
    OBVIOUS
    <3>2. DemandOK(p) BY <2>2, <3>1 DEF ServingOK, Idle
    <3>3. p.trip # q.trip
      <4>1. q.op = "demand" => p.trip # q.trip BY <2>2, <3>1 DEF Apart
      <4>2. q.op # "demand" => p.trip # q.trip BY <1>3, <3>2 DEF DemandOK, CompletionOK, ChoicesOf
      <4> QED BY <1>2, <4>1, <4>2
    <3>4. EventsOf(p.trip)' = EventsOf(p.trip)
      <4>1. PICK u : u = p.trip OBVIOUS
      <4>2. EventsOf(u)' = EventsOf(u) BY <1>a, <1>c, <3>3, <4>1
      <4> QED BY <4>1, <4>2 DEF EventsOf
    <3>5. p.driver # NoSpineDriver => active'[p.driver] = active[p.driver] BY <1>9, <2>1, <3>1
    <3> QED BY <3>4, <3>5
  <2>4. ServingOK(p)'
    <3>1. trips' \in Nat /\ trips <= trips' BY <1>2
    <3> QED BY <1>1, <1>4, <2>2, <2>3, <3>1, ServingStays
  <2>5. next[v] = p BY <1>7, <1>9, <2>1
  <2> QED BY <2>4, <2>5
<1>10. \A u, v \in SpineWorkers : u # v => Apart(next[u], next[v])
BY <1>1, <1>7 DEF ServingInv, Apart, Idle
<1>11. \A v \in SpineWorkers : ServingOK(next[v])' BY <1>7, <1>8, <1>9
<1>12. ServingInv'
  <2>1. serving' = next BY <1>6
  <2> HIDE DEF ServingInv
  <2> QED BY <2>1, <1>7, <1>10, <1>11, ServingNext
<1> QED BY <1>5, <1>12

\* A demand that commits: its driver and its trip name each other.
LEMMA DemandCommits ==
  ASSUME SpineInv, NEW w \in SpineWorkers, CommitDemand(w)
  PROVE  SpineInv'
<1>1. PICK q, t, d, more : q = serving[w] /\ t = q.trip /\ d = q.driver /\ more = q.events OBVIOUS
<1>2. /\ LogInv /\ q # Idle /\ q.op = "demand" /\ ServingOK(q)
      /\ events' = events \o more /\ serving' = [serving EXCEPT ![w] = Idle]
      /\ UNCHANGED <<books, trips, suppressed, late, mispaid>>
      /\ active' = IF d = NoSpineDriver THEN active
                   ELSE [active EXCEPT ![d] = [status |-> "DISPATCHED", trip |-> t]]
BY <1>1 DEF CommitDemand, SpineInv, ServingInv, Idle
<1>3. /\ DemandOK(q) /\ t \in Nat /\ t \in 1..trips /\ trips \in Nat /\ more \in Seq(EventSet)
      /\ \A j \in DOMAIN more : more[j].trip = t
  <2>1. trips \in Nat BY <1>2 DEF LogInv
  <2> QED BY <1>1, <1>2, <2>1 DEF ServingOK
<1>4. /\ active \in DriverRows
      /\ active' \in DriverRows
      /\ \A e \in SpineDrivers : active'[e] = IF e = d THEN [status |-> "DISPATCHED", trip |-> t] ELSE active[e]
  <2>1. d \in SpineDrivers \union {NoSpineDriver} BY <1>1, <1>3 DEF DemandOK
  <2> QED BY <1>2, <1>3, <2>1, SpineAssumption DEF SpineInv, DriverRows
<1>5. LogInv' /\ ServingInv'
  <2>1. \A v \in SpineWorkers \ {w} : serving[v].op = "demand" /\ serving[v].driver # NoSpineDriver =>
                                        serving[v].driver # d
  BY <1>1, <1>2 DEF SpineInv, ServingInv, Apart
  <2>2. ASSUME NEW v \in SpineWorkers, serving[v].op = "demand", serving[v].driver # NoSpineDriver
        PROVE  serving[v].driver \in SpineDrivers
  BY <2>2 DEF SpineInv, ServingInv, ServingOK, DemandOK, Idle
  <2>3. \A v \in SpineWorkers : v # w /\ serving[v].op = "demand" /\ serving[v].driver # NoSpineDriver =>
                                active'[serving[v].driver] = active[serving[v].driver]
  BY <1>4, <2>1, <2>2
  <2>4. /\ serving[w] # Idle /\ events' = events \o serving[w].events
        /\ serving' = [serving EXCEPT ![w] = Idle] /\ trips' = trips /\ suppressed \subseteq suppressed'
  BY <1>1, <1>2
  <2> QED BY <2>3, <2>4, Committing
<1>6. /\ \A u : u # t => StateOf(u)' = StateOf(u)
      /\ \A u : ChoicesOf(u) # {} => u # t /\ ChoicesOf(u)' # {} /\ DriverOf(u)' = DriverOf(u)
      /\ more = <<>> => StateOf(t)' = StateOf(t)
      /\ more # <<>> => StateOf(t)' = more[Len(more)].to
      /\ more # <<>> /\ more[Len(more)].to = "DRIVER_EN_ROUTE" =>  DriverOf(t)' = more[Len(more)].driver
  <2>1. ChoicesOf(t) = {} BY <1>1, <1>3 DEF DemandOK, ChoicesOf
  <2>2. /\ LogInv /\ t \in Nat /\ more \in Seq(EventSet) /\ \A j \in DOMAIN more : more[j].trip = t
        /\ events' = events \o more
  BY <1>2, <1>3
  <2>3. ASSUME NEW u, u # t PROVE StateOf(u)' = StateOf(u) BY <2>2, <2>3, LogGrows
  <2>7. ASSUME NEW u, ChoicesOf(u) # {} PROVE u # t /\ ChoicesOf(u)' # {} /\ DriverOf(u)' = DriverOf(u)
    <3>1. u # t BY <2>1, <2>7
    <3> QED BY <2>2, <2>7, <3>1, LogGrows
  <2>4. more = <<>> => StateOf(t)' = StateOf(t) BY <2>2, LogGrows
  <2>5. more # <<>> => StateOf(t)' = more[Len(more)].to BY <2>2, LogGrows
  <2>6. more # <<>> /\ more[Len(more)].to = "DRIVER_EN_ROUTE" => DriverOf(t)' = more[Len(more)].driver
  BY <2>2, LogGrows
  <2> QED BY <2>3, <2>4, <2>5, <2>6, <2>7
<1>7. StateOf(t) = "IDLE" /\ (d # NoSpineDriver => active[d].status = "AVAILABLE")
BY <1>1, <1>3 DEF DemandOK, StateOf
<1>8. more # <<>> =>
        /\ more[Len(more)].to \in {"MATCHING", "DRIVER_EN_ROUTE"}
        /\ more[Len(more)].to = "DRIVER_EN_ROUTE" => more[Len(more)].driver = d /\ d \in SpineDrivers
  <2>1. more # <<>> => Len(more) \in DOMAIN more BY <1>3
  <2> QED BY <1>1, <1>3, <2>1 DEF DemandOK
<1>9. d # NoSpineDriver /\ t \notin suppressed => StateOf(t)' = "DRIVER_EN_ROUTE" /\ DriverOf(t)' = d
BY <1>1, <1>3, <1>6, <1>8 DEF DemandOK
<1>10. ASSUME NEW e \in SpineDrivers PROVE DriverHolds(e)'
  <2>1. CASE e = d
    <3>1. d # NoSpineDriver BY <2>1, SpineAssumption
    <3>2. active'[e].trip = t BY <1>4, <2>1
    <3> QED BY <1>2, <1>9, <2>1, <3>1, <3>2 DEF DriverHolds
  <2>2. CASE e # d
    <3>1. PICK u : u = active[e].trip /\ u = active'[e].trip BY <1>4, <2>2
    <3>2. DriverHolds(e) BY DEF SpineInv
    <3>3. StateOf(u) = "DRIVER_EN_ROUTE" => StateOf(u)' = "DRIVER_EN_ROUTE" /\ DriverOf(u)' = DriverOf(u)
    BY <1>2, <1>6, UnderWay
    <3> QED BY <1>2, <1>4, <2>2, <3>1, <3>2, <3>3 DEF DriverHolds
  <2> QED BY <2>1, <2>2
<1>11. \A b \in books' : BookOK(b)' BY <1>2, <1>6 DEF SpineInv, BookOK
<1>12. ASSUME NEW u \in Nat PROVE TripHolds(u)'
  <2>1. SUFFICES ASSUME u \notin suppressed \union late, StateOf(u)' = "DRIVER_EN_ROUTE"
                 PROVE  active'[DriverOf(u)'] = [status |-> "DISPATCHED", trip |-> u]
  BY <1>2 DEF TripHolds
  <2>2. TripHolds(u) BY DEF SpineInv
  <2>3. CASE u # t
    <3>1. StateOf(u) = "DRIVER_EN_ROUTE" BY <1>6, <2>1, <2>3
    <3>2. PICK e \in SpineDrivers : e = DriverOf(u) BY <1>2, <3>1, UnderWay
    <3>3. DriverOf(u)' = DriverOf(u) BY <1>2, <1>6, <3>1, UnderWay
    <3>4. active[e] = [status |-> "DISPATCHED", trip |-> u] BY <2>1, <2>2, <3>1, <3>2 DEF TripHolds
    <3>5. e # d BY <1>7, <3>4, SpineAssumption
    <3> QED BY <1>4, <3>2, <3>3, <3>4, <3>5
  <2>4. CASE u = t
    <3>1. DriverOf(u)' = d /\ d \in SpineDrivers BY <1>6, <1>7, <1>8, <2>1, <2>4
    <3> QED BY <1>4, <2>4, <3>1
  <2> QED BY <2>3, <2>4
<1>13. ASSUME NEW u \in Nat PROVE TripPaid(u)'
  <2>1. TripPaid(u) BY DEF SpineInv
  <2>2. u = t => StateOf(u) # "TRIP_COMPLETED" /\ StateOf(u)' # "TRIP_COMPLETED" BY <1>6, <1>7, <1>8
  <2> QED BY <1>2, <1>6, <2>1, <2>2 DEF TripPaid
<1> QED BY <1>4, <1>5, <1>10, <1>11, <1>12, <1>13 DEF SpineInv

\* A completion that commits: its trip is paid, and the driver it frees was its own, or the
\* trip that loses it counts as touched.
LEMMA CompletionCommits ==
  ASSUME SpineInv, NEW w \in SpineWorkers, CommitTripComplete(w)
  PROVE  SpineInv'
<1>1. PICK q, t, d, more : q = serving[w] /\ t = q.trip /\ d = q.driver /\ more = q.events OBVIOUS
<1>2. /\ LogInv /\ q # Idle /\ ServingOK(q) /\ q.op = "complete"
      /\ events' = events \o more /\ serving' = [serving EXCEPT ![w] = Idle]
      /\ books' = books \union q.books /\ trips' = trips
      /\ suppressed' = IF more = <<>> THEN suppressed \union {t} ELSE suppressed
      /\ mispaid' = IF Completable(t) /\ q.books # {} /\ more # <<>> THEN mispaid ELSE mispaid \union {t}
      /\ active' = [active EXCEPT ![d] = [status |-> "AVAILABLE", trip |-> 0]]
      /\ late' = IF Completable(t) /\ t \notin suppressed \union late THEN late ELSE late \union {t, active[d].trip}
BY <1>1 DEF CommitTripComplete, SpineInv, ServingInv, Idle
<1>3. /\ CompletionOK(q) /\ t \in Nat /\ t \in 1..trips /\ trips \in Nat /\ more \in Seq(EventSet)
      /\ \A j \in DOMAIN more : more[j].trip = t
  <2>1. trips \in Nat BY <1>2 DEF LogInv
  <2> QED BY <1>1, <1>2, <2>1 DEF ServingOK
<1>4. /\ ChoicesOf(t) # {} /\ d = DriverOf(t) /\ \A j \in DOMAIN more : more[j].to = "TRIP_COMPLETED"
      /\ \A b \in q.books : b.trip = t /\ BookOK(b)
      /\ q.books # {} => \E b : q.books = {b}
BY <1>1, <1>3 DEF CompletionOK
<1>6. /\ active \in DriverRows
      /\ active' \in DriverRows
      /\ \A e \in SpineDrivers : active'[e] = IF e = d THEN [status |-> "AVAILABLE", trip |-> 0] ELSE active[e]
BY <1>2 DEF SpineInv, DriverRows
<1>7. LogInv' /\ ServingInv'
  <2>1. ASSUME NEW v \in SpineWorkers, serving[v].op = "demand", serving[v].driver # NoSpineDriver
        PROVE  serving[v].driver \in SpineDrivers
  BY <2>1 DEF SpineInv, ServingInv, ServingOK, DemandOK, Idle
  <2>2. \A v \in SpineWorkers : v # w /\ serving[v].op = "demand" /\ serving[v].driver # NoSpineDriver =>
                                active'[serving[v].driver] = active[serving[v].driver]
  BY <1>1, <1>6, <2>1 DEF CommitTripComplete
  <2>3. /\ serving[w] # Idle /\ events' = events \o serving[w].events
        /\ serving' = [serving EXCEPT ![w] = Idle] /\ trips' = trips /\ suppressed \subseteq suppressed'
  BY <1>1, <1>2
  <2> QED BY <2>1, <2>2, <2>3, Committing
<1>8. /\ \A u : u # t => StateOf(u)' = StateOf(u)
      /\ \A u : ChoicesOf(u) # {} => ChoicesOf(u)' # {} /\ DriverOf(u)' = DriverOf(u)
      /\ more # <<>> => StateOf(t)' = "TRIP_COMPLETED"
  <2>f. /\ LogInv /\ t \in Nat /\ more \in Seq(EventSet) /\ \A j \in DOMAIN more : more[j].trip = t
        /\ events' = events \o more
  BY <1>2, <1>3
  <2>1. ASSUME NEW u, u # t PROVE StateOf(u)' = StateOf(u) BY <2>f, <2>1, LogGrows
  <2>2. ASSUME NEW u, ChoicesOf(u) # {} PROVE ChoicesOf(u)' # {} /\ DriverOf(u)' = DriverOf(u)
    <3>1. \A j \in DOMAIN more : more[j].to # "DRIVER_EN_ROUTE" BY <1>4
    <3> QED BY <2>f, <2>2, <3>1, LogGrows
  <2>3. more # <<>> => StateOf(t)' = "TRIP_COMPLETED"
    <3>1. more # <<>> => Len(more) \in DOMAIN more BY <1>3
    <3>2. more # <<>> => StateOf(t)' = more[Len(more)].to BY <2>f, LogGrows
    <3> QED BY <1>4, <3>1, <3>2
  <2> QED BY <2>1, <2>2, <2>3
<1>9. ASSUME NEW e \in SpineDrivers PROVE DriverHolds(e)'
  <2>1. CASE e = d BY <1>6, <2>1 DEF DriverHolds
  <2>2. CASE e # d
    <3>1. PICK u : u = active[e].trip /\ u = active'[e].trip BY <1>6, <2>2
    <3>2. DriverHolds(e) BY DEF SpineInv
    <3>3. StateOf(u) = "DRIVER_EN_ROUTE" /\ DriverOf(u) = e =>
            StateOf(u)' = "DRIVER_EN_ROUTE" /\ DriverOf(u)' = e
      <4>1. DriverOf(u) = e => u # t BY <1>4, <2>2
      <4>2. StateOf(u) = "DRIVER_EN_ROUTE" => ChoicesOf(u) # {} BY <1>2, UnderWay
      <4> QED BY <1>8, <4>1, <4>2
    <3> QED BY <1>2, <1>6, <2>2, <3>1, <3>2, <3>3 DEF DriverHolds
  <2> QED BY <2>1, <2>2
<1>10. ASSUME NEW b \in books' PROVE BookOK(b)'
  <2>1. BookOK(b) BY <1>2, <1>4 DEF SpineInv
  <2> QED BY <1>8, <2>1 DEF BookOK
<1>11. ASSUME NEW u \in Nat PROVE TripHolds(u)'
  <2>1. SUFFICES ASSUME u \notin suppressed' \union late', StateOf(u)' = "DRIVER_EN_ROUTE"
                 PROVE  active'[DriverOf(u)'] = [status |-> "DISPATCHED", trip |-> u]
  BY DEF TripHolds
  <2>2. u \notin late /\ u \notin suppressed /\ TripHolds(u) BY <1>2, <2>1 DEF SpineInv
  <2>3. u # t BY <1>2, <1>8, <2>1
  <2>4. StateOf(u) = "DRIVER_EN_ROUTE" BY <1>8, <2>1, <2>3
  <2>5. PICK e \in SpineDrivers : e = DriverOf(u) BY <1>2, <2>4, UnderWay
  <2>6. DriverOf(u)' = DriverOf(u) BY <1>2, <1>8, <2>4, UnderWay
  <2>7. active[e] = [status |-> "DISPATCHED", trip |-> u] BY <2>2, <2>4, <2>5 DEF TripHolds
  <2>8. e # d
    <3>1. SUFFICES ASSUME e = d PROVE FALSE OBVIOUS
    <3>2. active[d].trip = u BY <2>7, <3>1
    <3>3. Completable(t) /\ t \notin suppressed \union late BY <1>2, <2>1, <3>2
    <3>4. TripHolds(t) BY <1>3 DEF SpineInv
    <3>5. active[d] = [status |-> "DISPATCHED", trip |-> t] BY <1>4, <3>3, <3>4 DEF TripHolds, Completable
    <3> QED BY <2>3, <3>2, <3>5
  <2> QED BY <1>6, <2>5, <2>6, <2>7, <2>8
<1>12. ASSUME NEW u \in Nat PROVE TripPaid(u)'
  <2>1. SUFFICES ASSUME u \notin mispaid' PROVE TripPaid(u)' BY DEF TripPaid
  <2>2. u \notin mispaid /\ TripPaid(u) BY <1>2, <2>1 DEF SpineInv
  <2>3. CASE u # t
    <3>1. StateOf(u)' = StateOf(u) BY <1>8, <2>3
    <3>2. {c \in books' : c.trip = u} = {c \in books : c.trip = u} BY <1>2, <1>4, <2>3
    <3> QED BY <2>2, <3>1, <3>2 DEF TripPaid
  <2>4. CASE u = t
    <3>1. Completable(t) /\ q.books # {} /\ more # <<>> BY <1>2, <2>1, <2>4
    <3>2. {c \in books : c.trip = t} = {} BY <2>2, <2>4, <3>1 DEF TripPaid, Completable
    <3>3. PICK b : q.books = {b} BY <1>4, <3>1
    <3>4. {c \in books' : c.trip = t} = {b} BY <1>2, <1>4, <3>2, <3>3
    <3>5. StateOf(t)' = "TRIP_COMPLETED" BY <1>8, <3>1
    <3> QED BY <2>4, <3>4, <3>5 DEF TripPaid
  <2> QED BY <2>3, <2>4
<1> QED BY <1>6, <1>7, <1>9, <1>10, <1>11, <1>12 DEF SpineInv

\* A completion refused at its second read keeps the transaction it inserted before: its
\* trip counts as paid for wrongly, and nothing else changes.
LEMMA RefusalCommits ==
  ASSUME SpineInv, NEW w \in SpineWorkers, CommitInvalidTransition(w)
  PROVE  SpineInv'
<1>1. PICK q : q = serving[w] OBVIOUS
<1>2. /\ LogInv /\ q # Idle /\ ServingOK(q) /\ q.op = "refused"
      /\ serving' = [serving EXCEPT ![w] = Idle] /\ books' = books \union q.books
      /\ mispaid' = IF q.books = {} THEN mispaid ELSE mispaid \union {q.trip}
      /\ UNCHANGED <<active, events, trips, suppressed, late>>
BY <1>1 DEF CommitInvalidTransition, SpineInv, ServingInv, Idle
<1>3. CompletionOK(q) /\ q.events = <<>> BY <1>2 DEF ServingOK, CompletionOK
<1>4. \A u : /\ ChoicesOf(u)' = ChoicesOf(u) /\ StateOf(u)' = StateOf(u) /\ DriverOf(u)' = DriverOf(u)
BY <1>2, LogStays
<1>5. LogInv' /\ ServingInv'
  <2>1. events' = events \o serving[w].events
    <3>1. events \in Seq(EventSet) BY <1>2 DEF LogInv
    <3> QED BY <1>1, <1>2, <1>3, <3>1
  <2> QED BY <1>1, <1>2, <2>1, Committing
<1>6. active' \in DriverRows /\ \A d \in SpineDrivers : DriverHolds(d)'
BY <1>2, <1>4 DEF SpineInv, DriverHolds
<1>7. \A b \in books' : BookOK(b)' BY <1>2, <1>3, <1>4 DEF SpineInv, CompletionOK, BookOK
<1>8. ASSUME NEW t \in Nat PROVE TripHolds(t)' /\ TripPaid(t)'
  <2>1. TripHolds(t) /\ TripPaid(t) BY DEF SpineInv
  <2>2. TripHolds(t)' BY <1>2, <1>4, <2>1 DEF TripHolds
  <2>3. t \notin mispaid' => t \notin mispaid /\ {c \in books' : c.trip = t} = {c \in books : c.trip = t}
  BY <1>2, <1>3 DEF CompletionOK
  <2> QED BY <1>4, <2>1, <2>2, <2>3 DEF TripPaid
<1> QED BY <1>5, <1>6, <1>7, <1>8 DEF SpineInv

\* Heartbeats, and transactions that roll back.
LEMMA SpineOtherSteps ==
  ASSUME SpineInv,
         \/ \E d \in SpineDrivers : SupplyHeartbeat(d)
         \/ \E w \in SpineWorkers : RollBackSpine(w)
         \/ UNCHANGED spineVars
  PROVE  SpineInv'
<1>1. ASSUME NEW w \in SpineWorkers, RollBackSpine(w) PROVE SpineInv'
  <2>1. trips \in Nat BY DEF SpineInv, LogInv
  <2>2. PICK q : q = Idle OBVIOUS
  <2>3. /\ serving' = [serving EXCEPT ![w] = q] /\ UNCHANGED <<active, events, books, late, mispaid>>
        /\ trips' \in Nat /\ trips <= trips' /\ suppressed \subseteq suppressed'
  BY <1>1, <2>1, <2>2 DEF RollBackSpine
  <2>4. ServingOK(q)' BY <2>2 DEF ServingOK
  <2>5. \A v \in SpineWorkers \ {w} : Apart(serving[v], q) BY <2>2 DEF Apart, Idle
  <2> QED BY <2>3, <2>4, <2>5, RequestBegins
<1>2. ASSUME UNCHANGED <<events, books, wallets, serving, trips, suppressed, late, mispaid>>,
             active' \in DriverRows,
             \A d \in SpineDrivers :
          active'[d] = active[d] \/ (active[d].status = "absent" /\ active'[d].status = "AVAILABLE")
      PROVE  SpineInv'
  <2>1. \A u : /\ EventsOf(u)' = EventsOf(u) /\ ChoicesOf(u)' = ChoicesOf(u)
               /\ StateOf(u)' = StateOf(u) /\ DriverOf(u)' = DriverOf(u)
  BY <1>2, LogStays
  <2>2. LogInv /\ LogInv' /\ trips \in Nat BY <1>2 DEF SpineInv, LogInv
  <2>3. ASSUME NEW w \in SpineWorkers PROVE ServingOK(serving[w])'
    <3>1. PICK q : q = serving[w] /\ q = serving'[w] BY <1>2
    <3>2. ServingOK(q) BY <3>1 DEF SpineInv, ServingInv
    <3>3. q.op = "demand" /\ q.driver # NoSpineDriver => active'[q.driver].status = active[q.driver].status
      <4>1. q.op = "demand" => DemandOK(q) BY <3>2 DEF ServingOK, Idle
      <4> QED BY <1>2, <4>1 DEF DemandOK
    <3>4. trips' \in Nat /\ trips <= trips' /\ suppressed \subseteq suppressed' BY <1>2, <2>2
    <3>5. ServingOK(q)' BY <2>1, <2>2, <3>2, <3>3, <3>4, ServingStays
    <3>6. DemandOK(q)' => DemandOK(serving[w])' BY <3>1 DEF DemandOK
    <3>7. CompletionOK(q)' => CompletionOK(serving[w])' BY <3>1 DEF CompletionOK, BookOK
    <3> QED BY <3>1, <3>5, <3>6, <3>7 DEF ServingOK
  <2>4. ServingInv' BY <1>2, <2>3 DEF SpineInv, ServingInv, Apart
  <2>5. ASSUME NEW d \in SpineDrivers PROVE DriverHolds(d)'
    <3>1. DriverHolds(d) BY DEF SpineInv
    <3> QED BY <1>2, <2>1, <3>1 DEF DriverHolds
  <2>6. \A b \in books' : BookOK(b)' BY <1>2, <2>1 DEF SpineInv, BookOK
  <2>7. ASSUME NEW t \in Nat PROVE TripHolds(t)'
    <3>1. TripHolds(t) BY DEF SpineInv
    <3>2. ASSUME StateOf(t) = "DRIVER_EN_ROUTE", active[DriverOf(t)] = [status |-> "DISPATCHED", trip |-> t]
          PROVE  active'[DriverOf(t)] = active[DriverOf(t)]
      <4>1. PICK d \in SpineDrivers : d = DriverOf(t) BY <2>2, <3>2, UnderWay
      <4>2. active[d].status # "absent" BY <3>2, <4>1
      <4> QED BY <1>2, <4>1, <4>2
    <3> QED BY <1>2, <2>1, <3>1, <3>2 DEF TripHolds
  <2>8. \A t \in Nat : TripPaid(t)' BY <1>2, <2>1 DEF SpineInv, TripPaid
  <2> QED BY <1>2, <2>2, <2>4, <2>5, <2>6, <2>7, <2>8 DEF SpineInv
<1>3. ASSUME NEW d \in SpineDrivers, SupplyHeartbeat(d) PROVE SpineInv'
  <2>1. active \in DriverRows BY DEF SpineInv
  <2>2. /\ active[d].status = "absent" /\ active' = [active EXCEPT ![d].status = "AVAILABLE"]
        /\ UNCHANGED <<events, books, wallets, serving, trips, suppressed, late, mispaid>>
  BY <1>3 DEF SupplyHeartbeat
  <2>3. active' \in DriverRows BY <2>1, <2>2 DEF DriverRows
  <2>4. active'[d].status = "AVAILABLE" /\ \A e \in SpineDrivers \ {d} : active'[e] = active[e]
  BY <2>1, <2>2 DEF DriverRows
  <2>5. \A e \in SpineDrivers :
          active'[e] = active[e] \/ (active[e].status = "absent" /\ active'[e].status = "AVAILABLE")
  BY <2>2, <2>4
  <2> QED BY <1>2, <2>2, <2>3, <2>5
<1>4. CASE UNCHANGED spineVars
  <2>1. active' \in DriverRows BY <1>4 DEF SpineInv, spineVars
  <2>2. \A e \in SpineDrivers :
          active'[e] = active[e] \/ (active[e].status = "absent" /\ active'[e].status = "AVAILABLE")
  BY <1>4 DEF spineVars
  <2>3. UNCHANGED <<events, books, wallets, serving, trips, suppressed, late, mispaid>> BY <1>4 DEF spineVars
  <2> QED BY <1>2, <2>1, <2>2, <2>3
<1> QED BY <1>1, <1>3, <1>4

\* Every reachable state of the spine satisfies the invariant.
THEOREM SpineInvariant == SpineSpec => []SpineInv
<1>1. SpineInit => SpineInv
  <2> SUFFICES ASSUME SpineInit PROVE SpineInv OBVIOUS
  <2>1. \A t : EventsOf(t) = {} /\ StateOf(t) = "IDLE" BY DEF SpineInit, EventsOf, StateOf
  <2>2. LogInv BY DEF SpineInit, LogInv
  <2>3. ServingInv BY DEF SpineInit, ServingInv, ServingOK, Apart, Idle
  <2>4. active \in DriverRows
  BY DEF SpineInit, DriverRows
  <2> QED BY <2>1, <2>2, <2>3, <2>4 DEF SpineInit, SpineInv, DriverHolds, TripHolds, TripPaid
<1>2. SpineInv /\ [SpineNext]_spineVars => SpineInv'
  BY DemandBegins, CompletionBegins, CompletionReadsOn, DemandCommits, CompletionCommits, RefusalCommits,
     SpineOtherSteps DEF SpineNext
<1> QED BY <1>1, <1>2, PTL DEF SpineSpec

\* A dispatched driver and a trip under way name each other, with any number of drivers,
\* trips, keys and workers.
THEOREM TripsAreHeld == SpineSpec => []TripsHoldDrivers
<1>1. SpineInv => TripsHoldDrivers
  <2>1. Trips \subseteq Nat BY SpineAssumption DEF Trips
  <2> QED BY <2>1 DEF SpineInv, DriverHolds, TripHolds, TripsHoldDrivers
<1> QED BY <1>1, SpineInvariant, PTL

\* The driver of a completed trip is paid once, by a transaction that balances, and nobody
\* for another, unless a completion of that very trip used a key again or overlapped one.
THEOREM TripsAreSettled == SpineSpec => []SettledOnce
<1>1. SpineInv => SettledOnce
  <2> SUFFICES ASSUME SpineInv PROVE SettledOnce OBVIOUS
  <2>1. \A b \in books : b.entries.debit = b.entries.credit /\ b.entries.wallet = DriverOf(b.trip)
  BY DEF SpineInv, BookOK
  <2>2. ASSUME NEW t \in Trips \ mispaid
        PROVE  Cardinality({b \in books : b.trip = t}) = IF StateOf(t) = "TRIP_COMPLETED" THEN 1 ELSE 0
    <3>1. TripPaid(t) BY SpineAssumption DEF Trips, SpineInv
    <3>2. PICK B : B = {c \in books : c.trip = t} OBVIOUS
    <3>3. IF StateOf(t) = "TRIP_COMPLETED" THEN \E b : B = {b} ELSE B = {} BY <2>2, <3>1, <3>2 DEF TripPaid
    <3>4. (\E b : B = {b}) => Cardinality(B) = 1 BY FS_Singleton
    <3>5. B = {} => Cardinality(B) = 0 BY FS_EmptySet
    <3> QED BY <3>2, <3>3, <3>4, <3>5
  <2> QED BY <2>1, <2>2 DEF SettledOnce
<1> QED BY <1>1, SpineInvariant, PTL

-----------------------------------------------------------------------------
(***************************************************************************)
(* The shot loop (ShotLoop), for any seeds, number of rounds and findings. *)
(*                                                                         *)
(* The files of a round are aligned with its seeds while every generation  *)
(* leaves one file; a round where one did not is an exception of the       *)
(* property. The loop goes on only while every candidate on record was     *)
(* rejected in an earlier round, so the file it promotes is of this round  *)
(* and is recorded once.                                                   *)
(***************************************************************************)

(* The shot loop *)

Drafts == Nat \X Seeds \X Nat
Gates == {"APPROVED_FOR_TIMELINE", "WARN_REVIEW_REQUIRED", "REJECTED"}

\* A manifest, whatever guidance its candidates were made with.
ManifestOK(m) ==
  /\ DOMAIN m = {"status", "attempts", "candidates", "verified"}
  /\ \E S : m.candidates \in Seq(S)

\* The batch so far: one generation of each seed at most, the files of the round, each
\* once, and all of it aligned while every generation left one file.
Made(seed) == \E j \in DOMAIN results : results[j] = seed

BatchInv ==
  /\ round \in Nat /\ results \in Seq(Seeds) /\ drafts \in Seq(Drafts)
  /\ \A i \in DOMAIN drafts : drafts[i][1] = round /\ Made(drafts[i][2])
  /\ \A i, j \in DOMAIN drafts : drafts[i] = drafts[j] => i = j
  /\ round \notin uneven =>
       Len(drafts) = Len(results) /\ \A i \in DOMAIN drafts : drafts[i][2] = results[i]

\* While the loop runs, every candidate on record is from an earlier round and was rejected.
RejectedSoFar ==
  /\ manifest.status # "APPROVED"
  /\ \A i \in DOMAIN manifest.candidates :
       manifest.candidates[i].gate = "REJECTED" /\ manifest.candidates[i].file[1] \in 0..(round - 1)

\* What ApprovedIsReproducible says of the manifest on disk, of any manifest.
Reproducible(m) ==
  /\ m.verified \in promoted
  /\ \A i \in DOMAIN m.candidates :
       /\ m.candidates[i].file = m.verified => m.candidates[i].gate # "REJECTED"
       /\ m.candidates[i].gate = "APPROVED_FOR_TIMELINE" =>
            \A j \in DOMAIN m.candidates :
              m.candidates[j].file = m.verified => m.candidates[j].gate = m.candidates[i].gate
  /\ m.verified[1] \notin uneven =>
       \E i \in DOMAIN m.candidates : m.candidates[i].file = m.verified /\ m.candidates[i].seed = m.verified[2]

ShotInv ==
  /\ phase \in {"down", "generating", "auditing", "copied"}
  /\ BatchInv /\ ManifestOK(manifest)
  /\ phase \in {"generating", "auditing"} => round \in 1..MaxRounds /\ RejectedSoFar
  /\ phase = "copied" => Reproducible(manifest)
  /\ phase # "down" => disk.status # "APPROVED"
  /\ disk.status = "APPROVED" => Reproducible(disk)

\* The lesser of two numbers.
LEMMA MinOfTwo ==
  ASSUME NEW a \in Nat, NEW b \in Nat
  PROVE  Min({a, b}) \in Nat /\ Min({a, b}) <= a /\ Min({a, b}) <= b /\ (a = b => Min({a, b}) = a)
<1>1. \E m \in {a, b} : \A n \in {a, b} : m <= n
  <2>1. CASE a <= b BY <2>1
  <2>2. CASE b <= a BY <2>2
  <2> QED BY <2>1, <2>2
<1> QED BY <1>1 DEF Min

\* One more generation of the batch.
LEMMA BatchGrows ==
  ASSUME ShotInv, NEW seed \in Seeds, NEW files \in Nat, Generated(seed, files)
  PROVE  BatchInv'
<1>1. PICK n, k, more : n = Len(results) /\ k = Len(drafts) /\ more = Files(seed, files) OBVIOUS
<1>2. /\ BatchInv /\ results \in Seq(Seeds) /\ drafts \in Seq(Drafts) /\ round \in Nat /\ round' = round
      /\ results' = Append(results, seed) /\ drafts' = drafts \o more
      /\ \A i \in DOMAIN results : results[i] # seed
      /\ uneven' = IF files = 1 THEN uneven ELSE uneven \union {round}
BY <1>1 DEF ShotInv, BatchInv, Generated
<1>3. /\ n \in Nat /\ DOMAIN results = 1..n /\ DOMAIN results' = 1..(n + 1) /\ results' \in Seq(Seeds)
      /\ Len(results') = n + 1
      /\ results'[n + 1] = seed /\ \A i \in 1..n : results'[i] = results[i]
BY <1>1, <1>2
<1>4. /\ more \in Seq(Drafts) /\ Len(more) = files /\ DOMAIN more = 1..files
      /\ \A i \in 1..files : more[i] = <<round, seed, i>>
  <2>1. more \in [1..files -> Drafts] BY <1>1, <1>2 DEF Files, Drafts
  <2>2. \A i \in 1..files : more[i] = <<round, seed, i>> BY <1>1 DEF Files
  <2>3. PICK D : D = Drafts OBVIOUS
  <2>4. more \in Seq(D) /\ Len(more) = files BY <2>1, <2>3
  <2> QED BY <2>1, <2>2, <2>3, <2>4
<1>5. /\ k \in Nat /\ DOMAIN drafts = 1..k /\ drafts' \in Seq(Drafts) /\ DOMAIN drafts' = 1..(k + files)
      /\ Len(drafts') = k + files
      /\ \A i \in 1..k : drafts'[i] = drafts[i]
      /\ \A i \in 1..files : drafts'[k + i] = more[i]
  <2>1. PICK D : D = Drafts OBVIOUS
  <2>2. more \in Seq(D) /\ drafts \in Seq(D) BY <1>2, <1>4, <2>1
  <2>3. Len(more) = files /\ files \in Nat BY <1>4
  <2>4. PICK before, after : before = drafts /\ after = drafts' /\ after = before \o more BY <1>2
  <2>5. before \in Seq(D) /\ Len(before) = k /\ k \in Nat /\ DOMAIN before = 1..k BY <1>1, <2>2, <2>4
  <2>6. after \in Seq(D) /\ Len(after) = k + files /\ DOMAIN after = 1..(k + files)
  BY <2>2, <2>3, <2>4, <2>5
  <2>7. \A i \in 1..k : after[i] = before[i] BY <2>2, <2>4, <2>5
  <2>8. ASSUME NEW i \in 1..files PROVE after[k + i] = more[i]
    <3>1. i \in 1..Len(more) /\ Len(before) \in Nat BY <2>3, <2>5
    <3>2. (before \o more)[Len(before) + i] = more[i] BY <2>2, <2>5, <3>1
    <3> QED BY <2>4, <2>5, <3>2
  <2> QED BY <2>1, <2>4, <2>5, <2>6, <2>7, <2>8
<1>6. ASSUME NEW i \in 1..(k + files)
      PROVE  \/ i \in 1..k /\ drafts'[i] = drafts[i]
             \/ i \notin 1..k /\ drafts'[i] = <<round, seed, i - k>>
  <2>1. i \notin 1..k => i - k \in 1..files /\ i = k + (i - k) BY <1>5
  <2> QED BY <1>4, <1>5, <2>1
<1>7. ASSUME NEW i \in 1..k PROVE drafts[i][1] = round /\ drafts[i][2] # seed /\ Made(drafts[i][2])'
  <2>1. PICK s : s = drafts[i][2] OBVIOUS
  <2>2. drafts[i][1] = round /\ Made(s) BY <1>2, <1>5, <2>1 DEF BatchInv
  <2>3. PICK j \in 1..n : results[j] = s BY <1>3, <2>2 DEF Made
  <2>4. j \in 1..(n + 1) /\ results'[j] = s BY <1>3, <2>3
  <2>5. \E x \in DOMAIN results' : results'[x] = s BY <1>3, <2>4
  <2>6. s = drafts'[i][2] BY <1>5, <2>1
  <2>7. Made(drafts[i][2])' BY <2>5, <2>6 DEF Made
  <2>8. s # seed BY <1>2, <1>3, <2>3
  <2> QED BY <2>1, <2>2, <2>7, <2>8
<1>8. ASSUME NEW i \in 1..(k + files) PROVE drafts'[i][1] = round' /\ Made(drafts[i][2])'
  <2>1. CASE i \in 1..k
    <3>1. drafts'[i] = drafts[i] BY <1>6, <2>1
    <3> QED BY <1>2, <1>7, <2>1, <3>1
  <2>2. CASE i \notin 1..k
    <3>1. drafts'[i] = <<round, seed, i - k>> BY <1>6, <2>2
    <3>2. drafts'[i][1] = round /\ drafts'[i][2] = seed BY <3>1
    <3>3. n + 1 \in DOMAIN results' /\ results'[n + 1] = seed BY <1>3
    <3> QED BY <1>2, <3>2, <3>3 DEF Made
  <2> QED BY <2>1, <2>2
<1>9. \A i, j \in 1..(k + files) : drafts'[i] = drafts'[j] => i = j
  <2> SUFFICES ASSUME NEW i \in 1..(k + files), NEW j \in 1..(k + files), drafts'[i] = drafts'[j] PROVE i = j
  OBVIOUS
  <2>1. CASE i \in 1..k /\ j \in 1..k BY <1>2, <1>5, <2>1 DEF BatchInv
  <2>2. CASE i \notin 1..k /\ j \notin 1..k
    <3>1. <<round, seed, i - k>> = <<round, seed, j - k>> BY <1>6, <2>2
    <3> QED BY <1>5, <3>1
  <2>3. ASSUME NEW x \in 1..k, NEW y \in 1..(k + files), y \notin 1..k, drafts'[x] = drafts'[y] PROVE FALSE
    <3>1. drafts[x] = <<round, seed, y - k>> BY <1>5, <1>6, <2>3
    <3> QED BY <1>7, <3>1
  <2> QED BY <2>1, <2>2, <2>3
<1>10. ASSUME round \notin uneven'
       PROVE  k + files = n + 1 /\ \A i \in 1..(k + files) : drafts'[i][2] = results'[i]
  <2>1. files = 1 /\ round \notin uneven BY <1>2, <1>10
  <2>2. k = n /\ \A i \in 1..k : drafts[i][2] = results[i] BY <1>1, <1>2, <1>5, <2>1 DEF BatchInv
  <2>3. ASSUME NEW i \in 1..(k + files) PROVE drafts'[i][2] = results'[i]
    <3>1. CASE i \in 1..k BY <1>3, <1>5, <2>2, <3>1
    <3>2. CASE i \notin 1..k
      <4>1. i = n + 1 /\ drafts'[i] = <<round, seed, i - k>> BY <1>3, <1>6, <2>1, <2>2, <3>2
      <4> QED BY <1>3, <4>1
    <3> QED BY <3>1, <3>2
  <2> QED BY <2>1, <2>2, <2>3
<1>11. round' \in Nat /\ results' \in Seq(Seeds) /\ drafts' \in Seq(Drafts) BY <1>2, <1>3, <1>5
<1>12. \A i \in DOMAIN drafts' : drafts'[i][1] = round' /\ Made(drafts[i][2])' BY <1>5, <1>8
<1>13. \A i, j \in DOMAIN drafts' : drafts'[i] = drafts'[j] => i = j BY <1>5, <1>9
<1>14. round' \notin uneven' =>
         Len(drafts') = Len(results') /\ \A i \in DOMAIN drafts' : drafts'[i][2] = results'[i]
BY <1>2, <1>3, <1>5, <1>10
<1> QED BY <1>11, <1>12, <1>13, <1>14 DEF BatchInv

\* A sequence over a set is one over any larger set.
LEMMA Widened ==
  ASSUME NEW S, NEW U, S \subseteq U, NEW s \in Seq(S)
  PROVE  s \in Seq(U)
<1>1. s \in [1..Len(s) -> U] /\ Len(s) \in Nat OBVIOUS
<1>2. ASSUME NEW n \in Nat, NEW f \in [1..n -> U] PROVE f \in Seq(U) OBVIOUS
<1> QED BY <1>1, <1>2

\* Two sequences in a row: every element is of one of them, and the second's are all there.
Holds(u, s, t) ==
  /\ \A i \in DOMAIN u : (i \in DOMAIN s /\ u[i] = s[i]) \/ \E j \in DOMAIN t : u[i] = t[j]
  /\ \A j \in DOMAIN t : \E i \in DOMAIN u : u[i] = t[j]

\* What a sequence joined to another holds.
LEMMA Joined ==
  ASSUME NEW U, NEW s \in Seq(U), NEW t \in Seq(U), NEW u, u = s \o t
  PROVE  u \in Seq(U) /\ Holds(u, s, t)
<1>0. u = s \o t OBVIOUS
<1>2. s \in [1..Len(s) -> U] /\ t \in [1..Len(t) -> U] /\ Len(s) \in Nat /\ Len(t) \in Nat OBVIOUS
<1>3. s \in Seq(U) /\ t \in Seq(U) OBVIOUS
<1>4. u \in Seq(U) /\ Len(u) = Len(s) + Len(t) /\ DOMAIN u = 1..Len(u) BY <1>0, <1>3
<1>5. DOMAIN s = 1..Len(s) /\ DOMAIN t = 1..Len(t) BY <1>2
<1>6. ASSUME NEW i \in DOMAIN s PROVE i \in DOMAIN u /\ u[i] = s[i] BY <1>0, <1>2, <1>3, <1>4
<1>7. ASSUME NEW j \in DOMAIN t PROVE Len(s) + j \in DOMAIN u /\ u[Len(s) + j] = t[j]
  <2>1. j \in 1..Len(t) BY <1>5
  <2>2. (s \o t)[Len(s) + j] = t[j] BY <1>3, <2>1
  <2> QED BY <1>0, <1>2, <1>4, <2>1, <2>2
<1>8. ASSUME NEW i \in DOMAIN u, i \notin DOMAIN s PROVE \E j \in DOMAIN t : i = Len(s) + j /\ u[i] = t[j]
  <2>1. i - Len(s) \in DOMAIN t /\ i = Len(s) + (i - Len(s)) BY <1>2, <1>4, <1>5, <1>8
  <2>2. PICK j \in DOMAIN t : i = Len(s) + j BY <2>1
  <2> QED BY <1>7, <2>2
<1>9. \A i \in DOMAIN u : (i \in DOMAIN s /\ u[i] = s[i]) \/ \E j \in DOMAIN t : u[i] = t[j]
BY <1>6, <1>8
<1>10. \A j \in DOMAIN t : \E i \in DOMAIN u : u[i] = t[j] BY <1>7
<1> QED BY <1>4, <1>9, <1>10 DEF Holds

\* What a round puts on record: the i-th file, with the i-th seed and the i-th verdict.
LEMMA BatchRecorded ==
  ASSUME BatchInv, NEW found \in [1..Len(drafts) -> Findings], NEW r, r = Record(found)
  PROVE  /\ \E S : r \in Seq(S)
         /\ \A i \in DOMAIN r :
              /\ i \in DOMAIN drafts /\ r[i].file = drafts[i] /\ r[i].seed = results[i]
              /\ r[i].gate = Decision(found[i])
         /\ round \notin uneven => DOMAIN r = DOMAIN drafts
<1>1. PICK a, b, m : a = Len(drafts) /\ b = Len(results) /\ m = Min({a, b}) OBVIOUS
<1>2. a \in Nat /\ b \in Nat /\ DOMAIN drafts = 1..a BY <1>1 DEF BatchInv
<1>3. m \in Nat /\ m <= a /\ (a = b => m = a) BY <1>1, <1>2, MinOfTwo
<1>4. /\ DOMAIN r = 1..m
      /\ \A i \in 1..m : /\ r[i].file = drafts[i] /\ r[i].seed = results[i]
                         /\ r[i].gate = Decision(found[i])
BY <1>1 DEF Record
<1>5. \E S : r \in Seq(S)
  <2>1. PICK S : S = {r[i] : i \in 1..m} OBVIOUS
  <2>2. r = [i \in 1..m |-> r[i]] BY <1>1, <1>4 DEF Record
  <2>3. r \in [1..m -> S] BY <2>1, <2>2
  <2>4. r \in Seq(S) BY <1>3, <2>3
  <2> QED BY <2>4
<1>6. \A i \in 1..m : i \in 1..a BY <1>2, <1>3
<1>7. round \notin uneven => a = b BY <1>1 DEF BatchInv
<1> QED BY <1>2, <1>3, <1>4, <1>5, <1>6, <1>7

\* A verdict is one of three, and the best of a round are approved if any is.
LEMMA Verdicts ==
  ASSUME NEW n \in Nat, NEW found \in [1..n -> Findings]
  PROVE  /\ Best(found) \in SUBSET (1..n)
         /\ Best(found) = {} => \A i \in 1..n : Decision(found[i]) = "REJECTED"
         /\ \A b \in Best(found) :
              /\ Decision(found[b]) # "REJECTED"
              /\ (\E i \in 1..n : Decision(found[i]) = "APPROVED_FOR_TIMELINE") =>
                   Decision(found[b]) = "APPROVED_FOR_TIMELINE"
<1>1. \A i \in 1..n : Decision(found[i]) \in Gates BY DEF Decision, Gates
<1>2. PICK A, W : /\ A = {i \in 1..n : Decision(found[i]) = "APPROVED_FOR_TIMELINE"}
                  /\ W = {i \in 1..n : Decision(found[i]) = "WARN_REVIEW_REQUIRED"} OBVIOUS
<1>3. Best(found) = IF A # {} THEN A ELSE W BY <1>2 DEF Best
<1> QED BY <1>1, <1>2, <1>3 DEF Gates

\* The candidates on record after a round: those before it, and its own.
RoundOK(c, found) ==
  /\ \E S : c \in Seq(S)
  /\ \A i \in DOMAIN c :
       \/ c[i].gate = "REJECTED" /\ c[i].file[1] \in 0..(round - 1)
       \/ \E x \in DOMAIN drafts : c[i].file = drafts[x] /\ c[i].gate = Decision(found[x])
  /\ round \notin uneven => \A x \in DOMAIN drafts :
       \E i \in DOMAIN c : c[i].file = drafts[x] /\ c[i].seed = results[x]

\* The candidates recorded for a round are its files, in order, with what was found of each.
LEMMA RoundRecorded ==
  ASSUME ShotInv, NEW found \in [1..Len(drafts) -> Findings], phase = "auditing",
         NEW c, c = manifest.candidates \o Record(found)
  PROVE  RoundOK(c, found)
<1>1. PICK s, r : s = manifest.candidates /\ r = Record(found) OBVIOUS
<1>2. PICK S : s \in Seq(S) BY <1>1 DEF ShotInv, ManifestOK
<1>3. /\ \E T : r \in Seq(T)
      /\ \A i \in DOMAIN r :
           /\ i \in DOMAIN drafts /\ r[i].file = drafts[i] /\ r[i].seed = results[i]
           /\ r[i].gate = Decision(found[i])
      /\ round \notin uneven => DOMAIN r = DOMAIN drafts
BY <1>1, BatchRecorded DEF ShotInv
<1>4. PICK T : r \in Seq(T) BY <1>3
<1>5. c = s \o r BY <1>1
<1>6. /\ \E U : c \in Seq(U)
      /\ \A i \in DOMAIN c : (i \in DOMAIN s /\ c[i] = s[i]) \/ \E j \in DOMAIN r : c[i] = r[j]
      /\ \A j \in DOMAIN r : \E i \in DOMAIN c : c[i] = r[j]
  <2>1. PICK U : U = S \union T OBVIOUS
  <2>2. S \subseteq U /\ T \subseteq U BY <2>1
  <2>3. s \in Seq(U) BY <1>2, <2>2, Widened
  <2>4. r \in Seq(U) BY <1>4, <2>2, Widened
  <2>5. c \in Seq(U) /\ Holds(c, s, r) BY <1>5, <2>3, <2>4, Joined
  <2> QED BY <2>5 DEF Holds
<1>7. \A i \in DOMAIN s : s[i].gate = "REJECTED" /\ s[i].file[1] \in 0..(round - 1)
BY <1>1 DEF ShotInv, RejectedSoFar
<1>8. ASSUME NEW i \in DOMAIN c
      PROVE  \/ c[i].gate = "REJECTED" /\ c[i].file[1] \in 0..(round - 1)
             \/ \E x \in DOMAIN drafts : c[i].file = drafts[x] /\ c[i].gate = Decision(found[x])
  <2>1. CASE i \in DOMAIN s /\ c[i] = s[i] BY <1>7, <2>1
  <2>2. ASSUME NEW j \in DOMAIN r, c[i] = r[j]
        PROVE  \E x \in DOMAIN drafts : c[i].file = drafts[x] /\ c[i].gate = Decision(found[x])
  BY <1>3, <2>2
  <2> QED BY <1>6, <2>1, <2>2
<1>9. ASSUME round \notin uneven, NEW x \in DOMAIN drafts
      PROVE  \E i \in DOMAIN c : c[i].file = drafts[x] /\ c[i].seed = results[x]
  <2>1. x \in DOMAIN r BY <1>3, <1>9
  <2>2. PICK i \in DOMAIN c : c[i] = r[x] BY <1>6, <2>1
  <2> QED BY <1>3, <2>1, <2>2
<1> QED BY <1>6, <1>8, <1>9 DEF RoundOK

\* A batch just begun, and no batch at all.
LEMMA EmptyBatch ==
  ASSUME round' \in Nat, results' = <<>>, drafts' = <<>>
  PROVE  BatchInv'
<1>1. PICK none : none = <<>> OBVIOUS
<1>2. /\ \A S : none \in Seq(S) 
      /\ Len(none) = 0 /\ DOMAIN none = {}
BY <1>1
<1>3. results' = none /\ drafts' = none BY <1>1
<1> QED BY <1>2, <1>3 DEF BatchInv

\* An empty manifest.
LEMMA NothingSaved == ManifestOK(NoManifest) /\ NoManifest.status # "APPROVED"
<1>1. <<>> \in Seq({}) OBVIOUS
<1>2. NoManifest.candidates = <<>> /\ DOMAIN NoManifest = {"status", "attempts", "candidates", "verified"}
      /\ NoManifest.status = "none"
BY DEF NoManifest
<1> QED BY <1>1, <1>2 DEF ManifestOK

\* A shot may take a round.
LEMMA SomeRounds == MaxRounds \in Nat /\ MaxRounds >= 1
<1>1. MaxRounds \in Nat \ {0} BY ShotAssumption
<1> QED BY <1>1

\* The round's best is copied: what goes into the manifest can be made again.
LEMMA Promoted ==
  ASSUME ShotInv, NEW found \in [1..Len(drafts) -> Findings], Promote(found)
  PROVE  ShotInv'
<1>1. PICK n, b, c, best : /\ n = Len(drafts) /\ best = Best(found) /\ b = Min(best)
                           /\ c = manifest.candidates \o Record(found)
OBVIOUS
<1>2. /\ phase = "auditing" /\ phase' = "copied" /\ best # {}
      /\ promoted' = promoted \union {drafts[b]}
      /\ manifest' = [manifest EXCEPT !.status = "APPROVED", !.verified = drafts[b], !.candidates = c]
      /\ UNCHANGED <<round, cfg, results, drafts, disk, runs, uneven>>
BY <1>1 DEF Promote
<1>3. /\ n \in Nat /\ DOMAIN drafts = 1..n /\ found \in [1..n -> Findings]
      /\ BatchInv /\ ManifestOK(manifest) /\ disk.status # "APPROVED"
BY <1>1, <1>2 DEF ShotInv, BatchInv
<1>4. /\ best \in SUBSET (1..n)
      /\ \A x \in best : /\ Decision(found[x]) # "REJECTED"
                         /\ (\E i \in 1..n : Decision(found[i]) = "APPROVED_FOR_TIMELINE") =>
                              Decision(found[x]) = "APPROVED_FOR_TIMELINE"
BY <1>1, <1>3, Verdicts
<1>5. b \in best
  <2>1. Min(best) \in best BY <1>2, <1>3, <1>4, MinIndex
  <2> QED BY <1>1, <2>1
<1>6. /\ b \in 1..n /\ Decision(found[b]) # "REJECTED"
      /\ (\E i \in 1..n : Decision(found[i]) = "APPROVED_FOR_TIMELINE") =>
           Decision(found[b]) = "APPROVED_FOR_TIMELINE"
BY <1>4, <1>5
<1>7. RoundOK(c, found) BY <1>1, <1>2, RoundRecorded
<1>8. PICK w : w = drafts[b] OBVIOUS
<1>9. /\ DOMAIN manifest' = {"status", "attempts", "candidates", "verified"}
      /\ manifest'.verified = w /\ manifest'.candidates = c
BY <1>2, <1>3, <1>8 DEF ManifestOK
<1>10. /\ w[1] = round /\ round \in Nat
       /\ \A x \in 1..n : drafts[x] = w => x = b
       /\ round \notin uneven => w[2] = results[b]
  <2>1. \A i \in 1..n : drafts[i][1] = round BY <1>3 DEF BatchInv
  <2>2. \A i, j \in 1..n : drafts[i] = drafts[j] => i = j BY <1>3 DEF BatchInv
  <2>3. round \notin uneven => \A i \in 1..n : drafts[i][2] = results[i] BY <1>3 DEF BatchInv
  <2>4. round \in Nat BY <1>3 DEF BatchInv
  <2> QED BY <1>6, <1>8, <2>1, <2>2, <2>3, <2>4
<1>11. ASSUME NEW i \in DOMAIN c, c[i].file = w PROVE c[i].gate = Decision(found[b])
  <2>1. c[i].file[1] \notin 0..(round - 1) BY <1>10, <1>11
  <2>2. PICK x \in DOMAIN drafts : c[i].file = drafts[x] /\ c[i].gate = Decision(found[x]) BY <1>7, <2>1 DEF RoundOK
  <2>3. x = b BY <1>3, <1>10, <1>11, <2>2
  <2> QED BY <2>2, <2>3
<1>12. ASSUME NEW i \in DOMAIN c, c[i].gate = "APPROVED_FOR_TIMELINE"
       PROVE  Decision(found[b]) = "APPROVED_FOR_TIMELINE"
  <2>1. PICK x \in DOMAIN drafts : c[i].file = drafts[x] /\ c[i].gate = Decision(found[x]) BY <1>7, <1>12 DEF RoundOK
  <2> QED BY <1>3, <1>6, <1>12, <2>1
<1>13. ASSUME w[1] \notin uneven
       PROVE  \E i \in DOMAIN c : c[i].file = w /\ c[i].seed = w[2]
  <2>1. round \notin uneven /\ b \in DOMAIN drafts BY <1>3, <1>6, <1>10, <1>13
  <2>2. PICK i \in DOMAIN c : c[i].file = drafts[b] /\ c[i].seed = results[b] BY <1>7, <2>1 DEF RoundOK
  <2> QED BY <1>8, <1>10, <2>1, <2>2
<1>14. Reproducible(manifest)'
  <2>1. PICK m : m = manifest' OBVIOUS
  <2>2. m.verified = w /\ m.candidates = c /\ w \in promoted' /\ uneven' = uneven
  BY <1>2, <1>8, <1>9, <2>1
  <2>3. ASSUME NEW i \in DOMAIN c
        PROVE  /\ c[i].file = w => c[i].gate # "REJECTED"
               /\ c[i].gate = "APPROVED_FOR_TIMELINE" =>
                    \A j \in DOMAIN c : c[j].file = w => c[j].gate = c[i].gate
  BY <1>6, <1>11, <1>12
  <2>4. w[1] \notin uneven' => \E i \in DOMAIN c : c[i].file = w /\ c[i].seed = w[2] BY <1>13, <2>2
  <2> QED BY <2>1, <2>2, <2>3, <2>4 DEF Reproducible
<1>15. BatchInv' BY <1>2, <1>3 DEF BatchInv, Made
<1>16. ManifestOK(manifest)' BY <1>7, <1>9 DEF ManifestOK, RoundOK
<1> QED BY <1>2, <1>3, <1>14, <1>15, <1>16 DEF ShotInv

\* A round with nothing to promote: all of it was rejected, and the next begins.
LEMMA Rejected ==
  ASSUME ShotInv, NEW found \in [1..Len(drafts) -> Findings], Reject(found)
  PROVE  ShotInv'
<1>1. PICK n, c, saved, last :
        /\ n = Len(drafts) /\ c = manifest.candidates \o Record(found)
        /\ saved = [manifest EXCEPT !.candidates = c]
        /\ last = (round = MaxRounds \/ total' >= MaxCandidates)
OBVIOUS
<1>2. /\ phase = "auditing" /\ Best(found) = {}
      /\ NextRound(last, saved) /\ (~last => disk' = saved)
      /\ UNCHANGED <<promoted, runs, uneven>>
BY <1>1 DEF Reject
<1>3. /\ n \in Nat /\ DOMAIN drafts = 1..n /\ found \in [1..n -> Findings] /\ round \in Nat
      /\ \A i \in DOMAIN drafts : drafts[i][1] = round
      /\ ManifestOK(manifest) /\ RejectedSoFar /\ round \in 1..MaxRounds
BY <1>1, <1>2 DEF ShotInv, BatchInv
<1>4. \A i \in 1..n : Decision(found[i]) = "REJECTED" BY <1>2, <1>3, Verdicts
<1>5. RoundOK(c, found) BY <1>1, <1>2, RoundRecorded
<1>6. \A i \in DOMAIN c : c[i].gate = "REJECTED" /\ c[i].file[1] \in 0..round
  <2> SUFFICES ASSUME NEW i \in DOMAIN c PROVE c[i].gate = "REJECTED" /\ c[i].file[1] \in 0..round
  OBVIOUS
  <2>1. CASE c[i].gate = "REJECTED" /\ c[i].file[1] \in 0..(round - 1) BY <1>3, <2>1
  <2>2. ASSUME NEW x \in DOMAIN drafts, c[i].file = drafts[x], c[i].gate = Decision(found[x])
        PROVE  c[i].gate = "REJECTED" /\ c[i].file[1] \in 0..round
  BY <1>3, <1>4, <2>2
  <2> QED BY <1>5, <2>1, <2>2 DEF RoundOK
<1>7. /\ DOMAIN saved = {"status", "attempts", "candidates", "verified"}
      /\ saved.candidates = c /\ saved.status = manifest.status
BY <1>1, <1>3 DEF ManifestOK
<1>8. saved.status # "APPROVED" BY <1>3, <1>7 DEF RejectedSoFar
<1>9. CASE last
  <2>1. /\ phase' = "down" /\ round' = 0 /\ results' = <<>> /\ drafts' = <<>> /\ manifest' = NoManifest
        /\ disk' = [saved EXCEPT !.status = "FAILED_MAX_RETRIES"]
  BY <1>2, <1>9 DEF NextRound
  <2>2. disk'.status # "APPROVED" BY <1>7, <2>1
  <2>3. BatchInv' BY <2>1, EmptyBatch
  <2>4. ManifestOK(manifest)' BY <2>1, NothingSaved
  <2> QED BY <2>1, <2>2, <2>3, <2>4 DEF ShotInv
<1>10. CASE ~last
  <2>1. /\ phase' = "generating" /\ round' = round + 1 /\ results' = <<>> /\ drafts' = <<>>
        /\ manifest' = [saved EXCEPT !.attempts = @ + 1] /\ disk' = saved
  BY <1>2, <1>10 DEF NextRound
  <2>2. /\ DOMAIN manifest' = {"status", "attempts", "candidates", "verified"}
        /\ manifest'.candidates = c /\ manifest'.status # "APPROVED"
  BY <1>7, <1>8, <2>1
  <2>3. BatchInv' BY <1>3, <2>1, EmptyBatch
  <2>4. ManifestOK(manifest)' BY <1>5, <2>2 DEF ManifestOK, RoundOK
  <2>5. RejectedSoFar'
    <3>1. round = round' - 1 BY <1>3, <2>1
    <3> QED BY <1>6, <2>2, <3>1 DEF RejectedSoFar
  <2>6. round # MaxRounds BY <1>1, <1>10
  <2>7. round' \in 1..MaxRounds BY <1>3, <2>1, <2>6, SomeRounds
  <2> QED BY <1>8, <2>1, <2>3, <2>4, <2>5, <2>7 DEF ShotInv
<1> QED BY <1>9, <1>10

\* A round that left no file: the next begins, and nothing was recorded.
LEMMA NothingMade ==
  ASSUME ShotInv, AllFailed
  PROVE  ShotInv'
<1>1. PICK last : last = (round = MaxRounds) OBVIOUS
<1>2. /\ phase = "auditing" /\ NextRound(last, manifest) /\ (round < MaxRounds => disk' = disk)
      /\ UNCHANGED <<cfg, total, promoted, runs, uneven>>
BY <1>1 DEF AllFailed
<1>3. ManifestOK(manifest) /\ RejectedSoFar /\ round \in 1..MaxRounds /\ disk.status # "APPROVED"
BY <1>2 DEF ShotInv, BatchInv
<1>4. CASE last
  <2>1. /\ phase' = "down" /\ round' = 0 /\ results' = <<>> /\ drafts' = <<>> /\ manifest' = NoManifest
        /\ disk' = [manifest EXCEPT !.status = "FAILED_MAX_RETRIES"]
  BY <1>2, <1>4 DEF NextRound
  <2>2. disk'.status # "APPROVED" BY <1>3, <2>1 DEF ManifestOK
  <2>3. BatchInv' BY <2>1, EmptyBatch
  <2>4. ManifestOK(manifest)' BY <2>1, NothingSaved
  <2> QED BY <2>1, <2>2, <2>3, <2>4 DEF ShotInv
<1>5. CASE ~last
  <2>1. /\ phase' = "generating" /\ round' = round + 1 /\ results' = <<>> /\ drafts' = <<>>
        /\ manifest' = [manifest EXCEPT !.attempts = @ + 1]
  BY <1>2, <1>5 DEF NextRound
  <2>2. /\ DOMAIN manifest' = {"status", "attempts", "candidates", "verified"}
        /\ manifest'.candidates = manifest.candidates /\ manifest'.status = manifest.status
  BY <1>3, <2>1 DEF ManifestOK
  <2>3. round < MaxRounds /\ round \in Nat /\ round' \in 1..MaxRounds
    <3>1. round # MaxRounds BY <1>1, <1>5
    <3> QED BY <1>3, <2>1, <3>1, SomeRounds
  <2>4. disk'.status # "APPROVED" BY <1>2, <1>3, <2>3
  <2>5. BatchInv' BY <2>1, <2>3, EmptyBatch
  <2>6. ManifestOK(manifest)' BY <1>3, <2>2 DEF ManifestOK
  <2>7. RejectedSoFar'
    <3>1. round' - 1 = round /\ \A x \in 0..(round - 1) : x \in 0..round BY <2>1, <2>3
    <3> QED BY <1>3, <2>2, <3>1 DEF RejectedSoFar
  <2> QED BY <2>1, <2>3, <2>4, <2>5, <2>6, <2>7 DEF ShotInv
<1> QED BY <1>4, <1>5

\* A shot starts, over whatever the one before left on disk.
LEMMA Started ==
  ASSUME ShotInv, NEW healthy \in BOOLEAN, StartShot(healthy)
  PROVE  ShotInv'
<1>1. PICK fresh : fresh = [NoManifest EXCEPT !.status = IF healthy THEN "IN_PROGRESS" ELSE "FAILED_MAX_RETRIES"]
OBVIOUS
<1>2. fresh = [status |-> IF healthy THEN "IN_PROGRESS" ELSE "FAILED_MAX_RETRIES",
               attempts |-> 0, candidates |-> <<>>, verified |-> <<>>]
BY <1>1 DEF NoManifest
<1>3. /\ results' = <<>> /\ drafts' = <<>> /\ disk' = fresh
      /\ round' = IF healthy THEN 1 ELSE 0
      /\ phase' = IF healthy THEN "generating" ELSE "down"
BY <1>1 DEF StartShot
<1>4. disk'.status # "APPROVED" BY <1>2, <1>3
<1>5. round' \in Nat BY <1>3
<1>6. BatchInv' BY <1>3, <1>5, EmptyBatch
<1>7. /\ DOMAIN fresh = {"status", "attempts", "candidates", "verified"}
      /\ fresh.candidates = <<>> /\ fresh.status # "APPROVED"
BY <1>2
<1>8. \A m : m.candidates = <<>> => \E S : m.candidates \in Seq(S)
  <2>1. <<>> \in Seq({}) OBVIOUS
  <2> QED BY <2>1
<1>9. CASE healthy
  <2>1. /\ manifest' = [status |-> "IN_PROGRESS", attempts |-> 1, candidates |-> <<>>, verified |-> <<>>]
        /\ phase' = "generating" /\ round' = 1
  BY <1>9 DEF StartShot, NoManifest
  <2>2. DOMAIN manifest' = {"status", "attempts", "candidates", "verified"} /\ manifest'.candidates = <<>>
        /\ manifest'.status = "IN_PROGRESS"
  BY <2>1
  <2>3. ManifestOK(manifest)' BY <1>8, <2>2 DEF ManifestOK
  <2>4. RejectedSoFar' BY <2>2 DEF RejectedSoFar
  <2>5. round' \in 1..MaxRounds BY <2>1, SomeRounds
  <2> QED BY <1>4, <1>6, <2>1, <2>3, <2>4, <2>5 DEF ShotInv
<1>10. CASE ~healthy
  <2>1. manifest' = fresh /\ phase' = "down" BY <1>1, <1>10 DEF StartShot
  <2>2. ManifestOK(manifest)' BY <1>7, <1>8, <2>1 DEF ManifestOK
  <2> QED BY <1>4, <1>6, <2>1, <2>2 DEF ShotInv
<1> QED BY <1>9, <1>10

\* A generation ends: the batch grows, and nothing is on record yet.
LEMMA GenerationEnds ==
  ASSUME ShotInv, NEW seed \in Seeds, NEW files \in 0..MaxFiles, Generated(seed, files)
  PROVE  ShotInv'
<1>1. /\ phase = "generating" /\ phase' \in {"generating", "auditing"}
      /\ UNCHANGED <<round, manifest, disk>>
BY DEF Generated
<1>2. files \in Nat
  <2>1. MaxFiles \in Nat \ {0} BY ShotAssumption
  <2> QED BY <2>1
<1>3. BatchInv' BY <1>2, BatchGrows
<1>4. ManifestOK(manifest)' /\ RejectedSoFar' /\ round' \in 1..MaxRounds /\ disk'.status # "APPROVED"
BY <1>1 DEF ShotInv, ManifestOK, RejectedSoFar
<1> QED BY <1>1, <1>3, <1>4 DEF ShotInv

\* The manifest of the winner is saved.
LEMMA ApprovedSaved ==
  ASSUME ShotInv, SaveApproved
  PROVE  ShotInv'
<1>1. /\ Reproducible(manifest) /\ disk' = manifest /\ phase' = "down" /\ manifest' = NoManifest
      /\ round' = 0 /\ results' = <<>> /\ drafts' = <<>> /\ UNCHANGED <<promoted, uneven>>
BY DEF ShotInv, SaveApproved
<1>2. Reproducible(disk)' BY <1>1 DEF Reproducible
<1>3. BatchInv' BY <1>1, EmptyBatch
<1>4. ManifestOK(manifest)' BY <1>1, NothingSaved
<1> QED BY <1>1, <1>2, <1>3, <1>4 DEF ShotInv

\* The process dies: the manifest on disk is all that is left of the run.
LEMMA Died ==
  ASSUME ShotInv, Die
  PROVE  ShotInv'
<1>1. /\ phase # "down" /\ phase' = "down" /\ manifest' = NoManifest
      /\ round' = 0 /\ results' = <<>> /\ drafts' = <<>> /\ UNCHANGED disk
BY DEF Die
<1>2. disk'.status # "APPROVED" BY <1>1 DEF ShotInv
<1>3. BatchInv' BY <1>1, EmptyBatch
<1>4. ManifestOK(manifest)' BY <1>1, NothingSaved
<1> QED BY <1>1, <1>2, <1>3, <1>4 DEF ShotInv

\* Whatever the loop has recorded of a shot, in memory and on disk, agrees with what it made:
\* the invariant of run_shot_loop, over every interleaving of its generations and every crash.
THEOREM ShotInvariant == ShotSpec => []ShotInv
<1>1. ShotInit => ShotInv
  <2> SUFFICES ASSUME ShotInit PROVE ShotInv OBVIOUS
  <2>1. PICK none : none = <<>> OBVIOUS
  <2>2. /\ \A S : none \in Seq(S)
        /\ Len(none) = 0 /\ DOMAIN none = {}
  BY <2>1
  <2>3. /\ results = none /\ drafts = none /\ round = 0 /\ phase = "down"
        /\ manifest = NoManifest /\ disk = NoManifest
  BY <2>1 DEF ShotInit
  <2>4. BatchInv BY <2>2, <2>3 DEF BatchInv
  <2>5. ManifestOK(manifest) /\ disk.status # "APPROVED" BY <2>3, NothingSaved
  <2> QED BY <2>3, <2>4, <2>5 DEF ShotInv
<1>2. ShotInv /\ [ShotNext]_shotVars => ShotInv'
  <2> SUFFICES ASSUME ShotInv, [ShotNext]_shotVars PROVE ShotInv' OBVIOUS
  <2>1. ASSUME NEW healthy \in BOOLEAN, StartShot(healthy) PROVE ShotInv' BY <2>1, Started
  <2>2. ASSUME NEW seed \in Seeds, NEW files \in 0..MaxFiles, Generated(seed, files) PROVE ShotInv'
  BY <2>2, GenerationEnds
  <2>3. CASE AllFailed BY <2>3, NothingMade
  <2>4. ASSUME NEW found \in [1..Len(drafts) -> Findings], Reject(found) PROVE ShotInv' BY <2>4, Rejected
  <2>5. ASSUME NEW found \in [1..Len(drafts) -> Findings], Promote(found) PROVE ShotInv' BY <2>5, Promoted
  <2>6. CASE SaveApproved BY <2>6, ApprovedSaved
  <2>7. CASE Die BY <2>7, Died
  <2>8. CASE UNCHANGED shotVars
  BY <2>8 DEF shotVars, ShotInv, BatchInv, Made, ManifestOK, RejectedSoFar, Reproducible
  <2> QED BY <2>1, <2>2, <2>3, <2>4, <2>5, <2>6, <2>7, <2>8 DEF ShotNext
<1> QED BY <1>1, <1>2, PTL DEF ShotSpec

\* A shot approved on disk can be made again from its manifest: the promoted file exists, is
\* the best the auditor saw, and is on record with the seed that made it whenever every
\* generation of its round left one file.
THEOREM ShotsAreReproducible == ShotSpec => []ApprovedIsReproducible
<1>1. ShotInv => ApprovedIsReproducible BY DEF ShotInv, Reproducible, ApprovedIsReproducible
<1> QED BY <1>1, ShotInvariant, PTL
=============================================================================
