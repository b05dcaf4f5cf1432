-------------------------- MODULE RideSessionsProofs --------------------------
(***************************************************************************)
(* Proofs about the ride board under concurrent requests, for every number *)
(* of threads, drivers and rides.  The rows of RideBoard no longer satisfy *)
(* all of RowOK here: a claim may merge with an offer it has not seen.     *)
(* What survives is the trip of a row, its status, driver and stamps, and  *)
(* a request in flight is described by what it does to the trip it read.   *)
(***************************************************************************)
EXTENDS RideSessions, RideBoardProofs

-----------------------------------------------------------------------------
(* What the row functions do to a trip *)

SameTrip(x, y) == y.status = x.status /\ y.driver = x.driver /\ y.stamps = x.stamps

\* The dispatcher gave the ride up.
GaveUp(x, y) ==
  /\ InPool(x)
  /\ y.status = "cancelled" /\ y.driver = x.driver /\ y.stamps = x.stamps \union {"cancelled"}

\* A ride given back.
GaveBack(x, y) ==
  /\ x.status = "accepted" /\ x.driver # NoDriver
  /\ y.status = "requested" /\ y.driver = NoDriver
  /\ y.stamps = x.stamps \ {"accepted", "arrived", "started"}

\* A leg driven, with its stamp.
Drove(x, y) ==
  /\ \E stamp \in Stamps : /\ <<x.status, y.status, stamp>> \in Legs
                           /\ y.stamps = x.stamps \union {stamp}
  /\ y.driver = x.driver

\* Cancelled by the customer.
CalledOff(x, y) ==
  /\ x.status \in {"requested"} \union ActiveStatuses
  /\ y.status = "cancelled" /\ y.driver = x.driver /\ y.stamps = x.stamps \union {"cancelled"}

\* The part of a row's soundness that concurrent requests keep.
TripOK(x) == x \in RideRow /\ DriverFitsRow(x) /\ StampsFit(x)

Ops == {"accept", "refuse", "release", "decline", "arrive", "start", "complete", "cancel", "poll"}

\* What a request with this operation makes of the trip of a row it read.
Does(op, x, y) ==
  CASE op \in {"accept", "refuse"}  -> SameTrip(x, y)
    [] op \in {"decline", "poll"}   -> SameTrip(x, y) \/ GaveUp(x, y)
    [] op = "release"               -> GaveBack(x, y)
    [] op \in {"arrive", "start"}   -> Drove(x, y) /\ y.status # "completed"
    [] op = "complete"              -> Drove(x, y) /\ y.status = "completed"
    [] OTHER                        -> CalledOff(x, y)

\* A row function that only changes offer, attempts and log keeps the trip.
LEMMA AnsweredTrip ==
  ASSUME NEW x \in RideRow, NEW d \in Drivers,
         NEW result \in {"accepted", "declined", "timeout"}
  PROVE  Answered(x, d, result) \in RideRow /\ SameTrip(x, Answered(x, d, result))
<1> DEFINE l == (x.log[d] \ {"sent"}) \union {result}
           y == [x EXCEPT !.log = LogsWith(x, d, l)]
<1>1. l \in SUBSET Results BY DEF RideRow, Results
<1>2. LogsWith(x, d, l) \in [Drivers -> SUBSET Results] BY <1>1 DEF RideRow, LogsWith
<1>3. y \in RideRow /\ SameTrip(x, y) BY <1>2 DEF RideRow, SameTrip
<1> QED BY <1>3 DEF Answered, SameTrip

\* So does an offer to the next driver, or to nobody.
LEMMA OfferToNextTrip ==
  ASSUME NEW x \in RideRow, NEW able \in SUBSET Drivers, NEW y \in OfferToNext(x, able)
  PROVE  y \in RideRow /\ SameTrip(x, y)
<1>1. ASSUME NEW d \in Drivers
      PROVE  Offered(x, d) \in RideRow /\ SameTrip(x, Offered(x, d))
  <2>1. x.log[d] \union {"sent"} \in SUBSET Results BY DEF RideRow, Results
  <2>2. LogsWith(x, d, x.log[d] \union {"sent"}) \in [Drivers -> SUBSET Results]
    BY <2>1 DEF RideRow, LogsWith
  <2>3. x.attempts + 1 \in Nat BY DEF RideRow
  <2>4. ASSUME NEW l \in [Drivers -> SUBSET Results], NEW n \in Nat
        PROVE  LET z == [x EXCEPT !.offer = d, !.attempts = n, !.log = l]
               IN  z \in RideRow /\ SameTrip(x, z)
    BY DEF RideRow, SameTrip
  <2> QED BY <2>2, <2>3, <2>4 DEF Offered
<1> QED BY <1>1 DEF OfferToNext, SameTrip

\* Starting dispatch keeps the trip.
LEMMA StartDispatchTrip ==
  ASSUME NEW x \in RideRow, NEW able \in SUBSET Drivers, NEW seq,
         NEW y \in StartDispatch(x, able, seq)
  PROVE  y \in RideRow /\ SameTrip(x, y)
BY OfferToNextTrip DEF StartDispatch, SameTrip

\* A failed attempt keeps the trip or gives the ride up.
LEMMA AdvanceTrip ==
  ASSUME NEW x \in RideRow, NEW able \in SUBSET Drivers,
         NEW y \in AdvanceAfterFailedAttempt(x, able)
  PROVE  y \in RideRow /\ (SameTrip(x, y) \/ GaveUp(x, y))
<1>1. CASE ~InPool(x) BY <1>1 DEF AdvanceAfterFailedAttempt, SameTrip
<1>2. CASE InPool(x) /\ y = FinalizeNoDrivers(x)
  BY <1>2 DEF FinalizeNoDrivers, RideRow, RideStatus, Stamps, GaveUp, InPool
<1>3. CASE InPool(x) /\ y \in OfferToNext([x EXCEPT !.offer = NoDriver], able)
  <2>1. PICK w : w = [x EXCEPT !.offer = NoDriver] OBVIOUS
  <2>2. w \in RideRow /\ SameTrip(x, w) BY <2>1 DEF RideRow, SameTrip
  <2>3. y \in RideRow /\ SameTrip(w, y) BY <1>3, <2>1, <2>2, OfferToNextTrip
  <2> QED BY <2>2, <2>3 DEF SameTrip
<1> QED BY <1>1, <1>2, <1>3 DEF AdvanceAfterFailedAttempt

\* So does a failed attempt after the driver's answer.
LEMMA AdvanceAnsweredTrip ==
  ASSUME NEW x \in RideRow, NEW able \in SUBSET Drivers, NEW d \in Drivers,
         NEW result \in {"declined", "timeout"},
         NEW y \in AdvanceAfterFailedAttempt(Answered(x, d, result), able)
  PROVE  y \in RideRow /\ (SameTrip(x, y) \/ GaveUp(x, y))
<1>1. PICK w : w = Answered(x, d, result) OBVIOUS
<1>2. w \in RideRow /\ SameTrip(x, w) BY <1>1, AnsweredTrip
<1>3. y \in RideRow /\ (SameTrip(w, y) \/ GaveUp(w, y)) BY <1>1, <1>2, AdvanceTrip
<1> QED BY <1>2, <1>3 DEF SameTrip, GaveUp, InPool

\* So does a poll.
LEMMA RefreshedTrip ==
  ASSUME NEW x \in RideRow, NEW due, NEW able \in SUBSET Drivers, NEW seq,
         NEW z \in Refreshed(x, due, able, seq)
  PROVE  z \in RideRow /\ (SameTrip(x, z) \/ GaveUp(x, z))
<1>1. PICK y \in TimedOut(x, due, able) : z \in StartDispatch(y, able, seq)
  BY DEF Refreshed
<1>2. y \in RideRow /\ (SameTrip(x, y) \/ GaveUp(x, y))
  <2>1. CASE due /\ InPool(x) /\ x.offer # NoDriver
    <3>1. x.offer \in Drivers BY <2>1 DEF RideRow
    <3> QED BY <1>1, <2>1, <3>1, AdvanceAnsweredTrip DEF TimedOut
  <2>2. CASE ~(due /\ InPool(x) /\ x.offer # NoDriver)
    BY <1>1, <2>2 DEF TimedOut, SameTrip
  <2> QED BY <2>1, <2>2
<1>3. z \in RideRow /\ SameTrip(y, z) BY <1>1, <1>2, StartDispatchTrip
<1> QED BY <1>2, <1>3 DEF SameTrip, GaveUp

\* The handlers that drive or end a ride.
LEMMA HandlerTrips ==
  ASSUME NEW x \in RideRow
  PROVE  /\ x.status = "accepted" /\ x.driver # NoDriver =>
              Released(x) \in RideRow /\ GaveBack(x, Released(x))
         /\ \A to, stamp : <<x.status, to, stamp>> \in Legs =>
              /\ Advanced(x, to, stamp) \in RideRow
              /\ Drove(x, Advanced(x, to, stamp)) /\ Advanced(x, to, stamp).status = to
         /\ x.status \in {"requested"} \union ActiveStatuses =>
              LET y == [Advanced(x, "cancelled", "cancelled") EXCEPT !.reason = "other"]
              IN  y \in RideRow /\ CalledOff(x, y)
<1>1. x.status = "accepted" /\ x.driver # NoDriver =>
        Released(x) \in RideRow /\ GaveBack(x, Released(x))
  BY DEF Released, RideRow, RideStatus, GaveBack
<1>2. ASSUME NEW to, NEW stamp, <<x.status, to, stamp>> \in Legs
      PROVE  /\ Advanced(x, to, stamp) \in RideRow
             /\ Drove(x, Advanced(x, to, stamp)) /\ Advanced(x, to, stamp).status = to
  <2>1. stamp \in Stamps /\ to \in RideStatus BY <1>2 DEF Legs, Stamps, RideStatus
  <2>2. PICK y : y = Advanced(x, to, stamp) OBVIOUS
  <2>3. /\ y \in RideRow /\ y.status = to /\ y.driver = x.driver
        /\ y.stamps = x.stamps \union {stamp}
    BY <2>1, <2>2 DEF Advanced, RideRow
  <2> QED BY <1>2, <2>1, <2>2, <2>3 DEF Drove
<1>3. ASSUME x.status \in {"requested"} \union ActiveStatuses
      PROVE  LET y == [Advanced(x, "cancelled", "cancelled") EXCEPT !.reason = "other"]
             IN  y \in RideRow /\ CalledOff(x, y)
  BY <1>3 DEF Advanced, RideRow, RideStatus, Stamps, CalledOff
<1> QED BY <1>1, <1>2, <1>3

\* What each operation does keeps the soundness of the trip, and makes a driver of nobody.
LEMMA TripKept ==
  ASSUME NEW x, TripOK(x), NEW y \in RideRow, NEW op \in Ops, Does(op, x, y)
  PROVE  /\ TripOK(y)
         /\ y.driver \in {x.driver, NoDriver}
         /\ y.status \in ActiveStatuses => x.status \in ActiveStatuses
<1>1. x \in RideRow /\ DriverFitsRow(x) /\ StampsFit(x) BY DEF TripOK
<1>2. CASE SameTrip(x, y)
  BY <1>1, <1>2 DEF SameTrip, TripOK, DriverFitsRow, StampsFit
<1>3. CASE GaveUp(x, y)
  BY <1>1, <1>3 DEF GaveUp, InPool, TripOK, DriverFitsRow, StampsFit, ActiveStatuses
<1>4. CASE GaveBack(x, y)
  BY <1>1, <1>4 DEF GaveBack, TripOK, DriverFitsRow, StampsFit, ActiveStatuses
<1>5. CASE Drove(x, y)
  BY <1>1, <1>5 DEF Drove, Legs, TripOK, DriverFitsRow, StampsFit, ActiveStatuses, Stamps
<1>6. CASE CalledOff(x, y)
  BY <1>1, <1>6 DEF CalledOff, TripOK, DriverFitsRow, StampsFit, ActiveStatuses
<1> QED BY <1>2, <1>3, <1>4, <1>5, <1>6 DEF Does, Ops

-----------------------------------------------------------------------------
(* What a commit writes *)

\* A merge of rows is a row; over the row that was read it is the row that was computed.
LEMMA MergeOK ==
  ASSUME NEW now \in RideRow, NEW before \in RideRow, NEW after \in RideRow
  PROVE  /\ Merge(now, before, after) \in RideRow
         /\ now = before => Merge(now, before, after) = after
         /\ SameTrip(before, after) => SameTrip(now, Merge(now, before, after))
         /\ after.driver \in {before.driver, NoDriver} =>
              Merge(now, before, after).driver \in {now.driver, NoDriver}
<1> DEFINE m == Merge(now, before, after)
           l == [d \in Drivers |-> MergeSet(now.log[d], before.log[d], after.log[d])]
<1>1. l \in [Drivers -> SUBSET Results] BY DEF RideRow, MergeSet
<1>2. MergeSet(now.stamps, before.stamps, after.stamps) \in SUBSET Stamps
  BY DEF RideRow, MergeSet
<1>3. m \in RideRow
  <2> HIDE DEF l
  <2>1. m = [status   |-> MergeColumn(now.status, before.status, after.status),
             driver   |-> MergeColumn(now.driver, before.driver, after.driver),
             offer    |-> MergeColumn(now.offer, before.offer, after.offer),
             attempts |-> MergeColumn(now.attempts, before.attempts, after.attempts),
             log      |-> l,
             stamps   |-> MergeSet(now.stamps, before.stamps, after.stamps),
             reason   |-> MergeColumn(now.reason, before.reason, after.reason)]
    BY DEF Merge, l
  <2> QED BY <1>1, <1>2, <2>1 DEF RideRow, MergeColumn
<1>4. ASSUME now = before PROVE m = after
  <2>1. ASSUME NEW S, NEW T PROVE MergeSet(S, S, T) = T BY DEF MergeSet
  <2>2. l = after.log
    BY <1>4, <2>1 DEF RideRow
  <2>3. MergeSet(now.stamps, before.stamps, after.stamps) = after.stamps BY <1>4, <2>1
  <2> HIDE DEF l
  <2>4. m = [status |-> after.status, driver |-> after.driver, offer |-> after.offer,
             attempts |-> after.attempts, log |-> after.log, stamps |-> after.stamps,
             reason |-> after.reason]
    <3>1. m.log = l BY DEF Merge, l
    <3> QED BY <1>4, <2>2, <2>3, <3>1 DEF Merge, MergeColumn, l
  <2> QED BY <2>4 DEF RideRow
<1>5. /\ m.status = MergeColumn(now.status, before.status, after.status)
      /\ m.driver = MergeColumn(now.driver, before.driver, after.driver)
      /\ m.stamps = MergeSet(now.stamps, before.stamps, after.stamps)
  BY DEF Merge
<1> HIDE DEF m
<1>6. SameTrip(before, after) => SameTrip(now, m)
  BY <1>5 DEF SameTrip, MergeColumn, MergeSet
<1>7. after.driver \in {before.driver, NoDriver} => m.driver \in {now.driver, NoDriver}
  BY <1>5 DEF MergeColumn
<1> QED BY <1>3, <1>4, <1>6, <1>7 DEF m

-----------------------------------------------------------------------------
(* The inductive invariant *)

\* A request in flight: its rows are well-formed, and it did to each what its operation does.
SessionOK(s) ==
  /\ s.op \in Ops /\ s.driver \in Drivers \union {NoDriver}
  /\ s.op \in {"accept", "refuse", "poll"} => s.driver \in Drivers
  /\ DOMAIN s.after \subseteq Rides
  /\ \A r \in DOMAIN s.after :
       s.after[r] \in RideRow /\ s.before[r] \in RideRow /\ Does(s.op, s.before[r], s.after[r])

\* The driver_status row of a driver is locked by one request at a time.
OneLockEach ==
  \A v, w \in Workers :
    /\ session[v] # Idle /\ session[w] # Idle
    /\ {session[v].op, session[w].op} \subseteq {"accept", "refuse", "poll"}
    /\ session[v].driver = session[w].driver
    => v = w

\* Whoever is about to claim drives no clean ride.
ClaimersAreFree ==
  \A w \in Workers :
    session[w] # Idle /\ session[w].op = "accept" =>
      \A r \in Rides \ overwritten : ~DrivesRide(session[w].driver, r)

CleanRow(r) ==
  /\ TripOK(ride[r])
  /\ holder[r] = HolderOf(ride[r])
  /\ r \in settled <=> ride[r].status = "completed"

SessionsInv ==
  /\ TypeOK
  /\ overwritten \in SUBSET Rides
  /\ DOMAIN session = Workers
  /\ \A w \in Workers : session[w] # Idle => SessionOK(session[w])
  /\ \A r \in Rides \ overwritten : CleanRow(r)
  /\ OneLockEach
  /\ ClaimersAreFree
  /\ OneCleanRidePerDriver

\* A step takes no ride from its driver, and gives none but out of the pool.
NobodyRobbed ==
  \A r \in Rides : ride'[r].driver \notin {ride[r].driver, NoDriver} => InPool(ride[r])

-----------------------------------------------------------------------------
(* Requests begin *)

\* A request that begins is described by SessionOK, takes a free lock, and changes no row.
LEMMA ReadOK ==
  ASSUME SessionsInv, NEW w \in Workers, NEW op \in Ops, NEW d \in Drivers \union {NoDriver},
         NEW after, DOMAIN after \subseteq Rides,
         \A r \in DOMAIN after : after[r] \in RideRow /\ Does(op, ride[r], after[r]),
         op \in {"accept", "refuse", "poll"} => d \in Drivers /\ ~StatusLocked(d),
         op = "accept" => ~Busy(d),
         Read(w, op, d, after)
  PROVE  SessionsInv' /\ NobodyRobbed
<1> DEFINE s == [op |-> op, driver |-> d, after |-> after,
                 before |-> [r \in DOMAIN after |-> ride[r]]]
<1>1. /\ session[w] = Idle /\ session' = [session EXCEPT ![w] = s]
      /\ UNCHANGED <<vars, overwritten>>
  BY DEF Read
<1>2. ride \in [Rides -> RideRow] BY DEF SessionsInv, TypeOK
<1>3. s.op = op /\ s.driver = d /\ s.after = after
      /\ s.before = [r \in DOMAIN after |-> ride[r]]
  OBVIOUS
<1> HIDE DEF s
<1>4. SessionOK(s) BY <1>2, <1>3 DEF SessionOK
<1>5. /\ DOMAIN session' = Workers /\ session'[w] = s
      /\ \A v \in Workers \ {w} : session'[v] = session[v]
  BY <1>1 DEF SessionsInv
<1>6. s # Idle BY <1>3 DEF Idle, Ops
<1>7. UNCHANGED <<sequential, approval, ride, holder, settled, overwritten>>
  BY <1>1 DEF vars
<1>8. \A v \in Workers : session'[v] # Idle => SessionOK(session'[v])
  BY <1>4, <1>5 DEF SessionsInv
<1>9. OneLockEach'
  <2>1. ASSUME NEW v \in Workers \ {w}, session[v] # Idle,
               {session[v].op, op} \subseteq {"accept", "refuse", "poll"}
        PROVE  session[v].driver # d
    BY <2>1 DEF StatusLocked
  <2> QED BY <1>3, <1>5, <2>1 DEF OneLockEach, SessionsInv
<1>10. ClaimersAreFree'
  <2>1. ASSUME NEW v \in Workers, session'[v] # Idle, session'[v].op = "accept",
               NEW r \in Rides \ overwritten
        PROVE  ~DrivesRide(session'[v].driver, r)
    BY <1>3, <1>5, <2>1 DEF Busy, SessionsInv, ClaimersAreFree
  <2> QED BY <1>7, <2>1 DEF ClaimersAreFree, DrivesRide
<1>11. /\ TypeOK' /\ (overwritten \in SUBSET Rides)' /\ OneCleanRidePerDriver'
       /\ \A r \in Rides \ overwritten' : CleanRow(r)'
  BY <1>7 DEF SessionsInv, TypeOK, OneCleanRidePerDriver, DrivesRide, CleanRow
<1>12. NobodyRobbed BY <1>7 DEF NobodyRobbed
<1> QED BY <1>5, <1>8, <1>9, <1>10, <1>11, <1>12 DEF SessionsInv

\* The same for a request about one ride.
LEMMA ReadOneOK ==
  ASSUME SessionsInv, NEW w \in Workers, NEW op \in Ops, NEW d \in Drivers \union {NoDriver},
         NEW r \in Rides, NEW x \in RideRow, Does(op, ride[r], x),
         op \in {"accept", "refuse", "poll"} => d \in Drivers /\ ~StatusLocked(d),
         op = "accept" => ~Busy(d),
         ReadOne(w, op, d, r, x)
  PROVE  SessionsInv' /\ NobodyRobbed
<1>1. PICK after : after = [q \in {r} |-> x] OBVIOUS
<1>2. DOMAIN after = {r} /\ after[r] = x BY <1>1
<1>3. Read(w, op, d, after) BY <1>1 DEF ReadOne
<1> QED BY <1>2, <1>3, ReadOK

\* Accepting reads one ride of the pool; the claimer drives nothing.
LEMMA BeginAcceptOK ==
  ASSUME SessionsInv, NEW w \in Workers, NEW d \in Drivers, NEW r \in Rides,
         NEW online \in SUBSET Drivers, BeginAccept(w, d, r, online)
  PROVE  SessionsInv' /\ NobodyRobbed
<1>1. PICK x \in StartDispatch(ride[r], Able(online), sequential) :
         ReadOne(w, "accept", d, r, x) \/ ReadOne(w, "refuse", d, r, x)
  BY DEF BeginAccept
<1>2. ride[r] \in RideRow /\ Able(online) \in SUBSET Drivers
  BY DEF SessionsInv, TypeOK, Able
<1>3. x \in RideRow /\ SameTrip(ride[r], x) BY <1>1, <1>2, StartDispatchTrip
<1>4. ~StatusLocked(d) /\ ~Busy(d) BY DEF BeginAccept, Able
<1>5. Does("accept", ride[r], x) /\ Does("refuse", ride[r], x) BY <1>3 DEF Does
<1>6. {"accept", "refuse"} \subseteq Ops BY DEF Ops
<1> QED BY <1>1, <1>3, <1>4, <1>5, <1>6, ReadOneOK

\* Giving back, declining, driving, cancelling and polling likewise.
LEMMA BeginReleaseOK ==
  ASSUME SessionsInv, NEW w \in Workers, NEW d \in Drivers, NEW r \in Rides,
         BeginRelease(w, d, r)
  PROVE  SessionsInv' /\ NobodyRobbed
<1>1. ride[r].status = "accepted" /\ ride[r].driver # NoDriver
  BY NoDriverAssumption DEF BeginRelease, ReleaseToPool
<1>2. ride[r] \in RideRow BY DEF SessionsInv, TypeOK
<1>3. Released(ride[r]) \in RideRow /\ GaveBack(ride[r], Released(ride[r]))
  BY <1>1, <1>2, HandlerTrips
<1>4. Does("release", ride[r], Released(ride[r])) BY <1>3 DEF Does
<1>5. "release" \in Ops BY DEF Ops
<1>6. ReadOne(w, "release", d, r, Released(ride[r])) BY DEF BeginRelease
<1> QED BY <1>3, <1>4, <1>5, <1>6, ReadOneOK

\* A declined offer moves on, at most to giving the ride up.
LEMMA BeginDeclineOK ==
  ASSUME SessionsInv, NEW w \in Workers, NEW d \in Drivers, NEW r \in Rides,
         NEW online \in SUBSET Drivers, BeginDecline(w, d, r, online)
  PROVE  SessionsInv' /\ NobodyRobbed
<1>1. PICK x \in DispatchDeclined(ride[r], d, Able(online)) : ReadOne(w, "decline", d, r, x)
  BY DEF BeginDecline
<1>2. ride[r] \in RideRow /\ Able(online) \in SUBSET Drivers
  BY DEF SessionsInv, TypeOK, Able
<1>3. x \in RideRow /\ (SameTrip(ride[r], x) \/ GaveUp(ride[r], x))
  BY <1>1, <1>2, AdvanceAnsweredTrip DEF DispatchDeclined
<1>4. Does("decline", ride[r], x) BY <1>3 DEF Does
<1>5. "decline" \in Ops BY DEF Ops
<1> QED BY <1>1, <1>3, <1>4, <1>5, ReadOneOK

\* A leg is one of the table's, with its stamp.
LEMMA BeginLegOK ==
  ASSUME SessionsInv, NEW w \in Workers, NEW op \in {"arrive", "start", "complete"},
         NEW d \in Drivers, NEW r \in Rides, BeginLeg(w, op, d, r)
  PROVE  SessionsInv' /\ NobodyRobbed
<1>1. PICK to \in NextRideStatus(ride[r].status, op, "driver") :
         ReadOne(w, op, d, r, Advanced(ride[r], to, Leg(op)))
  BY DEF BeginLeg
<1>2. <<ride[r].status, to, Leg(op)>> \in Legs /\ (to = "completed" <=> op = "complete")
  <2>1. <<ride[r].status, to, Leg(op)>> \in Legs
    BY <1>1, NextRideStatusIsALeg DEF Leg
  <2> QED BY <2>1 DEF Legs, Leg
<1>3. ride[r] \in RideRow BY DEF SessionsInv, TypeOK
<1>4. PICK x : x = Advanced(ride[r], to, Leg(op)) OBVIOUS
<1>5. x \in RideRow /\ Drove(ride[r], x) /\ x.status = to
  BY <1>2, <1>3, <1>4, HandlerTrips
<1>6. Does(op, ride[r], x) BY <1>2, <1>5 DEF Does
<1>7. op \in Ops /\ op \notin {"accept", "refuse", "poll"} BY DEF Ops
<1> QED BY <1>1, <1>4, <1>5, <1>6, <1>7, ReadOneOK

\* A cancellation reads a ride that has not ended.
LEMMA BeginCancelOK ==
  ASSUME SessionsInv, NEW w \in Workers, NEW r \in Rides, BeginCancel(w, r)
  PROVE  SessionsInv' /\ NobodyRobbed
<1>1. PICK to \in NextRideStatus(ride[r].status, "cancel", "customer") :
         ReadOne(w, "cancel", NoDriver, r,
                 [Advanced(ride[r], to, "cancelled") EXCEPT !.reason = "other"])
  BY DEF BeginCancel
<1>2. ride[r].status \in {"requested"} \union ActiveStatuses /\ to = "cancelled"
  BY <1>1, NextRideStatusIsALeg
<1>3. ride[r] \in RideRow BY DEF SessionsInv, TypeOK
<1>4. PICK x : x = [Advanced(ride[r], "cancelled", "cancelled") EXCEPT !.reason = "other"]
  OBVIOUS
<1>5. x \in RideRow /\ CalledOff(ride[r], x) BY <1>2, <1>3, <1>4, HandlerTrips
<1>6. Does("cancel", ride[r], x) BY <1>5 DEF Does
<1>7. "cancel" \in Ops BY DEF Ops
<1>8. ReadOne(w, "cancel", NoDriver, r, x) BY <1>1, <1>2, <1>4
<1> QED BY <1>5, <1>6, <1>7, <1>8, ReadOneOK

\* A poll computes a refreshed row for each ride it changes.
LEMMA BeginPollOK ==
  ASSUME SessionsInv, NEW w \in Workers, NEW p \in Drivers, NEW online \in SUBSET Drivers,
         NEW due \in SUBSET Rides, BeginPoll(w, p, online, due)
  PROVE  SessionsInv' /\ NobodyRobbed
<1> DEFINE refreshed(r) == Refreshed(ride[r], r \in due, Able(online), sequential)
           touched == {r \in Rides : refreshed(r) # {ride[r]}}
<1>1. PICK after \in [touched -> UNION {refreshed(r) : r \in touched}] :
         (\A r \in touched : after[r] \in refreshed(r)) /\ Read(w, "poll", p, after)
  BY DEF BeginPoll
<1>2. Able(online) \in SUBSET Drivers BY DEF Able
<1>3. DOMAIN after \subseteq Rides BY <1>1
<1>4. ASSUME NEW r \in DOMAIN after
      PROVE  after[r] \in RideRow /\ Does("poll", ride[r], after[r])
  <2>1. r \in Rides /\ after[r] \in refreshed(r) BY <1>1
  <2>2. ride[r] \in RideRow BY <2>1 DEF SessionsInv, TypeOK
  <2>3. PICK z : z = after[r] OBVIOUS
  <2>4. z \in RideRow /\ (SameTrip(ride[r], z) \/ GaveUp(ride[r], z))
    BY <1>2, <2>1, <2>2, <2>3, RefreshedTrip
  <2> QED BY <2>3, <2>4 DEF Does
<1>5. "poll" \in Ops BY DEF Ops
<1>6. ~StatusLocked(p) BY DEF BeginPoll
<1> QED BY <1>1, <1>3, <1>4, <1>5, <1>6, ReadOK

-----------------------------------------------------------------------------
(* Requests commit *)

\* A request that ends leaves the others as they were; what it commits must keep the rows
\* sound, and may let nobody but a claimer without a rival drive a further clean ride.
LEMMA FinishOK ==
  ASSUME SessionsInv, NEW w \in Workers, Finish(w),
         TypeOK', overwritten \subseteq overwritten', overwritten' \subseteq Rides,
         \A r \in Rides \ overwritten' : CleanRow(r)',
         \A r \in Rides \ overwritten', d \in Drivers :
           DrivesRide(d, r)' =>
             \/ DrivesRide(d, r)
             \/ /\ session[w] # Idle /\ session[w].op = "accept" /\ session[w].driver = d
                /\ \A q \in Rides \ {r} : ride'[q] = ride[q]
  PROVE  SessionsInv'
<1>1. /\ DOMAIN session' = Workers /\ session'[w] = Idle
      /\ \A v \in Workers \ {w} : session'[v] = session[v]
  BY DEF Finish, SessionsInv
<1>2. \A v \in Workers : session'[v] # Idle => SessionOK(session'[v])
  BY <1>1 DEF SessionsInv
<1>3. OneLockEach' BY <1>1 DEF SessionsInv, OneLockEach
<1>4. ClaimersAreFree'
  <2> SUFFICES ASSUME NEW v \in Workers, session'[v] # Idle, session'[v].op = "accept",
                      NEW r \in Rides \ overwritten', NEW d, d = session'[v].driver,
                      DrivesRide(d, r)'
               PROVE  FALSE
    BY DEF ClaimersAreFree, DrivesRide
  <2>1. v # w /\ session'[v] = session[v] BY <1>1
  <2>2. d \in Drivers /\ d = session[v].driver BY <2>1 DEF SessionsInv, SessionOK
  <2>3. ~DrivesRide(d, r) BY <2>1, <2>2 DEF SessionsInv, ClaimersAreFree
  <2>4. session[w] # Idle /\ session[w].op = "accept" /\ session[w].driver = d
    BY <2>2, <2>3
  <2> QED BY <2>1, <2>2, <2>4 DEF SessionsInv, OneLockEach
<1>5. OneCleanRidePerDriver'
  <2> SUFFICES ASSUME NEW r1 \in Rides \ overwritten', NEW r2 \in Rides \ overwritten',
                      NEW d \in Drivers, DrivesRide(d, r1)', DrivesRide(d, r2)', r1 # r2
               PROVE  FALSE
    BY DEF OneCleanRidePerDriver
  <2>1. ASSUME NEW a \in Rides \ overwritten', NEW b \in Rides \ overwritten', a # b,
               DrivesRide(d, a)', DrivesRide(d, b)', ~DrivesRide(d, a)
        PROVE  FALSE
    <3>1. /\ session[w] # Idle /\ session[w].op = "accept" /\ session[w].driver = d
          /\ ride'[b] = ride[b]
      BY <2>1
    <3>2. DrivesRide(d, b) BY <2>1, <3>1 DEF DrivesRide
    <3> QED BY <3>1, <3>2 DEF SessionsInv, ClaimersAreFree
  <2>2. DrivesRide(d, r1) /\ DrivesRide(d, r2) BY <2>1
  <2> QED BY <2>2 DEF SessionsInv, OneCleanRidePerDriver
<1> QED BY <1>1, <1>2, <1>3, <1>4, <1>5 DEF SessionsInv

\* The claim is the one commit that gives a ride a driver, and its condition on the row
\* makes the merge with whatever was committed meanwhile harmless to the trip.
LEMMA CommitClaimOK ==
  ASSUME SessionsInv, NEW w \in Workers, NEW r \in Rides, CommitClaim(w, r)
  PROVE  SessionsInv' /\ NobodyRobbed
<1>1. PICK s : s = session[w] OBVIOUS
<1>2. PICK x : x = Merge(ride[r], s.before[r], s.after[r]) OBVIOUS
<1>3. PICK y : y = Claimed(x, s.driver) OBVIOUS
<1>4. /\ s # Idle /\ s.op = "accept" /\ r \in DOMAIN s.after /\ InPool(ride[r])
      /\ ride' = [ride EXCEPT ![r] = y] /\ holder' = [holder EXCEPT ![r] = s.driver]
      /\ Finish(w) /\ UNCHANGED <<sequential, approval, settled, overwritten>>
  BY <1>1, <1>2, <1>3 DEF CommitClaim, ClaimHolds
<1>5. SessionOK(s) BY <1>1, <1>4 DEF SessionsInv
<1>6. /\ s.driver \in Drivers /\ s.after[r] \in RideRow /\ s.before[r] \in RideRow
      /\ SameTrip(s.before[r], s.after[r])
  BY <1>4, <1>5 DEF SessionOK, Does
<1>7. ride[r] \in RideRow BY DEF SessionsInv, TypeOK
<1>8. x \in RideRow /\ SameTrip(ride[r], x) BY <1>2, <1>6, <1>7, MergeOK
<1>9. /\ y \in RideRow /\ y.status = "accepted" /\ y.driver = s.driver
      /\ y.stamps = ride[r].stamps \union {"accepted"}
  <2>1. PICK a : a = Answered(x, s.driver, "accepted") OBVIOUS
  <2>2. a \in RideRow /\ SameTrip(x, a) BY <1>6, <1>8, <2>1, AnsweredTrip
  <2>3. y = [a EXCEPT !.status = "accepted", !.driver = s.driver, !.offer = NoDriver,
                      !.stamps = a.stamps \union {"accepted"}]
    BY <1>3, <2>1 DEF Claimed
  <2>4. y \in RideRow BY <1>6, <2>2, <2>3 DEF RideRow, RideStatus, Stamps
  <2>5. /\ y.status = "accepted" /\ y.driver = s.driver
        /\ y.stamps = a.stamps \union {"accepted"}
    BY <2>2, <2>3 DEF RideRow
  <2> QED BY <1>8, <2>2, <2>4, <2>5 DEF SameTrip
<1>10. /\ ride'[r] = y /\ holder'[r] = s.driver
       /\ \A q \in Rides \ {r} : ride'[q] = ride[q] /\ holder'[q] = holder[q]
  BY <1>4 DEF SessionsInv, TypeOK
<1>11. TypeOK' BY <1>4, <1>6, <1>9 DEF SessionsInv, TypeOK
<1>12. \A q \in Rides \ overwritten' : CleanRow(q)'
  <2>1. ASSUME r \notin overwritten PROVE CleanRow(r)'
    <3>1. CleanRow(r) BY <2>1 DEF SessionsInv
    <3>2. TripOK(y)
      BY <1>4, <1>6, <1>9, <3>1, NoDriverAssumption
      DEF CleanRow, TripOK, InPool, DriverFitsRow, StampsFit, ActiveStatuses
    <3>3. HolderOf(y) = s.driver BY <1>9 DEF HolderOf, ActiveStatuses
    <3>4. r \in settled' <=> y.status = "completed"
      BY <1>4, <1>9, <3>1 DEF CleanRow, InPool
    <3> QED BY <1>10, <3>2, <3>3, <3>4 DEF CleanRow
  <2>2. ASSUME NEW q \in Rides \ overwritten, q # r PROVE CleanRow(q)'
    BY <1>4, <1>10, <2>2 DEF SessionsInv, CleanRow
  <2> QED BY <1>4, <2>1, <2>2
<1>13. \A q \in Rides \ overwritten', d \in Drivers :
         DrivesRide(d, q)' =>
           \/ DrivesRide(d, q)
           \/ /\ session[w] # Idle /\ session[w].op = "accept" /\ session[w].driver = d
              /\ \A p \in Rides \ {q} : ride'[p] = ride[p]
  BY <1>1, <1>4, <1>9, <1>10 DEF DrivesRide
<1>14. overwritten \subseteq overwritten' /\ overwritten' \subseteq Rides
  BY <1>4 DEF SessionsInv
<1>15. NobodyRobbed BY <1>4, <1>10 DEF NobodyRobbed
<1> QED BY <1>4, <1>11, <1>12, <1>13, <1>14, <1>15, FinishOK

\* A lost claim changes nothing.
LEMMA LoseClaimOK ==
  ASSUME SessionsInv, NEW w \in Workers, NEW r \in Rides, LoseClaim(w, r)
  PROVE  SessionsInv' /\ NobodyRobbed
<1>1. Finish(w) /\ UNCHANGED <<sequential, approval, ride, holder, settled, overwritten>>
  BY DEF LoseClaim, vars
<1>2. TypeOK' /\ (\A r1 \in Rides \ overwritten' : CleanRow(r1)')
  BY <1>1 DEF SessionsInv, TypeOK, CleanRow
<1>3. \A q \in Rides \ overwritten', d \in Drivers : DrivesRide(d, q)' => DrivesRide(d, q)
  BY <1>1 DEF DrivesRide
<1>4. overwritten \subseteq overwritten' /\ overwritten' \subseteq Rides
  BY <1>1 DEF SessionsInv
<1>5. NobodyRobbed BY <1>1 DEF NobodyRobbed
<1> QED BY <1>1, <1>2, <1>3, <1>4, <1>5, FinishOK

\* What a request that saw the latest row of a ride leaves of the ride, its ledger entry
\* and its settlement.
LEMMA SeenRowOK ==
  ASSUME NEW x, TripOK(x), NEW y \in RideRow, NEW op \in Ops \ {"accept"}, Does(op, x, y),
         NEW h, h = HolderOf(x)
  PROVE  /\ HolderOf(y) = IF op = "release" \/ (op = "cancel" /\ x.driver # NoDriver)
                          THEN NoDriver ELSE h
         /\ y.status = "completed" <=> x.status = "completed" \/ op = "complete"
<1>1. x \in RideRow /\ DriverFitsRow(x) BY DEF TripOK
<1>2. CASE op = "refuse" \/ SameTrip(x, y)
  <2>1. SameTrip(x, y) BY <1>2 DEF Does
  <2>2. op \in {"refuse", "decline", "poll"}
    BY <2>1 DEF Does, Ops, SameTrip, GaveBack, Drove, Legs, CalledOff, ActiveStatuses
  <2> QED BY <2>1, <2>2 DEF SameTrip, HolderOf
<1>3. CASE op \in {"decline", "poll"} /\ GaveUp(x, y)
  BY <1>3 DEF GaveUp, InPool, HolderOf, ActiveStatuses
<1>4. CASE op = "release"
  BY <1>4 DEF Does, GaveBack, HolderOf, ActiveStatuses
<1>5. CASE op \in {"arrive", "start", "complete"}
  <2>1. Drove(x, y) /\ (y.status = "completed" <=> op = "complete") BY <1>5 DEF Does
  <2> QED BY <1>5, <2>1 DEF Drove, Legs, HolderOf, ActiveStatuses
<1>6. CASE op = "cancel"
  <2>1. CalledOff(x, y) BY <1>6 DEF Does
  <2> QED BY <1>1, <1>6, <2>1 DEF CalledOff, DriverFitsRow, HolderOf, ActiveStatuses
<1> QED BY <1>2, <1>3, <1>4, <1>5, <1>6 DEF Does, Ops

\* Every other commit writes rows it may not have seen; a ride whose row it has seen gets
\* exactly what was computed, and no ride gets another driver.
LEMMA CommitWritesOK ==
  ASSUME SessionsInv, NEW w \in Workers, CommitWrites(w)
  PROVE  SessionsInv' /\ NobodyRobbed
<1>1. PICK s : s = session[w] OBVIOUS
<1>2. PICK written : written = DOMAIN s.after OBVIOUS
<1>3. /\ s # Idle /\ s.op # "accept" /\ Finish(w)
      /\ ride' = [r \in Rides |-> IF r \in written THEN Merge(ride[r], s.before[r], s.after[r])
                                                   ELSE ride[r]]
      /\ holder' = [r \in Rides |-> IF r \in written THEN HolderWritten(s, r) ELSE holder[r]]
      /\ settled' = IF s.op = "complete" THEN settled \union written ELSE settled
      /\ overwritten' = overwritten \union Unseen(s)
      /\ UNCHANGED <<sequential, approval>>
  BY <1>1, <1>2 DEF CommitWrites
<1>4. SessionOK(s) BY <1>1, <1>3 DEF SessionsInv
<1>5. /\ written \subseteq Rides /\ s.op \in Ops \ {"accept"}
      /\ \A r \in written : /\ s.after[r] \in RideRow /\ s.before[r] \in RideRow
                            /\ Does(s.op, s.before[r], s.after[r])
  BY <1>2, <1>3, <1>4 DEF SessionOK
<1>6. \A r \in Rides : ride[r] \in RideRow /\ holder[r] \in Drivers \union {NoDriver}
  BY DEF SessionsInv, TypeOK
<1>7. \A r \in written : ride'[r] = Merge(ride[r], s.before[r], s.after[r])
  BY <1>3, <1>5
<1>8. \A r \in Rides \ written : ride'[r] = ride[r] /\ holder'[r] = holder[r] BY <1>3
<1>9. TypeOK'
  <2>1. \A r \in Rides : ride'[r] \in RideRow BY <1>5, <1>6, <1>7, <1>8, MergeOK
  <2>2. \A r \in Rides : HolderWritten(s, r) \in Drivers \union {NoDriver}
    BY <1>6 DEF HolderWritten
  <2>3. /\ ride' \in [Rides -> RideRow] /\ holder' \in [Rides -> Drivers \union {NoDriver}]
        /\ settled' \in SUBSET Rides
    BY <1>3, <1>5, <1>6, <2>1, <2>2 DEF SessionsInv, TypeOK
  <2> QED BY <1>3, <2>3 DEF SessionsInv, TypeOK
<1>10. NobodyRobbed
  <2>1. ASSUME NEW r \in written PROVE s.after[r].driver \in {s.before[r].driver, NoDriver}
    BY <1>5, <2>1 DEF Does, Ops, SameTrip, GaveUp, GaveBack, Drove, CalledOff
  <2>2. \A r \in written : ride'[r].driver \in {ride[r].driver, NoDriver}
    BY <1>5, <1>6, <1>7, <2>1, MergeOK
  <2> QED BY <1>8, <2>2 DEF NobodyRobbed
<1>11. overwritten \subseteq overwritten' /\ overwritten' \subseteq Rides
  BY <1>2, <1>3, <1>5 DEF SessionsInv, Unseen
<1>12. ASSUME NEW r \in Rides \ overwritten'
       PROVE  /\ CleanRow(r)'
              /\ \A d \in Drivers : DrivesRide(d, r)' => DrivesRide(d, r)
  <2>1. r \notin overwritten /\ CleanRow(r) BY <1>3 DEF SessionsInv
  <2>2. CASE r \notin written
    <3>1. ride'[r] = ride[r] /\ holder'[r] = holder[r] /\ (r \in settled' <=> r \in settled)
      BY <1>3, <1>8, <2>2
    <3> QED BY <2>1, <3>1 DEF CleanRow, DrivesRide
  <2>3. CASE r \in written
    <3>1. ride[r] = s.before[r] BY <1>2, <1>3, <2>3 DEF Unseen
    <3>2. ride'[r] = s.after[r] BY <1>5, <1>6, <1>7, <2>3, <3>1, MergeOK
    <3>3. PICK x, y, op : x = ride[r] /\ y = s.after[r] /\ op = s.op OBVIOUS
    <3>4. /\ TripOK(x) /\ y \in RideRow /\ op \in Ops \ {"accept"} /\ Does(op, x, y)
          /\ holder[r] = HolderOf(x)
      BY <1>5, <2>1, <2>3, <3>1, <3>3 DEF CleanRow
    <3>5. /\ TripOK(y) /\ y.driver \in {x.driver, NoDriver}
          /\ y.status \in ActiveStatuses => x.status \in ActiveStatuses
      BY <3>4, TripKept
    <3>6. /\ HolderOf(y) = IF op = "release" \/ (op = "cancel" /\ x.driver # NoDriver)
                           THEN NoDriver ELSE holder[r]
          /\ y.status = "completed" <=> x.status = "completed" \/ op = "complete"
      BY <3>4, SeenRowOK
    <3>7. holder'[r] = HolderOf(y)
      BY <1>3, <2>3, <3>1, <3>3, <3>6 DEF HolderWritten
    <3>8. r \in settled' <=> y.status = "completed"
      BY <1>3, <2>1, <2>3, <3>3, <3>6 DEF CleanRow
    <3> QED BY <3>2, <3>3, <3>5, <3>7, <3>8, NoDriverAssumption DEF CleanRow, DrivesRide
  <2> QED BY <2>2, <2>3
<1> QED BY <1>3, <1>9, <1>10, <1>11, <1>12, FinishOK

\* A new ride has no driver and nobody has read it.
LEMMA CreateOK ==
  ASSUME SessionsInv, NEW r \in Rides, NEW online \in SUBSET Drivers, Create(r, online)
  PROVE  SessionsInv' /\ NobodyRobbed
<1> DEFINE x == [AbsentRide EXCEPT !.status = "requested"]
<1>1. PICK y \in StartDispatch(x, Able(online), sequential) : ride' = [ride EXCEPT ![r] = y]
  BY DEF Create, CreateRide
<1>2. /\ ride[r].status = "absent"
      /\ UNCHANGED <<sequential, approval, holder, settled, session, overwritten>>
  BY DEF Create, CreateRide
<1>3. x \in RideRow /\ x.status = "requested" /\ x.driver = NoDriver /\ x.stamps = {}
  BY AbsentRowOK DEF RowOK, AbsentRide
<1>4. Able(online) \in SUBSET Drivers BY DEF Able
<1> HIDE DEF x
<1>5. y \in RideRow /\ y.status = "requested" /\ y.driver = NoDriver /\ y.stamps = {}
  BY <1>1, <1>3, <1>4, StartDispatchTrip DEF SameTrip
<1>6. ride'[r] = y /\ \A q \in Rides \ {r} : ride'[q] = ride[q]
  BY <1>1 DEF SessionsInv, TypeOK
<1>7. TypeOK' BY <1>1, <1>2, <1>5 DEF SessionsInv, TypeOK
<1>8. ASSUME NEW q \in Rides \ overwritten PROVE CleanRow(q)'
  <2>1. CleanRow(q) BY <1>8 DEF SessionsInv
  <2>2. CASE q = r
    <3>1. TripOK(y) /\ HolderOf(y) = NoDriver
      BY <1>5 DEF TripOK, DriverFitsRow, StampsFit, HolderOf, ActiveStatuses
    <3>2. holder[q] = NoDriver /\ q \notin settled
      BY <1>2, <2>1, <2>2 DEF CleanRow, HolderOf, ActiveStatuses
    <3> QED BY <1>2, <1>5, <1>6, <2>2, <3>1, <3>2 DEF CleanRow
  <2>3. CASE q # r BY <1>2, <1>6, <2>1, <2>3 DEF CleanRow
  <2> QED BY <2>2, <2>3
<1>9. \A q \in Rides, d \in Drivers : DrivesRide(d, q)' => DrivesRide(d, q)
  BY <1>5, <1>6, NoDriverAssumption DEF DrivesRide
<1>10. OneCleanRidePerDriver' /\ ClaimersAreFree'
  <2>1. OneCleanRidePerDriver' BY <1>2, <1>9 DEF SessionsInv, OneCleanRidePerDriver
  <2>2. \A w \in Workers : session[w] # Idle /\ session[w].op = "accept" =>
                           session[w].driver \in Drivers
    BY DEF SessionsInv, SessionOK
  <2>3. ClaimersAreFree' BY <1>2, <1>9, <2>2 DEF SessionsInv, ClaimersAreFree
  <2> QED BY <2>1, <2>3
<1>11. /\ OneLockEach' /\ (overwritten \in SUBSET Rides)' /\ (DOMAIN session = Workers)'
       /\ (\A w \in Workers : session[w] # Idle => SessionOK(session[w]))'
  BY <1>2 DEF SessionsInv, OneLockEach, SessionOK
<1>12. NobodyRobbed BY <1>5, <1>6 DEF NobodyRobbed
<1> QED BY <1>2, <1>7, <1>8, <1>10, <1>11, <1>12 DEF SessionsInv

-----------------------------------------------------------------------------
(* The theorems *)

\* The invariant holds of an empty board without requests.
LEMMA InitSessionsInv == SessionsInit => SessionsInv
<1> SUFFICES ASSUME SessionsInit PROVE SessionsInv OBVIOUS
<1>1. /\ AbsentRide \in RideRow /\ AbsentRide.status = "absent"
      /\ AbsentRide.driver = NoDriver /\ AbsentRide.stamps = {}
  BY AbsentRowOK DEF RowOK, AbsentRide
<1>2. TripOK(AbsentRide) /\ HolderOf(AbsentRide) = NoDriver
  BY <1>1 DEF TripOK, DriverFitsRow, StampsFit, HolderOf, ActiveStatuses
<1>3. \A r \in Rides : ride[r] = AbsentRide /\ holder[r] = NoDriver BY DEF SessionsInit
<1>4. TypeOK BY <1>1 DEF SessionsInit, TypeOK, ApprovalStatuses
<1>5. \A r \in Rides : CleanRow(r) BY <1>1, <1>2, <1>3 DEF SessionsInit, CleanRow
<1>6. \A r \in Rides, d \in Drivers : ~DrivesRide(d, r)
  BY <1>1, <1>3 DEF DrivesRide, ActiveStatuses
<1>7. DOMAIN session = Workers /\ \A w \in Workers : session[w] = Idle BY DEF SessionsInit
<1>8. OneLockEach /\ ClaimersAreFree BY <1>7 DEF OneLockEach, ClaimersAreFree
<1> QED
  BY <1>4, <1>5, <1>6, <1>7, <1>8 DEF SessionsInit, SessionsInv, OneCleanRidePerDriver

\* Every step keeps the invariant and robs nobody.
LEMMA SessionsStepOK == SessionsInv /\ [SessionsNext]_allVars => SessionsInv' /\ [NobodyRobbed]_allVars
<1> SUFFICES ASSUME SessionsInv, [SessionsNext]_allVars
             PROVE  SessionsInv' /\ [NobodyRobbed]_allVars
  OBVIOUS
<1>1. CASE UNCHANGED allVars
  BY <1>1
  DEF allVars, vars, SessionsInv, TypeOK, CleanRow, OneLockEach, ClaimersAreFree,
      OneCleanRidePerDriver, DrivesRide, SessionOK
<1>2. CASE SessionsNext
  BY <1>2, CreateOK, BeginAcceptOK, BeginReleaseOK, BeginDeclineOK, BeginLegOK, BeginCancelOK,
     BeginPollOK, CommitClaimOK, LoseClaimOK, CommitWritesOK
  DEF SessionsNext
<1> QED BY <1>1, <1>2

\* The inductive invariant of the concurrent board.
THEOREM SessionsInductive == SessionsSpec => []SessionsInv
BY InitSessionsInv, SessionsStepOK, PTL DEF SessionsSpec

\* On every ride whose requests each saw the row they changed, the row, the claim ledger and
\* the settlement agree, however claims, cancellations and polls interleave.
THEOREM CleanRidesCorrect == SessionsSpec => []CleanRidesAgree
<1>1. SessionsInv => CleanRidesAgree
  BY DEF SessionsInv, CleanRidesAgree, CleanRow, TripOK, HolderOf
<1> QED BY <1>1, SessionsInductive, PTL

\* No driver is active on two such rides: the lock on driver_status is enough.
THEOREM OneCleanRideEach == SessionsSpec => []OneCleanRidePerDriver
<1>1. SessionsInv => OneCleanRidePerDriver BY DEF SessionsInv
<1> QED BY <1>1, SessionsInductive, PTL

\* No commit, however late, takes a ride from the driver who has it.
THEOREM NobodyIsRobbed == SessionsSpec => NoTheft
<1>1. SessionsSpec => [][NobodyRobbed]_allVars
  BY SessionsInductive, SessionsStepOK, PTL DEF SessionsSpec
<1>2. [NobodyRobbed]_allVars =>
        [\A r \in Rides : ride'[r].driver \notin {ride[r].driver, NoDriver} => InPool(ride[r])]_allVars
  BY DEF NobodyRobbed
<1> QED BY <1>1, <1>2, PTL DEF NoTheft

=============================================================================
