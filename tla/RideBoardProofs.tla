--------------------------- MODULE RideBoardProofs ---------------------------
(***************************************************************************)
(* Proofs that RideBoard keeps its invariants for every set of drivers and *)
(* rides, every MaxAttempts and both dispatch modes.  Almost all of the    *)
(* invariant is about one row, so it is first proved of the row functions  *)
(* of DispatchCascade and then lifted to the handlers.                     *)
(***************************************************************************)
EXTENDS RideBoard, TLAPS

\* What is true of every row between two requests.
RowOK(x) ==
  /\ x \in RideRow
  /\ DriverFitsRow(x)
  /\ LogFitsOffer(x)
  /\ AskedOnce(x)
  /\ StampsFit(x)
  /\ EarnedExhaustion(x)

\* Offers come and go without touching who drives the ride.
SameAssignment(x, y) == y.status = x.status /\ y.driver = x.driver

-----------------------------------------------------------------------------
(* Row functions *)

\* The row before its insertion, and the freshly requested row, are sound.
LEMMA AbsentRowOK ==
  /\ RowOK(AbsentRide)
  /\ RowOK([AbsentRide EXCEPT !.status = "requested"])
BY NoDriverAssumption
DEF RowOK, AbsentRide, RideRow, RideStatus, Results, Stamps, DriverFitsRow, LogFitsOffer,
    OpenLogs, AskedOnce, StampsFit, EarnedExhaustion, ActiveStatuses

\* Offering a ride of the pool to a driver who was not asked keeps the row sound.
LEMMA OfferedOK ==
  ASSUME NEW x, RowOK(x), InPool(x), x.offer = NoDriver, NEW d \in Drivers \ Asked(x)
  PROVE  RowOK(Offered(x, d)) /\ SameAssignment(x, Offered(x, d))
<1> DEFINE y == Offered(x, d)
<1>1. x \in RideRow BY DEF RowOK
<1>2. y \in RideRow
  <2>1. x.log[d] \union {"sent"} \in SUBSET Results BY <1>1 DEF RideRow, Results
  <2>2. LogsWith(x, d, x.log[d] \union {"sent"}) \in [Drivers -> SUBSET Results]
    BY <1>1, <2>1 DEF RideRow, LogsWith
  <2>3. d \in Drivers /\ x.attempts + 1 \in Nat BY <1>1 DEF RideRow
  <2>4. ASSUME NEW l \in [Drivers -> SUBSET Results], NEW n \in Nat
        PROVE  [x EXCEPT !.offer = d, !.attempts = n, !.log = l] \in RideRow
    BY <1>1, <2>3 DEF RideRow
  <2> QED BY <2>2, <2>3, <2>4 DEF Offered
<1>3. /\ y.status = x.status /\ y.driver = x.driver /\ y.offer = d
      /\ y.stamps = x.stamps /\ y.reason = x.reason /\ y.attempts = x.attempts + 1
      /\ y.log = [x.log EXCEPT ![d] = x.log[d] \union {"sent"}]
  BY <1>1 DEF Offered, LogsWith, RideRow
<1>4. x.log[d] \intersect {"sent", "declined", "timeout"} = {} BY DEF Asked
<1>5. OpenLogs(x) = {} BY NoDriverAssumption DEF RowOK, InPool, LogFitsOffer
<1>6. OpenLogs(y) = {d} BY <1>1, <1>3, <1>5 DEF OpenLogs, RideRow
<1>7. LogFitsOffer(y)
  BY <1>3, <1>6, NoDriverAssumption
  DEF LogFitsOffer, RowOK, InPool, EarnedExhaustion, ActiveStatuses
<1>8. AskedOnce(y) BY <1>1, <1>3, <1>4 DEF AskedOnce, RowOK, RideRow
<1>9. DriverFitsRow(y) /\ StampsFit(y) /\ EarnedExhaustion(y)
  BY <1>3 DEF RowOK, DriverFitsRow, StampsFit, EarnedExhaustion, InPool
<1> QED BY <1>2, <1>3, <1>7, <1>8, <1>9 DEF RowOK, SameAssignment

\* Offering a ride to the next driver, or to nobody, keeps its row sound.
LEMMA OfferToNextOK ==
  ASSUME NEW x, RowOK(x), InPool(x), x.offer = NoDriver,
         NEW able \in SUBSET Drivers, NEW y \in OfferToNext(x, able)
  PROVE  RowOK(y) /\ SameAssignment(x, y)
BY OfferedOK DEF OfferToNext, SameAssignment

\* Starting the dispatch of a ride keeps its row sound.
LEMMA StartDispatchOK ==
  ASSUME NEW x, RowOK(x), NEW able \in SUBSET Drivers, NEW seq \in BOOLEAN,
         NEW y \in StartDispatch(x, able, seq)
  PROVE  RowOK(y) /\ SameAssignment(x, y)
BY OfferToNextOK DEF StartDispatch, SameAssignment

\* A failed attempt: the open log is closed, then the ride moves on or is given up.
LEMMA ClosedLogOK ==
  ASSUME NEW x, RowOK(x), NEW d \in Drivers, "sent" \in x.log[d],
         NEW result \in {"accepted", "declined", "timeout"},
         NEW y, y = Answered(x, d, result)
  PROVE  /\ y \in RideRow
         /\ SameAssignment(x, y)
         /\ y.offer = x.offer /\ y.stamps = x.stamps /\ y.reason = x.reason
         /\ y.attempts = x.attempts
         /\ OpenLogs(y) = OpenLogs(x) \ {d}
         /\ AskedOnce(y)
<1>1. x \in RideRow BY DEF RowOK
<1> DEFINE l == (x.log[d] \ {"sent"}) \union {result}
<1>2. y = [x EXCEPT !.log = LogsWith(x, d, l)] BY DEF Answered
<1>3. l \in SUBSET Results BY <1>1 DEF RideRow, Results
<1>4. LogsWith(x, d, l) \in [Drivers -> SUBSET Results] BY <1>1, <1>3 DEF RideRow, LogsWith
<1>5. y \in RideRow BY <1>1, <1>2, <1>4 DEF RideRow
<1>6. /\ y.status = x.status /\ y.driver = x.driver /\ y.offer = x.offer
      /\ y.stamps = x.stamps /\ y.reason = x.reason /\ y.attempts = x.attempts
      /\ y.log = [x.log EXCEPT ![d] = l]
  BY <1>1, <1>2 DEF RideRow, LogsWith
<1>7. OpenLogs(y) = OpenLogs(x) \ {d} BY <1>1, <1>6 DEF OpenLogs, RideRow
<1>8. AskedOnce(y) BY <1>1, <1>6 DEF AskedOnce, RowOK, RideRow
<1> QED BY <1>5, <1>6, <1>7, <1>8 DEF SameAssignment

\* Giving up closes a ride of the pool that has no open log.
LEMMA FinalizedOK ==
  ASSUME NEW x \in RideRow, InPool(x), OpenLogs(x) = {}, AskedOnce(x),
         x.stamps = {}, x.attempts >= MaxAttempts
  PROVE  /\ RowOK(FinalizeNoDrivers(x))
         /\ FinalizeNoDrivers(x).status = "cancelled"
         /\ FinalizeNoDrivers(x).driver = NoDriver
<1> DEFINE y == FinalizeNoDrivers(x)
<1>1. y \in RideRow BY DEF FinalizeNoDrivers, RideRow, RideStatus, Stamps
<1>2. /\ y.status = "cancelled" /\ y.driver = NoDriver /\ y.offer = NoDriver
      /\ y.stamps = {"cancelled"} /\ y.attempts = x.attempts /\ y.log = x.log
  BY DEF FinalizeNoDrivers, RideRow, InPool
<1>3. OpenLogs(y) = {} BY <1>2 DEF OpenLogs
<1>4. AskedOnce(y) BY <1>2 DEF AskedOnce
<1>5. DriverFitsRow(y) /\ LogFitsOffer(y) /\ StampsFit(y) /\ EarnedExhaustion(y)
  BY <1>2, <1>3
  DEF DriverFitsRow, LogFitsOffer, StampsFit, EarnedExhaustion, ActiveStatuses
<1> QED BY <1>1, <1>2, <1>4, <1>5 DEF RowOK

\* Withdrawing the answered offer leaves a sound row of the pool without an offer.
LEMMA WithdrawnOK ==
  ASSUME NEW x \in RideRow, InPool(x), OpenLogs(x) = {}, AskedOnce(x),
         x.stamps = {}, x.reason = "other"
  PROVE  LET y == [x EXCEPT !.offer = NoDriver]
         IN  RowOK(y) /\ InPool(y) /\ y.offer = NoDriver
<1> DEFINE y == [x EXCEPT !.offer = NoDriver]
<1>1. y \in RideRow BY DEF RideRow
<1>2. /\ y.status = "requested" /\ y.driver = NoDriver /\ y.offer = NoDriver
      /\ y.stamps = {} /\ y.reason = "other" /\ y.log = x.log
  BY DEF RideRow, InPool
<1>3. OpenLogs(y) = {} BY <1>2 DEF OpenLogs
<1>4. AskedOnce(y) BY <1>2 DEF AskedOnce
<1>5. DriverFitsRow(y) /\ LogFitsOffer(y) /\ StampsFit(y) /\ EarnedExhaustion(y)
  BY <1>2, <1>3
  DEF DriverFitsRow, LogFitsOffer, StampsFit, EarnedExhaustion, ActiveStatuses
<1> QED BY <1>1, <1>2, <1>4, <1>5 DEF RowOK, InPool

\* What a declined or lapsed offer may do to who drives the ride.
MovedOn(x, y) ==
  \/ SameAssignment(x, y)
  \/ x.status = "requested" /\ y.status = "cancelled" /\ y.driver = x.driver

\* Everything but the log and the offer is as it was.
SameOutcome(x, y) ==
  SameAssignment(x, y) /\ y.stamps = x.stamps /\ y.reason = x.reason

\* After a failed attempt the row is sound, whether the ride went on, stayed or was given up.
LEMMA FailedAttemptOK ==
  ASSUME NEW x, RowOK(x), NEW d \in Drivers, x.offer = d \/ "sent" \in x.log[d],
         NEW result \in {"declined", "timeout"}, NEW able \in SUBSET Drivers,
         NEW z \in AdvanceAfterFailedAttempt(Answered(x, d, result), able)
  PROVE  RowOK(z) /\ MovedOn(x, z) /\ (InPool(x) \/ SameOutcome(x, z))
<1> DEFINE y == Answered(x, d, result)
<1>1. x \in RideRow BY DEF RowOK
<1>2. CASE InPool(x)
  <2>1. "sent" \in x.log[d] /\ OpenLogs(x) = {d}
    BY <1>1, <1>2, NoDriverAssumption DEF RowOK, LogFitsOffer, OpenLogs, InPool
  <2>2. /\ y \in RideRow /\ SameAssignment(x, y) /\ OpenLogs(y) = {} /\ AskedOnce(y)
        /\ y.stamps = x.stamps /\ y.reason = x.reason
    BY <2>1, ClosedLogOK
  <2>3. InPool(y) /\ y.stamps = {} /\ y.reason = "other"
    BY <1>1, <1>2, <2>2 DEF InPool, SameAssignment, RowOK, StampsFit, EarnedExhaustion, RideRow
  <2>4. CASE y.attempts >= MaxAttempts
    <3>1. z = FinalizeNoDrivers(y) BY <2>3, <2>4 DEF AdvanceAfterFailedAttempt
    <3> QED BY <1>2, <2>2, <2>3, <2>4, <3>1, FinalizedOK DEF MovedOn, InPool
  <2>5. CASE ~(y.attempts >= MaxAttempts)
    <3> DEFINE w == [y EXCEPT !.offer = NoDriver]
    <3>1. z \in OfferToNext(w, able) BY <2>3, <2>5 DEF AdvanceAfterFailedAttempt
    <3>2. RowOK(w) /\ InPool(w) /\ w.offer = NoDriver BY <2>2, <2>3, WithdrawnOK
    <3>3. RowOK(z) /\ SameAssignment(w, z) BY <3>1, <3>2, OfferToNextOK
    <3>4. SameAssignment(x, w) BY <2>2 DEF SameAssignment, RideRow
    <3> QED BY <1>2, <3>3, <3>4 DEF MovedOn, SameAssignment
  <2> QED BY <2>4, <2>5
<1>3. CASE ~InPool(x)
  <2>1. x.offer = d \/ "sent" \in x.log[d] OBVIOUS
  <2>2. x.status = "cancelled" /\ x.reason # "no_drivers_available"
    BY <1>1, <1>3, <2>1, NoDriverAssumption
    DEF RowOK, RideRow, RideStatus, LogFitsOffer, OpenLogs, InPool, ActiveStatuses, DriverFitsRow
  <2>3. y \in RideRow /\ SameAssignment(x, y) /\ AskedOnce(y) /\ ~InPool(y)
        /\ y.stamps = x.stamps /\ y.reason = x.reason
    <3>1. CASE "sent" \in x.log[d]
      BY <1>3, <3>1, ClosedLogOK DEF InPool, SameAssignment
    <3>2. CASE "sent" \notin x.log[d]
      BY <1>1, <1>3, <3>2 DEF Answered, InPool, SameAssignment, RowOK
    <3> QED BY <3>1, <3>2
  <2>4. z = y BY <2>3 DEF AdvanceAfterFailedAttempt
  <2>5. DriverFitsRow(y) /\ LogFitsOffer(y) /\ StampsFit(y) /\ EarnedExhaustion(y)
    BY <2>2, <2>3
    DEF RowOK, SameAssignment, DriverFitsRow, LogFitsOffer, StampsFit, EarnedExhaustion,
        ActiveStatuses
  <2> QED BY <2>3, <2>4, <2>5 DEF RowOK, MovedOn, SameOutcome
<1> QED BY <1>2, <1>3

\* A poll moves a ride on if its offer is due, then starts a missing offer.
LEMMA RefreshedOK ==
  ASSUME NEW x, RowOK(x), NEW due \in BOOLEAN, NEW able \in SUBSET Drivers,
         NEW seq \in BOOLEAN, NEW z \in Refreshed(x, due, able, seq)
  PROVE  RowOK(z) /\ MovedOn(x, z) /\ (InPool(x) \/ z = x)
<1>1. PICK y \in TimedOut(x, due, able) : z \in StartDispatch(y, able, seq)
  BY DEF Refreshed
<1>2. CASE due /\ InPool(x) /\ x.offer # NoDriver
  <2>1. x.offer \in Drivers BY <1>2 DEF RowOK, RideRow
  <2>2. RowOK(y) /\ MovedOn(x, y) BY <1>1, <1>2, <2>1, FailedAttemptOK DEF TimedOut
  <2>3. RowOK(z) /\ SameAssignment(y, z) BY <1>1, <2>2, StartDispatchOK
  <2> QED BY <1>2, <2>2, <2>3 DEF MovedOn, SameAssignment
<1>3. CASE ~(due /\ InPool(x) /\ x.offer # NoDriver)
  <2>1. y = x BY <1>1, <1>3 DEF TimedOut
  <2>2. RowOK(z) /\ SameAssignment(x, z) BY <1>1, <2>1, StartDispatchOK
  <2>3. InPool(x) \/ z = x BY <1>1, <2>1 DEF StartDispatch
  <2> QED BY <2>2, <2>3 DEF MovedOn
<1> QED BY <1>2, <1>3

\* A claim closes the claimant's offer; there was no other.
LEMMA ClaimedOK ==
  ASSUME NEW x, RowOK(x), InPool(x), NEW d \in Drivers, x.offer \in {NoDriver, d}
  PROVE  LET y == Claimed(x, d)
         IN  RowOK(y) /\ y.status = "accepted" /\ y.driver = d /\ y.offer = NoDriver
<1> DEFINE w == Answered(x, d, "accepted")
           y == Claimed(x, d)
<1>1. x \in RideRow BY DEF RowOK
<1>2. OpenLogs(x) \subseteq {d} BY DEF RowOK, LogFitsOffer, InPool
<1>3. /\ w \in RideRow /\ OpenLogs(w) = {} /\ AskedOnce(w)
      /\ w.stamps = x.stamps /\ w.reason = x.reason
  <2>1. CASE "sent" \in x.log[d] BY <1>2, <2>1, ClosedLogOK
  <2>2. CASE "sent" \notin x.log[d]
    BY <1>1, <1>2, <2>2 DEF Answered, OpenLogs, RowOK
  <2> QED BY <2>1, <2>2
<1>4. x.stamps = {} /\ x.reason = "other"
  BY <1>1 DEF RowOK, InPool, StampsFit, EarnedExhaustion, RideRow
<1>5. y = [w EXCEPT !.status = "accepted", !.driver = d, !.offer = NoDriver,
                    !.stamps = w.stamps \union {"accepted"}]
  BY DEF Claimed
<1>6. y \in RideRow
  <2> HIDE DEF w, y
  <2> QED BY <1>3, <1>5 DEF RideRow, RideStatus, Stamps
<1>7. /\ y.status = "accepted" /\ y.driver = d /\ y.offer = NoDriver
      /\ y.stamps = {"accepted"} /\ y.reason = "other" /\ y.log = w.log
  <2> HIDE DEF w, y
  <2> QED BY <1>3, <1>4, <1>5 DEF RideRow
<1>8. OpenLogs(y) = {} BY <1>3, <1>7 DEF OpenLogs
<1>9. AskedOnce(y) BY <1>3, <1>7 DEF AskedOnce
<1>10. DriverFitsRow(y) /\ LogFitsOffer(y) /\ StampsFit(y) /\ EarnedExhaustion(y)
  BY <1>7, <1>8, NoDriverAssumption
  DEF DriverFitsRow, LogFitsOffer, StampsFit, EarnedExhaustion, ActiveStatuses
<1> QED BY <1>6, <1>7, <1>9, <1>10 DEF RowOK

\* A release leaves a row of the pool like one that was never claimed.
LEMMA ReleasedOK ==
  ASSUME NEW x, RowOK(x), x.status = "accepted"
  PROVE  LET y == Released(x)
         IN  RowOK(y) /\ InPool(y) /\ y.offer = NoDriver /\ OpenLogs(y) = {}
<1> DEFINE y == Released(x)
<1>1. x \in RideRow BY DEF RowOK
<1>2. x.stamps = {"accepted"} /\ OpenLogs(x) = {} /\ x.offer = NoDriver
  BY DEF RowOK, StampsFit, LogFitsOffer, ActiveStatuses
<1>3. y \in RideRow BY <1>1 DEF Released, RideRow, RideStatus
<1>4. /\ y.status = "requested" /\ y.driver = NoDriver /\ y.offer = NoDriver
      /\ y.stamps = {} /\ y.reason = "other" /\ y.log = x.log
  BY <1>1, <1>2 DEF Released, RideRow
<1>5. OpenLogs(y) = {} BY <1>2, <1>4 DEF OpenLogs
<1>6. AskedOnce(y) BY <1>4 DEF AskedOnce, RowOK
<1>7. DriverFitsRow(y) /\ LogFitsOffer(y) /\ StampsFit(y) /\ EarnedExhaustion(y)
  BY <1>4, <1>5
  DEF DriverFitsRow, LogFitsOffer, StampsFit, EarnedExhaustion, ActiveStatuses
<1> QED BY <1>3, <1>4, <1>5, <1>6, <1>7 DEF RowOK, InPool

\* The legs of a trip, with the stamp each of them sets.
Legs == {<<"accepted", "driver_arrived", "arrived">>,
         <<"driver_arrived", "in_progress", "started">>,
         <<"in_progress", "completed", "completed">>}

\* Each leg of a ride leaves its row sound, with one more stamp.
LEMMA AdvancedOK ==
  ASSUME NEW x, RowOK(x), NEW to, NEW stamp, <<x.status, to, stamp>> \in Legs
  PROVE  LET y == Advanced(x, to, stamp)
         IN  /\ RowOK(y) /\ y.status = to /\ y.driver = x.driver
             /\ y.offer = x.offer /\ OpenLogs(y) = OpenLogs(x)
<1> DEFINE y == Advanced(x, to, stamp)
<1>1. x \in RideRow BY DEF RowOK
<1>2. stamp \in Stamps /\ to \in RideStatus BY DEF Legs, Stamps, RideStatus
<1>3. y \in RideRow BY <1>1, <1>2 DEF Advanced, RideRow
<1>4. /\ y.status = to /\ y.driver = x.driver /\ y.offer = x.offer
      /\ y.stamps = x.stamps \union {stamp} /\ y.reason = x.reason /\ y.log = x.log
  BY <1>1 DEF Advanced, RideRow
<1>5. OpenLogs(y) = OpenLogs(x) BY <1>4 DEF OpenLogs
<1>6. AskedOnce(y) BY <1>4 DEF AskedOnce, RowOK
<1>7. x.status \in ActiveStatuses /\ to \in ActiveStatuses \union {"completed"}
  BY DEF Legs, ActiveStatuses
<1>8. DriverFitsRow(y) /\ LogFitsOffer(y) /\ EarnedExhaustion(y)
  BY <1>4, <1>5, <1>7
  DEF RowOK, DriverFitsRow, LogFitsOffer, EarnedExhaustion, ActiveStatuses
<1>9. StampsFit(y) BY <1>4 DEF Legs, RowOK, StampsFit, Stamps
<1> QED BY <1>3, <1>4, <1>5, <1>6, <1>8, <1>9 DEF RowOK

\* The customer's cancellation, from any status before the end.
LEMMA CancelledOK ==
  ASSUME NEW x, RowOK(x), x.status \in {"requested"} \union ActiveStatuses
  PROVE  LET y == [Advanced(x, "cancelled", "cancelled") EXCEPT !.reason = "other"]
         IN  /\ RowOK(y) /\ y.status = "cancelled" /\ y.driver = x.driver
             /\ y.offer = x.offer /\ OpenLogs(y) = OpenLogs(x)
<1> DEFINE y == [Advanced(x, "cancelled", "cancelled") EXCEPT !.reason = "other"]
<1>1. x \in RideRow BY DEF RowOK
<1>2. y \in RideRow BY <1>1 DEF Advanced, RideRow, RideStatus, Stamps
<1>3. /\ y.status = "cancelled" /\ y.driver = x.driver /\ y.offer = x.offer
      /\ y.stamps = x.stamps \union {"cancelled"} /\ y.reason = "other" /\ y.log = x.log
  BY <1>1 DEF Advanced, RideRow
<1>4. OpenLogs(y) = OpenLogs(x) BY <1>3 DEF OpenLogs
<1>5. AskedOnce(y) BY <1>3 DEF AskedOnce, RowOK
<1>6. DriverFitsRow(y) /\ LogFitsOffer(y) /\ EarnedExhaustion(y)
  BY <1>3 DEF DriverFitsRow, LogFitsOffer, EarnedExhaustion, ActiveStatuses
<1>7. StampsFit(y)
  BY <1>3 DEF RowOK, StampsFit, DriverFitsRow, ActiveStatuses
<1> QED BY <1>2, <1>3, <1>4, <1>5, <1>6, <1>7 DEF RowOK

\* A new offer goes to an able driver only.
OfferWithin(x, y, able) == y.offer \in {x.offer, NoDriver} \union able

\* A new offer goes to a driver who was able to take it.
LEMMA NewOfferIsAble ==
  ASSUME NEW x \in RideRow, NEW able \in SUBSET Drivers
  PROVE  /\ \A y \in OfferToNext(x, able) : OfferWithin(x, y, able)
         /\ \A seq \in BOOLEAN : \A y \in StartDispatch(x, able, seq) : OfferWithin(x, y, able)
         /\ \A y \in AdvanceAfterFailedAttempt(x, able) : OfferWithin(x, y, able)
<1>1. ASSUME NEW w, w = x \/ w = [x EXCEPT !.offer = NoDriver], NEW y \in OfferToNext(w, able)
      PROVE  OfferWithin(x, y, able)
  <2>1. y = w \/ \E d \in able : y = Offered(w, d) BY DEF OfferToNext
  <2>2. w.offer \in {x.offer, NoDriver} BY <1>1 DEF RideRow
  <2>3. ASSUME NEW d \in able, y = Offered(w, d) PROVE y.offer = d
    BY <1>1, <2>3 DEF Offered, RideRow
  <2> QED BY <2>1, <2>2, <2>3 DEF OfferWithin
<1>2. ASSUME NEW seq \in BOOLEAN, NEW y \in StartDispatch(x, able, seq)
      PROVE  OfferWithin(x, y, able)
  BY <1>1 DEF StartDispatch, OfferWithin
<1>3. ASSUME NEW y \in AdvanceAfterFailedAttempt(x, able)
      PROVE  OfferWithin(x, y, able)
  <2>1. FinalizeNoDrivers(x).offer = NoDriver BY DEF FinalizeNoDrivers, RideRow
  <2> QED BY <1>1, <1>3, <2>1 DEF AdvanceAfterFailedAttempt, OfferWithin
<1> QED BY <1>1, <1>2, <1>3

\* Answering an offer leaves it in place, so the same holds of an answered row.
LEMMA NewOfferAfterAnswerIsAble ==
  ASSUME NEW x, RowOK(x), NEW able \in SUBSET Drivers,
         NEW d \in Drivers, NEW result \in {"declined", "timeout"},
         NEW z \in AdvanceAfterFailedAttempt(Answered(x, d, result), able)
  PROVE  OfferWithin(x, z, able)
<1> DEFINE y == Answered(x, d, result)
<1>1. x \in RideRow BY DEF RowOK
<1>2. y \in RideRow /\ y.offer = x.offer
  <2>1. CASE "sent" \in x.log[d] BY <2>1, ClosedLogOK
  <2>2. CASE "sent" \notin x.log[d] BY <1>1, <2>2 DEF Answered
  <2> QED BY <2>1, <2>2
<1> QED BY <1>2, NewOfferIsAble DEF OfferWithin

\* So does every new offer that a poll makes.
LEMMA NewOfferByPollIsAble ==
  ASSUME NEW x, RowOK(x), NEW able \in SUBSET Drivers, NEW due \in BOOLEAN,
         NEW seq \in BOOLEAN, NEW z \in Refreshed(x, due, able, seq)
  PROVE  OfferWithin(x, z, able)
<1>1. PICK y \in TimedOut(x, due, able) : z \in StartDispatch(y, able, seq)
  BY DEF Refreshed
<1>2. RowOK(y) /\ OfferWithin(x, y, able)
  <2>1. CASE due /\ InPool(x) /\ x.offer # NoDriver
    <3>1. x.offer \in Drivers BY <2>1 DEF RowOK, RideRow
    <3>2. y \in AdvanceAfterFailedAttempt(Answered(x, x.offer, "timeout"), able)
      BY <1>1, <2>1 DEF TimedOut
    <3> QED BY <3>1, <3>2, FailedAttemptOK, NewOfferAfterAnswerIsAble
  <2>2. CASE ~(due /\ InPool(x) /\ x.offer # NoDriver)
    BY <1>1, <2>2 DEF TimedOut, OfferWithin
  <2> QED BY <2>1, <2>2
<1>3. y \in RideRow BY <1>2 DEF RowOK
<1>4. OfferWithin(y, z, able) BY <1>1, <1>3, NewOfferIsAble
<1> QED BY <1>2, <1>4 DEF OfferWithin

-----------------------------------------------------------------------------
(* The inductive invariant *)

\* A deployment with the open board never has an offer.
OpenBoardFits(x) == ~sequential => x.offer = NoDriver /\ OpenLogs(x) = {}

\* The driver the claim ledger should name for a row.
HolderOf(x) ==
  IF x.status \in ActiveStatuses \union {"completed"} THEN x.driver ELSE NoDriver

IInv ==
  /\ TypeOK
  /\ \A r \in Rides : RowOK(ride[r]) /\ OpenBoardFits(ride[r])
  /\ OneActiveRidePerDriver
  /\ \A r \in Rides : holder[r] = HolderOf(ride[r])
  /\ SettledIffCompleted

\* Whoever takes a ride is approved and free, and takes no other in the same step.
ClaimIsFree ==
  \A r \in Rides :
    ride'[r].driver \notin {ride[r].driver, NoDriver} =>
      /\ ~Busy(ride'[r].driver)
      /\ \A q \in Rides \ {r} : ride'[q] = ride[q]

\* The steps of RideAssignment, seen from one row that goes from x to y.
RowRefines(x, y) ==
  \/ PhaseOf(y) = PhaseOf(x) /\ ServedBy(y) = ServedBy(x)
  \/ PhaseOf(x) = "unborn" /\ PhaseOf(y) = "open"
  \/ PhaseOf(x) = "open" /\ PhaseOf(y) = "dropped"
  \/ PhaseOf(x) = "held" /\ PhaseOf(y) \in {"open", "done", "dropped"}
  \/ /\ PhaseOf(x) = "open" /\ PhaseOf(y) = "held"
     /\ ServedBy(y) \in Drivers /\ ~Busy(ServedBy(y))

\* What every step of the board does: the primed half of IInv that is about single
\* rows, and the action properties.
StepOK ==
  /\ TypeOK'
  /\ sequential' = sequential
  /\ \A r \in Rides : RowOK(ride'[r]) /\ (OpenBoardFits(ride[r]))'
  /\ \A r \in Rides : holder'[r] = HolderOf(ride'[r])
  /\ SettledIffCompleted'
  /\ TerminalKept
  /\ OfferRespected
  /\ NoNewWorkUnapproved
  /\ ClaimIsFree
  /\ [Assignment!Next]_(Assignment!assignmentVars)

\* OneActiveRidePerDriver is the one part of IInv that relates two rows: a driver of
\* two rides would have claimed the second while busy with the first.
LEMMA StepKeepsIInv == IInv /\ StepOK => IInv'
<1> SUFFICES ASSUME IInv, StepOK PROVE IInv'
  OBVIOUS
<1>1. ASSUME NEW r \in Rides, ride'[r].driver \in {ride[r].driver, NoDriver},
             NEW d \in Drivers, ride'[r].driver = d, ride'[r].status \in ActiveStatuses
      PROVE  DrivesRide(d, r)
  <2>1. d # NoDriver /\ ride[r].driver = d BY <1>1, NoDriverAssumption
  <2>2. ride[r] \in RideRow /\ DriverFitsRow(ride[r]) BY DEF IInv, RowOK
  <2>3. ride[r].status \notin TerminalStatuses
    BY <1>1 DEF StepOK, TerminalKept, TerminalStatuses, ActiveStatuses
  <2> QED
    BY <2>1, <2>2, <2>3
    DEF DrivesRide, DriverFitsRow, RideRow, RideStatus, TerminalStatuses, ActiveStatuses
<1>2. ASSUME NEW r1 \in Rides, NEW r2 \in Rides, NEW d \in Drivers,
             DrivesRide(d, r1)', DrivesRide(d, r2)', r1 # r2,
             ride'[r1].driver \notin {ride[r1].driver, NoDriver}
      PROVE  FALSE
  <2>1. ~Busy(d) /\ ride'[r2] = ride[r2] BY <1>2 DEF StepOK, ClaimIsFree, DrivesRide
  <2> QED BY <1>2, <2>1 DEF Busy, DrivesRide
<1>3. OneActiveRidePerDriver'
  <2> SUFFICES ASSUME NEW r1 \in Rides, NEW r2 \in Rides, NEW d \in Drivers,
                      DrivesRide(d, r1)', DrivesRide(d, r2)', r1 # r2
               PROVE  FALSE
    BY DEF OneActiveRidePerDriver
  <2>1. /\ ride'[r1].driver \in {ride[r1].driver, NoDriver}
        /\ ride'[r2].driver \in {ride[r2].driver, NoDriver}
    BY <1>2
  <2>2. DrivesRide(d, r1) /\ DrivesRide(d, r2) BY <1>1, <2>1 DEF DrivesRide
  <2> QED BY <2>2 DEF IInv, OneActiveRidePerDriver
<1> QED BY <1>3 DEF IInv, StepOK

\* A ride that is not held has no serving driver in the abstract board.
LEMMA ServedOnlyWhenHeld ==
  ASSUME NEW x, PhaseOf(x) # "held"
  PROVE  ServedBy(x) = NoDriver
BY DEF PhaseOf, ServedBy, ActiveStatuses

\* A step that changes one row changes phase and holder of that ride alone.
LEMMA OneRowRefines ==
  ASSUME IInv, NEW r \in Rides, NEW y, ride' = [ride EXCEPT ![r] = y], RowRefines(ride[r], y)
  PROVE  [Assignment!Next]_(Assignment!assignmentVars)
<1> DEFINE phase == [q \in Rides |-> PhaseOf(ride[q])]
           served == [q \in Rides |-> ServedBy(ride[q])]
<1>1. /\ ride'[r] = y
      /\ \A q \in Rides \ {r} : ride'[q] = ride[q]
  BY DEF IInv, TypeOK
<1>2. phase' = [phase EXCEPT ![r] = PhaseOf(y)]
  <2>1. \A q \in Rides : PhaseOf(ride[q])' = PhaseOf(ride'[q]) BY DEF PhaseOf
  <2>2. \A q \in Rides : PhaseOf(ride'[q]) = IF q = r THEN PhaseOf(y) ELSE PhaseOf(ride[q])
    BY <1>1
  <2> QED BY <2>1, <2>2
<1>3. served' = [served EXCEPT ![r] = ServedBy(y)]
  <2>1. \A q \in Rides : ServedBy(ride[q])' = ServedBy(ride'[q]) BY DEF ServedBy
  <2>2. \A q \in Rides : ServedBy(ride'[q]) = IF q = r THEN ServedBy(y) ELSE ServedBy(ride[q])
    BY <1>1
  <2> QED BY <2>1, <2>2
<1>4. phase[r] = PhaseOf(ride[r]) /\ served[r] = ServedBy(ride[r]) OBVIOUS
<1>5. CASE PhaseOf(y) = PhaseOf(ride[r]) /\ ServedBy(y) = ServedBy(ride[r])
  <2>1. phase' = phase /\ served' = served BY <1>2, <1>3, <1>4, <1>5
  <2> QED BY <2>1 DEF Assignment!assignmentVars
<1>6. CASE PhaseOf(ride[r]) = "unborn" /\ PhaseOf(y) = "open"
  <2>1. served' = served BY <1>3, <1>6, ServedOnlyWhenHeld
  <2>2. Assignment!Request(r) BY <1>2, <1>6, <2>1 DEF Assignment!Request
  <2> QED BY <2>2 DEF Assignment!Next
<1>7. CASE PhaseOf(ride[r]) = "open" /\ PhaseOf(y) = "dropped"
  <2>1. served' = served BY <1>3, <1>7, ServedOnlyWhenHeld
  <2>2. phase' = [q \in Rides |-> IF q \in {r} THEN "dropped" ELSE phase[q]] BY <1>2, <1>7
  <2>3. Assignment!Drop({r}) BY <1>7, <2>1, <2>2 DEF Assignment!Drop
  <2> QED BY <2>3 DEF Assignment!Next
<1>8. CASE PhaseOf(ride[r]) = "held" /\ PhaseOf(y) = "open"
  <2>1. ServedBy(y) = NoDriver BY <1>8, ServedOnlyWhenHeld
  <2>2. Assignment!Release(r) BY <1>2, <1>3, <1>8, <2>1 DEF Assignment!Release
  <2> QED BY <2>2 DEF Assignment!Next
<1>9. CASE PhaseOf(ride[r]) = "held" /\ PhaseOf(y) \in {"done", "dropped"}
  <2>1. ServedBy(y) = NoDriver BY <1>9, ServedOnlyWhenHeld
  <2>2. Assignment!End(r, PhaseOf(y)) BY <1>2, <1>3, <1>9, <2>1 DEF Assignment!End
  <2> QED BY <1>9, <2>2 DEF Assignment!Next
<1>10. CASE /\ PhaseOf(ride[r]) = "open" /\ PhaseOf(y) = "held"
            /\ ServedBy(y) \in Drivers /\ ~Busy(ServedBy(y))
  <2>1. \A q \in Rides : ServedBy(ride[q]) # ServedBy(y)
    BY <1>10, NoDriverAssumption DEF ServedBy, Busy, DrivesRide
  <2>2. Assignment!Claim(ServedBy(y), r) BY <1>2, <1>3, <1>10, <2>1 DEF Assignment!Claim
  <2> QED BY <1>10, <2>2 DEF Assignment!Next
<1> QED BY <1>5, <1>6, <1>7, <1>8, <1>9, <1>10 DEF RowRefines

\* A step that changes one row, and fits ledger and settlement to it, is sound.
LEMMA OneRowStep ==
  ASSUME IInv,
         NEW r \in Rides,
         NEW y, RowOK(y), OpenBoardFits(y),
         ride' = [ride EXCEPT ![r] = y],
         UNCHANGED <<sequential, approval>>,
         holder' = [holder EXCEPT ![r] = HolderOf(y)],
         settled' = IF y.status = "completed" THEN settled \union {r} ELSE settled,
         ride[r].status \in TerminalStatuses => SameOutcome(ride[r], y),
         y.driver \notin {ride[r].driver, NoDriver} =>
           InPool(ride[r]) /\ ride[r].offer \in {NoDriver, y.driver} /\ ~Busy(y.driver),
         \A d \in Drivers : approval[d] # "approved" =>
           (y.driver = d <=> ride[r].driver = d) /\ (y.offer = d => ride[r].offer = d),
         RowRefines(ride[r], y)
  PROVE  StepOK
<1>1. y \in RideRow BY DEF RowOK
<1>2. ride \in [Rides -> RideRow] /\ holder \in [Rides -> Drivers \union {NoDriver}]
  BY DEF IInv, TypeOK
<1>3. ride'[r] = y /\ \A q \in Rides \ {r} : ride'[q] = ride[q] BY <1>2
<1>4. holder'[r] = HolderOf(y) /\ \A q \in Rides \ {r} : holder'[q] = holder[q] BY <1>2
<1>5. HolderOf(y) \in Drivers \union {NoDriver} BY <1>1 DEF HolderOf, RideRow
<1>6. TypeOK' BY <1>1, <1>2, <1>5 DEF IInv, TypeOK
<1>7. \A q \in Rides : RowOK(ride'[q]) /\ (OpenBoardFits(ride[q]))'
  BY <1>3 DEF IInv, OpenBoardFits
<1>8. \A q \in Rides : holder'[q] = HolderOf(ride'[q]) BY <1>3, <1>4 DEF IInv
<1>9. SettledIffCompleted'
  <2>1. \A q \in Rides \ {r} : q \in settled' <=> ride'[q].status = "completed"
    BY <1>3 DEF IInv, SettledIffCompleted
  <2>2. r \in settled' <=> y.status = "completed"
    BY DEF IInv, SettledIffCompleted, TerminalStatuses, SameOutcome, SameAssignment
  <2> QED BY <1>3, <2>1, <2>2 DEF SettledIffCompleted
<1>10. TerminalKept BY <1>3 DEF TerminalKept, SameOutcome, SameAssignment
<1>11. OfferRespected /\ NoNewWorkUnapproved /\ ClaimIsFree
  BY <1>3 DEF OfferRespected, NoNewWorkUnapproved, ClaimIsFree
<1>12. [Assignment!Next]_(Assignment!assignmentVars) BY OneRowRefines
<1> QED BY <1>6, <1>7, <1>8, <1>9, <1>10, <1>11, <1>12 DEF StepOK

-----------------------------------------------------------------------------
(* The handlers *)

\* Starting dispatch for one of the board's rows, in either mode.
LEMMA StartOnBoard ==
  ASSUME IInv, NEW online \in SUBSET Drivers, NEW w, RowOK(w), OpenBoardFits(w),
         NEW y \in StartDispatch(w, Able(online), sequential)
  PROVE  /\ RowOK(y) /\ SameAssignment(w, y) /\ OpenBoardFits(y)
         /\ OfferWithin(w, y, Able(online))
         /\ w.offer = NoDriver \/ y = w
<1>1. Able(online) \in SUBSET Drivers /\ sequential \in BOOLEAN BY DEF Able, IInv, TypeOK
<1>2. RowOK(y) /\ SameAssignment(w, y) BY <1>1, StartDispatchOK
<1>3. w \in RideRow BY DEF RowOK
<1>4. OfferWithin(w, y, Able(online)) BY <1>1, <1>3, NewOfferIsAble
<1>5. w.offer = NoDriver \/ y = w BY DEF StartDispatch
<1>6. OpenBoardFits(y) BY DEF StartDispatch, OpenBoardFits
<1> QED BY <1>2, <1>4, <1>5, <1>6

\* An offer that goes to able drivers reaches nobody who is not approved.
LEMMA AbleIsApproved ==
  ASSUME NEW online \in SUBSET Drivers, NEW d \in Drivers, approval[d] # "approved",
         NEW x, NEW y, OfferWithin(x, y, Able(online)), y.offer = d
  PROVE  x.offer = d
BY NoDriverAssumption DEF OfferWithin, Able

\* The ledger entry of a row that keeps its holder is already right.
LEMMA HolderStays ==
  ASSUME IInv, NEW r \in Rides, NEW y, HolderOf(y) = HolderOf(ride[r])
  PROVE  holder = [holder EXCEPT ![r] = HolderOf(y)]
BY DEF IInv, TypeOK

\* Creating a ride, which may offer it at once, is a sound step.
LEMMA CreateRideOK ==
  ASSUME IInv, NEW r \in Rides, NEW online \in SUBSET Drivers, CreateRide(r, online)
  PROVE  StepOK
<1> DEFINE w == [AbsentRide EXCEPT !.status = "requested"]
<1>1. PICK y \in StartDispatch(w, Able(online), sequential) : ride' = [ride EXCEPT ![r] = y]
  BY DEF CreateRide
<1>2. w.status = "requested" /\ w.driver = NoDriver /\ w.offer = NoDriver /\ OpenLogs(w) = {}
  BY DEF AbsentRide, OpenLogs
<1>3. RowOK(w) /\ OpenBoardFits(w) BY <1>2, AbsentRowOK DEF OpenBoardFits
<1>4. /\ RowOK(y) /\ SameAssignment(w, y) /\ OpenBoardFits(y)
      /\ OfferWithin(w, y, Able(online))
  BY <1>1, <1>3, StartOnBoard
<1>5. y.status = "requested" /\ y.driver = NoDriver BY <1>2, <1>4 DEF SameAssignment
<1>6. ride[r].status = "absent" BY DEF CreateRide
<1>7. RowOK(ride[r]) BY DEF IInv
<1>8. ride[r].driver = NoDriver /\ ride[r].offer = NoDriver
  BY <1>6, <1>7 DEF RowOK, DriverFitsRow, LogFitsOffer
<1>9. holder' = [holder EXCEPT ![r] = HolderOf(y)]
  BY <1>5, <1>6, HolderStays DEF HolderOf, ActiveStatuses, CreateRide
<1>10. ASSUME NEW d \in Drivers, approval[d] # "approved"
       PROVE  (y.driver = d <=> ride[r].driver = d) /\ (y.offer = d => ride[r].offer = d)
  BY <1>2, <1>4, <1>5, <1>8, <1>10, AbleIsApproved
<1>11. ride[r].status \notin TerminalStatuses BY <1>6 DEF TerminalStatuses
<1>12. UNCHANGED <<sequential, approval>> /\ settled' = settled BY DEF CreateRide
<1>13. RowRefines(ride[r], y) BY <1>5, <1>6 DEF RowRefines, PhaseOf, ActiveStatuses
<1> QED BY <1>1, <1>4, <1>5, <1>9, <1>10, <1>11, <1>12, <1>13, OneRowStep

\* Accepting is a sound step: the claimer was free, so no driver gets a second ride.
LEMMA AcceptRideOK ==
  ASSUME IInv, NEW d \in Drivers, NEW r \in Rides, NEW online \in SUBSET Drivers,
         AcceptRide(d, r, online)
  PROVE  StepOK
<1>1. PICK x \in StartDispatch(ride[r], Able(online), sequential) :
         MayClaim(x, d, sequential) /\ ride' = [ride EXCEPT ![r] = Claimed(x, d)]
  BY DEF AcceptRide
<1>2. RowOK(ride[r]) /\ OpenBoardFits(ride[r]) BY DEF IInv
<1>3. /\ RowOK(x) /\ SameAssignment(ride[r], x) /\ OpenBoardFits(x)
      /\ ride[r].offer = NoDriver \/ x = ride[r]
  BY <1>1, <1>2, StartOnBoard
<1>4. InPool(ride[r]) /\ InPool(x) BY <1>3 DEF AcceptRide, InPool, SameAssignment
<1>5. x.offer \in {NoDriver, d} BY <1>1, <1>3 DEF MayClaim, OpenBoardFits
<1>6. ride[r].offer \in {NoDriver, d} BY <1>3, <1>5
<1>7. PICK y : y = Claimed(x, d) OBVIOUS
<1>8. RowOK(y) /\ y.status = "accepted" /\ y.driver = d /\ y.offer = NoDriver
  BY <1>3, <1>4, <1>5, <1>7, ClaimedOK
<1>9. OpenBoardFits(y) BY <1>8 DEF OpenBoardFits, RowOK, LogFitsOffer, ActiveStatuses
<1>10. holder' = [holder EXCEPT ![r] = HolderOf(y)]
  BY <1>8 DEF AcceptRide, HolderOf, ActiveStatuses
<1>11. approval[d] = "approved" /\ ~Busy(d) BY DEF AcceptRide, Able
<1>12. ASSUME NEW e \in Drivers, approval[e] # "approved"
       PROVE  (y.driver = e <=> ride[r].driver = e) /\ (y.offer = e => ride[r].offer = e)
  BY <1>4, <1>8, <1>11, <1>12, NoDriverAssumption DEF InPool
<1>13. ride[r].status \notin TerminalStatuses BY <1>4 DEF InPool, TerminalStatuses
<1>14. UNCHANGED <<sequential, approval>> /\ settled' = settled BY DEF AcceptRide
<1>15. ride' = [ride EXCEPT ![r] = y] BY <1>1, <1>7
<1>16. RowRefines(ride[r], y)
  BY <1>4, <1>8, <1>11 DEF RowRefines, PhaseOf, ServedBy, InPool, ActiveStatuses
<1> QED
  BY <1>4, <1>6, <1>8, <1>9, <1>10, <1>11, <1>12, <1>13, <1>14, <1>15, <1>16, OneRowStep

\* Offers alone: refusing a claim over a new offer.
LEMMA RefuseAcceptOK ==
  ASSUME IInv, NEW d \in Drivers, NEW r \in Rides, NEW online \in SUBSET Drivers,
         RefuseAccept(d, r, online)
  PROVE  StepOK
<1>1. PICK y \in StartDispatch(ride[r], Able(online), sequential) :
         ride' = [ride EXCEPT ![r] = y]
  BY DEF RefuseAccept
<1>2. RowOK(ride[r]) /\ OpenBoardFits(ride[r]) BY DEF IInv
<1>3. /\ RowOK(y) /\ SameAssignment(ride[r], y) /\ OpenBoardFits(y)
      /\ OfferWithin(ride[r], y, Able(online))
  BY <1>1, <1>2, StartOnBoard
<1>4. InPool(ride[r]) /\ InPool(y) BY <1>3 DEF RefuseAccept, InPool, SameAssignment
<1>5. holder' = [holder EXCEPT ![r] = HolderOf(y)]
  BY <1>4, HolderStays DEF InPool, HolderOf, ActiveStatuses, RefuseAccept
<1>6. ASSUME NEW e \in Drivers, approval[e] # "approved"
      PROVE  (y.driver = e <=> ride[r].driver = e) /\ (y.offer = e => ride[r].offer = e)
  BY <1>3, <1>4, <1>6, AbleIsApproved DEF InPool
<1>7. ride[r].status \notin TerminalStatuses /\ y.status # "completed"
  BY <1>4 DEF InPool, TerminalStatuses
<1>8. UNCHANGED <<sequential, approval>> /\ settled' = settled BY DEF RefuseAccept
<1>9. y.driver = ride[r].driver BY <1>4 DEF InPool
<1>10. RowRefines(ride[r], y) BY <1>4 DEF RowRefines, PhaseOf, ServedBy, InPool, ActiveStatuses
<1> QED BY <1>1, <1>3, <1>5, <1>6, <1>7, <1>8, <1>9, <1>10, OneRowStep

\* Giving an accepted ride back to the pool is a sound step.
LEMMA DeclineRideOK ==
  ASSUME IInv, NEW d \in Drivers, NEW r \in Rides, DeclineRide(d, r)
  PROVE  StepOK
<1>1. ride[r].status = "accepted" /\ ride[r].driver = d BY DEF DeclineRide, ReleaseToPool
<1>2. RowOK(ride[r]) BY DEF IInv
<1>3. PICK y : y = Released(ride[r]) OBVIOUS
<1>4. RowOK(y) /\ InPool(y) /\ y.offer = NoDriver /\ OpenLogs(y) = {}
  BY <1>1, <1>2, <1>3, ReleasedOK
<1>5. holder' = [holder EXCEPT ![r] = HolderOf(y)]
  BY <1>4 DEF DeclineRide, HolderOf, InPool, ActiveStatuses
<1>6. approval[d] = "approved" BY DEF DeclineRide, MayAct
<1>7. ASSUME NEW e \in Drivers, approval[e] # "approved"
      PROVE  (y.driver = e <=> ride[r].driver = e) /\ (y.offer = e => ride[r].offer = e)
  BY <1>1, <1>4, <1>6, <1>7, NoDriverAssumption DEF InPool
<1>8. ride[r].status \notin TerminalStatuses /\ y.status # "completed" /\ y.driver = NoDriver
  BY <1>1, <1>4 DEF TerminalStatuses, InPool
<1>9. UNCHANGED <<sequential, approval>> /\ settled' = settled BY DEF DeclineRide
<1>10. ride' = [ride EXCEPT ![r] = y] BY <1>3 DEF DeclineRide
<1>11. OpenBoardFits(y) BY <1>4 DEF OpenBoardFits
<1>12. RowRefines(ride[r], y) BY <1>1, <1>4 DEF RowRefines, PhaseOf, InPool, ActiveStatuses
<1> QED BY <1>4, <1>5, <1>7, <1>8, <1>9, <1>10, <1>11, <1>12, OneRowStep

\* A dispatch step that gives up on some rides and claims none is an abstract Drop.
LEMMA MovedOnRefines ==
  ASSUME NEW x, NEW y, MovedOn(x, y)
  PROVE  /\ RowRefines(x, y)
         /\ ServedBy(y) = ServedBy(x)
         /\ \/ PhaseOf(y) = PhaseOf(x)
            \/ PhaseOf(x) = "open" /\ PhaseOf(y) = "dropped"
<1>1. CASE SameAssignment(x, y)
  BY <1>1 DEF SameAssignment, RowRefines, PhaseOf, ServedBy, ActiveStatuses
<1>2. CASE x.status = "requested" /\ y.status = "cancelled"
  BY <1>2 DEF RowRefines, PhaseOf, ServedBy, ActiveStatuses
<1> QED BY <1>1, <1>2 DEF MovedOn

\* Only a deployment with sequential dispatch has offers to decline.
LEMMA DeclineDispatchOK ==
  ASSUME IInv, NEW d \in Drivers, NEW r \in Rides, NEW online \in SUBSET Drivers,
         DeclineDispatch(d, r, online)
  PROVE  StepOK
<1>1. PICK y \in DispatchDeclined(ride[r], d, Able(online)) : ride' = [ride EXCEPT ![r] = y]
  BY DEF DeclineDispatch
<1>2. RowOK(ride[r]) /\ OpenBoardFits(ride[r]) BY DEF IInv
<1>3. ride[r].offer = d \/ "sent" \in ride[r].log[d] BY DEF DeclineDispatch
<1>4. Able(online) \in SUBSET Drivers /\ sequential \in BOOLEAN BY DEF Able, IInv, TypeOK
<1>5. RowOK(y) /\ MovedOn(ride[r], y) /\ (InPool(ride[r]) \/ SameOutcome(ride[r], y))
  BY <1>1, <1>2, <1>3, <1>4, FailedAttemptOK DEF DispatchDeclined
<1>6. OfferWithin(ride[r], y, Able(online))
  BY <1>1, <1>2, <1>4, NewOfferAfterAnswerIsAble DEF DispatchDeclined
<1>7. OpenBoardFits(y)
  BY <1>2, <1>3, <1>4, NoDriverAssumption DEF OpenBoardFits, OpenLogs
<1>8. y.driver = ride[r].driver BY <1>5 DEF MovedOn, SameAssignment
<1>9. holder' = [holder EXCEPT ![r] = HolderOf(y)]
  <2>1. HolderOf(y) = HolderOf(ride[r])
    BY <1>5 DEF MovedOn, SameAssignment, HolderOf, ActiveStatuses
  <2> QED BY <2>1, HolderStays DEF DeclineDispatch
<1>10. settled' = IF y.status = "completed" THEN settled \union {r} ELSE settled
  BY <1>5 DEF MovedOn, SameAssignment, IInv, SettledIffCompleted, DeclineDispatch
<1>11. ASSUME NEW e \in Drivers, approval[e] # "approved"
       PROVE  (y.driver = e <=> ride[r].driver = e) /\ (y.offer = e => ride[r].offer = e)
  BY <1>6, <1>8, <1>11, AbleIsApproved
<1>12. ride[r].status \in TerminalStatuses => SameOutcome(ride[r], y)
  BY <1>5 DEF InPool, TerminalStatuses
<1>13. UNCHANGED <<sequential, approval>> BY DEF DeclineDispatch
<1>14. RowRefines(ride[r], y) BY <1>5, MovedOnRefines
<1> QED BY <1>1, <1>5, <1>7, <1>8, <1>9, <1>10, <1>11, <1>12, <1>13, <1>14, OneRowStep

\* What the transition table allows a driver, action by action.
LEMMA NextRideStatusIsALeg ==
  ASSUME NEW s, NEW to
  PROVE  /\ to \in NextRideStatus(s, "arrive", "driver") => <<s, to, "arrived">> \in Legs
         /\ to \in NextRideStatus(s, "start", "driver") => <<s, to, "started">> \in Legs
         /\ to \in NextRideStatus(s, "complete", "driver") =>
              <<s, to, "completed">> \in Legs /\ to = "completed"
         /\ to \in NextRideStatus(s, "cancel", "customer") =>
              s \in {"requested"} \union ActiveStatuses /\ to = "cancelled"
BY DEF NextRideStatus, Transitions, Legs, ActiveStatuses, RideStatus

\* A driver's own leg leaves the holder alone.
LEMMA LegOK ==
  ASSUME IInv, NEW d \in Drivers, NEW r \in Rides, ride[r].driver = d,
         NEW to, NEW stamp, <<ride[r].status, to, stamp>> \in Legs,
         ride' = [ride EXCEPT ![r] = Advanced(ride[r], to, stamp)],
         UNCHANGED <<sequential, approval, holder>>,
         settled' = IF to = "completed" THEN settled \union {r} ELSE settled
  PROVE  StepOK
<1>1. RowOK(ride[r]) /\ OpenBoardFits(ride[r]) BY DEF IInv
<1>2. PICK y : y = Advanced(ride[r], to, stamp) OBVIOUS
<1>3. /\ RowOK(y) /\ y.status = to /\ y.driver = ride[r].driver
      /\ y.offer = ride[r].offer /\ OpenLogs(y) = OpenLogs(ride[r])
  BY <1>1, <1>2, AdvancedOK
<1>4. OpenBoardFits(y) BY <1>1, <1>3 DEF OpenBoardFits
<1>5. HolderOf(y) = HolderOf(ride[r]) BY <1>3 DEF HolderOf, Legs, ActiveStatuses
<1>6. holder' = [holder EXCEPT ![r] = HolderOf(y)] BY <1>5, HolderStays
<1>7. ride[r].status \notin TerminalStatuses BY DEF Legs, TerminalStatuses
<1>8. ride' = [ride EXCEPT ![r] = y] BY <1>2
<1>9. settled' = IF y.status = "completed" THEN settled \union {r} ELSE settled BY <1>3
<1>10. RowRefines(ride[r], y)
  BY <1>3 DEF Legs, RowRefines, PhaseOf, ServedBy, ActiveStatuses
<1> QED BY <1>3, <1>4, <1>6, <1>7, <1>8, <1>9, <1>10, OneRowStep

\* Arriving at the pickup is a sound step.
LEMMA ArrivePickupOK ==
  ASSUME IInv, NEW d \in Drivers, NEW r \in Rides, ArrivePickup(d, r)
  PROVE  StepOK
<1>1. PICK to \in NextRideStatus(ride[r].status, "arrive", "driver") :
         ride' = [ride EXCEPT ![r] = Advanced(ride[r], to, "arrived")]
  BY DEF ArrivePickup
<1>2. <<ride[r].status, to, "arrived">> \in Legs BY <1>1, NextRideStatusIsALeg
<1>3. to # "completed" BY <1>2 DEF Legs
<1>4. /\ ride[r].driver = d /\ UNCHANGED <<sequential, approval, holder>>
      /\ settled' = IF to = "completed" THEN settled \union {r} ELSE settled
  BY <1>3 DEF ArrivePickup
<1> QED BY <1>1, <1>2, <1>4, LegOK

\* Starting the ride is a sound step.
LEMMA StartRideOK ==
  ASSUME IInv, NEW d \in Drivers, NEW r \in Rides, StartRide(d, r)
  PROVE  StepOK
<1>1. PICK to \in NextRideStatus(ride[r].status, "start", "driver") :
         ride' = [ride EXCEPT ![r] = Advanced(ride[r], to, "started")]
  BY DEF StartRide
<1>2. <<ride[r].status, to, "started">> \in Legs BY <1>1, NextRideStatusIsALeg
<1>3. to # "completed" BY <1>2 DEF Legs
<1>4. /\ ride[r].driver = d /\ UNCHANGED <<sequential, approval, holder>>
      /\ settled' = IF to = "completed" THEN settled \union {r} ELSE settled
  BY <1>3 DEF StartRide
<1> QED BY <1>1, <1>2, <1>4, LegOK

\* Completing is a sound step: the ride is settled in the same transaction.
LEMMA CompleteRideOK ==
  ASSUME IInv, NEW d \in Drivers, NEW r \in Rides, CompleteRide(d, r)
  PROVE  StepOK
<1>1. PICK to \in NextRideStatus(ride[r].status, "complete", "driver") :
         ride' = [ride EXCEPT ![r] = Advanced(ride[r], to, "completed")]
  BY DEF CompleteRide
<1>2. <<ride[r].status, to, "completed">> \in Legs /\ to = "completed"
  BY <1>1, NextRideStatusIsALeg
<1>3. /\ ride[r].driver = d /\ UNCHANGED <<sequential, approval, holder>>
      /\ settled' = IF to = "completed" THEN settled \union {r} ELSE settled
  BY <1>2 DEF CompleteRide
<1> QED BY <1>1, <1>2, <1>3, LegOK

\* A cancelled ride keeps its driver, but the ledger has released it.
LEMMA CancelRideOK ==
  ASSUME IInv, NEW r \in Rides, CancelRide(r)
  PROVE  StepOK
<1>1. PICK to \in NextRideStatus(ride[r].status, "cancel", "customer") :
         ride' = [ride EXCEPT ![r] = [Advanced(ride[r], to, "cancelled") EXCEPT !.reason = "other"]]
  BY DEF CancelRide
<1>2. ride[r].status \in {"requested"} \union ActiveStatuses /\ to = "cancelled"
  BY <1>1, NextRideStatusIsALeg
<1>3. RowOK(ride[r]) /\ OpenBoardFits(ride[r]) BY DEF IInv
<1>4. PICK y : y = [Advanced(ride[r], "cancelled", "cancelled") EXCEPT !.reason = "other"]
  OBVIOUS
<1>5. /\ RowOK(y) /\ y.status = "cancelled" /\ y.driver = ride[r].driver
      /\ y.offer = ride[r].offer /\ OpenLogs(y) = OpenLogs(ride[r])
  BY <1>2, <1>3, <1>4, CancelledOK
<1>6. OpenBoardFits(y) BY <1>3, <1>5 DEF OpenBoardFits
<1>7. HolderOf(y) = NoDriver BY <1>5 DEF HolderOf, ActiveStatuses
<1>8. HolderAfterCancel(r) = NoDriver
  BY <1>2 DEF HolderAfterCancel, IInv, HolderOf
<1>9. holder' = [holder EXCEPT ![r] = HolderOf(y)] BY <1>7, <1>8 DEF CancelRide
<1>10. ride[r].status \notin TerminalStatuses BY <1>2 DEF TerminalStatuses, ActiveStatuses
<1>11. UNCHANGED <<sequential, approval>> /\ settled' = settled BY DEF CancelRide
<1>12. ride' = [ride EXCEPT ![r] = y] BY <1>1, <1>2, <1>4
<1>13. RowRefines(ride[r], y) BY <1>2, <1>5 DEF RowRefines, PhaseOf, ActiveStatuses
<1> QED BY <1>5, <1>6, <1>9, <1>10, <1>11, <1>12, <1>13, OneRowStep

\* A poll moves every ride's offer on, and nobody's ride.
LEMMA PollAvailableRidesOK ==
  ASSUME IInv, NEW p \in Drivers, NEW online \in SUBSET Drivers, NEW due \in SUBSET Rides,
         PollAvailableRides(p, online, due)
  PROVE  /\ StepOK
         /\ \A r \in Rides : MovedOn(ride[r], ride'[r])
<1> DEFINE after(r) == Refreshed(ride[r], r \in due, Able(online), sequential)
<1>1. /\ DOMAIN ride' = Rides /\ ride' = [r \in Rides |-> ride'[r]]
      /\ \A r \in Rides : ride'[r] \in after(r)
  BY DEF PollAvailableRides
<1>2. Able(online) \in SUBSET Drivers /\ sequential \in BOOLEAN BY DEF Able, IInv, TypeOK
<1>3. UNCHANGED <<sequential, approval, holder, settled>> BY DEF PollAvailableRides
<1>4. ASSUME NEW r \in Rides
      PROVE  /\ RowOK(ride'[r]) /\ MovedOn(ride[r], ride'[r])
             /\ InPool(ride[r]) \/ ride'[r] = ride[r]
             /\ OfferWithin(ride[r], ride'[r], Able(online))
             /\ (OpenBoardFits(ride[r]))'
  <2>1. PICK z : z = ride'[r] OBVIOUS
  <2>2. RowOK(ride[r]) /\ OpenBoardFits(ride[r]) BY DEF IInv
  <2>3. (r \in due) \in BOOLEAN OBVIOUS
  <2>4. z \in Refreshed(ride[r], r \in due, Able(online), sequential) BY <1>1, <2>1
  <2>5. RowOK(z) /\ MovedOn(ride[r], z) /\ (InPool(ride[r]) \/ z = ride[r])
    BY <1>2, <2>2, <2>3, <2>4, RefreshedOK
  <2>6. OfferWithin(ride[r], z, Able(online))
    BY <1>2, <2>2, <2>3, <2>4, NewOfferByPollIsAble
  <2>7. ~sequential => z = ride[r]
    BY <2>2, <2>4 DEF Refreshed, TimedOut, StartDispatch, OpenBoardFits
  <2>8. (OpenBoardFits(ride[r]))' BY <1>3, <2>1, <2>2, <2>7 DEF OpenBoardFits
  <2> QED BY <2>1, <2>5, <2>6, <2>8
<1>5. TypeOK'
  <2>1. \A r \in Rides : ride'[r] \in RideRow BY <1>4 DEF RowOK
  <2>2. ride' \in [Rides -> RideRow] BY <1>1, <2>1
  <2> QED BY <1>3, <2>2 DEF TypeOK, IInv
<1>6. \A r \in Rides : holder'[r] = HolderOf(ride'[r])
  BY <1>3, <1>4 DEF IInv, MovedOn, SameAssignment, HolderOf, ActiveStatuses
<1>7. SettledIffCompleted'
  BY <1>3, <1>4 DEF IInv, SettledIffCompleted, MovedOn, SameAssignment
<1>8. TerminalKept BY <1>4 DEF TerminalKept, InPool, TerminalStatuses
<1>9. \A r \in Rides : ride'[r].driver = ride[r].driver
  BY <1>4 DEF MovedOn, SameAssignment
<1>10. NoNewWorkUnapproved
  <2> SUFFICES ASSUME NEW r \in Rides, NEW d \in Drivers, approval[d] # "approved",
                      ride'[r].offer = d
               PROVE  ride[r].offer = d
    BY <1>9 DEF NoNewWorkUnapproved
  <2>1. PICK z : z = ride'[r] OBVIOUS
  <2>2. OfferWithin(ride[r], z, Able(online)) /\ z.offer = d BY <1>4, <2>1
  <2> QED BY <2>2, AbleIsApproved
<1>11. OfferRespected /\ ClaimIsFree BY <1>9 DEF OfferRespected, ClaimIsFree
<1>12. [Assignment!Next]_(Assignment!assignmentVars)
  <2> DEFINE phase == [r \in Rides |-> PhaseOf(ride[r])]
             served == [r \in Rides |-> ServedBy(ride[r])]
             gone == {r \in Rides : PhaseOf(ride[r]) = "open" /\ PhaseOf(ride'[r]) = "dropped"}
  <2>1. ASSUME NEW r \in Rides
        PROVE  /\ ServedBy(ride'[r]) = ServedBy(ride[r])
               /\ PhaseOf(ride'[r]) = PhaseOf(ride[r]) \/ r \in gone
    BY <1>4, MovedOnRefines
  <2>2. served' = served BY <2>1
  <2>3. phase' = [r \in Rides |-> IF r \in gone THEN "dropped" ELSE phase[r]] BY <2>1
  <2>4. gone \in SUBSET Rides /\ \A r \in gone : phase[r] = "open" OBVIOUS
  <2> HIDE DEF gone
  <2>5. Assignment!Drop(gone) BY <2>2, <2>3, <2>4 DEF Assignment!Drop
  <2> QED BY <2>4, <2>5 DEF Assignment!Next
<1> QED BY <1>3, <1>4, <1>5, <1>6, <1>7, <1>8, <1>10, <1>11, <1>12 DEF StepOK

\* Reviewing a driver changes no ride.
LEMMA ReviewDriverOK ==
  ASSUME IInv, NEW d \in Drivers, NEW s \in ApprovalStatuses, ReviewDriver(d, s)
  PROVE  StepOK
BY DEF ReviewDriver, IInv, StepOK, TypeOK, OpenBoardFits, SettledIffCompleted, TerminalKept,
       OfferRespected, NoNewWorkUnapproved, ClaimIsFree, Assignment!assignmentVars

\* A step that changes nothing is sound.
LEMMA StutterOK == IInv /\ UNCHANGED vars => StepOK
BY DEF vars, IInv, StepOK, TypeOK, OpenBoardFits, SettledIffCompleted, TerminalKept,
       OfferRespected, NoNewWorkUnapproved, ClaimIsFree, Assignment!assignmentVars

-----------------------------------------------------------------------------
(* The theorems *)

\* The invariant holds of an empty board.
LEMMA InitIInv == Init => IInv
<1> SUFFICES ASSUME Init PROVE IInv OBVIOUS
<1>1. AbsentRide \in RideRow BY AbsentRowOK DEF RowOK
<1>2. /\ AbsentRide.status = "absent" /\ AbsentRide.offer = NoDriver
      /\ OpenLogs(AbsentRide) = {}
  BY DEF AbsentRide, OpenLogs
<1> QED
  BY <1>1, <1>2, AbsentRowOK
  DEF Init, IInv, TypeOK, ApprovalStatuses, OpenBoardFits, OneActiveRidePerDriver,
      DrivesRide, HolderOf, ActiveStatuses, SettledIffCompleted

\* Every step of the board is sound.
LEMMA NextStepOK == IInv /\ [Next]_vars => StepOK
<1> SUFFICES ASSUME IInv, [Next]_vars PROVE StepOK OBVIOUS
<1>1. CASE UNCHANGED vars BY <1>1, StutterOK
<1>2. ASSUME NEW online \in SUBSET Drivers, DispatchStep(online) PROVE StepOK
  BY <1>2, CreateRideOK, AcceptRideOK, RefuseAcceptOK, DeclineDispatchOK, PollAvailableRidesOK
  DEF DispatchStep
<1>3. CASE RideStep
  BY <1>3, DeclineRideOK, ArrivePickupOK, StartRideOK, CompleteRideOK, CancelRideOK DEF RideStep
<1>4. ASSUME NEW d \in Drivers, NEW s \in ApprovalStatuses, ReviewDriver(d, s) PROVE StepOK
  BY <1>4, ReviewDriverOK
<1> QED BY <1>1, <1>2, <1>3, <1>4 DEF Next

\* The inductive invariant of the board, on which every theorem below rests: types, what
\* each row and its ledger must satisfy, one active ride per driver, and settlement.
THEOREM InductiveInvariant == Spec => []IInv
<1>1. IInv /\ [Next]_vars => IInv' BY NextStepOK, StepKeepsIInv
<1> QED BY <1>1, InitIInv, PTL DEF Spec

\* Every column keeps to its values, the status to ck_rides_status_known.
THEOREM TypeCorrect == Spec => []TypeOK
<1>1. IInv => TypeOK BY DEF IInv
<1> QED BY <1>1, InductiveInvariant, PTL

\* No driver ever has two active rides.
THEOREM OneRideEach == Spec => []OneActiveRidePerDriver
<1>1. IInv => OneActiveRidePerDriver BY DEF IInv
<1> QED BY <1>1, InductiveInvariant, PTL

\* The claim ledger and the ride rows name the same holders.
THEOREM LedgerCorrect == Spec => []LedgerAgrees
<1>1. IInv => LedgerAgrees BY DEF IInv, LedgerAgrees, HolderOf, RowOK
<1> QED BY <1>1, InductiveInvariant, PTL

\* The open dispatch log of a ride in the pool is that of its current offer.
THEOREM LogsFollowOffers == Spec => []OpenLogIsTheOffer
<1>1. IInv => OpenLogIsTheOffer BY DEF IInv, OpenLogIsTheOffer, RowOK
<1> QED BY <1>1, InductiveInvariant, PTL

\* A driver who declined or ignored an offer is never asked again.
THEOREM OfferedOnce == Spec => []NoSecondOffer
<1>1. IInv => NoSecondOffer BY DEF IInv, NoSecondOffer, RowOK
<1> QED BY <1>1, InductiveInvariant, PTL

\* The stamps on a row are those of its current leg.
THEOREM StampsCorrect == Spec => []StampsFitStatus
<1>1. IInv => StampsFitStatus BY DEF IInv, StampsFitStatus, RowOK
<1> QED BY <1>1, InductiveInvariant, PTL

\* The dispatcher gives up only an unclaimed ride, after MAX_DISPATCH_ATTEMPTS offers.
THEOREM GivesUpLate == Spec => []ExhaustionIsEarned
<1>1. IInv => ExhaustionIsEarned BY DEF IInv, ExhaustionIsEarned, RowOK
<1> QED BY <1>1, InductiveInvariant, PTL

\* Pricing is locked and settled exactly for the completed rides.
THEOREM SettlementCorrect == Spec => []SettledIffCompleted
<1>1. IInv => SettledIffCompleted BY DEF IInv
<1> QED BY <1>1, InductiveInvariant, PTL

\* Steps that respect the rules for ended rides, offers and suspensions.
LEMMA StepsAreOK == Spec => [][StepOK]_vars
<1>1. IInv /\ [Next]_vars => [StepOK]_vars BY NextStepOK
<1> QED BY <1>1, InductiveInvariant, PTL DEF Spec

\* A completed or cancelled ride stays as it ended.
THEOREM TerminalStays == Spec => TerminalIsFinal
<1>1. [StepOK]_vars => [TerminalKept]_vars BY DEF StepOK
<1> QED BY <1>1, StepsAreOK, PTL DEF TerminalIsFinal

\* No claim over another driver's offer, and no theft from a driver.
THEOREM OffersBind == Spec => ClaimRespectsOffer
<1>1. [StepOK]_vars => [OfferRespected]_vars BY DEF StepOK
<1> QED BY <1>1, StepsAreOK, PTL DEF ClaimRespectsOffer

\* A driver who is not approved gains, gives back and is offered nothing.
THEOREM SuspensionBinds == Spec => SuspensionStopsNewWork
<1>1. [StepOK]_vars => [NoNewWorkUnapproved]_vars BY DEF StepOK
<1> QED BY <1>1, StepsAreOK, PTL DEF SuspensionStopsNewWork

\* The board implements the abstract assignment of rides to drivers.
THEOREM BoardImplementsAssignment == Spec => ImplementsAssignment
<1>1. Init => Assignment!Init
  BY DEF Init, Assignment!Init, PhaseOf, ServedBy, AbsentRide, ActiveStatuses
<1>2. [StepOK]_vars => [Assignment!Next]_(Assignment!assignmentVars)
  BY DEF StepOK, vars, Assignment!assignmentVars
<1> QED BY <1>1, <1>2, StepsAreOK, PTL DEF Spec, ImplementsAssignment, Assignment!Spec
=============================================================================
