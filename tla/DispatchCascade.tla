--------------------------- MODULE DispatchCascade ---------------------------
(***************************************************************************)
(* Sequential dispatch, backend/services/ride_dispatch_cascade.py, and the *)
(* claim of backend/services/dispatch.py, as functions of one ride row.    *)
(* A step that may end in several rows (the nearest driver depends on      *)
(* positions that are not modelled) is the set of those rows.              *)
(*                                                                         *)
(* A ride row has the columns the protocol reads: its status, driver_id,   *)
(* the current offer (dispatch_driver_id), dispatch_attempt_count, which   *)
(* *_at stamps are set, whether lifecycle_reason is the dispatcher's own   *)
(* "no_drivers_available", and, per driver, the results found in the       *)
(* ride_dispatch_logs rows of the pair (ride, driver).                     *)
(***************************************************************************)
EXTENDS RideLifecycle, Naturals

CONSTANTS
  Drivers,      \* the users with the driver role
  NoDriver,     \* NULL in driver_id and dispatch_driver_id
  MaxAttempts   \* MAX_DISPATCH_ATTEMPTS

ASSUME NoDriverAssumption == NoDriver \notin Drivers
ASSUME MaxAttemptsAssumption == MaxAttempts \in Nat

Results == {"sent", "accepted", "declined", "timeout"}
Stamps == {"accepted", "arrived", "started", "completed", "cancelled"}

RideRow ==
  [status   : RideStatus \union {"absent"},
   driver   : Drivers \union {NoDriver},
   offer    : Drivers \union {NoDriver},
   attempts : Nat,
   log      : [Drivers -> SUBSET Results],
   stamps   : SUBSET Stamps,
   reason   : {"other", "no_drivers_available"}]

AbsentRide ==
  [status |-> "absent", driver |-> NoDriver, offer |-> NoDriver, attempts |-> 0,
   log |-> [d \in Drivers |-> {}], stamps |-> {}, reason |-> "other"]

\* Mutant: a ride nobody drives counts as open, whatever its status.
Unassigned(x) == x.status # "absent" /\ x.driver = NoDriver

InPool(x) == x.status = "requested" /\ x.driver = NoDriver

-----------------------------------------------------------------------------
(* Offers *)

\* Mutant: a driver who let the offer lapse may be asked again.
AskedUnlessTimedOut(x) == {d \in Drivers : x.log[d] \intersect {"sent", "declined"} # {}}

\* eligible_dispatch_driver_ids: drivers with one of these logs are skipped.
Asked(x) == {d \in Drivers : x.log[d] \intersect {"sent", "declined", "timeout"} # {}}

\* The row's logs once those of driver d show these results.
LogsWith(x, d, results) == [x.log EXCEPT ![d] = results]

\* _offer_to_driver.
Offered(x, d) ==
  [x EXCEPT !.offer = d, !.attempts = @ + 1,
            !.log = LogsWith(x, d, x.log[d] \union {"sent"})]

\* The offer goes to the nearest driver who is able and was not asked before.
OfferToNext(x, able) ==
  IF able \subseteq Asked(x) THEN {x} ELSE {Offered(x, d) : d \in able \ Asked(x)}

\* start_dispatch_for_ride.
StartDispatch(x, able, sequential) ==
  IF sequential /\ InPool(x) /\ x.offer = NoDriver THEN OfferToNext(x, able) ELSE {x}

\* Mutant: the answered offer's log row is left open.
AnsweredNothing(x, d, result) == x

\* _close_pending_log.
Answered(x, d, result) ==
  IF "sent" \in x.log[d]
  THEN [x EXCEPT !.log = LogsWith(x, d, (x.log[d] \ {"sent"}) \union {result})]
  ELSE x

\* _finalize_no_drivers.
FinalizeNoDrivers(x) ==
  [x EXCEPT !.status = "cancelled", !.offer = NoDriver,
            !.stamps = @ \union {"cancelled"}, !.reason = "no_drivers_available"]

\* Mutant: the ride is given up as soon as nobody is left to ask.
GiveUpWhenNobodyIsLeft(x, able) ==
  IF ~InPool(x) THEN {x}
  ELSE IF able \subseteq Asked(x) THEN {FinalizeNoDrivers(x)}
  ELSE OfferToNext([x EXCEPT !.offer = NoDriver], able)

(***************************************************************************)
(* advance_after_failed_attempt.  The attempt count is read again after    *)
(* the search, but it has not changed, so the second test never fires.     *)
(***************************************************************************)
AdvanceAfterFailedAttempt(x, able) ==
  IF ~InPool(x) THEN {x}
  ELSE IF x.attempts >= MaxAttempts THEN {FinalizeNoDrivers(x)}
  ELSE OfferToNext([x EXCEPT !.offer = NoDriver], able)

\* record_dispatch_declined.
DispatchDeclined(x, d, able) == AdvanceAfterFailedAttempt(Answered(x, d, "declined"), able)

\* process_dispatch_timeouts, for one ride: `due` says its deadline has passed.
TimedOut(x, due, able) ==
  IF due /\ InPool(x) /\ x.offer # NoDriver
  THEN AdvanceAfterFailedAttempt(Answered(x, x.offer, "timeout"), able)
  ELSE {x}

\* Mutant: the poll starts missing offers and expires none.
RefreshedWithoutTimeouts(x, due, able, sequential) == StartDispatch(x, able, sequential)

\* refresh_open_dispatch_offers, for one ride: expire its offer, then start one.
Refreshed(x, due, able, sequential) ==
  UNION {StartDispatch(y, able, sequential) : y \in TimedOut(x, due, able)}

-----------------------------------------------------------------------------
(* Claim and release *)

\* Mutant: the handler stops looking at whom the ride was offered to.
MayClaimAnything(x, d, sequential) == TRUE

\* _accept_ride_impl: somebody else's offer refuses the claim.
MayClaim(x, d, sequential) == sequential => x.offer \in {NoDriver, d}

\* claim_ride's UPDATE and record_dispatch_accepted.
Claimed(x, d) ==
  [Answered(x, d, "accepted") EXCEPT
     !.status = "accepted", !.driver = d, !.offer = NoDriver, !.stamps = @ \union {"accepted"}]

\* Mutant: the release leaves the stamps of the abandoned leg on the row.
ReleasedKeepingStamps(x) ==
  [x EXCEPT !.status = "requested", !.driver = NoDriver, !.reason = "other"]

\* _decline_ride_impl: back to the pool, with the leg's stamps cleared.
Released(x) ==
  [x EXCEPT !.status = "requested", !.driver = NoDriver, !.reason = "other",
            !.stamps = @ \ {"accepted", "arrived", "started"}]

\* A status change with its stamp: arrive, start, complete, cancel.
Advanced(x, status, stamp) ==
  [x EXCEPT !.status = status, !.stamps = @ \union {stamp}]
=============================================================================
