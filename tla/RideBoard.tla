------------------------------ MODULE RideBoard ------------------------------
(***************************************************************************)
(* The ride board with every request run as one transaction: the handlers  *)
(* of routes/drivers.py, routes/rider_rides.py and                         *)
(* routes/admin_driver_approval.py that write ride rows, dispatch logs,    *)
(* claim ledger entries and approvals.  RideSessions splits the same       *)
(* handlers at their reads and commits.                                    *)
(*                                                                         *)
(* Two inputs of a request are chosen freely with it.  `online` is the set *)
(* of drivers whose presence is available, fresh and not profile-busy at   *)
(* that moment: presence changes on its own between any two requests.      *)
(* `due` is the set of rides whose dispatch_expires_at has passed; an      *)
(* offer that a poll does not find due was still running.                  *)
(***************************************************************************)
EXTENDS DispatchCascade

CONSTANTS
  Rides,
  ReleaseBound   \* bounds the model: no release once a ride had this many offers

VARIABLES
  sequential,  \* HALFAPP_OPEN_BOARD_DISPATCH is unset in this deployment
  approval,    \* driver -> driver_approvals.status
  ride,        \* ride -> its row
  holder,      \* ride -> the driver named by its last claim ledger entry if that
               \* is claim_won, NoDriver if it is claim_released or there is none
  settled      \* rides with locked pricing and settlement entries

vars == <<sequential, approval, ride, holder, settled>>

ApprovalStatuses == {"pending", "approved", "rejected", "suspended"}

Init ==
  /\ sequential \in BOOLEAN
  /\ approval = [d \in Drivers |-> "pending"]
  /\ ride = [r \in Rides |-> AbsentRide]
  /\ holder = [r \in Rides |-> NoDriver]
  /\ settled = {}

-----------------------------------------------------------------------------
(* Eligibility *)

\* driver_active_ride_id / driver_has_active_ride.
DrivesRide(d, r) == ride[r].driver = d /\ ride[r].status \in ActiveStatuses

\* Mutant: a driver on the way to the pickup does not count as busy.
BusyOnTheRoad(d) == \E r \in Rides : ride[r].driver = d /\ ride[r].status = "in_progress"

Busy(d) == \E r \in Rides : DrivesRide(d, r)

\* Mutant: the approval is not looked at.
AbleUnreviewed(online) == {d \in online : ~Busy(d)}

\* Whom eligible_dispatch_driver_ids may offer a ride to, before its logs are read.
Able(online) == {d \in online : approval[d] = "approved" /\ ~Busy(d)}

\* assert_driver_can_perform_ride_action, for a driver acting on a ride of their own.
MayAct(d, action) ==
  \/ approval[d] = "approved"
  \/ approval[d] = "suspended" /\ action \notin {"accept", "decline", "hide"}

-----------------------------------------------------------------------------
(* Handlers *)

\* create_ride: insert the row, then start_dispatch_for_ride.
CreateRide(r, online) ==
  /\ ride[r].status = "absent"
  /\ \E x \in StartDispatch([AbsentRide EXCEPT !.status = "requested"],
                            Able(online), sequential) :
        ride' = [ride EXCEPT ![r] = x]
  /\ UNCHANGED <<sequential, approval, holder, settled>>

(***************************************************************************)
(* accept_ride.  A ride without an offer first gets one, so the driver may *)
(* find the ride offered to somebody nearer.  That refusal rolls back,     *)
(* unless the request carries an Idempotency-Key: then the wrapper commits *)
(* the new offer together with the abandoned key (RefuseAccept).  The      *)
(* other refusals leave these variables alone.                             *)
(***************************************************************************)
AcceptRide(d, r, online) ==
  /\ d \in Able(online)
  /\ InPool(ride[r])
  /\ \E x \in StartDispatch(ride[r], Able(online), sequential) :
        /\ MayClaim(x, d, sequential)
        /\ ride' = [ride EXCEPT ![r] = Claimed(x, d)]
  /\ holder' = [holder EXCEPT ![r] = d]
  /\ UNCHANGED <<sequential, approval, settled>>

RefuseAccept(d, r, online) ==
  /\ d \in Able(online)
  /\ InPool(ride[r])
  /\ \E x \in StartDispatch(ride[r], Able(online), sequential) :
        /\ ~MayClaim(x, d, sequential)
        /\ ride' = [ride EXCEPT ![r] = x]
  /\ UNCHANGED <<sequential, approval, holder, settled>>

\* decline_ride: the driver gives an accepted ride back.
DeclineRide(d, r) ==
  /\ ReleaseToPool(ride[r].status, "driver") # {}
  /\ ride[r].driver = d
  /\ MayAct(d, "decline")
  /\ ride[r].attempts < ReleaseBound
  /\ ride' = [ride EXCEPT ![r] = Released(ride[r])]
  /\ holder' = [holder EXCEPT ![r] = NoDriver]
  /\ UNCHANGED <<sequential, approval, settled>>

\* decline_dispatch_offer: neither the ride's status nor the approval is looked at.
DeclineDispatch(d, r, online) ==
  /\ ride[r].offer = d \/ "sent" \in ride[r].log[d]
  /\ \E x \in DispatchDeclined(ride[r], d, Able(online)) : ride' = [ride EXCEPT ![r] = x]
  /\ UNCHANGED <<sequential, approval, holder, settled>>

ArrivePickup(d, r) ==
  /\ MayAct(d, "arrive")
  /\ ride[r].driver = d
  /\ \E to \in NextRideStatus(ride[r].status, "arrive", "driver") :
        ride' = [ride EXCEPT ![r] = Advanced(ride[r], to, "arrived")]
  /\ UNCHANGED <<sequential, approval, holder, settled>>

StartRide(d, r) ==
  /\ MayAct(d, "start")
  /\ ride[r].driver = d
  /\ \E to \in NextRideStatus(ride[r].status, "start", "driver") :
        ride' = [ride EXCEPT ![r] = Advanced(ride[r], to, "started")]
  /\ UNCHANGED <<sequential, approval, holder, settled>>

\* complete_ride: the status, the pricing lock and the settlement entries.
CompleteRide(d, r) ==
  /\ MayAct(d, "complete")
  /\ ride[r].driver = d
  /\ r \notin settled
  /\ \E to \in NextRideStatus(ride[r].status, "complete", "driver") :
        ride' = [ride EXCEPT ![r] = Advanced(ride[r], to, "completed")]
  /\ settled' = settled \union {r}
  /\ UNCHANGED <<sequential, approval, holder>>

\* Mutant: the cancellation writes no claim_released entry.
HolderKept(r) == holder[r]

\* cancel_ride ledgers a release if the ride has a driver, and keeps driver_id.
HolderAfterCancel(r) == IF ride[r].driver # NoDriver THEN NoDriver ELSE holder[r]

CancelRide(r) ==
  /\ \E to \in NextRideStatus(ride[r].status, "cancel", "customer") :
        ride' = [ride EXCEPT ![r] = [Advanced(ride[r], to, "cancelled") EXCEPT !.reason = "other"]]
  /\ holder' = [holder EXCEPT ![r] = HolderAfterCancel(r)]
  /\ UNCHANGED <<sequential, approval, settled>>

(***************************************************************************)
(* GET /drivers/available-rides, polled by driver p: if p is eligible, the *)
(* offers of every ride are refreshed before the list is built.            *)
(***************************************************************************)
PollAvailableRides(p, online, due) ==
  /\ p \in Able(online)
  /\ LET after(r) == Refreshed(ride[r], r \in due, Able(online), sequential)
     IN  ride' \in {f \in [Rides -> UNION {after(r) : r \in Rides}] :
                      \A r \in Rides : f[r] \in after(r)}
  /\ UNCHANGED <<sequential, approval, holder, settled>>

\* patch_driver_approval; "pending" cannot be set again.
ReviewDriver(d, s) ==
  /\ s \in ApprovalStatuses \ {"pending"}
  /\ approval' = [approval EXCEPT ![d] = s]
  /\ UNCHANGED <<sequential, ride, holder, settled>>

-----------------------------------------------------------------------------
DispatchStep(online) ==
  \/ \E r \in Rides : CreateRide(r, online)
  \/ \E d \in Drivers, r \in Rides : AcceptRide(d, r, online)
  \/ \E d \in Drivers, r \in Rides : RefuseAccept(d, r, online)
  \/ \E d \in Drivers, r \in Rides : DeclineDispatch(d, r, online)
  \/ \E p \in Drivers, due \in SUBSET Rides : PollAvailableRides(p, online, due)

RideStep ==
  \/ \E d \in Drivers, r \in Rides : DeclineRide(d, r)
  \/ \E d \in Drivers, r \in Rides : ArrivePickup(d, r)
  \/ \E d \in Drivers, r \in Rides : StartRide(d, r)
  \/ \E d \in Drivers, r \in Rides : CompleteRide(d, r)
  \/ \E r \in Rides : CancelRide(r)

Next ==
  \/ \E online \in SUBSET Drivers : DispatchStep(online)
  \/ RideStep
  \/ \E d \in Drivers, s \in ApprovalStatuses : ReviewDriver(d, s)

Spec == Init /\ [][Next]_vars

(***************************************************************************)
(* Fairness.  The timeouts run only when an eligible driver polls, so the  *)
(* one thing assumed is that while drivers keep being eligible somebody's  *)
(* poll keeps finding the expired offers.  Nobody has to answer an offer,  *)
(* drive or cancel.                                                        *)
(***************************************************************************)
PollFindsOffersDue ==
  \E p \in Drivers, online \in SUBSET Drivers : PollAvailableRides(p, online, Rides)

LiveSpec == Spec /\ SF_vars(PollFindsOffersDue)

-----------------------------------------------------------------------------
(* Properties *)

\* Every variable keeps to the values its columns may store; in particular the
\* status satisfies the CHECK constraint ck_rides_status_known of models/ride.py.
TypeOK ==
  /\ sequential \in BOOLEAN
  /\ approval \in [Drivers -> ApprovalStatuses]
  /\ ride \in [Rides -> RideRow]
  /\ holder \in [Rides -> Drivers \union {NoDriver}]
  /\ settled \in SUBSET Rides

\* A driver never has two active rides: the active-ride lookup of
\* assert_driver_eligible_for_claim is enough although offers ignore one another.
OneActiveRidePerDriver ==
  \A r1, r2 \in Rides, d \in Drivers : DrivesRide(d, r1) /\ DrivesRide(d, r2) => r1 = r2

\* A row has a driver exactly while one serves the ride or after it ended under one,
\* and "offered" stays reserved: an open offer is not a status.
DriverFitsRow(x) ==
  /\ x.status # "offered"
  /\ x.status \in ActiveStatuses \union {"completed"} => x.driver # NoDriver
  /\ x.status \in {"absent", "requested"} => x.driver = NoDriver

\* The claim ledger and the ride row, written by different statements of several
\* handlers, name the same holder: the last claim entry is claim_won by the row's
\* driver while the ride is active or completed, and claim_released or nothing else.
LedgerAgrees ==
  \A r \in Rides :
    /\ DriverFitsRow(ride[r])
    /\ holder[r] = IF ride[r].status \in ActiveStatuses \union {"completed"}
                   THEN ride[r].driver ELSE NoDriver

\* The drivers with an open dispatch log.
OpenLogs(x) == {d \in Drivers : "sent" \in x.log[d]}

LogFitsOffer(x) ==
  /\ x.status = "requested" => OpenLogs(x) = {x.offer} \ {NoDriver}
  /\ \/ x.status \in ActiveStatuses \union {"absent", "completed"}
     \/ x.reason = "no_drivers_available"
     => OpenLogs(x) = {} /\ x.offer = NoDriver

\* While a ride is in the pool its one open dispatch log is the one of the current
\* offer; once claimed or exhausted it has none.  A log left open would let a driver
\* without an offer answer, and would skip that driver for ever.
OpenLogIsTheOffer == \A r \in Rides : LogFitsOffer(ride[r])

AskedOnce(x) ==
  \A d \in Drivers :
    /\ "sent" \in x.log[d] => x.log[d] \intersect {"declined", "timeout"} = {}
    /\ ~({"declined", "timeout"} \subseteq x.log[d])

\* A driver who declined an offer or let it lapse is not asked for that ride again.
NoSecondOffer == \A r \in Rides : AskedOnce(ride[r])

StampsFit(x) ==
  /\ x.status \in {"absent", "requested"} => x.stamps = {}
  /\ x.status = "accepted" => x.stamps = {"accepted"}
  /\ x.status = "driver_arrived" => x.stamps = {"accepted", "arrived"}
  /\ x.status = "in_progress" => x.stamps = {"accepted", "arrived", "started"}
  /\ x.status = "completed" => x.stamps = Stamps \ {"cancelled"}
  /\ x.status = "cancelled" =>
       /\ "cancelled" \in x.stamps /\ "completed" \notin x.stamps
       /\ "accepted" \in x.stamps <=> x.driver # NoDriver
       /\ "started" \in x.stamps => "arrived" \in x.stamps
       /\ "arrived" \in x.stamps => "accepted" \in x.stamps

\* The stamps on the row are those of the current leg, whatever was accepted and
\* given back before: a ride in the pool has none, and an ended one shows how far it got.
StampsFitStatus == \A r \in Rides : StampsFit(ride[r])

EarnedExhaustion(x) ==
  x.reason = "no_drivers_available" =>
    x.status = "cancelled" /\ x.attempts >= MaxAttempts /\ x.driver = NoDriver

\* Dispatch gives a ride up only after MAX_DISPATCH_ATTEMPTS offers, and never one
\* that somebody holds: running out of eligible drivers earlier leaves it in the pool.
ExhaustionIsEarned == \A r \in Rides : EarnedExhaustion(ride[r])

\* Money follows the ride: pricing is locked and settlement entries exist exactly for
\* the completed rides, so no cancelled ride was settled.
SettledIffCompleted ==
  \A r \in Rides : r \in settled <=> ride[r].status = "completed"

TerminalKept ==
  \A r \in Rides :
    ride[r].status \in TerminalStatuses =>
      /\ ride'[r].status = ride[r].status
      /\ ride'[r].driver = ride[r].driver
      /\ ride'[r].stamps = ride[r].stamps
      /\ ride'[r].reason = ride[r].reason

\* A completed or cancelled ride keeps its status, driver, stamps and reason.
TerminalIsFinal == [][TerminalKept]_vars

OfferRespected ==
  \A r \in Rides :
    ride'[r].driver \notin {ride[r].driver, NoDriver} =>
      /\ InPool(ride[r])
      /\ ride[r].offer \in {NoDriver, ride'[r].driver}

\* Nobody takes a ride over another driver's open offer, and nobody takes it from
\* its driver: a new driver comes only from the pool, and under an offer of their own
\* or none.
ClaimRespectsOffer == [][OfferRespected]_vars

NoNewWorkUnapproved ==
  \A r \in Rides, d \in Drivers :
    approval[d] # "approved" =>
      /\ ride'[r].driver = d <=> ride[r].driver = d
      /\ ride'[r].offer = d => ride[r].offer = d

\* A suspension stops a driver from taking, or giving back, rides at once, and from
\* being offered any.
SuspensionStopsNewWork == [][NoNewWorkUnapproved]_vars

\* The cascade never hangs on an offer: if drivers keep being eligible, every ride
\* again and again is without an open offer, because it was accepted or ended or
\* because everyone was asked and it is open to all.
OfferOpen(r) == ride[r].status = "requested" /\ ride[r].offer # NoDriver

CascadeMovesOn ==
  []<>(Able(Drivers) # {}) => \A r \in Rides : []<>~OfferOpen(r)

\* RIDE_003_DISPATCH_CASCADE_REPORT.md: DISPATCH_MAX_ATTEMPTS is the "Max sequential
\* offers before exhaustion".  start_dispatch_for_ride does not look at the count.
OffersWithinMax == \A r \in Rides : ride[r].attempts <= MaxAttempts

-----------------------------------------------------------------------------
(* The abstract assignment board this implements. *)

PhaseOf(x) ==
  CASE x.status = "absent"          -> "unborn"
    [] x.status = "requested"       -> "open"
    [] x.status \in ActiveStatuses  -> "held"
    [] x.status = "completed"       -> "done"
    [] OTHER                        -> "dropped"

ServedBy(x) == IF x.status \in ActiveStatuses THEN x.driver ELSE NoDriver

Assignment ==
  INSTANCE RideAssignment
    WITH phase <- [r \in Rides |-> PhaseOf(ride[r])],
         holder <- [r \in Rides |-> ServedBy(ride[r])]

\* Every history of the board is one of the abstract assignment's.
ImplementsAssignment == Assignment!Spec
=============================================================================
