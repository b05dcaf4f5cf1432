----------------------------- MODULE RideSessions -----------------------------
(***************************************************************************)
(* The ride board under concurrent requests.  FastAPI runs the handlers in *)
(* worker threads, each with a database session of its own (database.py:   *)
(* autoflush off, no version columns), so a handler reads rows, decides,   *)
(* and commits later, when the rows may have changed.                      *)
(*                                                                         *)
(* A request in flight remembers the rows it read and what it made of      *)
(* them, and its commit writes the columns that differ, as the ORM's unit  *)
(* of work does: a column the handler did not change is not written.  Rows *)
(* are locked from the flush to the commit, so flush and commit are one    *)
(* step here.  There are two exceptions to writing blindly:                *)
(*   - claim_ride's UPDATE carries its own condition on the row;           *)
(*   - accept and the poll first write the driver's driver_status row, and *)
(*     hold its lock until they commit.                                    *)
(*                                                                         *)
(* Approvals do not change here; reviews are RideBoard's.  Two identical   *)
(* dispatch logs of one ride and driver count as one.  The model is        *)
(* bounded: after a commit over a row it had not seen, the ride gets no    *)
(* new requests, and those in flight still commit (Followed).              *)
(***************************************************************************)
EXTENDS RideBoard, FiniteSets

CONSTANT Workers   \* the threads that serve requests

VARIABLES
  session,      \* worker -> its request in flight, or Idle
  overwritten   \* history: rides that a commit changed without having seen
                \* their latest row

allVars == <<vars, session, overwritten>>

Idle == [op |-> "idle"]

SessionsInit ==
  /\ sequential \in BOOLEAN
  /\ approval = [d \in Drivers |-> "approved"]
  /\ ride = [r \in Rides |-> AbsentRide]
  /\ holder = [r \in Rides |-> NoDriver]
  /\ settled = {}
  /\ session = [w \in Workers |-> Idle]
  /\ overwritten = {}

-----------------------------------------------------------------------------
(* What a commit writes *)

\* The part of a set-valued column group that a request changed.
MergeSet(now, before, after) == (now \ (before \ after)) \union (after \ before)

\* Mutant: the whole row is written back, columns that were only read included.
MergeReadColumn(now, before, after) == after

MergeColumn(now, before, after) == IF after # before THEN after ELSE now

\* The row once the request that read `before` and computed `after` commits.
Merge(now, before, after) ==
  [status   |-> MergeColumn(now.status, before.status, after.status),
   driver   |-> MergeColumn(now.driver, before.driver, after.driver),
   offer    |-> MergeColumn(now.offer, before.offer, after.offer),
   attempts |-> MergeColumn(now.attempts, before.attempts, after.attempts),
   log      |-> [d \in Drivers |-> MergeSet(now.log[d], before.log[d], after.log[d])],
   stamps   |-> MergeSet(now.stamps, before.stamps, after.stamps),
   reason   |-> MergeColumn(now.reason, before.reason, after.reason)]

-----------------------------------------------------------------------------
(* Requests begin: everything is read, nothing is written *)

\* Mutant: the driver_status row is written only at the end.
NeverLocked(d) == FALSE

\* Some request of driver d that wrote its driver_status row has not committed.
StatusLocked(d) ==
  \E w \in Workers : /\ session[w] # Idle
                     /\ session[w].op \in {"accept", "refuse", "poll"}
                     /\ session[w].driver = d

Followed(rides) == rides \intersect overwritten = {}

Read(w, op, d, after) ==
  /\ session[w] = Idle
  /\ Followed(DOMAIN after)
  /\ session' = [session EXCEPT ![w] = [op |-> op, driver |-> d, after |-> after,
                                        before |-> [r \in DOMAIN after |-> ride[r]]]]
  /\ UNCHANGED <<vars, overwritten>>

ReadOne(w, op, d, r, after) == Read(w, op, d, [q \in {r} |-> after])

\* accept_ride, up to claim_ride; a refusal keeps the offer it made (see RefuseAccept).
BeginAccept(w, d, r, online) ==
  /\ ~StatusLocked(d)
  /\ d \in Able(online)
  /\ InPool(ride[r])
  /\ \E x \in StartDispatch(ride[r], Able(online), sequential) :
        IF MayClaim(x, d, sequential)
        THEN ReadOne(w, "accept", d, r, x)
        ELSE ReadOne(w, "refuse", d, r, x)

BeginRelease(w, d, r) ==
  /\ ReleaseToPool(ride[r].status, "driver") # {}
  /\ ride[r].driver = d
  /\ ride[r].attempts < ReleaseBound
  /\ ReadOne(w, "release", d, r, Released(ride[r]))

BeginDecline(w, d, r, online) ==
  /\ ride[r].offer = d \/ "sent" \in ride[r].log[d]
  /\ \E x \in DispatchDeclined(ride[r], d, Able(online)) : ReadOne(w, "decline", d, r, x)

\* arrive_pickup, start_ride and complete_ride, each with the stamp it sets.
Leg(op) == CASE op = "arrive" -> "arrived" [] op = "start" -> "started" [] OTHER -> "completed"

BeginLeg(w, op, d, r) ==
  /\ ride[r].driver = d
  /\ op = "complete" => r \notin settled
  /\ \E to \in NextRideStatus(ride[r].status, op, "driver") :
        ReadOne(w, op, d, r, Advanced(ride[r], to, Leg(op)))

BeginCancel(w, r) ==
  \E to \in NextRideStatus(ride[r].status, "cancel", "customer") :
     ReadOne(w, "cancel", NoDriver, r,
             [Advanced(ride[r], to, "cancelled") EXCEPT !.reason = "other"])

\* A poll that changes nothing is left out.
BeginPoll(w, p, online, due) ==
  /\ ~StatusLocked(p)
  /\ p \in Able(online)
  /\ LET refreshed(r) == Refreshed(ride[r], r \in due, Able(online), sequential)
         touched == {r \in Rides : refreshed(r) # {ride[r]}}
     IN  /\ touched # {}
         /\ \E after \in {f \in [touched -> UNION {refreshed(r) : r \in touched}] :
                            \A r \in touched : f[r] \in refreshed(r)} :
               Read(w, "poll", p, after)

-----------------------------------------------------------------------------
(* Requests commit *)

\* Mutant: the claim is written like any other change, without a condition.
ClaimAlways(x) == TRUE

\* The WHERE clause of claim_ride's UPDATE.
ClaimHolds(x) == InPool(x)

Finish(w) == session' = [session EXCEPT ![w] = Idle]

CommitClaim(w, r) ==
  /\ session[w] # Idle /\ session[w].op = "accept" /\ r \in DOMAIN session[w].after
  /\ ClaimHolds(ride[r])
  /\ LET s == session[w] IN
       /\ ride' = [ride EXCEPT ![r] = Claimed(Merge(@, s.before[r], s.after[r]), s.driver)]
       /\ holder' = [holder EXCEPT ![r] = s.driver]
  /\ Finish(w)
  /\ UNCHANGED <<sequential, approval, settled, overwritten>>

\* rowcount = 0: everything is rolled back and the driver gets a 409.
LoseClaim(w, r) ==
  /\ session[w] # Idle /\ session[w].op = "accept" /\ r \in DOMAIN session[w].after
  /\ ~ClaimHolds(ride[r])
  /\ Finish(w)
  /\ UNCHANGED <<vars, overwritten>>

\* The claim ledger after the request's own entries for ride r.
HolderWritten(s, r) ==
  IF \/ s.op = "release"
     \/ s.op = "cancel" /\ s.before[r].driver # NoDriver
  THEN NoDriver ELSE holder[r]

\* The rides whose latest row the request has not seen.
Unseen(s) == {r \in DOMAIN s.after : ride[r] # s.before[r]}

CommitWrites(w) ==
  /\ session[w] # Idle /\ session[w].op # "accept"
  /\ LET s == session[w]
         written == DOMAIN s.after
     IN  /\ ride' = [r \in Rides |-> IF r \in written
                                     THEN Merge(ride[r], s.before[r], s.after[r]) ELSE ride[r]]
         /\ holder' = [r \in Rides |-> IF r \in written THEN HolderWritten(s, r) ELSE holder[r]]
         /\ settled' = IF s.op = "complete" THEN settled \union written ELSE settled
         /\ overwritten' = overwritten \union Unseen(s)
  /\ Finish(w)
  /\ UNCHANGED <<sequential, approval>>

\* create_ride inserts: nobody sees the row before its commit.
Create(r, online) == CreateRide(r, online) /\ UNCHANGED <<session, overwritten>>

-----------------------------------------------------------------------------
SessionsNext ==
  \/ \E r \in Rides, online \in SUBSET Drivers : Create(r, online)
  \/ \E w \in Workers, d \in Drivers, r \in Rides, online \in SUBSET Drivers :
        BeginAccept(w, d, r, online)
  \/ \E w \in Workers, d \in Drivers, r \in Rides : BeginRelease(w, d, r)
  \/ \E w \in Workers, d \in Drivers, r \in Rides, online \in SUBSET Drivers :
        BeginDecline(w, d, r, online)
  \/ \E w \in Workers, op \in {"arrive", "start", "complete"}, d \in Drivers, r \in Rides :
        BeginLeg(w, op, d, r)
  \/ \E w \in Workers, r \in Rides : BeginCancel(w, r)
  \/ \E w \in Workers, p \in Drivers, online \in SUBSET Drivers, due \in SUBSET Rides :
        BeginPoll(w, p, online, due)
  \/ \E w \in Workers, r \in Rides : CommitClaim(w, r)
  \/ \E w \in Workers, r \in Rides : LoseClaim(w, r)
  \/ \E w \in Workers : CommitWrites(w)

SessionsSpec == SessionsInit /\ [][SessionsNext]_allVars

-----------------------------------------------------------------------------
(* Properties *)

\* A driver gets a ride only from the pool and only by claiming it: no request writes
\* a driver over another, however late it commits.
NoTheft ==
  [][\A r \in Rides :
       ride'[r].driver \notin {ride[r].driver, NoDriver} => InPool(ride[r])]_allVars

\* However a driver's own requests overlap, the driver_status lock lets one claim at a
\* time read the active rides: two active rides take a commit over an unseen row.
OneCleanRidePerDriver ==
  \A r1, r2 \in Rides \ overwritten, d \in Drivers :
    DrivesRide(d, r1) /\ DrivesRide(d, r2) => r1 = r2

\* Ride row, claim ledger and settlement agree on every ride whose requests each saw the
\* row they changed, claims racing with claims and cancellations included.
CleanRidesAgree ==
  \A r \in Rides \ overwritten :
    /\ DriverFitsRow(ride[r])
    /\ StampsFit(ride[r])
    /\ holder[r] = IF ride[r].status \in ActiveStatuses \union {"completed"}
                   THEN ride[r].driver ELSE NoDriver
    /\ r \in settled <=> ride[r].status = "completed"
=============================================================================
