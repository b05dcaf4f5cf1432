------------------------------- MODULE RideFeed -------------------------------
(***************************************************************************)
(* One ride on the open board and what the drivers are told of it: the     *)
(* polls that list it, the visibility row kept for each driver who saw it, *)
(* the hide that takes it off a driver's board for fifteen minutes, the    *)
(* claim attempts on record, and the transparency view computed from them. *)
(*                                                                         *)
(* Requests run in threads with database sessions of their own.  A row is  *)
(* read, changed in memory and written at the commit, and only the columns *)
(* whose value differs from the one read are written.  Dispatch offers,    *)
(* approvals and presence are RideBoard's and Presence's; here every       *)
(* driver is eligible and the ride is offered to all.                      *)
(***************************************************************************)
EXTENDS Integers, Sequences, FiniteSets, FiniteSetsExt

CONSTANTS
  FeedDrivers, NobodyYet,
  FeedWorkers,   \* the threads that serve requests
  HideTTL,       \* RIDE_HIDE_TTL_SECONDS, in ticks
  LastMoment,    \* the bound on the clock
  MaxAttempts    \* the bound on the attempts on record

ASSUME FeedAssumption == NobodyYet \notin FeedDrivers /\ HideTTL \in Nat \ {0}

NoExpiry == 0
NoRow == [status |-> "none"]
AtRest == [op |-> "idle"]

VARIABLES
  moment,
  state, assigned,  \* the ride's status and driver_id
  visibility,       \* driver -> its ride_visibility row (unique per ride and driver)
  attempts,         \* ride_claim_attempts, in order
  calls,            \* worker -> the request it serves
  releases,         \* history: how often the ride went back to the board
  outdated,         \* history: attempts whose ride was released before they were committed
  promised,         \* history: driver -> until when its last hide was to hold
  crossing          \* history: drivers whose hide crossed a poll of theirs

feedVars == <<moment, state, assigned, visibility, attempts, calls, releases, outdated, promised,
              crossing>>
rideVarsOfFeed == <<state, assigned, attempts, releases, outdated>>
rowVars == <<visibility, promised, crossing>>

FeedInit ==
  /\ moment = 0
  /\ state = "requested" /\ assigned = NobodyYet
  /\ visibility = [d \in FeedDrivers |-> NoRow]
  /\ attempts = <<>>
  /\ calls = [w \in FeedWorkers |-> AtRest]
  /\ releases = 0
  /\ outdated = {}
  /\ promised = [d \in FeedDrivers |-> 0]
  /\ crossing = {}

Serve(w, r) == calls' = [calls EXCEPT ![w] = r]

Open == state = "requested" /\ assigned = NobodyYet

\* active_hidden_filter: the hide is in force.  dismissed_at is set and cleared together
\* with expires_at, so a row without an expiry is not dismissed either.
ActiveHidden(d) == visibility[d].status = "hidden_by_driver" /\ visibility[d].expires > moment

\* get_available_rides: the policy's outer join leaves out what the driver hid.
Listed(d) == Open /\ ~ActiveHidden(d)

\* A poll or a claim wrote the driver's driver_status row, and has not committed: other
\* polls and claims of that driver wait for it.
AtStatusRow(d) ==
  \E w \in FeedWorkers : calls[w].op \in {"listed", "loaded", "claim", "late"} /\ calls[w].driver = d

-----------------------------------------------------------------------------
(* Polls *)

\* GET /drivers/available-rides: the list is read.  A poll that does not list the ride
\* leaves its row alone and is left out.
BeginPollFeed(w, d) ==
  /\ calls[w] = AtRest /\ ~AtStatusRow(d)
  /\ Listed(d)
  /\ Serve(w, [op |-> "listed", driver |-> d])
  /\ UNCHANGED <<moment, rideVarsOfFeed, rowVars>>

\* record_available_rides looks the row up.
LoadRow(w) ==
  /\ calls[w].op = "listed"
  /\ Serve(w, [op |-> "loaded", driver |-> calls[w].driver,
               loaded |-> visibility[calls[w].driver]])
  /\ UNCHANGED <<moment, rideVarsOfFeed, rowVars>>

\* The request of worker w loaded no row and one is there: the unique index refuses the
\* insert and the request fails as a whole.
Refused(w) == calls[w].loaded = NoRow /\ visibility[calls[w].driver] # NoRow

VisibleRow == [status |-> "visible", expires |-> NoExpiry]
HiddenRow(until) == [status |-> "hidden_by_driver", expires |-> until]

\* Mutant: the whole row is written, as it was read and changed.
WriteWhole(now, before, after) == after

\* The columns a commit writes over a row: those that it changed.  An expiry that is set
\* differs from every earlier one: a moment here stands for many microseconds.
WriteColumns(now, before, after) ==
  IF before = NoRow THEN after
  ELSE [c \in DOMAIN after |->
          IF after[c] # before[c] \/ (c = "expires" /\ after[c] # NoExpiry) THEN after[c] ELSE now[c]]

\* The hides in flight for driver d, told that a poll turned its row visible.
MarkCrossed(w, d) ==
  [v \in FeedWorkers |->
     IF v = w THEN AtRest
     ELSE IF calls[v].op = "hide" /\ calls[v].driver = d
     THEN [calls[v] EXCEPT !.crossed = TRUE] ELSE calls[v]]

\* The row becomes visible: an earlier hide is cleared, in force or not.
CommitPollFeed(w) ==
  /\ calls[w].op = "loaded" /\ ~Refused(w)
  /\ LET d == calls[w].driver
         written == WriteColumns(visibility[d], calls[w].loaded, VisibleRow)
     IN  /\ visibility' = [visibility EXCEPT ![d] = written]
         /\ calls' = IF written # visibility[d] THEN MarkCrossed(w, d)
                       ELSE [calls EXCEPT ![w] = AtRest]
  /\ UNCHANGED <<moment, rideVarsOfFeed, promised, crossing>>

RefusePollFeed(w) ==
  /\ calls[w].op = "loaded" /\ Refused(w)
  /\ Serve(w, AtRest)
  /\ UNCHANGED <<moment, rideVarsOfFeed, rowVars>>

-----------------------------------------------------------------------------
(* Hides *)

\* POST /drivers/rides/{id}/hide and its older alias dismiss-ride: the ride must be on the
\* board.
BeginHideFeed(w, d) ==
  /\ calls[w] = AtRest /\ Open
  /\ Serve(w, [op |-> "hide", driver |-> d, loaded |-> visibility[d], until |-> moment + HideTTL,
               crossed |-> FALSE])
  /\ UNCHANGED <<moment, rideVarsOfFeed, rowVars>>

\* A poll of d in flight that will write over the row: it has listed the ride and not
\* looked at the row, or saw there an earlier hide or what is left of one.
PollMayUndo(d) ==
  \E w \in FeedWorkers :
    /\ calls[w].op \in {"listed", "loaded"} /\ calls[w].driver = d
    /\ calls[w].op = "loaded" => calls[w].loaded \notin {NoRow, VisibleRow}

CommitHideFeed(w) ==
  /\ calls[w].op = "hide" /\ ~Refused(w)
  /\ LET d == calls[w].driver IN
       /\ visibility' = [visibility EXCEPT ![d] =
                    WriteColumns(@, calls[w].loaded, HiddenRow(calls[w].until))]
       /\ promised' = [promised EXCEPT ![d] = calls[w].until]
       /\ crossing' = IF PollMayUndo(d) \/ calls[w].crossed
                        THEN crossing \union {d} ELSE crossing \ {d}
  /\ Serve(w, AtRest)
  /\ UNCHANGED <<moment, rideVarsOfFeed>>

RefuseHideFeed(w) ==
  /\ calls[w].op = "hide" /\ Refused(w)
  /\ Serve(w, AtRest)
  /\ UNCHANGED <<moment, rideVarsOfFeed, rowVars>>

-----------------------------------------------------------------------------
(* Claims *)

\* record_claim_attempt.
Attempt(d, outcome, against) == [driver |-> d, outcome |-> outcome, against |-> against]
Record(a) == attempts' = Append(attempts, a)

\* Requests that will put an attempt on record; the bound counts those with it.
Claiming == {w \in FeedWorkers : calls[w].op \in {"claim", "missed", "late", "beaten"}}
MayClaim == Len(attempts) + Cardinality(Claiming) < MaxAttempts

\* accept-ride has read who has the ride; it records that at its commit.
Told(op, d) == [op |-> op, driver |-> d, against |-> assigned, stale |-> FALSE]

\* accept-ride reads a ride that somebody has: it may be the claimant, and the ride may be
\* over.
ClaimTooLate(w, d) ==
  /\ calls[w] = AtRest /\ ~AtStatusRow(d) /\ MayClaim
  /\ assigned # NobodyYet
  /\ Serve(w, Told("late", d))
  /\ UNCHANGED <<moment, rideVarsOfFeed, rowVars>>

\* It reads a ride that is free; a ride cancelled on the board is refused without record.
BeginClaim(w, d) ==
  /\ calls[w] = AtRest /\ ~AtStatusRow(d) /\ MayClaim
  /\ Open
  /\ Serve(w, [op |-> "claim", driver |-> d])
  /\ UNCHANGED <<moment, rideVarsOfFeed, rowVars>>

\* Mutant: the claim does not look at the ride again.
ClaimBlindly == TRUE

\* The condition of claim_ride's UPDATE.
StillFree == Open

WinClaim(w) ==
  /\ calls[w].op = "claim"
  /\ StillFree
  /\ state' = "accepted" /\ assigned' = calls[w].driver
  /\ Record(Attempt(calls[w].driver, "won", NobodyYet))
  /\ Serve(w, AtRest)
  /\ UNCHANGED <<moment, releases, outdated, rowVars>>

\* No row is updated: claim_ride rolls back, which lets go of the driver_status row.
MissClaim(w) ==
  /\ calls[w].op = "claim"
  /\ ~StillFree
  /\ Serve(w, [calls[w] EXCEPT !.op = "missed"])
  /\ UNCHANGED <<moment, rideVarsOfFeed, rowVars>>

\* It reads the ride anew, which may have been released in the meantime.
ReadMiss(w) ==
  /\ calls[w].op = "missed"
  /\ Serve(w, Told("beaten", calls[w].driver))
  /\ UNCHANGED <<moment, rideVarsOfFeed, rowVars>>

\* The attempt that accept-ride puts on record: somebody had the ride when it was read,
\* or it was not available.
AttemptOf(c) ==
  Attempt(c.driver, IF c.against # NobodyYet THEN "conflict" ELSE "unavailable", c.against)

\* The commit of a claim that did not get the ride.  Nothing holds the ride since it was
\* read: it may have been released, and claimed anew.
RecordMiss(w) ==
  /\ calls[w].op \in {"late", "beaten"}
  /\ Record(AttemptOf(calls[w]))
  /\ outdated' = IF calls[w].stale THEN outdated \union {Len(attempts) + 1} ELSE outdated
  /\ Serve(w, AtRest)
  /\ UNCHANGED <<moment, state, assigned, releases, rowVars>>

\* The claims that are about to name the driver who gives the ride up.
MarkStale ==
  [w \in FeedWorkers |->
     IF calls[w].op \in {"late", "beaten"} /\ calls[w].against # NobodyYet
     THEN [calls[w] EXCEPT !.stale = TRUE] ELSE calls[w]]

\* decline-ride: back to the board.
ReleaseClaim ==
  /\ state = "accepted"
  /\ state' = "requested" /\ assigned' = NobodyYet
  /\ releases' = releases + 1
  /\ calls' = MarkStale
  /\ UNCHANGED <<moment, attempts, outdated, rowVars>>

\* The rider cancels or the driver completes; a driver stays on the ride's record.
EndRide ==
  /\ state \in {"requested", "accepted"}
  /\ state' = "over"
  /\ UNCHANGED <<moment, assigned, attempts, outdated, calls, releases, rowVars>>

FeedTick ==
  /\ moment < LastMoment /\ moment' = moment + 1
  /\ UNCHANGED <<rideVarsOfFeed, calls, rowVars>>

FeedNext ==
  \/ \E w \in FeedWorkers, d \in FeedDrivers :
       BeginPollFeed(w, d) \/ BeginHideFeed(w, d) \/ ClaimTooLate(w, d) \/ BeginClaim(w, d)
  \/ \E w \in FeedWorkers :
       \/ LoadRow(w) \/ CommitPollFeed(w) \/ RefusePollFeed(w)
       \/ CommitHideFeed(w) \/ RefuseHideFeed(w)
       \/ WinClaim(w) \/ MissClaim(w) \/ ReadMiss(w) \/ RecordMiss(w)
  \/ ReleaseClaim
  \/ EndRide
  \/ FeedTick

FeedSpec == FeedInit /\ [][FeedNext]_feedVars

-----------------------------------------------------------------------------
(* GET /drivers/rides/{id}/transparency *)

Wins == {i \in DOMAIN attempts : attempts[i].outcome = "won"}
AttemptsOf(d) == {i \in DOMAIN attempts : attempts[i].driver = d}

\* get_ride_transparency: claim_winner_driver_id is the first success on record.
Winner == IF Wins = {} THEN NobodyYet ELSE attempts[Min(Wins)].driver

\* Who may look: a driver who saw the ride, tried to claim it, or has it.
MayLook(d) == visibility[d] # NoRow \/ AttemptsOf(d) # {} \/ assigned = d

LastResult(d) ==
  IF AttemptsOf(d) = {} THEN "none"
  ELSE IF Max(AttemptsOf(d)) \in Wins THEN "won" ELSE "lost"

\* build_driver_scoped_transparency: a hide counts here even after it ran out.
View(d) ==
  [hidden    |-> visibility[d].status = "hidden_by_driver",
   result    |-> LastResult(d),
   claimable |-> Open /\ visibility[d].status # "hidden_by_driver" /\ LastResult(d) # "won"]

-----------------------------------------------------------------------------
(* Properties *)

\* A hide that was confirmed keeps the ride off the driver's list until it runs out, and
\* no longer, unless it crossed a poll of the same driver that had not looked at the row
\* yet or saw an earlier hide there: such a poll undoes it, by its status or by its dates alone.
HideHolds ==
  \A d \in FeedDrivers \ crossing : Open => (Listed(d) <=> promised[d] <= moment)

\* What the transparency view tells agrees with the ride.  The last success on record is
\* the holder's, and each success but that one was released.  A conflict names the driver
\* of the last success before it; only if the ride was released between its read and its
\* commit may that be a driver who had the ride earlier, and then another success may
\* precede it on record.  So the winner named to everyone is the holder as long as the
\* ride was never released, a driver told "won" has it or gave it up, and a ride called
\* claimable is on that driver's list.
TransparencyFits ==
  /\ assigned # NobodyYet => Wins # {} /\ attempts[Max(Wins)].driver = assigned
  /\ Cardinality(Wins) = releases + (IF assigned # NobodyYet THEN 1 ELSE 0)
  /\ \A i \in DOMAIN attempts : attempts[i].outcome = "conflict" =>
       LET before == {j \in Wins : j < i}
           named  == {j \in before : attempts[j].driver = attempts[i].against}
       IN  named # {} /\ (i \notin outdated => Max(before) \in named)
  /\ assigned # NobodyYet /\ releases = 0 => Winner = assigned
  /\ \A d \in FeedDrivers : MayLook(d) =>
       /\ View(d).result = "won" /\ assigned # d => releases > 0
       /\ View(d).claimable => Listed(d)
=============================================================================
