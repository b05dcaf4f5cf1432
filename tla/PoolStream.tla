----------------------------- MODULE PoolStream -----------------------------
(***************************************************************************)
(* How one driver's cockpit learns of rides in the pool: the event stream, *)
(* a snapshot and then deltas from the in-process event bus, and the card  *)
(* the cockpit shows.  The other drivers and the customers are their       *)
(* effects on the rides; handlers publish a delta after their commit, from *)
(* their own threads, so deltas may overtake each other.                   *)
(*                                                                         *)
(* The cockpit keeps a stream open only while it is idle: showing a card   *)
(* closes it, and the next idle moment opens a new one.                    *)
(***************************************************************************)
EXTENDS Integers, Sequences, FiniteSets, FiniteSetsExt

CONSTANTS
  PoolRides,   \* ride ids; the cockpit picks the greatest
  QueueLimit   \* maxsize of a subscriber's queue

ASSUME PoolAssumption == PoolRides \subseteq Nat \ {0} /\ QueueLimit \in Nat \ {0}

VARIABLES
  pool,      \* ride -> none, open, taken (by another), mine, gone
  offer,     \* ride -> whom dispatch_driver_id names: all, me, other
  hidden,    \* rides this driver hid, until the hide expires
  unsent,    \* deltas committed but not yet published: {<<event, ride>>}
  stream,    \* closed, snapshot (not subscribed yet), subscribed, dropped
  snapshot,  \* the snapshot event the client has not read, {} once it has
  queue,     \* the subscriber's queue
  cockpit,   \* offline, idle, asked, driving
  card,      \* the ride on the card and whether its countdown can end
  conflict,  \* lastConflictRideIdRef
  missed     \* history: rides that came back or were created unannounced
             \* since the snapshot

poolVars == <<pool, offer, hidden, unsent, stream, snapshot, queue, cockpit, card, conflict, missed>>
rideVars == <<pool, offer, hidden, unsent>>
streamVars == <<stream, snapshot, queue>>
clientVars == <<cockpit, card, conflict>>

NoCard == [ride |-> 0, timed |-> FALSE]

PoolInit ==
  /\ pool = [r \in PoolRides |-> "none"] /\ offer = [r \in PoolRides |-> "all"]
  /\ hidden = {} /\ unsent = {}
  /\ stream = "closed" /\ snapshot = {} /\ queue = <<>>
  /\ cockpit = "offline" /\ card = NoCard /\ conflict = 0
  /\ missed = {}

\* Policy, hide filter and ride_visible_to_driver.
Visible(r) == pool[r] = "open" /\ offer[r] \in {"all", "me"} /\ r \notin hidden

-----------------------------------------------------------------------------
(* The rides *)

\* POST /rides: start_dispatch_for_ride may offer it to one driver at once.
CreateRide(r, to) ==
  /\ pool[r] = "none"
  /\ pool' = [pool EXCEPT ![r] = "open"] /\ offer' = [offer EXCEPT ![r] = to]
  /\ unsent' = unsent \union {<<"ride.created", r>>}
  /\ UNCHANGED <<hidden, streamVars, clientVars, missed>>

ClaimByOther(r) ==
  /\ pool[r] = "open" /\ offer[r] # "me"
  /\ pool' = [pool EXCEPT ![r] = "taken"] /\ offer' = [offer EXCEPT ![r] = "all"]
  /\ unsent' = unsent \union {<<"ride.claimed", r>>}
  /\ UNCHANGED <<hidden, streamVars, clientVars, missed>>

\* decline-ride by the other driver puts the ride back and publishes nothing.
ReleaseByOther(r) ==
  /\ pool[r] = "taken"
  /\ pool' = [pool EXCEPT ![r] = "open"]
  /\ missed' = missed \union {r}
  /\ UNCHANGED <<offer, hidden, unsent, streamVars, clientVars>>

\* The delta is sent only for a ride that no driver had.
CancelByRider(r) ==
  /\ pool[r] \in {"open", "taken"}
  /\ pool' = [pool EXCEPT ![r] = "gone"]
  /\ unsent' = IF pool[r] = "open" THEN unsent \union {<<"ride.cancelled", r>>} ELSE unsent
  /\ UNCHANGED <<offer, hidden, streamVars, clientVars, missed>>

\* A poll of some driver moves the offer on, and publishes nothing.
OfferMoves(r, to) ==
  /\ pool[r] = "open" /\ offer[r] # to
  /\ offer' = [offer EXCEPT ![r] = to]
  /\ missed' = missed \union {r}
  /\ UNCHANGED <<pool, hidden, unsent, streamVars, clientVars>>

HideExpires(r) ==
  /\ r \in hidden
  /\ hidden' = hidden \ {r}
  /\ missed' = missed \union {r}
  /\ UNCHANGED <<pool, offer, unsent, streamVars, clientVars>>

-----------------------------------------------------------------------------
(* The event bus and the stream *)

\* A full queue is unsubscribed without a word; the stream stays open.
Publish(delta) ==
  /\ delta \in unsent
  /\ unsent' = unsent \ {delta}
  /\ IF stream = "subscribed" /\ Len(queue) < QueueLimit
     THEN queue' = Append(queue, delta) /\ UNCHANGED <<stream, missed>>
     ELSE /\ stream' = IF stream = "subscribed" THEN "dropped" ELSE stream
          /\ missed' = IF delta[1] = "ride.created" THEN missed \union {delta[2]} ELSE missed
          /\ queue' = queue
  /\ UNCHANGED <<pool, offer, hidden, snapshot, clientVars>>

\* The request computes the snapshot; the generator subscribes after it has
\* sent it.
OpenStream ==
  /\ cockpit = "idle" /\ stream = "closed"
  /\ stream' = "snapshot" /\ snapshot' = {r \in PoolRides : Visible(r)}
  /\ missed' = {}
  /\ UNCHANGED <<rideVars, queue, clientVars>>

Subscribe ==
  /\ stream = "snapshot"
  /\ stream' = "subscribed"
  /\ UNCHANGED <<rideVars, snapshot, queue, clientVars, missed>>

\* Effect cleanup, or the connection is lost.
Closed == stream' = "closed" /\ snapshot' = {} /\ queue' = <<>>

LoseStream ==
  /\ stream # "closed"
  /\ Closed
  /\ UNCHANGED <<rideVars, clientVars, missed>>

-----------------------------------------------------------------------------
(* The cockpit *)

\* A card whose ride has no offer has no expiry: its countdown stands still.
Shows(r) ==
  /\ cockpit' = "asked" /\ card' = [ride |-> r, timed |-> offer[r] # "all"]
  /\ Closed

Shown == {card.ride}

\* applyPoolSnapshot.
ReadSnapshot ==
  /\ cockpit = "idle" /\ snapshot \ {conflict} # {}
  /\ Shows(Max(snapshot \ {conflict}))
  /\ UNCHANGED <<rideVars, conflict, missed>>

\* Mutant: after a conflict deltas are ignored, as refreshes are.
PresentsUnlessConflict(delta) == delta[1] = "ride.created" /\ conflict = 0

\* applyPoolDelta shows a created ride whomever it is offered to.
Presents(delta) == delta[1] = "ride.created" /\ delta[2] # conflict

ReadDelta ==
  /\ cockpit = "idle" /\ snapshot \ {conflict} = {} /\ queue # <<>>
  /\ IF Presents(Head(queue))
     THEN Shows(Head(queue)[2]) /\ UNCHANGED conflict
     ELSE queue' = Tail(queue) /\ UNCHANGED <<stream, snapshot, clientVars>>
  /\ UNCHANGED <<rideVars, missed>>

Idles == cockpit' = "idle" /\ card' = NoCard

\* accept-ride; a claim conflict is remembered, any other refusal leaves the card.
Accept ==
  /\ cockpit = "asked"
  /\ \E r \in Shown :
       \/ /\ Visible(r)
          /\ pool' = [pool EXCEPT ![r] = "mine"] /\ offer' = [offer EXCEPT ![r] = "all"]
          /\ unsent' = unsent \union {<<"ride.claimed", r>>}
          /\ cockpit' = "driving" /\ card' = NoCard /\ conflict' = 0
       \/ /\ pool[r] = "taken"
          /\ Idles /\ conflict' = r
          /\ UNCHANGED <<pool, offer, unsent>>
  /\ UNCHANGED <<hidden, streamVars, missed>>

\* decline-dispatch, else hide: refused unless the ride is open, and a refused
\* decline leaves the card.
Decline ==
  /\ cockpit = "asked"
  /\ \E r \in Shown :
       /\ pool[r] = "open"
       /\ IF offer[r] = "me" THEN offer' = [offer EXCEPT ![r] = "other"] /\ UNCHANGED hidden
          ELSE hidden' = hidden \union {r} /\ UNCHANGED offer
  /\ Idles
  /\ UNCHANGED <<pool, unsent, streamVars, conflict, missed>>

\* The countdown ends: the card goes whatever the server says.
CountdownEnds ==
  /\ cockpit = "asked" /\ card.timed
  /\ offer' = [r \in PoolRides |-> IF r \in Shown /\ pool[r] = "open" /\ offer[r] = "me"
                                   THEN "other" ELSE offer[r]]
  /\ Idles
  /\ UNCHANGED <<pool, hidden, unsent, streamVars, conflict, missed>>

\* refreshBackendTruth: without a card to keep when the tab is shown again,
\* and with the visible ride of the greatest id otherwise, unless there was a
\* conflict.
ShowTab ==
  /\ cockpit = "asked"
  /\ Idles
  /\ UNCHANGED <<rideVars, streamVars, conflict, missed>>

Refresh ==
  /\ cockpit = "idle" /\ conflict = 0
  /\ \E r \in PoolRides : Visible(r) /\ (\A s \in PoolRides : Visible(s) => s <= r) /\ Shows(r)
  /\ UNCHANGED <<rideVars, conflict, missed>>

GoOnline ==
  /\ cockpit = "offline"
  /\ cockpit' = "idle" /\ conflict' = 0
  /\ UNCHANGED <<rideVars, streamVars, card, missed>>

GoOffline ==
  /\ cockpit = "idle"
  /\ cockpit' = "offline" /\ conflict' = 0
  /\ Closed
  /\ UNCHANGED <<rideVars, card, missed>>

FinishTrip ==
  /\ cockpit = "driving"
  /\ cockpit' = "idle"
  /\ pool' = [r \in PoolRides |-> IF pool[r] = "mine" THEN "gone" ELSE pool[r]]
  /\ UNCHANGED <<offer, hidden, unsent, streamVars, card, conflict, missed>>

-----------------------------------------------------------------------------

PoolNext ==
  \/ \E r \in PoolRides :
       \/ ClaimByOther(r) \/ ReleaseByOther(r) \/ CancelByRider(r) \/ HideExpires(r)
       \/ \E to \in {"all", "me", "other"} : CreateRide(r, to) \/ OfferMoves(r, to)
  \/ \E delta \in unsent : Publish(delta)
  \/ OpenStream \/ Subscribe \/ LoseStream \/ ReadSnapshot \/ ReadDelta
  \/ Accept \/ Decline \/ CountdownEnds \/ ShowTab \/ Refresh \/ GoOnline \/ GoOffline \/ FinishTrip

\* The event loop, the stream and the browser run; no person has to act.
PoolFairness ==
  /\ \A r \in PoolRides, e \in {"ride.created", "ride.claimed", "ride.cancelled"} :
       WF_poolVars(Publish(<<e, r>>))
  /\ WF_poolVars(OpenStream) /\ WF_poolVars(Subscribe)
  /\ WF_poolVars(ReadSnapshot) /\ WF_poolVars(ReadDelta) /\ WF_poolVars(CountdownEnds)

PoolSpec == PoolInit /\ [][PoolNext]_poolVars /\ PoolFairness

-----------------------------------------------------------------------------

\* Everything published has been read and the cockpit is idle.
Quiet == cockpit = "idle" /\ stream \in {"subscribed", "dropped"} /\ snapshot \ {conflict} = {}
         /\ queue = <<>> /\ unsent = {}

\* An idle driver overlooks a ride they could take only for these reasons: the
\* ride came back to the pool, which publishes nothing, it was created between
\* the snapshot and the subscription or after the queue overflowed, or they
\* lost it to another driver before.
IdleOverlooks == Quiet => \A r \in PoolRides : Visible(r) => r \in missed \union {conflict}

\* The card of a ride that another driver has claimed goes away by itself, as
\* the stream's contract and its browser test say.
ClaimClearsCard ==
  \A r \in PoolRides : card.ride = r /\ pool[r] = "taken" ~> card.ride # r \/ pool[r] # "taken"
=============================================================================
