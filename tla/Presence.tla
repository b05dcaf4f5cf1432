------------------------------ MODULE Presence ------------------------------
(***************************************************************************)
(* One driver's presence: the driver_presence row (what the driver asked   *)
(* for, the last heartbeat), the driver_status row (online, last seen) and *)
(* the profile availability, which five endpoints and every poll of        *)
(* available rides keep in step.                                           *)
(*                                                                         *)
(* A request reads the rows, computes new values in Python and commits the *)
(* columns it changed, without locks or versions: it is a Begin and a      *)
(* Commit, and others commit in between.  Times are ages.  The stored      *)
(* effective_state is left out: every reader derives it again first.       *)
(***************************************************************************)
EXTENDS Integers, FiniteSets

CONSTANTS
  Devices,            \* the driver's requests in flight: app, second phone, retries
  Asked,              \* the presence states clients put; the app: available, offline
  StaleAfter,         \* STALE_AFTER_SECONDS, in ticks
  DisconnectedAfter,  \* DISCONNECTED_AFTER_SECONDS
  FreshWindow         \* FRESHNESS_WINDOW_SECONDS

PresenceStates == {"available", "offline", "paused", "stale", "disconnected"}

ASSUME PresenceAssumption ==
  /\ Asked \subseteq PresenceStates
  /\ {StaleAfter, DisconnectedAfter, FreshWindow} \subseteq Nat \ {0}
  /\ StaleAfter < DisconnectedAfter

VARIABLES
  approved,   \* driver_approvals.status = approved
  row,        \* the columns, by name
  inFlight,   \* device -> its request, or NoCall
  intent,     \* history: the driver stops or has stopped, and no other request of theirs says else
  overlapped  \* history: a poll or accept was in flight while the driver stopped

presenceVars == <<approved, row, inFlight, intent, overlapped>>

Never == -2
Now == -1     \* the value utc_now_naive() has in a request
Oldest == IF DisconnectedAfter > FreshWindow THEN DisconnectedAfter ELSE FreshWindow + 1
Active == {"available", "paused"}
NoCall == [op |-> "none", wants |-> "none", creates |-> FALSE, set |-> <<>>]

PresenceInit ==
  /\ approved \in BOOLEAN
  /\ row = [requested |-> "none", beat |-> Never, avail |-> "offline",
            online |-> FALSE, seen |-> Never, coords |-> FALSE]
  /\ inFlight = [d \in Devices |-> NoCall]
  /\ intent = "unclear" /\ overlapped = FALSE

-----------------------------------------------------------------------------
(* The services, as functions of the rows a request holds *)

Age(time) == IF time = Now THEN 0 ELSE time

Effective(r) ==
  IF r.requested \notin Active THEN r.requested
  ELSE IF r.beat = Never THEN "stale"
  ELSE IF Age(r.beat) >= DisconnectedAfter THEN "disconnected"
  ELSE IF Age(r.beat) >= StaleAfter THEN "stale"
  ELSE r.requested

\* get_or_create_presence: the first request takes the profile's word.
Created(r) ==
  IF r.requested # "none" THEN r
  ELSE IF r.avail = "available" THEN [r EXCEPT !.requested = "available", !.beat = Now]
  ELSE [r EXCEPT !.requested = "offline"]

AvailFromPresence(r) ==
  [r EXCEPT !.avail = IF Effective(r) = "available" THEN "available" ELSE "offline"]

SetOnline(r) == [r EXCEPT !.online = TRUE, !.seen = Now, !.coords = TRUE, !.avail = "available"]

\* An unapproved driver without coordinates is put online all the same.
SyncFromPresence(r) ==
  IF Effective(r) # "available" THEN [r EXCEPT !.online = FALSE]
  ELSE IF r.coords THEN (IF approved THEN SetOnline(r) ELSE [r EXCEPT !.online = FALSE])
  ELSE [r EXCEPT !.online = TRUE, !.seen = IF @ = Never THEN Now ELSE @]

TouchHeartbeat(r) == IF r.online THEN [r EXCEPT !.seen = Now] ELSE r

SetPresenceState(r, state) ==
  LET asked == [Created(r) EXCEPT !.requested = state,
                                  !.beat = IF state \in Active THEN Now ELSE @]
  IN SyncFromPresence(AvailFromPresence(asked))

\* A heartbeat revives a driver whose requested state is stale or disconnected.
RecordHeartbeat(r) ==
  LET beaten == [Created(r) EXCEPT !.beat = Now,
                   !.requested = IF @ \in {"stale", "disconnected"} THEN "available" ELSE @]
  IN TouchHeartbeat(AvailFromPresence(beaten))

\* What GET available-rides and accept-ride do first.
Refreshed(r) ==
  IF Effective(Created(r)) = "available" THEN TouchHeartbeat(SyncFromPresence(Created(r)))
  ELSE Created(r)

IsFresh(r) == r.seen # Never /\ Age(r.seen) <= FreshWindow

\* query candidates of the cascade; assert_driver_eligible_for_claim adds busy.
Offerable(r) == approved /\ r.online /\ IsFresh(r) /\ Effective(r) = "available"
Claimable(r) == Offerable(r) /\ r.avail # "busy"

-----------------------------------------------------------------------------
(* Requests *)

Times == {"beat", "seen"}

Stamped(r) == [c \in DOMAIN r |-> IF c \in Times THEN Age(r[c]) ELSE r[c]]

\* Mutant: the request writes every column as it holds it.
EveryColumn(new) == Stamped(new)

\* The unit of work writes the columns whose value changed.
Changed(new) == [c \in {k \in DOMAIN new : new[k] # row[k]} |-> Stamped(new)[c]]

Wanting == {d \in Devices : inFlight[d].wants # "none"}
Syncing == {d \in Devices : inFlight[d].op = "sync"}

Begins(d, op, wants, new) ==
  /\ inFlight[d] = NoCall
  /\ inFlight' = [inFlight EXCEPT ![d] = 
       [op |-> op, wants |-> wants, set |-> Changed(new),
        creates |-> row.requested = "none" /\ new.requested # "none"]]
  /\ intent' = IF wants = "none" THEN intent
               ELSE IF wants = "rest" /\ Wanting = {} THEN "stopping" ELSE "unclear"
  /\ overlapped' = IF intent' # "stopping" THEN overlapped /\ intent' = "rest"
                   ELSE Syncing # {} \/ op = "sync" \/ (overlapped /\ intent = "stopping")
  /\ UNCHANGED <<approved, row>>

\* A request that only observes changes what the driver asked for when it
\* creates the row or revives it.
Incidental(new) == IF new.requested # row.requested THEN "work" ELSE "none"

GetPresence(d) ==
  LET new == AvailFromPresence(Created(row)) IN Begins(d, "observe", Incidental(new), new)

\* PUT /drivers/presence; only `available` needs approval.
PutPresence(d, state) ==
  /\ state = "available" => approved
  /\ Begins(d, "put", IF state \in {"offline", "paused"} THEN "rest" ELSE "work",
            SetPresenceState(row, state))

PatchOnline(d) ==
  /\ approved
  /\ Begins(d, "put", "work", SetPresenceState(SetOnline(row), "available"))

PatchOffline(d) ==
  Begins(d, "put", "rest",
         SetPresenceState([row EXCEPT !.online = FALSE, !.avail = "offline"], "offline"))

\* Refused while offline; then a heartbeat.
PatchLocation(d) ==
  /\ row.online
  /\ LET new == RecordHeartbeat([row EXCEPT !.seen = Now, !.coords = TRUE])
     IN Begins(d, "beat", Incidental(new), new)

Heartbeat(d) ==
  LET new == RecordHeartbeat(row) IN Begins(d, "beat", Incidental(new), new)

\* GET available-rides commits only when the driver may claim; what the sync
\* wrote has by then replaced a busy profile.
Poll(d) ==
  LET new == Refreshed(row) IN Claimable(new) /\ Begins(d, "sync", Incidental(new), new)

\* accept-ride commits whether it claims or refuses.
Accept(d) ==
  LET new == Refreshed(row)
      profiled == IF row.avail = "busy" THEN new ELSE AvailFromPresence(new)
  IN Begins(d, "sync", Incidental(new), profiled)

PutProfile(d, availability) ==
  Begins(d, "observe", "none", [row EXCEPT !.avail = availability])

\* driver_id is unique: a second creation of the presence row cannot commit.
CommitCall(d) ==
  /\ inFlight[d] # NoCall
  /\ inFlight[d].creates => row.requested = "none"
  /\ row' = [c \in DOMAIN row |->
               IF c \in DOMAIN inFlight[d].set THEN inFlight[d].set[c] ELSE row[c]]
  /\ intent' = IF inFlight[d].wants = "rest" /\ intent = "stopping" THEN "rest" ELSE intent
  /\ inFlight' = [inFlight EXCEPT ![d] = NoCall]
  /\ UNCHANGED <<approved, overlapped>>

AbandonCall(d) ==
  /\ inFlight[d] # NoCall
  /\ inFlight' = [inFlight EXCEPT ![d] = NoCall]
  /\ intent' = IF inFlight[d].wants # "none" THEN "unclear" ELSE intent
  /\ overlapped' = (overlapped /\ intent' # "unclear")
  /\ UNCHANGED <<approved, row>>

Review ==
  /\ approved' = ~approved
  /\ UNCHANGED <<row, inFlight, intent, overlapped>>

Older(time) == IF time \in 0..(Oldest - 1) THEN time + 1 ELSE time
Aged(columns) ==
  [c \in DOMAIN columns |-> IF c \in Times THEN Older(columns[c]) ELSE columns[c]]

PassTime ==
  /\ row' = Aged(row)
  /\ inFlight' = [d \in Devices |-> [inFlight[d] EXCEPT !.set = Aged(@)]]
  /\ UNCHANGED <<approved, intent, overlapped>>

PresenceNext ==
  \/ Review \/ PassTime
  \/ \E d \in Devices :
       \/ GetPresence(d) \/ PatchOnline(d) \/ PatchOffline(d) \/ PatchLocation(d)
       \/ Heartbeat(d) \/ Poll(d) \/ Accept(d) \/ CommitCall(d) \/ AbandonCall(d)
       \/ \E s \in Asked : PutPresence(d, s)
       \/ \E a \in {"available", "busy", "offline"} : PutProfile(d, a)

PresenceSpec == PresenceInit /\ [][PresenceNext]_presenceVars

-----------------------------------------------------------------------------

\* A driver who went offline or paused is offered no ride, whatever
\* heartbeats, polls and location updates still arrive or were in flight,
\* until they ask to work again.  The status row may say online all the same,
\* but only when a poll or an accept was in flight as they stopped and wrote
\* back what it had read.
RestHolds ==
  intent = "rest" => ~Offerable(row) /\ (row.online => overlapped)
=============================================================================
