--------------------------- MODULE IdempotentWrites ---------------------------
(***************************************************************************)
(* Idempotency keys between the driver app and the ride handlers           *)
(* (services/driver_idempotency.py, driver-app/src/utils).                 *)
(*                                                                         *)
(* One driver, one ride and one action on it, `write`: accept, whose       *)
(* handler refuses while the ride is accepted (as those of release,        *)
(* arrive, start, complete do), or hide, which may be repeated.  The       *)
(* change that a write makes can be undone later, by a release or by the   *)
(* hide's time limit.  The app keeps one key per (ride, action) in memory  *)
(* until the write succeeds, and sends a request again after a time-out or *)
(* a network error; copies may be delayed, overtake each other, or be      *)
(* answered when nobody listens any more.                                  *)
(*                                                                         *)
(* The server inserts an in_progress row for the key, runs the handler,    *)
(* and completes or deletes the row.  The handler commits on its own before *)
(* the row is completed, so the row is visible in between, and a crash or  *)
(* an error there that takes the database session with it leaves it behind *)
(* for ever.  A row that is inserted and not yet committed makes an insert *)
(* of the same key wait (the unique index of migration 0026).              *)
(*                                                                         *)
(* Other drivers, the customer and the eligibility rules appear only as    *)
(* the handler's right to refuse.  Sends, answers and failures may come at *)
(* any time, so that a time-out needs no clock.                            *)
(***************************************************************************)
EXTENDS Integers

CONSTANTS
  Workers,    \* the threads that serve requests
  Retries,    \* resilientFetch's retries after the first attempt
  MaxKeys,    \* bound: keys that the app makes for the action
  MaxSends    \* bound: requests that carry the same key

ASSUME BoundsAssumption == Retries \in Nat /\ MaxKeys \in Nat /\ MaxSends \in Nat

VARIABLES
  write,      \* the action: "accept" or "hide"
  applied,    \* the ride is accepted by, or hidden from, this driver
  replay,     \* key -> state of its row in driver_idempotency_replays
  request,    \* worker -> the request it serves, or Idle
  inFlight,   \* requests sent and not yet taken up
  sent,       \* key -> how many requests carried it
  current,    \* the app's key
  tries,      \* retries made for the tap that waits for an answer, or NoTap
  told,       \* the answer shown to the driver for the last tap
  effects,    \* history: key -> how often the handler made the change
  undone,     \* history: the change was undone since the last tap
  stuck,      \* history: keys whose row a crash or a lost session left in progress
  raised      \* history: keys whose row was deleted after an unexpected error

clientVars == <<sent, current, tries, told>>
vars == <<write, applied, replay, request, inFlight, sent, current, tries, told,
          effects, undone, stuck, raised>>

Keys == 1..MaxKeys
Messages == [key : Keys, n : 1..MaxSends]
Answers == [answer : {"ok", "busy", "refused", "error"}, key : Keys]

\* What a worker has done for its request: inserted the row, rolled it back with a
\* lost claim, committed the handler's change, or committed the log entries of a
\* refusal.
Requests == [stage : {"begun", "lost", "written", "logged"}, key : Keys, n : 1..MaxSends]
Idle == [stage |-> "idle"]

\* Worker w serves a request whose row, committed or not, is key k's.
Serving(w, k) == request[w] # Idle /\ request[w].key = k /\ request[w].stage # "lost"

NoTap == -1
Untold == [answer |-> "none"]

Init ==
  /\ write \in {"accept", "hide"}
  /\ applied = FALSE
  /\ replay = [k \in Keys |-> "none"]
  /\ request = [w \in Workers |-> Idle]
  /\ inFlight = {}
  /\ sent = [k \in Keys |-> 0]
  /\ current = 1
  /\ tries = NoTap
  /\ told = Untold
  /\ effects = [k \in Keys |-> 0]
  /\ undone = FALSE
  /\ stuck = {}
  /\ raised = {}

-----------------------------------------------------------------------------
(* The driver app *)

Send(k) ==
  /\ sent' = [sent EXCEPT ![k] = @ + 1]
  /\ inFlight' = inFlight \union {[key |-> k, n |-> sent[k] + 1]}

\* The driver taps: callRideWrite with the cached key, or with a new one if the
\* last was dropped.
Tap ==
  /\ tries = NoTap
  /\ current \in Keys
  /\ sent[current] + 1 + Retries <= MaxSends
  /\ Send(current)
  /\ tries' = 0
  /\ told' = Untold
  /\ undone' = FALSE
  /\ UNCHANGED <<write, applied, replay, request, current, effects, stuck, raised>>

MayRetry == tries # NoTap /\ tries < Retries

\* Time-out, network error or 502..504: resilientFetch sends the request again.
\* A 401 followed by a refresh of the access token has the same effect.
Resend ==
  /\ MayRetry
  /\ Send(current)
  /\ tries' = tries + 1
  /\ UNCHANGED <<write, applied, replay, request, current, told, effects, undone, stuck,
                 raised>>

\* No retry is left: the driver sees a network error, the key stays cached.
GiveUp ==
  /\ tries = Retries
  /\ tries' = NoTap
  /\ told' = [answer |-> "error", key |-> current]
  /\ UNCHANGED <<write, applied, replay, request, inFlight, sent, current, effects, undone,
                 stuck, raised>>

\* The app is loaded anew and forgets its key, which was in memory only.
Reload ==
  /\ current \in Keys
  /\ sent[current] > 0
  /\ current' = current + 1
  /\ tries' = NoTap
  /\ told' = Untold
  /\ UNCHANGED <<write, applied, replay, request, inFlight, sent, effects, undone, stuck,
                 raised>>

\* An answer to request m reaches the app.  Only the latest attempt of the tap
\* that waits is heard; success drops the cached key.
Answer(m, x) ==
  /\ IF tries # NoTap /\ m.key = current /\ m.n = sent[current]
     THEN /\ tries' = NoTap
          /\ told' = [answer |-> x, key |-> m.key]
          /\ current' = IF x = "ok" THEN current + 1 ELSE current
     ELSE UNCHANGED <<tries, told, current>>
  /\ UNCHANGED sent

-----------------------------------------------------------------------------
(* The server *)

\* Mutant: only a completed row counts, one in progress is taken over.
MayBeginUnlessCompleted(k) == replay[k] # "completed"

\* begin_or_replay may insert a row: there is none, and nobody is inserting one.
MayBegin(k) == replay[k] = "none" /\ \A w \in Workers : ~Serving(w, k)

Begin(w, m) ==
  /\ request[w] = Idle
  /\ MayBegin(m.key)
  /\ inFlight' = inFlight \ {m}
  /\ request' = [request EXCEPT ![w] = [stage |-> "begun", key |-> m.key, n |-> m.n]]
  /\ UNCHANGED <<write, applied, replay, clientVars, effects, undone, stuck, raised>>

\* The key's row is completed: its answer is given again.  Only successes are
\* stored, so the answer is a success.
Replay(m) ==
  /\ replay[m.key] = "completed"
  /\ inFlight' = inFlight \ {m}
  /\ Answer(m, "ok")
  /\ UNCHANGED <<write, applied, replay, request, effects, undone, stuck, raised>>

\* Mutant: a duplicate of a request in progress is answered like the original.
AnswerOfDuplicateOk == "ok"

\* 409 idempotency_in_progress
AnswerOfDuplicate == "busy"

Busy(m) ==
  /\ replay[m.key] = "in_progress"
  /\ inFlight' = inFlight \ {m}
  /\ Answer(m, AnswerOfDuplicate)
  /\ UNCHANGED <<write, applied, replay, request, effects, undone, stuck, raised>>

\* The handler can make its change: accept needs a ride that nobody has, while a
\* ride can be hidden again.
MayApply == write = "hide" \/ ~applied

Apply(k) ==
  /\ MayApply
  /\ applied' = TRUE
  /\ effects' = [effects EXCEPT ![k] = @ + 1]

\* The handler makes the change and commits it, and the key's row with it.
Write(w) ==
  /\ request[w].stage = "begun"
  /\ Apply(request[w].key)
  /\ replay' = [replay EXCEPT ![request[w].key] = "in_progress"]
  /\ request' = [request EXCEPT ![w].stage = "written"]
  /\ UNCHANGED <<write, inFlight, clientVars, undone, stuck, raised>>

\* An accept that reads that the ride is taken commits its log entries, and the key's
\* row with them, before it is refused.
LogRefusal(w) ==
  /\ write = "accept"
  /\ request[w].stage = "begun"
  /\ replay' = [replay EXCEPT ![request[w].key] = "in_progress"]
  /\ request' = [request EXCEPT ![w].stage = "logged"]
  /\ UNCHANGED <<write, applied, inFlight, clientVars, effects, undone, stuck, raised>>

\* claim_ride finds the ride taken after all and rolls back: the uncommitted row goes,
\* and another request with the key may begin.  The log entries come without it.
LoseClaim(w) ==
  /\ write = "accept"
  /\ request[w].stage = "begun"
  /\ request' = [request EXCEPT ![w].stage = "lost"]
  /\ UNCHANGED <<write, applied, replay, inFlight, clientVars, effects, undone, stuck, raised>>

\* Mutant: nothing is deleted.
WithRow(k) == replay

\* abandon_in_progress
WithoutRow(k) == [replay EXCEPT ![k] = "none"]

\* The handler refuses (an HTTPException).  The row is deleted, by its id, so the next
\* request with the key runs the handler again.  A row that was rolled back is not
\* there, and another request's row for the key has another id.
Refuse(w) ==
  /\ request[w].stage \in {"begun", "lost", "logged"}
  /\ replay' = IF request[w].stage = "lost" THEN replay ELSE WithoutRow(request[w].key)
  /\ Answer(request[w], "refused")
  /\ request' = [request EXCEPT ![w] = Idle]
  /\ UNCHANGED <<write, applied, inFlight, effects, undone, stuck, raised>>

\* The handler returned: commit_result stores the answer, which is then sent.
Finish(w) ==
  /\ request[w].stage = "written"
  /\ replay' = [replay EXCEPT ![request[w].key] = "completed"]
  /\ Answer(request[w], "ok")
  /\ request' = [request EXCEPT ![w] = Idle]
  /\ UNCHANGED <<write, applied, inFlight, effects, undone, stuck, raised>>

\* An unexpected error that leaves the session usable.  The row is deleted and the
\* session committed, with what a handler that did not get to its own commit had
\* flushed: the change may have been made.  The answer is a 500, which is not retried.
\* (With a lost claim there is no row and no change: that is as in LoseSession.)
RaiseError(w) ==
  /\ request[w].stage \in {"begun", "written", "logged"}
  /\ \/ request[w].stage = "begun" /\ Apply(request[w].key)
     \/ UNCHANGED <<applied, effects>>
  /\ replay' = WithoutRow(request[w].key)
  /\ raised' = raised \union {request[w].key}
  /\ Answer(request[w], "error")
  /\ request' = [request EXCEPT ![w] = Idle]
  /\ UNCHANGED <<write, inFlight, undone, stuck>>

\* The request of worker w ends without its cleanup.  What was not committed is rolled
\* back; a row that was committed in progress stays.
Break(w) ==
  /\ request[w] # Idle
  /\ stuck' = IF request[w].stage \in {"written", "logged"}
              THEN stuck \union {request[w].key} ELSE stuck
  /\ request' = [request EXCEPT ![w] = Idle]
  /\ UNCHANGED <<write, applied, replay, inFlight, effects, undone, raised>>

\* A flush or a commit fails, of the handler, of commit_result or of a refusal's
\* cleanup.  The session wants a rollback, which execute_idempotent_ride_write does not
\* make: abandon_in_progress raises as well, and get_db closes the session.
LoseSession(w) ==
  /\ Break(w)
  /\ Answer(request[w], "error")

\* The process dies.
Crash(w) ==
  /\ Break(w)
  /\ UNCHANGED clientVars

\* The driver's accepted ride is released (decline-ride), or the hide expires.
Undo ==
  /\ applied
  /\ applied' = FALSE
  /\ undone' = TRUE
  /\ UNCHANGED <<write, replay, request, inFlight, clientVars, effects, stuck, raised>>

-----------------------------------------------------------------------------
ServerStep(w) ==
  \/ \E m \in inFlight : Begin(w, m)
  \/ Write(w)
  \/ LogRefusal(w)
  \/ LoseClaim(w)
  \/ Refuse(w)
  \/ Finish(w)
  \/ RaiseError(w)
  \/ LoseSession(w)
  \/ Crash(w)

Next ==
  \/ Tap
  \/ Resend
  \/ GiveUp
  \/ Reload
  \/ Undo
  \/ \E m \in inFlight : Replay(m) \/ Busy(m)
  \/ \E w \in Workers : ServerStep(w)

Spec == Init /\ [][Next]_vars

-----------------------------------------------------------------------------
(* Properties *)

\* Every variable keeps to its values: the app never uses more keys, and never
\* sends more requests with one key, than the bounds allow.
TypeOK ==
  /\ write \in {"accept", "hide"}
  /\ applied \in BOOLEAN
  /\ replay \in [Keys -> {"none", "in_progress", "completed"}]
  /\ request \in [Workers -> Requests \union {Idle}]
  /\ inFlight \subseteq Messages
  /\ sent \in [Keys -> 0..MaxSends]
  /\ current \in 1..(MaxKeys + 1)
  /\ tries \in 0..Retries \union {NoTap}
  /\ told \in Answers \union {Untold}
  /\ effects \in [Keys -> Nat]
  /\ undone \in BOOLEAN
  /\ stuck \subseteq Keys
  /\ raised \subseteq Keys

\* However often a request is sent, and however late its copies arrive, the
\* handler makes its change at most once under one key - unless it raised an
\* unexpected error: that deletes the key's row whatever the handler had done.
OneEffectPerKey == \A k \in Keys : k \notin raised => effects[k] <= 1

\* A driver is told of a success only if the handler made the change for that
\* key, also when the answer is a stored one.
SuccessIsReal == told.answer = "ok" => effects[told.key] >= 1

\* A row in progress, whose key gets a 409, belongs to a request that is being served,
\* or a crash or a lost session left it: a refusal, and an error that the session
\* survives, never do.  And such a row is left only after a commit of the handler: a
\* hide that is blocked for ever was made.
StuckOnlyByFailure ==
  \A k \in Keys :
    /\ replay[k] = "in_progress" => k \in stuck \/ \E w \in Workers : Serving(w, k)
    /\ k \in stuck => replay[k] = "in_progress" /\ (write = "hide" => effects[k] >= 1)

\* docs/HALFAPP_DRIVER_PRODUCT_COMPLETION_SLICE_03.md:26, "stable key per user
\* intent", and line 14, "double-taps / retries do not corrupt lifecycle": a
\* driver who is told that the tap succeeded has the ride, or has it hidden,
\* unless that was undone after the tap.  The key belongs to the action, not to
\* the intent, and its stored success outlives the change.
SuccessStillHolds == told.answer = "ok" => applied \/ undone
=============================================================================
