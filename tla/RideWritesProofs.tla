-------------------------- MODULE RideWritesProofs --------------------------
(***************************************************************************)
(* Proofs about what the app writes and what it is shown: the idempotent   *)
(* writes of a tap, and hides and claim attempts in the feed of rides.     *)
(***************************************************************************)
EXTENDS IdempotentWrites, RideFeed, CountingLemmas

-----------------------------------------------------------------------------
(***************************************************************************)
(* Idempotent writes (IdempotentWrites), for any number of workers,        *)
(* retries, keys and sends.                                                *)
(*                                                                         *)
(* A server step and the answer that it gives are separate concerns:       *)
(* ServerInv is what holds between the rows and the requests being served, *)
(* AppInv what holds of the app's tap and its answer.                      *)
(***************************************************************************)

\* The types of the server's variables and of the app's.
ServerTypeOK ==
  /\ write \in {"accept", "hide"}
  /\ applied \in BOOLEAN
  /\ replay \in [Keys -> {"none", "in_progress", "completed"}]
  /\ request \in [Workers -> Requests \union {Idle}]
  /\ inFlight \subseteq Messages
  /\ effects \in [Keys -> Nat]
  /\ undone \in BOOLEAN
  /\ stuck \subseteq Keys
  /\ raised \subseteq Keys

AppTypeOK ==
  /\ sent \in [Keys -> 0..MaxSends]
  /\ current \in 1..(MaxKeys + 1)
  /\ tries \in 0..Retries \union {NoTap}
  /\ told \in Answers \union {Untold}

\* A key's row and the change made under it.
RowOK(k) ==
  /\ replay[k] = "completed" => effects[k] >= 1
  /\ k \notin raised => effects[k] <= 1 /\ (effects[k] >= 1 => replay[k] # "none")
  /\ replay[k] = "in_progress" => k \in stuck \/ \E w \in Workers : Serving(w, k)
  /\ k \in stuck => replay[k] = "in_progress" /\ (write = "hide" => effects[k] >= 1)

\* A request with a row and that row; no other request has a row for that key.
RequestOK(w) ==
  request[w] # Idle /\ request[w].stage # "lost" =>
    /\ request[w].stage = "begun" => replay[request[w].key] = "none"
    /\ request[w].stage # "begun" => replay[request[w].key] = "in_progress"
    /\ request[w].stage = "written" => effects[request[w].key] >= 1
    /\ request[w].stage = "logged" =>
         /\ request[w].key \in raised \/ effects[request[w].key] = 0
         /\ write = "accept"
    /\ request[w].key \notin stuck
    /\ \A v \in Workers : Serving(v, request[w].key) => v = w

ServerInv ==
  /\ ServerTypeOK
  /\ \A k \in Keys : RowOK(k)
  /\ \A w \in Workers : RequestOK(w)

\* The tap that waits uses the current key and has its retries left to send.
AppInv ==
  /\ AppTypeOK
  /\ tries # NoTap => current \in Keys /\ sent[current] + Retries <= MaxSends + tries
  /\ SuccessIsReal

IInv == ServerInv /\ AppInv

-----------------------------------------------------------------------------
(* The app *)

\* An answer, whoever gives it, fits the app if a success is about a change made.
LEMMA AnswerOK ==
  ASSUME AppInv, NEW m, m.key \in Keys, NEW x \in {"ok", "busy", "refused", "error"},
         Answer(m, x), \A k \in Keys : effects'[k] \in Nat /\ effects'[k] >= effects[k],
         effects \in [Keys -> Nat], x = "ok" => effects'[m.key] >= 1
  PROVE  AppInv'
<1> USE BoundsAssumption DEF Keys, NoTap, Untold, Answers
<1>1. CASE tries # NoTap /\ m.key = current /\ m.n = sent[current]
  <2>1. tries' = NoTap /\ told' = [answer |-> x, key |-> m.key] /\ sent' = sent
    BY <1>1 DEF Answer
  <2>2. current' \in {current, current + 1} BY <1>1 DEF Answer
  <2>3. current' \in 1..(MaxKeys + 1) BY <1>1, <2>2 DEF AppInv, AppTypeOK
  <2>4. told'.answer = x /\ told'.key = m.key /\ told' \in Answers BY <2>1
  <2> QED BY <2>1, <2>3, <2>4 DEF AppInv, AppTypeOK, SuccessIsReal
<1>2. CASE ~(tries # NoTap /\ m.key = current /\ m.n = sent[current])
  <2>1. UNCHANGED <<tries, told, current, sent>> BY <1>2 DEF Answer
  <2>2. told.answer = "ok" => told.key \in Keys BY DEF AppInv, AppTypeOK
  <2> QED BY <2>1, <2>2 DEF AppInv, AppTypeOK, SuccessIsReal
<1> QED BY <1>1, <1>2

\* A step of the server that answers nobody leaves the app as it fits.
LEMMA AppUnchangedOK ==
  ASSUME AppInv, UNCHANGED clientVars, effects \in [Keys -> Nat],
         \A k \in Keys : effects'[k] \in Nat /\ effects'[k] >= effects[k]
  PROVE  AppInv'
<1>1. told.answer = "ok" => told.key \in Keys BY DEF AppInv, AppTypeOK, Answers, Untold
<1> QED BY <1>1 DEF AppInv, AppTypeOK, SuccessIsReal, clientVars, Keys

\* Sending with the current key keeps within the bound if a send was left.
LEMMA SendOK ==
  ASSUME AppTypeOK, ServerTypeOK, current \in Keys, sent[current] + 1 <= MaxSends,
         Send(current)
  PROVE  /\ sent' \in [Keys -> 0..MaxSends]
         /\ sent'[current] = sent[current] + 1
         /\ inFlight' \subseteq Messages
<1>1. sent[current] + 1 \in 0..MaxSends /\ sent[current] + 1 \in 1..MaxSends
  BY BoundsAssumption DEF AppTypeOK
<1>2. [key |-> current, n |-> sent[current] + 1] \in Messages BY <1>1 DEF Messages
<1> QED BY <1>1, <1>2 DEF Send, AppTypeOK, ServerTypeOK

\* The app's own steps leave rows and requests alone.
LEMMA ServerUnchangedOK ==
  ASSUME ServerInv, UNCHANGED <<write, applied, replay, request, effects, stuck, raised>>,
         inFlight' \subseteq Messages, undone' \in BOOLEAN
  PROVE  ServerInv'
BY DEF ServerInv, ServerTypeOK, RowOK, RequestOK, Serving

\* Tap, Resend, GiveUp and Reload.
LEMMA AppStepOK ==
  ASSUME IInv, Tap \/ Resend \/ GiveUp \/ Reload
  PROVE  IInv'
<1> USE BoundsAssumption DEF IInv
<1>1. CASE Tap
  <2>1. current \in Keys /\ sent[current] + 1 + Retries <= MaxSends BY <1>1 DEF Tap
  <2>2. sent[current] \in Nat BY <2>1 DEF AppInv, AppTypeOK
  <2>3. sent[current] + 1 <= MaxSends BY <2>1, <2>2
  <2>4. /\ sent' \in [Keys -> 0..MaxSends]
        /\ sent'[current] = sent[current] + 1
        /\ inFlight' \subseteq Messages
    BY <1>1, <2>1, <2>3, SendOK DEF Tap, AppInv, ServerInv
  <2>5. ServerInv' BY <1>1, <2>4, ServerUnchangedOK DEF Tap
  <2>6. AppInv' BY <1>1, <2>1, <2>2, <2>4 DEF Tap, AppInv, AppTypeOK, SuccessIsReal, Untold, NoTap
  <2> QED BY <2>5, <2>6
<1>2. CASE Resend
  <2>1. current \in Keys /\ sent[current] + Retries <= MaxSends + tries /\ tries \in 0..Retries
        /\ tries < Retries
    BY <1>2 DEF Resend, MayRetry, AppInv, AppTypeOK
  <2>2. sent[current] \in Nat BY <2>1 DEF AppInv, AppTypeOK
  <2>3. sent[current] + 1 <= MaxSends BY <2>1, <2>2
  <2>4. /\ sent' \in [Keys -> 0..MaxSends]
        /\ sent'[current] = sent[current] + 1
        /\ inFlight' \subseteq Messages
    BY <1>2, <2>1, <2>3, SendOK DEF Resend, AppInv, ServerInv
  <2>5. ServerInv'
    <3>1. undone' \in BOOLEAN BY <1>2 DEF Resend, ServerInv, ServerTypeOK
    <3> QED BY <1>2, <2>4, <3>1, ServerUnchangedOK DEF Resend
  <2>6. AppInv' BY <1>2, <2>1, <2>2, <2>4 DEF Resend, AppInv, AppTypeOK, SuccessIsReal, NoTap
  <2> QED BY <2>5, <2>6
<1>3. CASE GiveUp
  <2>1. current \in Keys BY <1>3 DEF GiveUp, AppInv, NoTap
  <2>2. ServerInv' BY <1>3, ServerUnchangedOK DEF GiveUp, ServerInv, ServerTypeOK
  <2>3. AppInv'
    BY <1>3, <2>1 DEF GiveUp, AppInv, AppTypeOK, SuccessIsReal, NoTap, Answers
  <2> QED BY <2>2, <2>3
<1>4. CASE Reload
  <2>1. ServerInv' BY <1>4, ServerUnchangedOK DEF Reload, ServerInv, ServerTypeOK
  <2>2. AppInv' BY <1>4 DEF Reload, AppInv, AppTypeOK, SuccessIsReal, NoTap, Untold, Keys
  <2> QED BY <2>1, <2>2
<1> QED BY <1>1, <1>2, <1>3, <1>4
-----------------------------------------------------------------------------
(* The server *)

\* What a request r with key k must find once a step has been taken.
Fits(r, k) ==
  /\ r.stage = "begun" => replay'[k] = "none"
  /\ r.stage # "begun" => replay'[k] = "in_progress"
  /\ r.stage = "written" => effects'[k] >= 1
  /\ r.stage = "logged" => (k \in raised' \/ effects'[k] = 0) /\ write' = "accept"
  /\ k \notin stuck'

\* A step of worker w on key k only has to account for that worker and that key.
LEMMA OneKeyStep ==
  ASSUME ServerInv, ServerTypeOK', NEW w \in Workers, NEW k \in Keys,
         NEW r \in Requests \union {Idle},
         r # Idle => r.key = k /\ (r.stage # "lost" => Fits(r, k)),
         request' = [request EXCEPT ![w] = r], write' = write,
         request[w] # Idle => request[w].key = k,
         \A v \in Workers : Serving(v, k) => v = w,
         \A j \in Keys : j # k => /\ replay'[j] = replay[j] /\ effects'[j] = effects[j]
                                  /\ j \in stuck' <=> j \in stuck
                                  /\ j \in raised' <=> j \in raised,
         RowOK(k)'
  PROVE  ServerInv'
<1>1. \A v \in Workers : v # w => request'[v] = request[v] BY DEF ServerInv, ServerTypeOK
<1>2. request'[w] = r BY DEF ServerInv, ServerTypeOK
<1>3. \A v \in Workers : request[v] # Idle => request[v].key \in Keys
  BY DEF ServerInv, ServerTypeOK, Requests
<1>4. \A v \in Workers, j \in Keys : j # k => (Serving(v, j)' <=> Serving(v, j))
  BY <1>1, <1>2 DEF Serving
<1>5. \A v \in Workers : Serving(v, k)' => v = w BY <1>1 DEF Serving
<1>6. ASSUME NEW j \in Keys PROVE RowOK(j)'
  <2>1. CASE j = k BY <2>1
  <2>2. CASE j # k BY <2>2, <1>4 DEF RowOK, ServerInv
  <2> QED BY <2>1, <2>2
<1>7. ASSUME NEW v \in Workers PROVE RequestOK(v)'
  <2>1. CASE v = w BY <2>1, <1>2, <1>5 DEF RequestOK, Fits
  <2>2. CASE v # w
    <3> SUFFICES ASSUME request[v] # Idle, request[v].stage # "lost" PROVE RequestOK(v)'
      BY <1>1, <2>2 DEF RequestOK
    <3> DEFINE j == request[v].key
    <3>1. j \in Keys /\ j # k BY <1>3, <2>2 DEF Serving
    <3>2. RequestOK(v) /\ request'[v] = request[v] BY <1>1, <2>2 DEF ServerInv
    <3>3. /\ replay'[j] = replay[j] /\ effects'[j] = effects[j]
          /\ j \in raised' <=> j \in raised
          /\ j \in stuck' <=> j \in stuck
      BY <3>1
    <3>4. \A u \in Workers : Serving(u, j)' => u = v BY <1>4, <3>1, <3>2 DEF RequestOK
    <3> QED BY <3>2, <3>3, <3>4 DEF RequestOK
  <2> QED BY <2>1, <2>2
<1> QED BY <1>6, <1>7 DEF ServerInv

\* The request that worker w serves with its row, and what is known of its key.
LEMMA ServedKey ==
  ASSUME ServerInv, NEW w \in Workers, request[w] # Idle, request[w].stage # "lost"
  PROVE  /\ request[w] \in Requests
         /\ request[w].key \in Keys
         /\ request[w].stage \in {"begun", "written", "logged"}
         /\ \A v \in Workers : Serving(v, request[w].key) => v = w
         /\ RowOK(request[w].key)
         /\ effects[request[w].key] \in Nat
         /\ request[w].stage = "begun" => replay[request[w].key] = "none"
         /\ request[w].stage # "begun" => replay[request[w].key] = "in_progress"
         /\ request[w].stage = "written" => effects[request[w].key] >= 1
         /\ request[w].stage = "logged" =>
              /\ request[w].key \in raised \/ effects[request[w].key] = 0
              /\ write = "accept"
         /\ request[w].key \notin stuck
BY DEF ServerInv, ServerTypeOK, RequestOK, Requests

\* A worker at some stage serves a request.
LEMMA NotIdle ==
  ASSUME NEW w, request[w].stage \in {"begun", "lost", "written", "logged"}
  PROVE  request[w] # Idle
BY DEF Idle

\* begin_or_replay inserts a row for a key that has none.
LEMMA BeginOK ==
  ASSUME IInv, NEW w \in Workers, NEW m \in inFlight, Begin(w, m)
  PROVE  IInv'
<1> DEFINE r == [stage |-> "begun", key |-> m.key, n |-> m.n]
<1>1. m.key \in Keys /\ m.n \in 1..MaxSends BY DEF IInv, ServerInv, ServerTypeOK, Messages
<1>2. r \in Requests BY <1>1 DEF Requests
<1>3. ServerTypeOK' BY <1>2 DEF Begin, IInv, ServerInv, ServerTypeOK
<1>4. Fits(r, m.key)
  <2>1. m.key \notin stuck BY <1>1 DEF Begin, MayBegin, IInv, ServerInv, RowOK
  <2> QED BY <2>1 DEF Fits, Begin, MayBegin
<1>5. RowOK(m.key)' BY <1>1 DEF Begin, MayBegin, IInv, ServerInv, RowOK
<1>6. ServerInv'
  BY <1>1, <1>2, <1>3, <1>4, <1>5, OneKeyStep DEF Begin, MayBegin, IInv, r
<1>7. AppInv' BY AppUnchangedOK DEF Begin, IInv, ServerInv, ServerTypeOK
<1> QED BY <1>6, <1>7 DEF IInv

\* A duplicate is answered from the row; rows and requests stay as they are.
LEMMA DuplicateOK ==
  ASSUME IInv, NEW m \in inFlight, Replay(m) \/ Busy(m)
  PROVE  IInv'
<1>1. m.key \in Keys /\ effects \in [Keys -> Nat]
  BY DEF IInv, ServerInv, ServerTypeOK, Messages
<1>2. ServerInv'
  BY ServerUnchangedOK DEF Replay, Busy, IInv, ServerInv, ServerTypeOK
<1>3. effects' = effects BY DEF Replay, Busy
<1>4. AppInv'
  <2>1. CASE Replay(m)
    <3>1. effects'[m.key] >= 1 BY <1>1, <1>3, <2>1 DEF Replay, IInv, ServerInv, RowOK
    <3> QED BY <1>1, <1>3, <2>1, <3>1, AnswerOK DEF Replay, IInv
  <2>2. CASE Busy(m) BY <1>1, <1>3, <2>2, AnswerOK DEF Busy, AnswerOfDuplicate, IInv
  <2> QED BY <2>1, <2>2
<1> QED BY <1>2, <1>4 DEF IInv

\* The handler makes its change under a key that had no row.
LEMMA WriteOK ==
  ASSUME IInv, NEW w \in Workers, Write(w)
  PROVE  IInv'
<1>1. request[w] # Idle /\ request[w].stage = "begun" BY NotIdle DEF Write
<1>2. PICK k \in Keys : k = request[w].key BY <1>1, ServedKey DEF IInv
<1>3. PICK r \in Requests : r = [request[w] EXCEPT !.stage = "written"]
  BY <1>1, ServedKey DEF IInv, Requests
<1>4. /\ request[w] \in Requests /\ replay[k] = "none" /\ RowOK(k) /\ effects[k] \in Nat
      /\ \A v \in Workers : Serving(v, k) => v = w
  BY <1>1, <1>2, ServedKey DEF IInv
<1>5. r.key = k /\ r.stage = "written" /\ r # Idle BY <1>2, <1>3, <1>4 DEF Requests, Idle
<1>6. /\ request' = [request EXCEPT ![w] = r]
      /\ effects' = [effects EXCEPT ![k] = effects[k] + 1]
      /\ replay' = [replay EXCEPT ![k] = "in_progress"]
      /\ UNCHANGED <<write, inFlight, clientVars, undone, stuck, raised>>
      /\ applied' = TRUE
  BY <1>2, <1>3 DEF Write, Apply
<1>7. ServerTypeOK' BY <1>4, <1>6 DEF IInv, ServerInv, ServerTypeOK
<1>8. /\ effects'[k] = effects[k] + 1 /\ replay'[k] = "in_progress" /\ request'[w] = r
      /\ \A j \in Keys : j # k => replay'[j] = replay[j] /\ effects'[j] = effects[j]
  BY <1>6 DEF IInv, ServerInv, ServerTypeOK
<1>9. Fits(r, k)
  <2>1. k \notin stuck' BY <1>1, <1>2, <1>6, ServedKey DEF IInv
  <2> QED BY <1>4, <1>5, <1>8, <2>1 DEF Fits
<1>10. RowOK(k)'
  <2>1. Serving(w, k)' BY <1>5, <1>8 DEF Serving
  <2> QED BY <1>4, <1>6, <1>8, <2>1 DEF RowOK
<1>11. ServerInv'
  BY <1>1, <1>2, <1>4, <1>5, <1>6, <1>7, <1>8, <1>9, <1>10, OneKeyStep DEF IInv
<1>12. AppInv'
  <2>1. \A j \in Keys : effects'[j] \in Nat /\ effects'[j] >= effects[j]
    BY <1>4, <1>8 DEF IInv, ServerInv, ServerTypeOK
  <2> QED BY <1>6, <2>1, AppUnchangedOK DEF IInv, ServerInv, ServerTypeOK
<1> QED BY <1>11, <1>12 DEF IInv
\* An accept that comes too late shows its key's row before it is refused.
LEMMA LogRefusalOK ==
  ASSUME IInv, NEW w \in Workers, LogRefusal(w)
  PROVE  IInv'
<1>1. request[w] # Idle /\ request[w].stage = "begun" BY NotIdle DEF LogRefusal
<1>2. PICK k \in Keys : k = request[w].key BY <1>1, ServedKey DEF IInv
<1>3. PICK r \in Requests : r = [request[w] EXCEPT !.stage = "logged"]
  BY <1>1, ServedKey DEF IInv, Requests
<1>4. /\ request[w] \in Requests /\ replay[k] = "none" /\ RowOK(k) /\ effects[k] \in Nat
      /\ \A v \in Workers : Serving(v, k) => v = w
  BY <1>1, <1>2, ServedKey DEF IInv
<1>5. r.key = k /\ r.stage = "logged" /\ r # Idle BY <1>2, <1>3, <1>4 DEF Requests, Idle
<1>6. /\ request' = [request EXCEPT ![w] = r]
      /\ replay' = [replay EXCEPT ![k] = "in_progress"]
      /\ UNCHANGED <<write, applied, inFlight, clientVars, effects, undone, stuck, raised>>
  BY <1>2, <1>3 DEF LogRefusal
<1>7. ServerTypeOK' BY <1>6 DEF IInv, ServerInv, ServerTypeOK
<1>8. /\ replay'[k] = "in_progress" /\ request'[w] = r
      /\ \A j \in Keys : j # k => replay'[j] = replay[j]
  BY <1>6 DEF IInv, ServerInv, ServerTypeOK
<1>9. k \in raised \/ effects[k] = 0 BY <1>4 DEF RowOK
<1>10. Fits(r, k)
  <2>1. k \notin stuck' /\ write' = "accept" BY <1>1, <1>2, <1>6, ServedKey DEF IInv, LogRefusal
  <2> QED BY <1>5, <1>6, <1>8, <1>9, <2>1 DEF Fits
<1>11. RowOK(k)'
  <2>1. Serving(w, k)' BY <1>5, <1>8 DEF Serving
  <2> QED BY <1>4, <1>6, <1>8, <2>1 DEF RowOK
<1>12. ServerInv'
  BY <1>1, <1>2, <1>4, <1>5, <1>6, <1>7, <1>8, <1>10, <1>11, OneKeyStep DEF IInv
<1>13. AppInv' BY <1>6, AppUnchangedOK DEF IInv, ServerInv, ServerTypeOK
<1> QED BY <1>12, <1>13 DEF IInv

\* The rollback of a lost claim takes the row with it: the key has none.
LEMMA LoseClaimOK ==
  ASSUME IInv, NEW w \in Workers, LoseClaim(w)
  PROVE  IInv'
<1>1. request[w] # Idle /\ request[w].stage = "begun" BY NotIdle DEF LoseClaim
<1>2. PICK k \in Keys : k = request[w].key BY <1>1, ServedKey DEF IInv
<1>3. PICK r \in Requests : r = [request[w] EXCEPT !.stage = "lost"]
  BY <1>1, ServedKey DEF IInv, Requests
<1>4. /\ request[w] \in Requests /\ replay[k] = "none" /\ RowOK(k)
      /\ \A v \in Workers : Serving(v, k) => v = w
  BY <1>1, <1>2, ServedKey DEF IInv
<1>5. r.key = k /\ r.stage = "lost" /\ r # Idle BY <1>2, <1>3, <1>4 DEF Requests, Idle
<1>6. /\ request' = [request EXCEPT ![w] = r]
      /\ UNCHANGED <<write, applied, replay, inFlight, clientVars, effects, undone, stuck, raised>>
  BY <1>3 DEF LoseClaim
<1>7. ServerTypeOK' BY <1>6 DEF IInv, ServerInv, ServerTypeOK
<1>8. RowOK(k)' BY <1>4, <1>6 DEF RowOK
<1>9. ServerInv'
  BY <1>1, <1>2, <1>4, <1>5, <1>6, <1>7, <1>8, OneKeyStep DEF IInv
<1>10. AppInv' BY <1>6, AppUnchangedOK DEF IInv, ServerInv, ServerTypeOK
<1> QED BY <1>9, <1>10 DEF IInv

\* A worker that lost its claim has no row: it ends its request without a trace.
LEMMA LostEndsOK ==
  ASSUME ServerInv, NEW w \in Workers, request[w].stage = "lost",
         request' = [request EXCEPT ![w] = Idle],
         UNCHANGED <<write, applied, replay, inFlight, effects, undone, stuck, raised>>
  PROVE  ServerInv'
<1>1. \A v \in Workers : v # w => request'[v] = request[v] BY DEF ServerInv, ServerTypeOK
<1>2. request'[w] = Idle BY DEF ServerInv, ServerTypeOK
<1>3. ServerTypeOK' BY DEF ServerInv, ServerTypeOK
<1>4. \A v \in Workers, k \in Keys : Serving(v, k)' <=> Serving(v, k)
  BY <1>1, <1>2 DEF Serving
<1>5. \A k \in Keys : RowOK(k)' BY <1>4 DEF ServerInv, RowOK
<1>6. ASSUME NEW v \in Workers PROVE RequestOK(v)'
  <2>1. CASE v = w BY <1>2, <2>1 DEF RequestOK
  <2>2. CASE v # w
    <3>1. request[v] # Idle => request[v].key \in Keys
      BY DEF ServerInv, ServerTypeOK, Requests
    <3>2. RequestOK(v) /\ request'[v] = request[v] BY <1>1, <2>2 DEF ServerInv
    <3> QED BY <1>4, <3>1, <3>2 DEF RequestOK
  <2> QED BY <2>1, <2>2
<1> QED BY <1>3, <1>5, <1>6 DEF ServerInv

\* A refusal deletes the row of a key under which nothing was changed.
LEMMA RefuseRowOK ==
  ASSUME IInv, NEW w \in Workers, Refuse(w), request[w].stage # "lost"
  PROVE  IInv'
<1>1. request[w] # Idle /\ request[w].stage \in {"begun", "logged"} BY NotIdle DEF Refuse
<1>2. PICK k \in Keys : k = request[w].key BY <1>1, ServedKey DEF IInv
<1>3. /\ RowOK(k) /\ effects[k] \in Nat /\ \A v \in Workers : Serving(v, k) => v = w
      /\ k \notin stuck
      /\ request[w].stage = "begun" => replay[k] = "none"
      /\ request[w].stage = "logged" => k \in raised \/ effects[k] = 0
  BY <1>1, <1>2, ServedKey DEF IInv
<1>4. /\ request' = [request EXCEPT ![w] = Idle]
      /\ replay' = [replay EXCEPT ![k] = "none"]
      /\ UNCHANGED <<write, applied, inFlight, effects, undone, stuck, raised>>
  BY <1>2 DEF Refuse, WithoutRow
<1>5. ServerTypeOK' BY <1>4 DEF IInv, ServerInv, ServerTypeOK
<1>6. /\ replay'[k] = "none" /\ \A j \in Keys : j # k => replay'[j] = replay[j]
  BY <1>4 DEF IInv, ServerInv, ServerTypeOK
<1>7. k \in raised \/ effects[k] = 0 BY <1>1, <1>3 DEF RowOK
<1>8. RowOK(k)' BY <1>3, <1>4, <1>6, <1>7 DEF RowOK
<1>9. ServerInv' BY <1>1, <1>2, <1>3, <1>4, <1>5, <1>6, <1>8, OneKeyStep DEF IInv
<1>10. AppInv'
  BY <1>1, <1>2, <1>4, AnswerOK DEF Refuse, IInv, ServerInv, ServerTypeOK
<1> QED BY <1>9, <1>10 DEF IInv

\* A refusal, with or without a row.
LEMMA RefuseOK ==
  ASSUME IInv, NEW w \in Workers, Refuse(w)
  PROVE  IInv'
<1>1. CASE request[w].stage # "lost" BY <1>1, RefuseRowOK
<1>2. CASE request[w].stage = "lost"
  <2>1. request[w] # Idle BY <1>2 DEF Idle
  <2>2. request[w].key \in Keys BY <2>1 DEF IInv, ServerInv, ServerTypeOK, Requests
  <2>3. ServerInv' BY <1>2, LostEndsOK DEF Refuse, IInv
  <2>4. AppInv' BY <2>2, AnswerOK DEF Refuse, IInv, ServerInv, ServerTypeOK
  <2> QED BY <2>3, <2>4 DEF IInv
<1> QED BY <1>1, <1>2

\* commit_result completes the row of a key under which the change was made.
LEMMA FinishOK ==
  ASSUME IInv, NEW w \in Workers, Finish(w)
  PROVE  IInv'
<1>1. request[w] # Idle /\ request[w].stage = "written" BY NotIdle DEF Finish
<1>2. PICK k \in Keys : k = request[w].key BY <1>1, ServedKey DEF IInv
<1>3. /\ RowOK(k) /\ effects[k] \in Nat /\ \A v \in Workers : Serving(v, k) => v = w
      /\ k \notin stuck
      /\ effects[k] >= 1
  BY <1>1, <1>2, ServedKey DEF IInv
<1>4. /\ request' = [request EXCEPT ![w] = Idle]
      /\ replay' = [replay EXCEPT ![k] = "completed"]
      /\ UNCHANGED <<write, applied, inFlight, effects, undone, stuck, raised>>
  BY <1>2 DEF Finish
<1>5. ServerTypeOK' BY <1>4 DEF IInv, ServerInv, ServerTypeOK
<1>6. /\ replay'[k] = "completed" /\ \A j \in Keys : j # k => replay'[j] = replay[j]
  BY <1>4 DEF IInv, ServerInv, ServerTypeOK
<1>7. RowOK(k)' BY <1>3, <1>4, <1>6 DEF RowOK
<1>8. ServerInv' BY <1>1, <1>2, <1>3, <1>4, <1>5, <1>6, <1>7, OneKeyStep DEF IInv
<1>9. AppInv'
  BY <1>1, <1>2, <1>3, <1>4, AnswerOK DEF Finish, IInv, ServerInv, ServerTypeOK
<1> QED BY <1>8, <1>9 DEF IInv

\* An unexpected error deletes the row whatever was done; the key is marked.
LEMMA RaiseErrorOK ==
  ASSUME IInv, NEW w \in Workers, RaiseError(w)
  PROVE  IInv'
<1>1. request[w] # Idle /\ request[w].stage # "lost" BY NotIdle DEF RaiseError
<1>2. PICK k \in Keys : k = request[w].key BY <1>1, ServedKey DEF IInv
<1>3. /\ effects[k] \in Nat /\ \A v \in Workers : Serving(v, k) => v = w
      /\ k \notin stuck
  BY <1>1, <1>2, ServedKey DEF IInv
<1>4. /\ request' = [request EXCEPT ![w] = Idle]
      /\ replay' = [replay EXCEPT ![k] = "none"]
      /\ raised' = raised \union {k}
      /\ UNCHANGED <<write, inFlight, undone, stuck>>
  BY <1>2 DEF RaiseError, WithoutRow
<1>5. /\ effects'[k] \in Nat /\ effects'[k] >= effects[k]
      /\ effects' = [effects EXCEPT ![k] = effects'[k]]
  <2>1. effects \in [Keys -> Nat] BY DEF IInv, ServerInv, ServerTypeOK
  <2>2. effects' = effects \/ effects' = [effects EXCEPT ![k] = effects[k] + 1]
    BY <1>2 DEF RaiseError, Apply
  <2> QED BY <1>3, <2>1, <2>2
<1>6. applied' \in BOOLEAN BY DEF RaiseError, Apply, IInv, ServerInv, ServerTypeOK
<1>7. ServerTypeOK' BY <1>4, <1>5, <1>6 DEF IInv, ServerInv, ServerTypeOK
<1>8. /\ replay'[k] = "none"
      /\ \A j \in Keys : j # k => /\ replay'[j] = replay[j] /\ effects'[j] = effects[j]
                                  /\ j \in raised' <=> j \in raised
  BY <1>4, <1>5 DEF IInv, ServerInv, ServerTypeOK
<1>9. RowOK(k)' BY <1>3, <1>4, <1>8 DEF RowOK
<1>10. ServerInv' BY <1>1, <1>2, <1>3, <1>4, <1>7, <1>8, <1>9, OneKeyStep DEF IInv
<1>11. AppInv'
  <2>1. \A j \in Keys : effects'[j] \in Nat /\ effects'[j] >= effects[j]
    BY <1>5, <1>8 DEF IInv, ServerInv, ServerTypeOK
  <2>2. effects \in [Keys -> Nat] BY DEF IInv, ServerInv, ServerTypeOK
  <2> QED BY <1>2, <2>1, <2>2, AnswerOK DEF RaiseError, IInv
<1> QED BY <1>10, <1>11 DEF IInv

\* A request that ends without its cleanup leaves the rows; the key of one in progress
\* is marked.
LEMMA BreakOK ==
  ASSUME IInv, NEW w \in Workers, Break(w)
  PROVE  ServerInv'
<1>1. request[w] # Idle BY DEF Break
<1>2. CASE request[w].stage = "lost"
  <2>1. stuck' = stuck BY <1>2 DEF Break
  <2> QED BY <1>2, <2>1, LostEndsOK DEF Break, IInv
<1>3. CASE request[w].stage # "lost"
  <2>1. PICK k \in Keys : k = request[w].key BY <1>1, <1>3, ServedKey DEF IInv
  <2>2. /\ RowOK(k) /\ \A v \in Workers : Serving(v, k) => v = w
        /\ request[w].stage \in {"begun", "written", "logged"}
        /\ request[w].stage = "begun" => replay[k] = "none"
        /\ request[w].stage # "begun" => replay[k] = "in_progress"
        /\ request[w].stage = "written" => effects[k] >= 1
        /\ request[w].stage = "logged" => write = "accept"
    BY <1>1, <1>3, <2>1, ServedKey DEF IInv
  <2>3. /\ request' = [request EXCEPT ![w] = Idle]
        /\ UNCHANGED <<write, applied, replay, inFlight, effects, undone, raised>>
        /\ \A j \in Keys : j # k => (j \in stuck' <=> j \in stuck)
        /\ stuck' \subseteq Keys /\ stuck \subseteq stuck'
        /\ request[w].stage # "begun" => k \in stuck'
        /\ request[w].stage = "begun" => stuck' = stuck
    BY <2>1, <2>2 DEF Break, IInv, ServerInv, ServerTypeOK
  <2>4. ServerTypeOK' BY <2>3 DEF IInv, ServerInv, ServerTypeOK
  <2>5. RowOK(k)'
    <3>1. replay[k] = "in_progress" => k \in stuck' BY <2>2, <2>3
    <3>2. k \in stuck' => replay[k] = "in_progress" /\ (write = "hide" => effects[k] >= 1)
      BY <2>2, <2>3 DEF RowOK
    <3> QED BY <2>2, <2>3, <3>1, <3>2 DEF RowOK
  <2> QED BY <1>1, <2>1, <2>2, <2>3, <2>4, <2>5, OneKeyStep DEF IInv
<1> QED BY <1>2, <1>3

\* A lost session or a crash: the row stays as it is, and an error is never a success.
LEMMA FailureOK ==
  ASSUME IInv, NEW w \in Workers, LoseSession(w) \/ Crash(w)
  PROVE  IInv'
<1>1. Break(w) BY DEF LoseSession, Crash
<1>2. ServerInv' BY <1>1, BreakOK
<1>3. request[w] # Idle /\ effects' = effects BY <1>1 DEF Break
<1>4. request[w].key \in Keys BY <1>3 DEF IInv, ServerInv, ServerTypeOK, Requests
<1>5. AppInv'
  <2>1. CASE LoseSession(w)
    BY <1>3, <1>4, <2>1, AnswerOK DEF LoseSession, IInv, ServerInv, ServerTypeOK
  <2>2. CASE Crash(w)
    BY <1>3, <2>2, AppUnchangedOK DEF Crash, IInv, ServerInv, ServerTypeOK
  <2> QED BY <2>1, <2>2
<1> QED BY <1>2, <1>5 DEF IInv

\* Undoing the change touches neither rows nor requests.
LEMMA UndoOK ==
  ASSUME IInv, Undo
  PROVE  IInv'
<1>1. ServerInv'
  <2>1. ServerTypeOK' BY DEF Undo, IInv, ServerInv, ServerTypeOK
  <2>2. \A w \in Workers, k \in Keys : Serving(w, k)' <=> Serving(w, k) BY DEF Undo, Serving
  <2>3. \A k \in Keys : RowOK(k)' BY <2>2 DEF Undo, IInv, ServerInv, RowOK
  <2>4. \A w \in Workers : RequestOK(w)' BY DEF Undo, IInv, ServerInv, RequestOK, Serving
  <2> QED BY <2>1, <2>3, <2>4 DEF ServerInv
<1>2. AppInv' BY AppUnchangedOK DEF Undo, IInv, ServerInv, ServerTypeOK
<1> QED BY <1>1, <1>2 DEF IInv

-----------------------------------------------------------------------------
(* Theorems *)

\* Before the first tap there are no rows, requests or answers.
LEMMA InitOK == Init => IInv
<1> SUFFICES ASSUME Init PROVE IInv OBVIOUS
<1>1. ServerTypeOK BY DEF Init, ServerTypeOK
<1>2. \A k \in Keys : RowOK(k) BY DEF Init, RowOK
<1>3. \A w \in Workers : RequestOK(w) BY DEF Init, RequestOK
<1>4. AppInv
  BY BoundsAssumption
  DEF Init, AppInv, AppTypeOK, SuccessIsReal, Untold, NoTap
<1> QED BY <1>1, <1>2, <1>3, <1>4 DEF IInv, ServerInv

\* The invariant says what TypeOK and the three safety properties say.
LEMMA InvariantImplies ==
  IInv => TypeOK /\ OneEffectPerKey /\ SuccessIsReal /\ StuckOnlyByFailure
BY DEF IInv, ServerInv, AppInv, ServerTypeOK, AppTypeOK, RowOK, TypeOK, OneEffectPerKey,
       StuckOnlyByFailure

\* The rows, the requests in flight and the app's tap fit together in every
\* state of driver_idempotency.py and its client.
THEOREM IdempotencyInvariant == Spec => []IInv
<1>1. IInv /\ [Next]_vars => IInv'
  <2> SUFFICES ASSUME IInv, [Next]_vars PROVE IInv' OBVIOUS
  <2>1. CASE Tap \/ Resend \/ GiveUp \/ Reload BY <2>1, AppStepOK
  <2>2. CASE Undo BY <2>2, UndoOK
  <2>3. ASSUME NEW m \in inFlight, Replay(m) \/ Busy(m) PROVE IInv' BY <2>3, DuplicateOK
  <2>4. ASSUME NEW w \in Workers, ServerStep(w) PROVE IInv'
    BY <2>4, BeginOK, WriteOK, LogRefusalOK, LoseClaimOK, RefuseOK, FinishOK, RaiseErrorOK,
       FailureOK
    DEF ServerStep
  <2>5. CASE UNCHANGED vars
    BY <2>5
    DEF vars, IInv, ServerInv, AppInv, ServerTypeOK, AppTypeOK, RowOK, RequestOK, Serving,
        SuccessIsReal
  <2> QED BY <2>1, <2>2, <2>3, <2>4, <2>5 DEF Next
<1> QED BY <1>1, InitOK, PTL DEF Spec

\* Every variable keeps to its values, so the bounds on keys and sends are the
\* app's own behaviour and cut nothing off in the middle of a tap.
THEOREM IdempotencyTypeCorrect == Spec => []TypeOK
BY IdempotencyInvariant, InvariantImplies, PTL

\* execute_idempotent_ride_write makes its change at most once per key, unless
\* the handler raised an unexpected error.
THEOREM EffectOncePerKey == Spec => []OneEffectPerKey
BY IdempotencyInvariant, InvariantImplies, PTL

\* No answer, fresh or stored, tells the app of a change that was never made.
THEOREM SuccessesAreReal == Spec => []SuccessIsReal
BY IdempotencyInvariant, InvariantImplies, PTL

\* Only a crash or a lost session leaves a row in progress that nobody works on, and
\* only after the handler had committed.
THEOREM RowsAreReleased == Spec => []StuckOnlyByFailure
BY IdempotencyInvariant, InvariantImplies, PTL

-----------------------------------------------------------------------------
(***************************************************************************)
(* Hides and claims (RideFeed), for any number of drivers, requests and    *)
(* attempts.                                                               *)
(*                                                                         *)
(* A hide holds because no request in flight can undo it: a poll writes    *)
(* over a row only when it loaded one that it means to change, and the     *)
(* hides that crossed such a poll are the exception the property names. A  *)
(* claim that read who has the ride may commit later: the driver it names  *)
(* has a success on record, and holds the ride as long as it was not       *)
(* released, so that this success is then the last.                        *)
(***************************************************************************)

(* The feed: rows and hides *)

\* A visibility row, the requests in flight, and what they loaded.
IsRow(x) ==
  \/ x = NoRow
  \/ /\ x = [status |-> x.status, expires |-> x.expires]
     /\ x.status \in {"visible", "hidden_by_driver"} /\ x.expires \in Nat

IsCall(q) ==
  \/ q = AtRest
  \/ /\ q.driver \in FeedDrivers
     /\ \/ q = [op |-> q.op, driver |-> q.driver] /\ q.op \in {"listed", "claim", "missed"}
        \/ q = [op |-> "loaded", driver |-> q.driver, loaded |-> q.loaded] /\ IsRow(q.loaded)
        \/ /\ q = [op |-> "hide", driver |-> q.driver, loaded |-> q.loaded, until |-> q.until,
                   crossed |-> q.crossed]
           /\ IsRow(q.loaded) /\ q.until \in Nat \ {0}
        \/ /\ q = [op |-> q.op, driver |-> q.driver, against |-> q.against, stale |-> q.stale]
           /\ q.op \in {"late", "beaten"} /\ q.against \in FeedDrivers \union {NobodyYet}

\* A poll that will write over the row of driver d: see PollMayUndo.
Undoes(q, d) ==
  /\ q.op \in {"listed", "loaded"} /\ q.driver = d
  /\ q.op = "loaded" => q.loaded \notin {NoRow, VisibleRow}

\* A row that a request read is still there, and a hide that read a hidden row and was not
\* crossed by a poll still finds it hidden.
StillThere(q) ==
  /\ q.op \in {"loaded", "hide"} /\ q.loaded # NoRow => visibility[q.driver] # NoRow
  /\ q.op = "hide" /\ ~q.crossed /\ q.loaded.status = "hidden_by_driver" =>
       visibility[q.driver].status = "hidden_by_driver"

\* The row of a driver whose last hide crossed no poll: the hide is there while it is
\* promised, with no poll in flight to undo it, and no other expiry is.
AsPromised(d) ==
  /\ promised[d] > moment =>
       visibility[d] = HiddenRow(promised[d]) /\ \A w \in FeedWorkers : ~Undoes(calls[w], d)
  /\ visibility[d].status = "hidden_by_driver" => visibility[d].expires \in {NoExpiry, promised[d]}

HideInv ==
  /\ moment \in Nat
  /\ DOMAIN visibility = FeedDrivers /\ DOMAIN promised = FeedDrivers /\ DOMAIN calls = FeedWorkers
  /\ \A d \in FeedDrivers : IsRow(visibility[d]) /\ promised[d] \in Nat
  /\ \A w \in FeedWorkers : IsCall(calls[w]) /\ StillThere(calls[w])
  /\ \A d \in FeedDrivers \ crossing : AsPromised(d)

\* A request that moves on and writes no row keeps this, unless it becomes a poll that
\* undoes a hide in force.
LEMMA MoveKeepsHides ==
  ASSUME HideInv, NEW w \in FeedWorkers, NEW next, Serve(w, next), UNCHANGED <<moment, rowVars>>,
         IsCall(next), StillThere(next),
         \A d \in FeedDrivers \ crossing : Undoes(next, d) => Undoes(calls[w], d) \/ promised[d] <= moment
  PROVE  HideInv'
<1>1. /\ DOMAIN calls' = FeedWorkers
      /\ \A v \in FeedWorkers : calls'[v] = IF v = w THEN next ELSE calls[v]
BY DEF HideInv, Serve
<1>2. UNCHANGED <<moment, visibility, promised, crossing>> BY DEF rowVars
<1>3. \A v \in FeedWorkers : IsCall(calls'[v]) /\ StillThere(calls[v])'
BY <1>1, <1>2 DEF HideInv, StillThere
<1>4. ASSUME NEW d \in FeedDrivers \ crossing PROVE AsPromised(d)'
  <2>1. AsPromised(d) /\ promised[d] \in Nat /\ moment \in Nat BY DEF HideInv
  <2>2. promised[d] > moment => \A v \in FeedWorkers : ~Undoes(calls'[v], d)
  BY <1>1, <2>1 DEF AsPromised
  <2> QED BY <1>2, <2>1, <2>2 DEF AsPromised, Undoes, HiddenRow
<1> QED BY <1>1, <1>2, <1>3, <1>4 DEF HideInv, IsCall, IsRow

\* Polls and hides up to their commit, and claims, write no row.
LEMMA MoveSteps ==
  ASSUME HideInv, NEW w \in FeedWorkers, assigned \in FeedDrivers \union {NobodyYet},
         \/ \E d \in FeedDrivers :
              BeginPollFeed(w, d) \/ BeginHideFeed(w, d) \/ ClaimTooLate(w, d) \/ BeginClaim(w, d)
         \/ LoadRow(w) \/ RefusePollFeed(w) \/ RefuseHideFeed(w)
         \/ WinClaim(w) \/ MissClaim(w) \/ ReadMiss(w) \/ RecordMiss(w)
  PROVE  HideInv'
<1>1. IsCall(calls[w]) /\ moment \in Nat BY DEF HideInv
<1>2. IsCall(AtRest) /\ StillThere(AtRest) /\ \A d : ~Undoes(AtRest, d)
BY DEF IsCall, StillThere, AtRest, Undoes
<1>3. ASSUME NEW d \in FeedDrivers, BeginPollFeed(w, d) PROVE HideInv'
  <2>1. PICK next : next = [op |-> "listed", driver |-> d] OBVIOUS
  <2>2. Serve(w, next) /\ UNCHANGED <<moment, rowVars>> BY <1>3, <2>1 DEF BeginPollFeed
  <2>3. IsCall(next) /\ StillThere(next) BY <2>1 DEF IsCall, StillThere
  <2>4. d \notin crossing => promised[d] <= moment
    <3>1. ~ActiveHidden(d) /\ IsRow(visibility[d]) /\ promised[d] \in Nat BY <1>3 DEF BeginPollFeed, Listed, HideInv
    <3>2. d \notin crossing /\ promised[d] > moment => visibility[d] = HiddenRow(promised[d])
    BY DEF HideInv, AsPromised
    <3> QED BY <1>1, <3>1, <3>2 DEF ActiveHidden, HiddenRow
  <2>5. \A e : Undoes(next, e) => e = d BY <2>1 DEF Undoes
  <2> QED BY <2>2, <2>3, <2>4, <2>5, MoveKeepsHides
<1>4. ASSUME NEW d \in FeedDrivers, BeginHideFeed(w, d) PROVE HideInv'
  <2>1. PICK next : next = [op |-> "hide", driver |-> d, loaded |-> visibility[d],
                            until |-> moment + HideTTL, crossed |-> FALSE] OBVIOUS
  <2>2. Serve(w, next) /\ UNCHANGED <<moment, rowVars>> BY <1>4, <2>1 DEF BeginHideFeed
  <2>3. IsRow(visibility[d]) /\ moment + HideTTL \in Nat \ {0} BY <1>1, FeedAssumption DEF HideInv
  <2>4. IsCall(next) /\ StillThere(next) BY <2>1, <2>3 DEF IsCall, StillThere
  <2>5. \A e : ~Undoes(next, e) BY <2>1 DEF Undoes
  <2> QED BY <2>2, <2>4, <2>5, MoveKeepsHides
<1>5. CASE LoadRow(w)
  <2>1. PICK d : d = calls[w].driver OBVIOUS
  <2>2. d \in FeedDrivers /\ calls[w].op = "listed" BY <1>1, <1>5, <2>1 DEF LoadRow, IsCall, AtRest
  <2>3. PICK next : next = [op |-> "loaded", driver |-> d, loaded |-> visibility[d]] OBVIOUS
  <2>4. Serve(w, next) /\ UNCHANGED <<moment, rowVars>> BY <1>5, <2>1, <2>3 DEF LoadRow
  <2>5. IsRow(visibility[d]) BY <2>2 DEF HideInv
  <2>6. IsCall(next) /\ StillThere(next) BY <2>2, <2>3, <2>5 DEF IsCall, StillThere
  <2>7. \A e : Undoes(next, e) => Undoes(calls[w], e) BY <2>1, <2>2, <2>3 DEF Undoes
  <2> QED BY <2>4, <2>6, <2>7, MoveKeepsHides
<1>6. CASE RefusePollFeed(w) \/ RefuseHideFeed(w) \/ WinClaim(w) \/ RecordMiss(w)
  <2>1. Serve(w, AtRest) /\ UNCHANGED <<moment, rowVars>>
  BY <1>6 DEF RefusePollFeed, RefuseHideFeed, WinClaim, RecordMiss
  <2> QED BY <1>2, <2>1, MoveKeepsHides
<1>7. ASSUME NEW d \in FeedDrivers, NEW op \in {"claim", "missed"}, Serve(w, [op |-> op, driver |-> d]),
             UNCHANGED <<moment, rowVars>>
      PROVE  HideInv'
  <2>1. PICK next : next = [op |-> op, driver |-> d] OBVIOUS
  <2>2. IsCall(next) /\ StillThere(next) /\ \A e : ~Undoes(next, e) BY <2>1 DEF IsCall, StillThere, Undoes
  <2> QED BY <1>7, <2>1, <2>2, MoveKeepsHides
<1>8. ASSUME NEW d \in FeedDrivers, BeginClaim(w, d) PROVE HideInv'
BY <1>7, <1>8 DEF BeginClaim
<1>9. CASE MissClaim(w)
  <2>1. PICK q : q = calls[w] OBVIOUS
  <2>2. q.op = "claim" /\ Serve(w, [q EXCEPT !.op = "missed"]) /\ UNCHANGED <<moment, rowVars>>
  BY <1>9, <2>1 DEF MissClaim
  <2>3. q = [op |-> "claim", driver |-> q.driver] /\ q.driver \in FeedDrivers
  BY <1>1, <2>1, <2>2 DEF IsCall, AtRest
  <2>4. [q EXCEPT !.op = "missed"] = [op |-> "missed", driver |-> q.driver] BY <2>3
  <2> QED BY <1>7, <2>2, <2>3, <2>4
<1>10. ASSUME NEW d \in FeedDrivers, NEW op \in {"late", "beaten"}, Serve(w, Told(op, d)),
              UNCHANGED <<moment, rowVars>>
       PROVE  HideInv'
  <2>1. PICK next : next = Told(op, d) OBVIOUS
  <2>2. IsCall(next) /\ StillThere(next) /\ \A e : ~Undoes(next, e)
  BY <2>1 DEF Told, IsCall, StillThere, Undoes
  <2> QED BY <1>10, <2>1, <2>2, MoveKeepsHides
<1>11. ASSUME NEW d \in FeedDrivers, ClaimTooLate(w, d) PROVE HideInv'
BY <1>10, <1>11 DEF ClaimTooLate
<1>12. CASE ReadMiss(w)
  <2>1. calls[w].driver \in FeedDrivers BY <1>1, <1>12 DEF ReadMiss, IsCall, AtRest
  <2> QED BY <1>10, <1>12, <2>1 DEF ReadMiss
<1> QED BY <1>3, <1>4, <1>5, <1>6, <1>8, <1>9, <1>11, <1>12

\* A poll that loaded a row writes over it only what that row says: nothing when it was
\* visible, and never an expiry.
LEMMA PollWrites ==
  ASSUME NEW now, NEW before, IsRow(now), IsRow(before), before = NoRow <=> now = NoRow,
         NEW written, written = WriteColumns(now, before, VisibleRow)
  PROVE  /\ IsRow(written) /\ written # NoRow
         /\ written.status = "hidden_by_driver" =>
              now.status = "hidden_by_driver" /\ written.expires \in {NoExpiry, now.expires}
         /\ before = VisibleRow => written = now
<1>1. CASE before = NoRow
BY <1>1 DEF WriteColumns, IsRow, VisibleRow, NoRow, NoExpiry
<1>2. CASE before # NoRow
  <2>1. DOMAIN VisibleRow = {"status", "expires"} BY DEF VisibleRow
  <2>2. written = [c \in {"status", "expires"} |->
                     IF VisibleRow[c] # before[c] \/ (c = "expires" /\ VisibleRow[c] # NoExpiry)
                     THEN VisibleRow[c] ELSE now[c]]
  BY <1>2, <2>1 DEF WriteColumns
  <2>3. written = [status |-> IF before.status # "visible" THEN "visible" ELSE now.status,
                   expires |-> IF before.expires # NoExpiry THEN NoExpiry ELSE now.expires]
  BY <2>2 DEF VisibleRow
  <2>4. now = [status |-> now.status, expires |-> now.expires] BY <1>2 DEF IsRow
  <2> QED BY <1>2, <2>3, <2>4 DEF IsRow, VisibleRow, NoRow, NoExpiry
<1> QED BY <1>1, <1>2

\* A hide writes its expiry always, and its status unless it read that: a row it read as
\* hidden, and that still is, becomes what it meant.
LEMMA HideWrites ==
  ASSUME NEW now, NEW before, IsRow(now), IsRow(before), before = NoRow <=> now = NoRow,
         NEW until \in Nat \ {0}, NEW written, written = WriteColumns(now, before, HiddenRow(until))
  PROVE  /\ IsRow(written) /\ written # NoRow
         /\ now.status = "hidden_by_driver" => written.status = "hidden_by_driver"
         /\ (before.status = "hidden_by_driver" => now.status = "hidden_by_driver")
              => written = HiddenRow(until)
<1>1. CASE before = NoRow
BY <1>1 DEF WriteColumns, IsRow, HiddenRow, NoRow
<1>2. CASE before # NoRow
  <2>1. PICK after : after = HiddenRow(until) OBVIOUS
  <2>2. DOMAIN after = {"status", "expires"} /\ after.status = "hidden_by_driver" /\ after.expires = until
  BY <2>1 DEF HiddenRow
  <2>3. written = [c \in {"status", "expires"} |->
                     IF after[c] # before[c] \/ (c = "expires" /\ after[c] # NoExpiry)
                     THEN after[c] ELSE now[c]]
  BY <1>2, <2>1, <2>2 DEF WriteColumns
  <2>4. written = [status |-> IF before.status # "hidden_by_driver" THEN "hidden_by_driver" ELSE now.status,
                   expires |-> until]
  BY <2>2, <2>3 DEF NoExpiry
  <2>5. now = [status |-> now.status, expires |-> now.expires] /\ now.status \in {"visible", "hidden_by_driver"}
  BY <1>2 DEF IsRow
  <2> QED BY <1>2, <2>4, <2>5 DEF IsRow, HiddenRow, NoRow
<1> QED BY <1>1, <1>2

\* A poll that commits undoes no hide that is promised: it would count as crossing it.
LEMMA PollCommits ==
  ASSUME HideInv, NEW w \in FeedWorkers, CommitPollFeed(w)
  PROVE  HideInv'
<1>1. PICK q, d : q = calls[w] /\ d = q.driver OBVIOUS
<1>2. /\ q.op = "loaded" /\ d \in FeedDrivers /\ IsRow(q.loaded) /\ IsRow(visibility[d])
      /\ q.loaded = NoRow <=> visibility[d] = NoRow
  <2>1. IsCall(q) /\ StillThere(q) /\ q.op = "loaded" BY <1>1 DEF HideInv, CommitPollFeed
  <2>2. d \in FeedDrivers /\ IsRow(q.loaded) BY <1>1, <2>1 DEF IsCall, AtRest
  <2> QED BY <1>1, <2>1, <2>2 DEF HideInv, StillThere, CommitPollFeed, Refused
<1>3. PICK written : written = WriteColumns(visibility[d], q.loaded, VisibleRow) OBVIOUS
<1>4. /\ visibility' = [visibility EXCEPT ![d] = written]
      /\ calls' = IF written # visibility[d] THEN MarkCrossed(w, d) ELSE [calls EXCEPT ![w] = AtRest]
      /\ UNCHANGED <<moment, promised, crossing>>
BY <1>1, <1>3 DEF CommitPollFeed
<1>5. /\ IsRow(written) /\ written # NoRow
      /\ written.status = "hidden_by_driver" =>
           visibility[d].status = "hidden_by_driver" /\ written.expires \in {NoExpiry, visibility[d].expires}
      /\ q.loaded = VisibleRow => written = visibility[d]
  <2>1. PICK now, before : now = visibility[d] /\ before = q.loaded OBVIOUS
  <2> QED BY <1>2, <1>3, <2>1, PollWrites
<1>6. /\ DOMAIN visibility' = FeedDrivers /\ DOMAIN calls' = FeedWorkers
      /\ \A e \in FeedDrivers : visibility'[e] = IF e = d THEN written ELSE visibility[e]
BY <1>2, <1>4 DEF HideInv, MarkCrossed
<1>7. ASSUME NEW v \in FeedWorkers
      PROVE  /\ IsCall(calls'[v]) /\ StillThere(calls[v])'
             /\ \A e : Undoes(calls'[v], e) => Undoes(calls[v], e)
  <2>1. PICK p : p = calls[v] OBVIOUS
  <2>2. IsCall(p) /\ StillThere(p) BY <2>1 DEF HideInv
  <2>3. CASE v = w
    <3>1. calls'[v] = AtRest BY <1>4, <2>3 DEF MarkCrossed, HideInv
    <3> QED BY <3>1 DEF IsCall, StillThere, AtRest, Undoes
  <2>4. CASE v # w /\ p.op = "hide" /\ p.driver = d /\ written # visibility[d]
    <3>1. calls'[v] = [p EXCEPT !.crossed = TRUE] BY <1>4, <2>1, <2>4 DEF MarkCrossed
    <3>2. PICK loaded, until, crossed :
            /\ p = [op |-> "hide", driver |-> d, loaded |-> loaded, until |-> until, crossed |-> crossed]
            /\ IsRow(loaded) /\ until \in Nat \ {0} /\ (loaded # NoRow => visibility[d] # NoRow)
    BY <2>2, <2>4 DEF IsCall, AtRest, StillThere
    <3>3. calls'[v] = [op |-> "hide", driver |-> d, loaded |-> loaded, until |-> until, crossed |-> TRUE]
    BY <3>1, <3>2
    <3> QED BY <3>3,  <1>2, <1>5, <1>6, <3>2 DEF IsCall, StillThere, Undoes
  <2>5. CASE v # w /\ ~(p.op = "hide" /\ p.driver = d /\ written # visibility[d])
    <3>1. calls'[v] = p BY <1>4, <2>1, <2>5 DEF MarkCrossed, HideInv
    <3>2. p = AtRest \/ p.driver \in FeedDrivers BY <2>2 DEF IsCall
    <3>3. StillThere(p)' BY <1>5, <1>6, <2>2, <2>5, <3>2 DEF StillThere, AtRest
    <3> QED BY <2>1, <2>2, <3>1, <3>3 DEF StillThere
  <2> QED BY <2>3, <2>4, <2>5
<1>8. ASSUME NEW e \in FeedDrivers \ crossing PROVE AsPromised(e)'
  <2>1. AsPromised(e) BY DEF HideInv
  <2>2. CASE e # d BY <1>4, <1>6, <1>7, <2>1, <2>2 DEF AsPromised, HiddenRow
  <2>3. CASE e = d
    <3>1. promised[d] > moment => written = visibility[d]
      <4>1. promised[d] > moment => ~Undoes(q, d) /\ visibility[d] # NoRow
      BY <1>1, <2>1, <2>3 DEF AsPromised, HiddenRow, NoRow
      <4> QED BY <1>1, <1>2, <1>5, <4>1 DEF Undoes
    <3> QED BY <1>4, <1>5, <1>6, <1>7, <2>1, <2>3, <3>1 DEF AsPromised, HiddenRow, NoExpiry
  <2> QED BY <2>2, <2>3
<1>9. \A e \in FeedDrivers : IsRow(visibility'[e]) BY <1>5, <1>6 DEF HideInv
<1> QED BY <1>4, <1>6, <1>7, <1>8, <1>9 DEF HideInv, IsRow, IsCall

\* A hide that commits without crossing a poll is what its driver is promised.
LEMMA HideCommits ==
  ASSUME HideInv, NEW w \in FeedWorkers, CommitHideFeed(w)
  PROVE  HideInv'
<1>1. PICK q, d : q = calls[w] /\ d = q.driver OBVIOUS
<1>2. /\ q.op = "hide" /\ d \in FeedDrivers /\ IsRow(q.loaded) /\ IsRow(visibility[d])
      /\ q.until \in Nat \ {0} /\ StillThere(q)
      /\ q.loaded = NoRow <=> visibility[d] = NoRow
  <2>1. IsCall(q) /\ StillThere(q) /\ q.op = "hide" BY <1>1 DEF HideInv, CommitHideFeed
  <2>2. d \in FeedDrivers /\ IsRow(q.loaded) /\ q.until \in Nat \ {0} BY <1>1, <2>1 DEF IsCall, AtRest
  <2> QED BY <1>1, <2>1, <2>2 DEF HideInv, StillThere, CommitHideFeed, Refused
<1>3. PICK written : written = WriteColumns(visibility[d], q.loaded, HiddenRow(q.until)) OBVIOUS
<1>4. /\ visibility' = [visibility EXCEPT ![d] = written]
      /\ promised' = [promised EXCEPT ![d] = q.until]
      /\ crossing' = IF PollMayUndo(d) \/ q.crossed THEN crossing \union {d} ELSE crossing \ {d}
      /\ calls' = [calls EXCEPT ![w] = AtRest] /\ UNCHANGED moment
  <2>1. visibility' = [visibility EXCEPT ![d] = WriteColumns(@, q.loaded, HiddenRow(q.until))]
  BY <1>1 DEF CommitHideFeed
  <2>2. visibility' = [visibility EXCEPT ![d] = written] BY <1>3, <2>1
  <2> QED BY <1>1, <2>2 DEF CommitHideFeed, Serve
<1>5. /\ IsRow(written) /\ written # NoRow
      /\ visibility[d].status = "hidden_by_driver" => written.status = "hidden_by_driver"
      /\ (q.loaded.status = "hidden_by_driver" => visibility[d].status = "hidden_by_driver")
           => written = HiddenRow(q.until)
  <2>1. PICK now, before, until : now = visibility[d] /\ before = q.loaded /\ until = q.until OBVIOUS
  <2>2. /\ IsRow(now) /\ IsRow(before) /\ (before = NoRow <=> now = NoRow) /\ until \in Nat \ {0}
        /\ written = WriteColumns(now, before, HiddenRow(until))
  BY <1>2, <1>3, <2>1
  <2>3. /\ IsRow(written) /\ written # NoRow
        /\ now.status = "hidden_by_driver" => written.status = "hidden_by_driver"
        /\ (before.status = "hidden_by_driver" => now.status = "hidden_by_driver")
             => written = HiddenRow(until)
  BY <2>2, HideWrites
  <2> QED BY <2>1, <2>3
<1>6. /\ DOMAIN visibility' = FeedDrivers /\ DOMAIN calls' = FeedWorkers /\ DOMAIN promised' = FeedDrivers
      /\ \A e \in FeedDrivers : visibility'[e] = IF e = d THEN written ELSE visibility[e]
      /\ \A e \in FeedDrivers : promised'[e] = IF e = d THEN q.until ELSE promised[e]
      /\ \A v \in FeedWorkers : calls'[v] = IF v = w THEN AtRest ELSE calls[v]
BY <1>2, <1>4 DEF HideInv
<1>7. ASSUME NEW v \in FeedWorkers
      PROVE  /\ IsCall(calls'[v]) /\ StillThere(calls[v])'
             /\ \A e : Undoes(calls'[v], e) => Undoes(calls[v], e)
  <2>1. CASE v = w BY <1>6, <2>1 DEF IsCall, StillThere, AtRest, Undoes
  <2>2. CASE v # w
    <3>1. PICK p : p = calls[v] OBVIOUS
    <3>2. IsCall(p) /\ StillThere(p) /\ calls'[v] = p BY <1>6, <2>2, <3>1 DEF HideInv
    <3>3. p = AtRest \/ p.driver \in FeedDrivers BY <3>2 DEF IsCall
    <3>4. StillThere(p)' BY <1>5, <1>6, <3>2, <3>3 DEF StillThere, AtRest
    <3> QED BY <3>1, <3>2, <3>4 DEF StillThere
  <2> QED BY <2>1, <2>2
<1>8. ASSUME NEW e \in FeedDrivers, e \notin crossing' PROVE AsPromised(e)'
  <2>1. CASE e # d
    <3>1. AsPromised(e) BY <1>4, <1>8, <2>1 DEF HideInv
    <3> QED BY <1>4, <1>6, <1>7, <2>1, <3>1 DEF AsPromised, HiddenRow
  <2>2. CASE e = d
    <3>1. ~PollMayUndo(d) /\ ~q.crossed BY <1>4, <1>8, <2>2
    <3>2. written = HiddenRow(q.until) BY <1>1, <1>2, <1>5, <3>1 DEF StillThere
    <3>3. \A v \in FeedWorkers : ~Undoes(calls[v], d) BY <3>1 DEF PollMayUndo, Undoes
    <3> QED BY <1>2, <1>4, <1>6, <1>7, <2>2, <3>2, <3>3 DEF AsPromised, HiddenRow
  <2> QED BY <2>1, <2>2
<1>9. \A e \in FeedDrivers : IsRow(visibility'[e]) /\ promised'[e] \in Nat BY <1>2, <1>5, <1>6 DEF HideInv
<1> QED BY <1>4, <1>6, <1>7, <1>8, <1>9 DEF HideInv, IsRow, IsCall

-----------------------------------------------------------------------------
(* The feed: claims *)

AttemptSet ==
  [driver : FeedDrivers, outcome : {"won", "conflict", "unavailable"},
   against : FeedDrivers \union {NobodyYet}]

\* The last success on record is the holder's, every other one was released, and a
\* conflict names a driver with a success before it, the last one unless it is outdated.
HolderWon == assigned # NobodyYet => Wins # {} /\ attempts[Max(Wins)].driver = assigned

WinsCounted ==
  IsFiniteSet(Wins) /\ Cardinality(Wins) = releases + (IF assigned # NobodyYet THEN 1 ELSE 0)

ConflictFits(i) ==
  attempts[i].outcome = "conflict" =>
    LET before == {j \in Wins : j < i}
        named  == {j \in before : attempts[j].driver = attempts[i].against}
    IN  named # {} /\ (i \notin outdated => Max(before) \in named)

ClaimsInv ==
  /\ attempts \in Seq(AttemptSet) /\ releases \in Nat
  /\ assigned \in FeedDrivers \union {NobodyYet} /\ (state = "accepted" => assigned # NobodyYet)
  /\ HolderWon /\ WinsCounted
  /\ \A i \in DOMAIN attempts : ConflictFits(i)

\* A claim that is about to name a driver: that driver has won, and has the ride unless
\* the claim is stale.
Names(q) == q.op \in {"late", "beaten"} /\ q.against # NobodyYet

ToldFits(q) ==
  Names(q) =>
    /\ \E j \in Wins : attempts[j].driver = q.against
    /\ ~q.stale => assigned = q.against

ToldInv == \A w \in FeedWorkers : ToldFits(calls[w])

\* What one more attempt on record changes: the successes, if it is one.
LEMMA OneMoreAttempt ==
  ASSUME ClaimsInv, NEW a \in AttemptSet, Record(a)
  PROVE  /\ attempts' \in Seq(AttemptSet) /\ Len(attempts) \in Nat
         /\ DOMAIN attempts = 1..Len(attempts) /\ DOMAIN attempts' = 1..(Len(attempts) + 1)
         /\ attempts'[Len(attempts) + 1] = a
         /\ \A i \in 1..Len(attempts) : attempts'[i] = attempts[i]
         /\ Wins \in SUBSET (1..Len(attempts))
         /\ Wins' = IF a.outcome = "won" THEN Wins \union {Len(attempts) + 1} ELSE Wins
<1>1. attempts \in Seq(AttemptSet) /\ attempts' = Append(attempts, a) BY DEF ClaimsInv, Record
<1>2. /\ attempts' \in Seq(AttemptSet) /\ Len(attempts) \in Nat
      /\ DOMAIN attempts = 1..Len(attempts) /\ DOMAIN attempts' = 1..(Len(attempts) + 1)
      /\ attempts'[Len(attempts) + 1] = a
      /\ \A i \in 1..Len(attempts) : attempts'[i] = attempts[i]
BY <1>1
<1>3. Wins \in SUBSET (1..Len(attempts)) BY <1>2 DEF Wins
<1>4. Wins' = IF a.outcome = "won" THEN Wins \union {Len(attempts) + 1} ELSE Wins BY <1>2 DEF Wins
<1> QED BY <1>2, <1>3, <1>4

\* Earlier conflicts keep the success before them.
LEMMA ConflictsKeep ==
  ASSUME ClaimsInv, NEW a \in AttemptSet, Record(a), NEW i \in DOMAIN attempts,
         outdated \subseteq outdated'
  PROVE  ConflictFits(i)'
<1>1. ConflictFits(i) BY DEF ClaimsInv
<1>2. PICK before : before = {j \in Wins : j < i} OBVIOUS
<1>3. i \in 1..Len(attempts) /\ Len(attempts) \in Nat /\ attempts'[i] = attempts[i]
      /\ \A j \in 1..Len(attempts) : attempts'[j] = attempts[j]
BY OneMoreAttempt
<1>4. {j \in Wins' : j < i} = before BY <1>2, <1>3, OneMoreAttempt
<1>5. before \in SUBSET (1..Len(attempts)) BY <1>2, OneMoreAttempt
<1>6. PICK named : named = {j \in before : attempts[j].driver = attempts[i].against} OBVIOUS
<1>7. {j \in before : attempts'[j].driver = attempts'[i].against} = named
BY <1>3, <1>5, <1>6
<1> QED BY <1>1, <1>2, <1>3, <1>4, <1>6, <1>7 DEF ConflictFits

\* A conflict is recorded against a driver with a success, the holder's unless it is
\* outdated, and that is the last.
LEMMA ConflictRecorded ==
  ASSUME ClaimsInv, NEW d \in FeedDrivers, NEW outcome \in {"conflict", "unavailable"},
         NEW who \in FeedDrivers \union {NobodyYet},
         outcome = "conflict" => \E j \in Wins : attempts[j].driver = who,
         outcome = "conflict" /\ Len(attempts) + 1 \notin outdated' =>
           assigned # NobodyYet /\ assigned = who,
         Record(Attempt(d, outcome, who)), UNCHANGED <<state, assigned, releases>>,
         outdated \subseteq outdated'
  PROVE  ClaimsInv'
<1>1. PICK a : a = Attempt(d, outcome, who) OBVIOUS
<1>2. a \in AttemptSet /\ a.outcome = outcome /\ a.against = who /\ Record(a)
BY <1>1 DEF Attempt, AttemptSet, ClaimsInv
<1>3. PICK n : n = Len(attempts) OBVIOUS
<1>4. /\ attempts' \in Seq(AttemptSet) /\ n \in Nat
      /\ DOMAIN attempts = 1..n /\ DOMAIN attempts' = 1..(n + 1)
      /\ attempts'[n + 1] = a /\ \A i \in 1..n : attempts'[i] = attempts[i]
      /\ Wins \in SUBSET (1..n) /\ Wins' = Wins
BY <1>2, <1>3, OneMoreAttempt
<1>5. Wins # {} => Max(Wins) \in Wins /\ attempts'[Max(Wins)] = attempts[Max(Wins)]
BY <1>4, MaxIndex
<1>6. HolderWon' /\ WinsCounted' BY <1>4, <1>5 DEF ClaimsInv, HolderWon, WinsCounted
<1>7. ConflictFits(n + 1)'
  <2>1. PICK S \in SUBSET (1..n) : S = Wins BY <1>4
  <2>2. ASSUME NEW j \in 1..n PROVE j < n + 1 BY <1>4
  <2>3. {j \in Wins' : j < n + 1} = Wins BY <1>4, <2>1, <2>2
  <2>4. PICK named : named = {j \in Wins : attempts'[j].driver = who} OBVIOUS
  <2>5. outcome = "conflict" => named # {} BY <1>4, <2>4
  <2>6. outcome = "conflict" /\ n + 1 \notin outdated' => Max(Wins) \in named
  BY <1>3, <1>5, <2>4 DEF ClaimsInv, HolderWon
  <2> QED BY <1>2, <1>4, <2>3, <2>4, <2>5, <2>6 DEF ConflictFits
<1>8. \A i \in 1..n : ConflictFits(i)' BY <1>2, <1>4, ConflictsKeep
<1>9. \A i \in DOMAIN attempts' : ConflictFits(i)'
  <2>1. \A i \in 1..(n + 1) : i \in 1..n \/ i = n + 1 BY <1>4
  <2> QED BY <1>4, <1>7, <1>8, <2>1
<1> QED BY <1>4, <1>6, <1>9 DEF ClaimsInv, ConflictFits, Wins

\* A claim that wins is the last success on record, one more than were released.
LEMMA WinRecorded ==
  ASSUME ClaimsInv, NEW d \in FeedDrivers, Open, Record(Attempt(d, "won", NobodyYet)),
         assigned' = d, UNCHANGED <<releases, outdated>>
  PROVE  ClaimsInv'
<1>1. PICK a : a = Attempt(d, "won", NobodyYet) OBVIOUS
<1>2. a \in AttemptSet /\ a.outcome = "won" /\ a.driver = d /\ Record(a) BY <1>1 DEF Attempt, AttemptSet
<1>3. PICK n : n = Len(attempts) OBVIOUS
<1>4. /\ attempts' \in Seq(AttemptSet) /\ n \in Nat
      /\ DOMAIN attempts = 1..n /\ DOMAIN attempts' = 1..(n + 1)
      /\ attempts'[n + 1] = a /\ \A i \in 1..n : attempts'[i] = attempts[i]
      /\ Wins \in SUBSET (1..n) /\ Wins' = Wins \union {n + 1}
BY <1>2, <1>3, OneMoreAttempt
<1>5. Max(Wins') = n + 1
  <2>1. PICK S, T : S = Wins' /\ T = Wins OBVIOUS
  <2>0. n \in Nat /\ T \in SUBSET (1..n) /\ S = T \union {n + 1} BY <1>4, <2>1
  <2>2. S \in SUBSET (1..(n + 1)) /\ n + 1 \in S /\ n + 1 \in Nat /\ \A j \in S : j <= n + 1
  BY <2>0
  <2>3. S # {} BY <2>2
  <2>4. Max(S) = n + 1 BY <2>2, <2>3, MaxIndex
  <2> QED BY <2>1, <2>4
<1>6. assigned = NobodyYet /\ assigned' # NobodyYet BY FeedAssumption DEF Open
<1>7. HolderWon' BY <1>2, <1>4, <1>5 DEF HolderWon
<1>8. WinsCounted'
  <2>1. IsFiniteSet(Wins) /\ Cardinality(Wins) = releases /\ releases \in Nat BY <1>6 DEF ClaimsInv, WinsCounted
  <2>2. n + 1 \notin Wins BY <1>4
  <2>3. IsFiniteSet(Wins') /\ Cardinality(Wins') = releases + 1 BY <1>4, <2>1, <2>2, FS_AddElement
  <2> QED BY <1>6, <2>3 DEF WinsCounted
<1>9. ConflictFits(n + 1)' BY <1>2, <1>4 DEF ConflictFits
<1>10. \A i \in 1..n : ConflictFits(i)' BY <1>2, <1>4, ConflictsKeep
<1>11. \A i \in DOMAIN attempts' : ConflictFits(i)'
  <2>1. \A i \in 1..(n + 1) : i \in 1..n \/ i = n + 1 BY <1>4
  <2> QED BY <1>4, <1>9, <1>10, <2>1
<1> QED BY <1>4, <1>6, <1>7, <1>8, <1>11 DEF ClaimsInv, ConflictFits, Wins

\* Polls and hides record no claim.
LEMMA ClaimsStay ==
  ASSUME ClaimsInv, UNCHANGED rideVarsOfFeed
  PROVE  ClaimsInv'
BY DEF ClaimsInv, rideVarsOfFeed, HolderWon, WinsCounted, ConflictFits, Wins

\* A request that moves on, to nothing that names a driver or to one that has the ride,
\* leaves the claims in flight as they fit.
LEMMA ToldStays ==
  ASSUME ToldInv, UNCHANGED assigned,
         \A j \in Wins : j \in Wins' /\ attempts'[j] = attempts[j],
         \A v \in FeedWorkers :
           calls'[v] = calls[v] \/ ~Names(calls'[v]) \/ ToldFits(calls[v])'
  PROVE  ToldInv'
<1>1. ASSUME NEW v \in FeedWorkers PROVE ToldFits(calls[v])'
  <2>1. CASE calls'[v] = calls[v] BY <2>1 DEF ToldInv, ToldFits, Names
  <2>2. CASE ~Names(calls'[v]) BY <2>2 DEF ToldFits, Names
  <2> QED BY <2>1, <2>2
<1> QED BY <1>1 DEF ToldInv

\* Whoever has the ride is named rightly.
LEMMA ToldOfHolder ==
  ASSUME ClaimsInv, NEW op, NEW d, UNCHANGED rideVarsOfFeed, NEW next, next = Told(op, d)
  PROVE  ToldFits(next)'
<1>1. next.against = assigned BY DEF Told
<1>2. assigned # NobodyYet => Max(Wins) \in Wins
  <2>1. PICK n : n = Len(attempts) OBVIOUS
  <2>2. n \in Nat /\ Wins \in SUBSET (1..n) BY <2>1 DEF ClaimsInv, Wins
  <2> QED BY <2>2, MaxIndex DEF ClaimsInv, HolderWon
<1>3. UNCHANGED <<assigned, attempts>> BY DEF rideVarsOfFeed
<1> QED BY <1>1, <1>2, <1>3 DEF ToldFits, Names, ClaimsInv, HolderWon, Wins

FeedInv == HideInv /\ ClaimsInv /\ ToldInv

\* Every step of a request keeps the three.
LEMMA FeedRequestSteps ==
  ASSUME FeedInv, NEW w \in FeedWorkers,
         \/ \E d \in FeedDrivers :
              BeginPollFeed(w, d) \/ BeginHideFeed(w, d) \/ ClaimTooLate(w, d) \/ BeginClaim(w, d)
         \/ LoadRow(w) \/ CommitPollFeed(w) \/ RefusePollFeed(w)
         \/ CommitHideFeed(w) \/ RefuseHideFeed(w)
         \/ WinClaim(w) \/ MissClaim(w) \/ ReadMiss(w) \/ RecordMiss(w)
  PROVE  FeedInv'
<1> USE DEF FeedInv
<1>1. IsCall(calls[w]) /\ assigned \in FeedDrivers \union {NobodyYet} /\ DOMAIN calls = FeedWorkers
BY DEF HideInv, ClaimsInv
<1>2. ASSUME NEW next, Serve(w, next), UNCHANGED rideVarsOfFeed, ~Names(next) \/ ToldFits(next)'
      PROVE  ToldInv'
  <2>1. \A v \in FeedWorkers : calls'[v] = IF v = w THEN next ELSE calls[v] BY <1>1, <1>2 DEF Serve
  <2>2. \A v \in FeedWorkers :
          calls'[v] = calls[v] \/ ~Names(calls'[v]) \/ ToldFits(calls[v])'
  BY <1>2, <2>1 DEF ToldFits, Names
  <2>3. \A j \in Wins : j \in Wins' /\ attempts'[j] = attempts[j] BY <1>2 DEF rideVarsOfFeed, Wins
  <2> QED BY <1>2, <2>2, <2>3, ToldStays DEF rideVarsOfFeed
<1>3. ASSUME NEW d \in FeedDrivers, BeginPollFeed(w, d) \/ BeginHideFeed(w, d) \/ BeginClaim(w, d)
      PROVE  FeedInv'
  <2>1. UNCHANGED rideVarsOfFeed BY <1>3 DEF BeginPollFeed, BeginHideFeed, BeginClaim
  <2>2. PICK next : Serve(w, next) /\ next.op \in {"listed", "hide", "claim"}
  BY <1>3 DEF BeginPollFeed, BeginHideFeed, BeginClaim
  <2>3. ToldInv' BY <1>2, <2>1, <2>2 DEF Names
  <2> QED BY <1>1, <1>3, <2>1, <2>3, MoveSteps, ClaimsStay
<1>4. ASSUME NEW d \in FeedDrivers, ClaimTooLate(w, d) PROVE FeedInv'
  <2>1. PICK next : next = Told("late", d) OBVIOUS
  <2>2. Serve(w, next) /\ UNCHANGED rideVarsOfFeed BY <1>4, <2>1 DEF ClaimTooLate
  <2>3. ToldFits(next)' BY <2>1, <2>2, ToldOfHolder
  <2>4. ToldInv' BY <1>2, <2>2, <2>3
  <2> QED BY <1>1, <1>4, <2>2, <2>4, MoveSteps, ClaimsStay
<1>5. CASE LoadRow(w) \/ RefusePollFeed(w) \/ RefuseHideFeed(w) \/ MissClaim(w)
  <2>1. UNCHANGED rideVarsOfFeed
  BY <1>5 DEF LoadRow, RefusePollFeed, RefuseHideFeed, MissClaim
  <2>2. PICK next : Serve(w, next) /\ ~Names(next)
    <3>1. CASE LoadRow(w) BY <3>1 DEF LoadRow, Names
    <3>2. CASE RefusePollFeed(w) \/ RefuseHideFeed(w)
    BY <3>2 DEF RefusePollFeed, RefuseHideFeed, Names, AtRest
    <3>3. CASE MissClaim(w)
      <4>1. calls[w] = [op |-> "claim", driver |-> calls[w].driver]
      BY <1>1, <3>3 DEF MissClaim, IsCall, AtRest
      <4>2. [calls[w] EXCEPT !.op = "missed"].op = "missed" BY <4>1
      <4> QED BY <3>3, <4>2 DEF MissClaim, Names
    <3> QED BY <1>5, <3>1, <3>2, <3>3
  <2>3. ToldInv' BY <1>2, <2>1, <2>2
  <2> QED BY <1>1, <1>5, <2>1, <2>3, MoveSteps, ClaimsStay
<1>6. CASE ReadMiss(w)
  <2>1. PICK d : d = calls[w].driver OBVIOUS
  <2>2. PICK next : next = Told("beaten", d) OBVIOUS
  <2>3. Serve(w, next) /\ UNCHANGED rideVarsOfFeed BY <1>6, <2>1, <2>2 DEF ReadMiss
  <2>4. ToldFits(next)' BY <2>2, <2>3, ToldOfHolder
  <2>5. ToldInv' BY <1>2, <2>3, <2>4
  <2> QED BY <1>1, <1>6, <2>3, <2>5, MoveSteps, ClaimsStay
<1>7. CASE CommitPollFeed(w) \/ CommitHideFeed(w)
  <2>1. UNCHANGED rideVarsOfFeed BY <1>7 DEF CommitPollFeed, CommitHideFeed
  <2>2. \A v \in FeedWorkers : calls'[v] = calls[v] \/ ~Names(calls'[v])
    <3>1. ASSUME NEW v \in FeedWorkers,
                 \/ calls' = [calls EXCEPT ![w] = AtRest]
                 \/ calls' = MarkCrossed(w, calls[w].driver)
          PROVE  calls'[v] = calls[v] \/ ~Names(calls'[v])
      <4>1. PICK q : q = calls[v] /\ IsCall(q) BY DEF HideInv
      <4>2. ~Names(AtRest) BY DEF Names, AtRest
      <4>3. q.op = "hide" => [q EXCEPT !.crossed = TRUE].op = "hide" BY <4>1 DEF IsCall, AtRest
      <4>4. q.op = "hide" => ~Names([q EXCEPT !.crossed = TRUE]) BY <4>3 DEF Names
      <4> QED BY <1>1, <3>1, <4>1, <4>2, <4>4 DEF MarkCrossed
    <3>2. calls' = [calls EXCEPT ![w] = AtRest] \/ calls' = MarkCrossed(w, calls[w].driver)
    BY <1>7 DEF CommitPollFeed, CommitHideFeed, Serve
    <3> QED BY <3>1, <3>2
  <2>3. ToldInv' BY <2>1, <2>2, ToldStays DEF rideVarsOfFeed, Wins
  <2> QED BY <1>7, <2>1, <2>3, PollCommits, HideCommits, ClaimsStay
<1>8. CASE WinClaim(w)
  <2>1. /\ Open /\ assigned' = calls[w].driver /\ Record(Attempt(calls[w].driver, "won", NobodyYet))
        /\ UNCHANGED <<releases, outdated>> /\ calls[w].driver \in FeedDrivers /\ Serve(w, AtRest)
  BY <1>1, <1>8 DEF WinClaim, StillFree, IsCall, AtRest
  <2>2. Attempt(calls[w].driver, "won", NobodyYet) \in AttemptSet BY <2>1 DEF Attempt, AttemptSet
  <2>3. \A j \in Wins : j \in Wins' /\ attempts'[j] = attempts[j]
  BY <2>1, <2>2, OneMoreAttempt DEF Attempt
  <2>4. \A v \in FeedWorkers : calls'[v] = calls[v] \/ calls'[v] = AtRest BY <1>1, <2>1 DEF Serve
  <2>5. assigned = NobodyYet BY <2>1 DEF Open
  <2>6. ToldInv' BY <2>3, <2>4, <2>5 DEF ToldInv, ToldFits, Names, AtRest
  <2> QED BY <1>1, <1>8, <2>1, <2>6, MoveSteps, WinRecorded
<1>9. CASE RecordMiss(w)
  <2>1. PICK q : q = calls[w] OBVIOUS
  <2>2. /\ q.op \in {"late", "beaten"} /\ q.driver \in FeedDrivers
        /\ q.against \in FeedDrivers \union {NobodyYet} /\ ToldFits(q)
  BY <1>1, <1>9, <2>1 DEF RecordMiss, IsCall, AtRest, ToldInv
  <2>3. PICK outcome \in {"conflict", "unavailable"} :
          /\ outcome = "conflict" => q.against # NobodyYet
          /\ Record(Attempt(q.driver, outcome, q.against))
  BY <1>9, <2>1 DEF RecordMiss, AttemptOf
  <2>4. /\ UNCHANGED <<state, assigned, releases>> /\ outdated \subseteq outdated'
        /\ q.stale => Len(attempts) + 1 \in outdated'
        /\ Serve(w, AtRest)
  BY <1>9, <2>1 DEF RecordMiss
  <2>5. ClaimsInv' BY <2>2, <2>3, <2>4, ConflictRecorded DEF ToldFits, Names
  <2>6. Attempt(q.driver, outcome, q.against) \in AttemptSet BY <2>2 DEF Attempt, AttemptSet
  <2>7. \A j \in Wins : j \in Wins' /\ attempts'[j] = attempts[j]
  BY <2>3, <2>6, OneMoreAttempt DEF Attempt
  <2>8. \A v \in FeedWorkers : calls'[v] = calls[v] \/ calls'[v] = AtRest BY <1>1, <2>4 DEF Serve
  <2>9. ToldInv' BY <2>4, <2>7, <2>8, ToldStays DEF Names, AtRest
  <2> QED BY <1>1, <1>9, <2>5, <2>9, MoveSteps
<1> QED BY <1>3, <1>4, <1>5, <1>6, <1>7, <1>8, <1>9

\* A release makes the claims stale that name the holder, and writes no row.
LEMMA ReleaseSteps ==
  ASSUME FeedInv, ReleaseClaim
  PROVE  FeedInv'
<1> USE DEF FeedInv
<1>1. /\ assigned # NobodyYet /\ assigned' = NobodyYet /\ state' = "requested"
      /\ releases' = releases + 1 /\ UNCHANGED <<attempts, outdated, moment, rowVars>>
      /\ calls' = MarkStale
BY DEF ReleaseClaim, ClaimsInv
<1>2. ClaimsInv'
  <2>1. WinsCounted' /\ HolderWon' BY <1>1 DEF ClaimsInv, WinsCounted, HolderWon, Wins
  <2>2. \A i \in DOMAIN attempts' : ConflictFits(i)' BY <1>1 DEF ClaimsInv, ConflictFits, Wins
  <2> QED BY <1>1, <2>1, <2>2 DEF ClaimsInv
<1>3. ASSUME NEW v \in FeedWorkers
      PROVE  /\ IsCall(calls'[v]) /\ StillThere(calls'[v]) /\ ToldFits(calls[v])'
             /\ \A e : Undoes(calls'[v], e) => Undoes(calls[v], e)
  <2>1. PICK q : q = calls[v] /\ IsCall(q) /\ StillThere(q) /\ ToldFits(q) BY DEF HideInv, ToldInv
  <2>2. CASE Names(q)
    <3>1. calls'[v] = [q EXCEPT !.stale = TRUE] BY <1>1, <2>1, <2>2 DEF MarkStale, Names
    <3>2. /\ q = [op |-> q.op, driver |-> q.driver, against |-> q.against, stale |-> q.stale]
          /\ q.driver \in FeedDrivers /\ q.op \in {"late", "beaten"}
          /\ q.against \in FeedDrivers \union {NobodyYet}
    BY <2>1, <2>2 DEF IsCall, Names, AtRest
    <3>3. PICK r : r = [op |-> q.op, driver |-> q.driver, against |-> q.against, stale |-> TRUE]
    OBVIOUS
    <3>4. calls'[v] = r BY <3>1, <3>2, <3>3
    <3>5. IsCall(r) /\ StillThere(r) /\ \A e : ~Undoes(r, e)
    BY <3>2, <3>3 DEF IsCall, StillThere, Undoes
    <3>6. \E j \in Wins : attempts[j].driver = r.against BY <2>1, <2>2, <3>3 DEF ToldFits
    <3>7. ToldFits(calls[v])' BY <1>1, <3>3, <3>4, <3>6 DEF ToldFits, Wins
    <3> QED BY <3>4, <3>5, <3>7
  <2>3. CASE ~Names(q)
    <3>1. calls'[v] = q BY <1>1, <2>1, <2>3 DEF MarkStale, Names
    <3>2. ToldFits(calls[v])' BY <2>3, <3>1 DEF ToldFits, Names
    <3> QED BY <2>1, <3>1, <3>2
  <2> QED BY <2>2, <2>3
<1>4. DOMAIN calls' = FeedWorkers /\ UNCHANGED <<visibility, promised, crossing>>
BY <1>1 DEF MarkStale, rowVars
<1>5. \A d \in FeedDrivers \ crossing : AsPromised(d)'
BY <1>1, <1>3, <1>4 DEF HideInv, AsPromised, HiddenRow
<1>6. HideInv' BY <1>1, <1>3, <1>4, <1>5 DEF HideInv, IsRow, IsCall, StillThere
<1> QED BY <1>2, <1>3, <1>6 DEF ToldInv

\* A ride that ends, and time, leave the requests and their rows alone.
LEMMA FeedOtherSteps ==
  ASSUME FeedInv, EndRide \/ FeedTick \/ UNCHANGED feedVars
  PROVE  FeedInv'
<1> USE DEF FeedInv
<1>1. UNCHANGED <<calls, attempts, assigned, releases, outdated, visibility, promised, crossing>>
BY DEF EndRide, FeedTick, feedVars, rideVarsOfFeed, rowVars
<1>2. ToldInv' BY <1>1 DEF ToldInv, ToldFits, Names, Wins
<1>3. ClaimsInv'
  <2>1. state' = "accepted" => state = "accepted" BY DEF EndRide, FeedTick, feedVars, rideVarsOfFeed
  <2>2. HolderWon' /\ WinsCounted' BY <1>1 DEF ClaimsInv, HolderWon, WinsCounted, Wins
  <2>3. \A i \in DOMAIN attempts' : ConflictFits(i)' BY <1>1 DEF ClaimsInv, ConflictFits, Wins
  <2> QED BY <1>1, <2>1, <2>2, <2>3 DEF ClaimsInv
<1>4. HideInv'
  <2>1. moment \in Nat /\ moment' \in {moment, moment + 1}
  BY DEF EndRide, FeedTick, feedVars, HideInv
  <2>2. \A d \in FeedDrivers \ crossing : AsPromised(d)'
  BY <1>1, <2>1 DEF HideInv, AsPromised, Undoes, HiddenRow
  <2> QED BY <1>1, <2>1, <2>2 DEF HideInv, IsRow, IsCall, StillThere
<1> QED BY <1>2, <1>3, <1>4

\* Every reachable state of the feed satisfies the invariant.
THEOREM FeedInvariant == FeedSpec => []FeedInv
<1>1. FeedInit => FeedInv
  <2> SUFFICES ASSUME FeedInit PROVE FeedInv OBVIOUS
  <2>1. HideInv BY DEF FeedInit, HideInv, IsRow, IsCall, StillThere, AsPromised, AtRest, NoRow
  <2>2. Wins = {} /\ attempts = <<>> BY DEF FeedInit, Wins
  <2>3. HolderWon /\ WinsCounted BY <2>2, FS_EmptySet DEF FeedInit, HolderWon, WinsCounted
  <2>4. attempts \in Seq(AttemptSet) /\ DOMAIN attempts = {} BY <2>2
  <2>5. ToldInv BY DEF FeedInit, ToldInv, ToldFits, Names, AtRest
  <2> QED BY <2>1, <2>3, <2>4, <2>5 DEF FeedInit, FeedInv, ClaimsInv
<1>2. FeedInv /\ [FeedNext]_feedVars => FeedInv'
  BY FeedRequestSteps, ReleaseSteps, FeedOtherSteps DEF FeedNext
<1> QED BY <1>1, <1>2, PTL DEF FeedSpec

\* A hide that crossed no poll keeps the ride off its driver's list until it runs out, and
\* no longer, with any number of drivers and requests.
THEOREM HidesHold == FeedSpec => []HideHolds
<1>1. FeedInv => HideHolds
  <2> SUFFICES ASSUME FeedInv, NEW d \in FeedDrivers \ crossing, Open
               PROVE  Listed(d) <=> promised[d] <= moment
  BY DEF HideHolds
  <2>1. /\ moment \in Nat /\ promised[d] \in Nat /\ AsPromised(d) BY DEF FeedInv, HideInv
  <2>2. CASE promised[d] > moment
    <3>1. visibility[d] = HiddenRow(promised[d]) BY <2>1, <2>2 DEF AsPromised
    <3> QED BY <2>1, <2>2, <3>1 DEF Listed, ActiveHidden, HiddenRow
  <2>3. CASE promised[d] <= moment
  BY <2>1, <2>3 DEF AsPromised, Listed, ActiveHidden, NoExpiry
  <2> QED BY <2>1, <2>2, <2>3
<1> QED BY <1>1, FeedInvariant, PTL

\* What the transparency view tells each driver agrees with the ride's history: who won,
\* who lost to a driver that had the ride, and whether it is still to be had.
THEOREM TransparencyHolds == FeedSpec => []TransparencyFits
<1>1. FeedInv => TransparencyFits
  <2> SUFFICES ASSUME FeedInv PROVE TransparencyFits OBVIOUS
  <2>1. PICK n : n = Len(attempts) OBVIOUS
  <2>2. n \in Nat /\ DOMAIN attempts = 1..n /\ Wins \in SUBSET (1..n)
  BY <2>1 DEF FeedInv, ClaimsInv, Wins
  <2>3. ASSUME assigned # NobodyYet, releases = 0
        PROVE  \E i : Wins = {i} /\ attempts[i].driver = assigned
    <3>0. IsFiniteSet(Wins) /\ Cardinality(Wins) = 1 BY <2>3 DEF FeedInv, ClaimsInv, WinsCounted
    <3>1. PICK i : Wins = {i}
      <4>1. PICK S : S = Wins OBVIOUS
      <4> QED BY <3>0, <4>1, FS_Singleton
    <3>2. Max(Wins) \in Wins BY <2>2, <3>1, MaxIndex
    <3> QED BY <2>3, <3>1, <3>2 DEF FeedInv, ClaimsInv, HolderWon
  <2>4. assigned # NobodyYet /\ releases = 0 => Winner = assigned
    <3>1. Wins # {} => Min(Wins) \in Wins BY <2>2, MinIndex
    <3> QED BY <2>3, <3>1 DEF Winner
  <2>5. ASSUME NEW d \in FeedDrivers, View(d).result = "won", assigned # d PROVE releases > 0
    <3>1. AttemptsOf(d) # {} /\ Max(AttemptsOf(d)) \in Wins BY <2>5 DEF View, LastResult
    <3>2. AttemptsOf(d) \in SUBSET (1..n) BY <2>2 DEF AttemptsOf
    <3>3. Max(AttemptsOf(d)) \in AttemptsOf(d) BY <2>2, <3>1, <3>2, MaxIndex
    <3>4. PICK m \in Wins : attempts[m].driver = d BY <3>1, <3>3 DEF AttemptsOf
    <3>5. SUFFICES ASSUME releases = 0 PROVE FALSE BY DEF FeedInv, ClaimsInv
    <3>6. assigned = NobodyYet BY <2>3, <2>5, <3>4, <3>5
    <3>7. Wins = {} BY <3>5, <3>6, FS_EmptySet DEF FeedInv, ClaimsInv, WinsCounted
    <3> QED BY <3>4, <3>7
  <2>6. ASSUME NEW d \in FeedDrivers, View(d).claimable PROVE Listed(d)
  BY <2>6 DEF View, Listed, ActiveHidden
  <2>7. /\ assigned # NobodyYet => Wins # {} /\ attempts[Max(Wins)].driver = assigned
        /\ Cardinality(Wins) = releases + (IF assigned # NobodyYet THEN 1 ELSE 0)
        /\ \A i \in DOMAIN attempts : ConflictFits(i)
  BY DEF FeedInv, ClaimsInv, HolderWon, WinsCounted
  <2> QED BY <2>4, <2>5, <2>6, <2>7 DEF TransparencyFits, ConflictFits
<1> QED BY <1>1, FeedInvariant, PTL
=============================================================================
