--------------------------- MODULE DriversProofs ----------------------------
(***************************************************************************)
(* Proofs about a driver's account, presence and view of the city: tokens  *)
(* and their revocation, the state the driver asked for, and the facts     *)
(* behind what the maps show.                                              *)
(***************************************************************************)
EXTENDS Accounts, Presence, CityCells, WellFoundedInduction, TLAPS

-----------------------------------------------------------------------------
(***************************************************************************)
(* Proofs about Accounts for any number of workers, tokens, resets and     *)
(* revocations: a refresh or reset token is spent once unless two requests *)
(* held it together, and a revocation of all tokens leaves no older        *)
(* session active, except what a request that had read its rows before     *)
(* minted.                                                                 *)
(*                                                                         *)
(* What the requests in flight hold carries both: a rotation's token was   *)
(* of the sessions that began since the revocation the rotation saw last,  *)
(* and a spent token that is still held by a request is a raced one.       *)
(***************************************************************************)

TokenRow == [state : {"absent", "active", "revoked"}, parent : Nat, next : Nat, born : Nat, late : BOOLEAN]
Request == [op : {"none", "login", "rotate", "change", "reset"}, row : Nat, since : Nat]

AccountsType ==
  /\ token \in [Tokens -> TokenRow]
  /\ resetToken \in [Resets -> {"absent", "issued", "expired", "used"}]
  /\ authReq \in [AuthWorkers -> Request]
  /\ cuts \in Nat
  /\ resets \in [Resets -> Nat]

\* A token that has a successor is revoked, and a rotation that still holds it raced.
SuccessorsKnown == \A s \in Tokens : token[s].parent # 0 =>
  /\ token[s].parent \in Tokens
  /\ token[token[s].parent].state = "revoked"
  /\ \A w \in AuthWorkers : Serves(w, "rotate", token[s].parent) => token[s].parent \in raced

\* A reset token that set the password is used, and a reset that still holds it raced.
ResetsKnown == \A r \in Resets : resets[r] # 0 =>
  /\ resetToken[r] = "used"
  /\ \A w \in AuthWorkers : Serves(w, "reset", r) => -r \in raced

\* A rotation holds a token of a session no older than the revocations it saw.
RotationsHold == \A w \in AuthWorkers : authReq[w].op = "rotate" =>
  \A t \in Tokens : t = authReq[w].row =>
    /\ token[t].state # "absent"
    /\ token[t].born = authReq[w].since \/ token[t].late

AccountsInv ==
  /\ AccountsType /\ SuccessorsKnown /\ ResetsKnown /\ RotationsHold
  /\ SpentOnce /\ RevocationHolds

\* A set of numbers has a least member.
LEMMA FreshIsOne ==
  ASSUME NEW S \in SUBSET Nat, S # {}
  PROVE  Fresh(S) \in S
<1>1. PICK x \in S : \A y \in S : <<y, x>> \notin OpToRel(<, Nat)
  BY WFMin, NatLessThanWellFounded, Zenon
<1>2. \A y \in S : ~ (y < x)
  BY <1>1 DEF OpToRel
<1>3. \A y \in S : x <= y
  BY <1>2
<1> QED
  BY <1>3 DEF Fresh

\* A token that is minted was not there before.
LEMMA FreshToken ==
  ASSUME UnusedTokens # {}
  PROVE  Fresh(UnusedTokens) \in Tokens /\ token[Fresh(UnusedTokens)].state = "absent"
<1>1. UnusedTokens \in SUBSET Nat
  BY AccountsAssumption DEF UnusedTokens, Tokens
<1>2. Fresh(UnusedTokens) \in UnusedTokens
  BY <1>1, FreshIsOne
<1> QED
  BY <1>2 DEF UnusedTokens

\* Revoking all tokens leaves none active, and their history as it was.
LEMMA RevokedRows ==
  ASSUME AccountsType
  PROVE  /\ Revoked(token) \in [Tokens -> TokenRow]
         /\ \A t \in Tokens :
              /\ Revoked(token)[t].state \in {"absent", "revoked"}
              /\ Revoked(token)[t].state = "absent" <=> token[t].state = "absent"
              /\ Revoked(token)[t].parent = token[t].parent
              /\ Revoked(token)[t].born = token[t].born
              /\ Revoked(token)[t].late = token[t].late
<1>1. \A t \in Tokens : token[t] \in TokenRow
  BY DEF AccountsType
<1>2. \A t \in Tokens : Revoked(token)[t] = IF token[t].state = "active"
                          THEN [token[t] EXCEPT !.state = "revoked"] ELSE token[t]
  BY DEF Revoked
<1>3. \A t \in Tokens : Revoked(token)[t] \in TokenRow
  BY <1>1, <1>2 DEF TokenRow
<1>4. ASSUME NEW t \in Tokens
      PROVE  /\ Revoked(token)[t].state \in {"absent", "revoked"}
             /\ Revoked(token)[t].state = "absent" <=> token[t].state = "absent"
             /\ Revoked(token)[t].parent = token[t].parent
             /\ Revoked(token)[t].born = token[t].born
             /\ Revoked(token)[t].late = token[t].late
  BY <1>1, <1>2 DEF TokenRow
<1>5. Revoked(token) \in [Tokens -> TokenRow]
  <2>1. Revoked(token) = [t \in Tokens |-> Revoked(token)[t]]
    BY DEF Revoked
  <2> QED
    BY <1>3, <2>1
<1> QED
  BY <1>4, <1>5

\* A revocation of all tokens, whoever asks for it.
LEMMA RevokeAllKeeps ==
  ASSUME AccountsInv, RevokeAll, UNCHANGED <<resetToken, raced, resets>>,
         authReq' \in [AuthWorkers -> Request],
         \A w \in AuthWorkers : authReq'[w] = authReq[w] \/ authReq'[w].op = "none"
  PROVE  AccountsInv'
<1> USE DEF AccountsInv
<1>1. /\ token' \in [Tokens -> TokenRow] /\ cuts' = cuts + 1
      /\ \A t \in Tokens :
           /\ token'[t].state \in {"absent", "revoked"}
           /\ token'[t].state = "absent" <=> token[t].state = "absent"
           /\ token'[t].parent = token[t].parent
           /\ token'[t].born = token[t].born
           /\ token'[t].late = token[t].late
  BY RevokedRows DEF RevokeAll
<1>2. \A w \in AuthWorkers : \A op \in {"rotate", "reset"} : \A held \in Nat :
        Serves(w, op, held)' => Serves(w, op, held)
  BY DEF Serves
<1>3. AccountsType'
  BY <1>1 DEF AccountsType
<1>4. SuccessorsKnown'
  <2> SUFFICES ASSUME NEW s \in Tokens, token[s].parent # 0
               PROVE  /\ token[s].parent \in Tokens
                      /\ token'[token[s].parent].state = "revoked"
                      /\ \A w \in AuthWorkers : authReq'[w].op = "rotate" /\ authReq'[w].row = token[s].parent
                           => token[s].parent \in raced'
    BY <1>1 DEF SuccessorsKnown, Serves
  <2>1. token[s].parent \in Tokens /\ token[token[s].parent].state = "revoked"
    BY DEF SuccessorsKnown
  <2>2. token'[token[s].parent].state = "revoked"
    BY <1>1, <2>1
  <2>3. ASSUME NEW w \in AuthWorkers, authReq'[w].op = "rotate", authReq'[w].row = token[s].parent
        PROVE  token[s].parent \in raced'
    <3>1. Serves(w, "rotate", token[s].parent)
      BY <2>3 DEF Serves
    <3> QED
      BY <3>1 DEF SuccessorsKnown
  <2> QED
    BY <2>1, <2>2, <2>3
<1>5. ResetsKnown'
  <2>1. \A r \in Resets : r \in Nat
    BY DEF Resets
  <2> QED
    BY <1>2, <2>1 DEF ResetsKnown, Serves
<1>6. RotationsHold'
  <2> SUFFICES ASSUME NEW w \in AuthWorkers, authReq'[w].op = "rotate", NEW t \in Tokens, t = authReq'[w].row
               PROVE  token'[t].state # "absent" /\ (token'[t].born = authReq'[w].since \/ token'[t].late)
    BY DEF RotationsHold
  <2>1. authReq'[w] = authReq[w]
    OBVIOUS
  <2>2. token[t].state # "absent" /\ (token[t].born = authReq[w].since \/ token[t].late)
    BY <2>1 DEF RotationsHold
  <2> QED
    BY <1>1, <2>1, <2>2
<1>7. SpentOnce'
  BY <1>1 DEF SpentOnce
<1>8. RevocationHolds'
  BY <1>1 DEF RevocationHolds
<1> QED
  BY <1>3, <1>4, <1>5, <1>6, <1>7, <1>8

\* A request is taken up or given up: of the rows only the request's changes.
LEMMA RequestKeeps ==
  ASSUME AccountsInv, UNCHANGED <<token, resetToken, cuts, raced, resets>>,
         NEW v \in AuthWorkers, NEW q \in Request, authReq' = [authReq EXCEPT ![v] = q],
         q.op = "rotate" => \A t \in Tokens : t = q.row => token[t].state = "active" /\ q.since = cuts,
         q.op = "reset" => \A r \in Resets : r = q.row => resetToken[r] = "issued"
  PROVE  AccountsInv'
<1> USE DEF AccountsInv
<1>1. AccountsType'
  BY DEF AccountsType
<1>2. authReq'[v] = q /\ \A w \in AuthWorkers : w # v => authReq'[w] = authReq[w]
  BY DEF AccountsType
<1>3. SuccessorsKnown'
  <2> SUFFICES ASSUME NEW s \in Tokens, token[s].parent # 0
               PROVE  /\ token[s].parent \in Tokens
                      /\ token[token[s].parent].state = "revoked"
                      /\ \A w \in AuthWorkers : Serves(w, "rotate", token[s].parent)' => token[s].parent \in raced
    BY DEF SuccessorsKnown, Serves
  <2>1. /\ token[s].parent \in Tokens /\ token[token[s].parent].state = "revoked"
        /\ \A w \in AuthWorkers : Serves(w, "rotate", token[s].parent) => token[s].parent \in raced
    BY DEF SuccessorsKnown
  <2>2. ASSUME NEW w \in AuthWorkers, Serves(w, "rotate", token[s].parent)'
        PROVE  token[s].parent \in raced
    BY <1>2, <2>1, <2>2 DEF Serves
  <2> QED
    BY <2>1, <2>2
<1>4. ResetsKnown'
  <2> SUFFICES ASSUME NEW r \in Resets, resets[r] # 0
               PROVE  /\ resetToken[r] = "used"
                      /\ \A w \in AuthWorkers : Serves(w, "reset", r)' => -r \in raced
    BY DEF ResetsKnown, Serves
  <2>1. resetToken[r] = "used" /\ \A w \in AuthWorkers : Serves(w, "reset", r) => -r \in raced
    BY DEF ResetsKnown
  <2> QED
    BY <1>2, <2>1 DEF Serves
<1>5. RotationsHold'
  <2> SUFFICES ASSUME NEW w \in AuthWorkers, authReq'[w].op = "rotate", NEW t \in Tokens, t = authReq'[w].row
               PROVE  token[t].state # "absent" /\ (token[t].born = authReq'[w].since \/ token[t].late)
    BY DEF RotationsHold
  <2>1. CASE w = v
    <3>1. token[t].state = "active" /\ authReq'[w].since = cuts
      BY <1>2, <2>1
    <3> QED
      BY <3>1 DEF RevocationHolds
  <2>2. CASE w # v
    BY <1>2, <2>2 DEF RotationsHold
  <2> QED
    BY <2>1, <2>2
<1>6. SpentOnce' /\ RevocationHolds'
  BY DEF SpentOnce, RevocationHolds
<1> QED
  BY <1>1, <1>3, <1>4, <1>5, <1>6

\* A worker at rest holds no request.
LEMMA NoRequestIsOne == NoRequest \in Request /\ NoRequest.op = "none"
  BY DEF NoRequest, Request

\* What a worker takes up is a request.
LEMMA TakesOne ==
  ASSUME AccountsType, NEW op \in {"none", "login", "rotate", "change", "reset"}, NEW held \in Nat
  PROVE  [op |-> op, row |-> held, since |-> cuts] \in Request
  BY DEF Request, AccountsType

\* A request that begins or is abandoned writes nothing and keeps the invariant.
LEMMA BeginAuthKeeps ==
  ASSUME AccountsInv, NEW w \in AuthWorkers,
         \/ Register(w) \/ BeginLogin(w) \/ BeginChange(w) \/ AbandonAuth(w)
         \/ \E t \in Tokens : BeginRotate(w, t)
         \/ \E r \in Resets : BeginReset(w, r)
  PROVE  AccountsInv'
<1> USE DEF AccountsInv
<1>0. Tokens \subseteq Nat /\ Resets \subseteq Nat
  BY DEF Tokens, Resets
<1>1. CASE Register(w) \/ BeginLogin(w) \/ BeginChange(w)
  <2> DEFINE q(op) == [op |-> op, row |-> 0, since |-> cuts]
  <2>1. UNCHANGED <<token, resetToken, cuts, raced, resets>>
    BY <1>1 DEF Register, BeginLogin, BeginChange
  <2>2. \E op \in {"login", "change"} : authReq' = [authReq EXCEPT ![w] = q(op)]
    BY <1>1 DEF Register, BeginLogin, BeginChange, Takes
  <2>3. PICK op \in {"login", "change"} : authReq' = [authReq EXCEPT ![w] = q(op)]
    BY <2>2
  <2>4. q(op) \in Request /\ q(op).op = op
    BY TakesOne
  <2> HIDE DEF q
  <2> QED
    BY <2>1, <2>3, <2>4, RequestKeeps
<1>2. CASE AbandonAuth(w)
  BY <1>2, NoRequestIsOne, RequestKeeps DEF AbandonAuth, Finishes
<1>3. ASSUME NEW t \in Tokens, BeginRotate(w, t) PROVE AccountsInv'
  <2> DEFINE q == [op |-> "rotate", row |-> t, since |-> cuts]
  <2>1. UNCHANGED <<token, resetToken, cuts, raced, resets>> /\ authReq' = [authReq EXCEPT ![w] = q]
    BY <1>3 DEF BeginRotate, Takes
  <2>2. q \in Request /\ q.op = "rotate" /\ q.row = t /\ q.since = cuts
    BY <1>0, TakesOne
  <2>3. token[t].state = "active"
    BY <1>3 DEF BeginRotate, Rotatable
  <2> HIDE DEF q
  <2> QED
    BY <2>1, <2>2, <2>3, RequestKeeps
<1>4. ASSUME NEW r \in Resets, BeginReset(w, r) PROVE AccountsInv'
  <2> DEFINE q == [op |-> "reset", row |-> r, since |-> cuts]
  <2>1. UNCHANGED <<token, resetToken, cuts, raced, resets>> /\ authReq' = [authReq EXCEPT ![w] = q]
    BY <1>4 DEF BeginReset, Takes
  <2>2. q \in Request /\ q.op = "reset" /\ q.row = r
    BY <1>0, TakesOne
  <2>3. resetToken[r] = "issued"
    BY <1>4 DEF BeginReset, Usable
  <2> HIDE DEF q
  <2> QED
    BY <2>1, <2>2, <2>3, RequestKeeps
<1> QED
  BY <1>1, <1>2, <1>3, <1>4

\* A login or registration mints a token of its own.
LEMMA CommitLoginKeeps ==
  ASSUME AccountsInv, NEW w \in AuthWorkers, CommitLogin(w)
  PROVE  AccountsInv'
<1> USE DEF AccountsInv
<1> DEFINE n == Fresh(UnusedTokens)
           minted == Minted(0, authReq[w].since, authReq[w].since)
<1>1. /\ token' = [token EXCEPT ![n] = minted] /\ n \in Tokens /\ token[n].state = "absent"
      /\ authReq' = [authReq EXCEPT ![w] = NoRequest]
      /\ UNCHANGED <<resetToken, cuts, raced, resets>>
  BY FreshToken DEF CommitLogin, Finishes
<1>2. authReq[w].since \in Nat
  BY DEF AccountsType, Request
<1>3. /\ minted.state = "active" /\ minted.parent = 0 /\ minted.next = 0 /\ minted.born = authReq[w].since
      /\ minted.late = (authReq[w].since # cuts \/ (0 # 0 /\ token[0].late))
  BY DEF Minted
<1>4. minted \in TokenRow /\ (minted.born = cuts \/ minted.late)
  <2>1. minted.late \in BOOLEAN /\ (minted.born = cuts \/ minted.late)
    BY <1>3
  <2>2. minted = [state |-> "active", parent |-> 0, next |-> 0, born |-> minted.born, late |-> minted.late]
    BY DEF Minted
  <2> QED
    BY <1>2, <1>3, <2>1, <2>2 DEF TokenRow
<1> HIDE DEF n, minted
<1>5. /\ token'[n] = minted /\ \A t \in Tokens : t # n => token'[t] = token[t]
      /\ authReq'[w] = NoRequest /\ \A v \in AuthWorkers : v # w => authReq'[v] = authReq[v]
  BY <1>1 DEF AccountsType
<1>6. AccountsType'
  BY <1>1, <1>4, NoRequestIsOne DEF AccountsType
<1>7. SuccessorsKnown'
  <2> SUFFICES ASSUME NEW s \in Tokens, token'[s].parent # 0
               PROVE  /\ token'[s].parent \in Tokens
                      /\ token'[token'[s].parent].state = "revoked"
                      /\ \A v \in AuthWorkers : authReq'[v].op = "rotate" /\ authReq'[v].row = token'[s].parent
                           => token'[s].parent \in raced'
    BY DEF SuccessorsKnown, Serves
  <2>1. s # n /\ token'[s] = token[s]
    BY <1>3, <1>5
  <2>2. /\ token[s].parent \in Tokens /\ token[token[s].parent].state = "revoked"
        /\ \A v \in AuthWorkers : authReq[v].op = "rotate" /\ authReq[v].row = token[s].parent
             => token[s].parent \in raced
    BY <2>1 DEF SuccessorsKnown, Serves
  <2> QED
    BY <1>1, <1>5, <2>1, <2>2, NoRequestIsOne
<1>8. ResetsKnown'
  <2>1. \A r \in Resets : resets[r] # 0 =>
          /\ resetToken[r] = "used"
          /\ \A v \in AuthWorkers : authReq[v].op = "reset" /\ authReq[v].row = r => -r \in raced
    BY DEF ResetsKnown, Serves
  <2> QED
    BY <1>1, <1>5, <2>1, NoRequestIsOne DEF ResetsKnown, Serves
<1>9. RotationsHold'
  BY <1>1, <1>3, <1>5, NoRequestIsOne DEF RotationsHold
<1>10. SpentOnce'
  BY <1>1, <1>3, <1>5 DEF SpentOnce
<1>11. RevocationHolds'
  BY <1>1, <1>4, <1>5 DEF RevocationHolds
<1> QED
  BY <1>6, <1>7, <1>8, <1>9, <1>10, <1>11

\* The rotated token is revoked whatever became of it, so a rotation that
\* held it with another leaves a token that raced.
LEMMA CommitRotateKeeps ==
  ASSUME AccountsInv, NEW w \in AuthWorkers, NEW t \in Tokens, CommitRotate(w, t)
  PROVE  AccountsInv'
<1> USE DEF AccountsInv
<1> DEFINE n == Fresh(UnusedTokens)
           minted == Minted(t, token[t].born, authReq[w].since)
           spent == [token[t] EXCEPT !.state = "revoked", !.next = n]
<1>1. /\ n \in Tokens /\ token[n].state = "absent"
      /\ authReq[w].op = "rotate" /\ authReq[w].row = t
      /\ authReq' = [authReq EXCEPT ![w] = NoRequest]
      /\ UNCHANGED <<resetToken, cuts, resets>>
  BY FreshToken DEF CommitRotate, Finishes, Serves
<1>2. t # n /\ token[t].state # "absent" /\ (token[t].born = authReq[w].since \/ token[t].late)
  BY <1>1 DEF RotationsHold
<1>3. token[t] \in TokenRow /\ authReq[w].since \in Nat /\ t \in Nat /\ n \in Nat /\ t # 0
  BY <1>1 DEF AccountsType, Request, Tokens
<1>4. token' = [token EXCEPT ![t] = spent, ![n] = minted]
  BY <1>2 DEF CommitRotate
<1>5. /\ raced \subseteq raced'
      /\ \A v \in AuthWorkers : v # w /\ authReq[v].op = "rotate" /\ authReq[v].row = t => t \in raced'
  BY DEF CommitRotate, Serves
<1>6. /\ spent.state = "revoked" /\ spent.parent = token[t].parent
      /\ spent.born = token[t].born /\ spent.late = token[t].late /\ spent \in TokenRow
  BY <1>3 DEF TokenRow
<1>7. /\ minted.state = "active" /\ minted.parent = t /\ minted.next = 0 /\ minted.born = token[t].born
      /\ minted.late = (authReq[w].since # cuts \/ (t # 0 /\ token[t].late))
  BY DEF Minted
<1>8. minted.late \in BOOLEAN
  BY <1>7
<1>9. minted.born = cuts \/ minted.late
  <2>1. CASE authReq[w].since # cuts
    BY <1>7, <2>1
  <2>2. CASE token[t].late
    BY <1>3, <1>7, <2>2, Zenon
  <2>3. CASE token[t].born = authReq[w].since /\ authReq[w].since = cuts
    BY <1>7, <2>3
  <2> QED
    BY <1>2, <2>1, <2>2, <2>3
<1>10. minted \in TokenRow
  <2>1. minted = [state |-> "active", parent |-> t, next |-> 0, born |-> minted.born, late |-> minted.late]
    BY DEF Minted
  <2>2. minted.born \in Nat
    BY <1>3, <1>7 DEF TokenRow
  <2> HIDE DEF minted
  <2> QED
    BY <1>3, <1>8, <2>1, <2>2 DEF TokenRow
<1> HIDE DEF n, minted, spent
<1>11. /\ token'[n] = minted /\ token'[t] = spent
       /\ \A s \in Tokens : s # n /\ s # t => token'[s] = token[s]
       /\ authReq'[w] = NoRequest /\ \A v \in AuthWorkers : v # w => authReq'[v] = authReq[v]
  BY <1>1, <1>2, <1>4 DEF AccountsType
<1>12. AccountsType'
  BY <1>1, <1>4, <1>6, <1>10, NoRequestIsOne DEF AccountsType
<1>13. \A s \in Tokens : s # n => token'[s].parent = token[s].parent
  BY <1>6, <1>11
<1>14. \A s \in Tokens : token[s].parent # 0 =>
         /\ token[s].parent \in Tokens /\ token[token[s].parent].state = "revoked"
         /\ \A v \in AuthWorkers : authReq[v].op = "rotate" /\ authReq[v].row = token[s].parent
              => token[s].parent \in raced
  BY DEF SuccessorsKnown, Serves
<1>15. SuccessorsKnown'
  <2> SUFFICES ASSUME NEW s \in Tokens, token'[s].parent # 0
               PROVE  /\ token'[s].parent \in Tokens
                      /\ token'[token'[s].parent].state = "revoked"
                      /\ \A v \in AuthWorkers : authReq'[v].op = "rotate" /\ authReq'[v].row = token'[s].parent
                           => token'[s].parent \in raced'
    BY DEF SuccessorsKnown, Serves
  <2>1. CASE s = n
    <3>1. token'[s].parent = t
      BY <1>7, <1>11, <2>1
    <3>2. token'[t].state = "revoked"
      BY <1>6, <1>11
    <3>3. \A v \in AuthWorkers : authReq'[v].op = "rotate" /\ authReq'[v].row = t => t \in raced'
      BY <1>5, <1>11, NoRequestIsOne
    <3> QED
      BY <3>1, <3>2, <3>3
  <2>2. CASE s # n
    <3>1. token'[s].parent = token[s].parent
      BY <1>13, <2>2
    <3>2. token[s].parent \in Tokens /\ token[token[s].parent].state = "revoked"
      BY <1>14, <3>1
    <3>3. token'[token[s].parent].state = "revoked"
      BY <1>1, <1>6, <1>11, <3>2
    <3>4. \A v \in AuthWorkers : authReq'[v].op = "rotate" /\ authReq'[v].row = token[s].parent
            => token[s].parent \in raced'
      BY <1>5, <1>11, <1>14, <3>1, NoRequestIsOne
    <3> QED
      BY <3>1, <3>2, <3>3, <3>4
  <2> QED
    BY <2>1, <2>2
<1>16. ResetsKnown'
  <2>1. \A r \in Resets : resets[r] # 0 =>
          /\ resetToken[r] = "used"
          /\ \A v \in AuthWorkers : authReq[v].op = "reset" /\ authReq[v].row = r => -r \in raced
    BY DEF ResetsKnown, Serves
  <2> QED
    BY <1>1, <1>5, <1>11, <2>1, NoRequestIsOne DEF ResetsKnown, Serves
<1>17. RotationsHold'
  <2> SUFFICES ASSUME NEW v \in AuthWorkers, authReq'[v].op = "rotate", NEW s \in Tokens, s = authReq'[v].row
               PROVE  token'[s].state # "absent" /\ (token'[s].born = authReq'[v].since \/ token'[s].late)
    BY DEF RotationsHold
  <2>1. v # w /\ authReq'[v] = authReq[v]
    BY <1>11, NoRequestIsOne
  <2>2. token[s].state # "absent" /\ (token[s].born = authReq[v].since \/ token[s].late)
    BY <2>1 DEF RotationsHold
  <2>3. s # n
    BY <1>1, <2>2
  <2>4. token'[s].state # "absent" /\ token'[s].born = token[s].born /\ token'[s].late = token[s].late
    BY <1>6, <1>11, <2>2, <2>3
  <2> QED
    BY <2>1, <2>2, <2>4
<1>18. SpentOnce'
  <2>1. ASSUME NEW p \in Tokens, NEW s \in Tokens, p # s,
               token'[p].parent = token'[s].parent, token'[p].parent # 0
        PROVE  token'[p].parent \in raced'
    <3>1. CASE p # n /\ s # n
      BY <1>5, <1>13, <2>1, <3>1 DEF SpentOnce
    <3>2. CASE p = n
      <4>1. token'[p].parent = t /\ token[s].parent = t
        BY <1>7, <1>11, <1>13, <2>1, <3>2
      <4>2. t \in raced
        BY <1>1, <1>3, <1>14, <4>1
      <4> QED
        BY <1>5, <4>1, <4>2
    <3>3. CASE s = n
      <4>1. token'[p].parent = t /\ token[p].parent = t
        BY <1>7, <1>11, <1>13, <2>1, <3>3
      <4>2. t \in raced
        BY <1>1, <1>3, <1>14, <4>1
      <4> QED
        BY <1>5, <4>1, <4>2
    <3> QED
      BY <3>1, <3>2, <3>3
  <2>2. \A r \in Resets : resets'[r] > 1 => -r \in raced'
    BY <1>1, <1>5 DEF SpentOnce
  <2> QED
    BY <2>1, <2>2 DEF SpentOnce
<1>19. RevocationHolds'
  <2> SUFFICES ASSUME NEW s \in Tokens, token'[s].state = "active"
               PROVE  token'[s].born = cuts \/ token'[s].late
    BY <1>1 DEF RevocationHolds
  <2>1. CASE s = n
    BY <1>9, <1>11, <2>1
  <2>2. CASE s = t
    BY <1>6, <1>11, <2>2
  <2>3. CASE s # n /\ s # t
    BY <1>11, <2>3 DEF RevocationHolds
  <2> QED
    BY <2>1, <2>2, <2>3
<1> QED
  BY <1>12, <1>15, <1>16, <1>17, <1>18, <1>19

\* A token that expires was not spent.
LEMMA ExpireKeeps ==
  ASSUME AccountsInv, NEW t \in Tokens, Expire(t)
  PROVE  AccountsInv'
<1> USE DEF AccountsInv
<1>1. /\ token' = [token EXCEPT ![t].state = "revoked"]
      /\ UNCHANGED <<resetToken, authReq, cuts, raced, resets>> /\ token[t].state = "active"
  BY DEF Expire
<1>2. \A s \in Tokens : token[s] \in TokenRow
  BY DEF AccountsType
<1>3. /\ \A s \in Tokens : token'[s].parent = token[s].parent /\ token'[s].born = token[s].born
      /\ token'[t].state = "revoked" /\ token'[t].late = token[t].late
      /\ \A s \in Tokens : s # t => token'[s] = token[s]
  BY <1>1, <1>2 DEF AccountsType, TokenRow
<1>4. AccountsType'
  BY <1>1, <1>2 DEF AccountsType, TokenRow
<1>5. SuccessorsKnown'
  BY <1>1, <1>3 DEF SuccessorsKnown, Serves
<1>6. ResetsKnown'
  BY <1>1 DEF ResetsKnown, Serves
<1>7. RotationsHold'
  BY <1>1, <1>3 DEF RotationsHold
<1>8. SpentOnce'
  BY <1>1, <1>3 DEF SpentOnce
<1>9. RevocationHolds'
  BY <1>1, <1>3 DEF RevocationHolds
<1> QED
  BY <1>4, <1>5, <1>6, <1>7, <1>8, <1>9

\* A reset token is issued or expires: the sessions are left alone.
LEMMA IssueKeeps ==
  ASSUME AccountsInv, UNCHANGED <<token, authReq, cuts, raced, resets>>,
         NEW r \in Resets, resetToken[r] # "used",
         NEW s \in {"issued", "expired"}, resetToken' = [resetToken EXCEPT ![r] = s]
  PROVE  AccountsInv'
<1> USE DEF AccountsInv
<1>1. AccountsType'
  BY DEF AccountsType
<1>2. ResetsKnown'
  BY DEF ResetsKnown, Serves, AccountsType
<1>3. SuccessorsKnown' /\ RotationsHold' /\ SpentOnce' /\ RevocationHolds'
  BY DEF SuccessorsKnown, Serves, RotationsHold, SpentOnce, RevocationHolds
<1> QED
  BY <1>1, <1>2, <1>3

\* A reset token that is issued was never used.
LEMMA ForgotKeeps ==
  ASSUME AccountsInv, ForgotPassword
  PROVE  AccountsInv'
<1> DEFINE unused == {r \in Resets : resetToken[r] = "absent"}
<1>1. unused # {} /\ resetToken' = [resetToken EXCEPT ![Fresh(unused)] = "issued"]
      /\ UNCHANGED <<token, authReq, cuts, raced, resets>>
  BY DEF ForgotPassword
<1>2. unused \in SUBSET Nat
  BY DEF Resets
<1>3. Fresh(unused) \in unused
  <2> HIDE DEF unused
  <2> QED
    BY <1>1, <1>2, FreshIsOne
<1>4. Fresh(unused) \in Resets /\ resetToken[Fresh(unused)] = "absent"
  BY <1>3
<1> HIDE DEF unused
<1> QED
  BY <1>1, <1>4, IssueKeeps

\* A reset spends its token, which nobody has spent unless they held it together.
LEMMA CommitResetKeeps ==
  ASSUME AccountsInv, NEW w \in AuthWorkers, NEW r \in Resets, CommitReset(w, r)
  PROVE  AccountsInv'
<1> USE DEF AccountsInv
<1>1. /\ resetToken' = [resetToken EXCEPT ![r] = "used"]
      /\ resets' = [resets EXCEPT ![r] = @ + 1]
      /\ authReq[w].op = "reset" /\ authReq[w].row = r
      /\ authReq' = [authReq EXCEPT ![w] = NoRequest]
      /\ UNCHANGED <<token, cuts>>
  BY DEF CommitReset, Finishes, Serves
<1>2. /\ raced \subseteq raced'
      /\ \A v \in AuthWorkers : v # w /\ authReq[v].op = "reset" /\ authReq[v].row = r => -r \in raced'
  BY DEF CommitReset, Serves
<1>3. /\ authReq'[w] = NoRequest /\ \A v \in AuthWorkers : v # w => authReq'[v] = authReq[v]
      /\ resets'[r] = resets[r] + 1 /\ resets[r] \in Nat
      /\ \A x \in Resets : x # r => resets'[x] = resets[x] /\ resetToken'[x] = resetToken[x]
      /\ resetToken'[r] = "used"
  BY <1>1 DEF AccountsType
<1>4. AccountsType'
  BY <1>1, NoRequestIsOne DEF AccountsType
<1>5. SuccessorsKnown'
  <2>1. \A s \in Tokens : token[s].parent # 0 =>
          /\ token[s].parent \in Tokens /\ token[token[s].parent].state = "revoked"
          /\ \A v \in AuthWorkers : authReq[v].op = "rotate" /\ authReq[v].row = token[s].parent
               => token[s].parent \in raced
    BY DEF SuccessorsKnown, Serves
  <2> QED
    BY <1>1, <1>2, <1>3, <2>1, NoRequestIsOne DEF SuccessorsKnown, Serves
<1>6. \A x \in Resets : resets[x] # 0 =>
        /\ resetToken[x] = "used"
        /\ \A v \in AuthWorkers : authReq[v].op = "reset" /\ authReq[v].row = x => -x \in raced
  BY DEF ResetsKnown, Serves
<1>7. ResetsKnown'
  <2> SUFFICES ASSUME NEW x \in Resets, resets'[x] # 0
               PROVE  /\ resetToken'[x] = "used"
                      /\ \A v \in AuthWorkers : authReq'[v].op = "reset" /\ authReq'[v].row = x => -x \in raced'
    BY DEF ResetsKnown, Serves
  <2>1. CASE x = r
    BY <1>2, <1>3, <2>1, NoRequestIsOne
  <2>2. CASE x # r
    BY <1>2, <1>3, <1>6, <2>2, NoRequestIsOne
  <2> QED
    BY <2>1, <2>2
<1>8. RotationsHold'
  BY <1>1, <1>3, NoRequestIsOne DEF RotationsHold
<1>9. SpentOnce'
  <2>1. ASSUME NEW x \in Resets, resets'[x] > 1 PROVE -x \in raced'
    <3>1. CASE x = r
      <4>1. resets[r] # 0
        BY <1>3, <2>1, <3>1
      <4> QED
        BY <1>1, <1>2, <1>6, <3>1, <4>1
    <3>2. CASE x # r
      BY <1>2, <1>3, <2>1, <3>2 DEF SpentOnce
    <3> QED
      BY <3>1, <3>2
  <2>2. \A p, s \in Tokens : p # s /\ token'[p].parent = token'[s].parent /\ token'[p].parent # 0
          => token'[p].parent \in raced'
    BY <1>1, <1>2 DEF SpentOnce
  <2> QED
    BY <2>1, <2>2 DEF SpentOnce
<1>10. RevocationHolds'
  BY <1>1 DEF RevocationHolds
<1> QED
  BY <1>4, <1>5, <1>7, <1>8, <1>9, <1>10

\* A revocation of everything begins a new time: what was minted before is not active.
LEMMA CutKeeps ==
  ASSUME AccountsInv,
         LogoutAll \/ (\E t \in Tokens : DetectReuse(t)) \/ \E w \in AuthWorkers : CommitChange(w)
  PROVE  AccountsInv'
<1>1. CASE LogoutAll \/ \E t \in Tokens : DetectReuse(t)
  <2>1. RevokeAll /\ UNCHANGED <<resetToken, authReq, raced, resets>>
    BY <1>1 DEF LogoutAll, DetectReuse
  <2>2. authReq' \in [AuthWorkers -> Request]
    BY <2>1 DEF AccountsInv, AccountsType
  <2> QED
    BY <2>1, <2>2, RevokeAllKeeps
<1>2. ASSUME NEW w \in AuthWorkers, CommitChange(w) PROVE AccountsInv'
  <2>1. RevokeAll /\ UNCHANGED <<resetToken, raced, resets>> /\ authReq' = [authReq EXCEPT ![w] = NoRequest]
    BY <1>2 DEF CommitChange, Finishes
  <2>2. /\ authReq' \in [AuthWorkers -> Request]
        /\ \A v \in AuthWorkers : authReq'[v] = authReq[v] \/ authReq'[v].op = "none"
    BY <2>1, NoRequestIsOne DEF AccountsInv, AccountsType
  <2> QED
    BY <2>1, <2>2, RevokeAllKeeps
<1> QED
  BY <1>1, <1>2

\* The invariant holds of an account that nobody has used.
LEMMA AccountsInvInit == AccountsInit => AccountsInv
<1> SUFFICES ASSUME AccountsInit PROVE AccountsInv
  OBVIOUS
<1>1. NoToken \in TokenRow /\ NoToken.parent = 0 /\ NoToken.state = "absent"
  BY DEF NoToken, TokenRow
<1>2. \A t \in Tokens : token[t] = NoToken
  BY DEF AccountsInit
<1>3. AccountsType
  BY <1>1, NoRequestIsOne DEF AccountsInit, AccountsType
<1>4. SuccessorsKnown /\ SpentOnce /\ RevocationHolds
  BY <1>1, <1>2 DEF AccountsInit, SuccessorsKnown, SpentOnce, RevocationHolds
<1>5. ResetsKnown /\ RotationsHold
  BY NoRequestIsOne DEF AccountsInit, ResetsKnown, RotationsHold
<1> QED
  BY <1>3, <1>4, <1>5 DEF AccountsInv

\* What the requests of one account keep together, whichever of them are in
\* flight at once: the types, and what the requests still hold.
THEOREM AccountsInvariant == AccountsSpec => []AccountsInv
<1>1. AccountsInv /\ [AccountsNext]_accountsVars => AccountsInv'
  <2> SUFFICES ASSUME AccountsInv, [AccountsNext]_accountsVars PROVE AccountsInv'
    OBVIOUS
  <2>1. CASE LogoutAll
    BY <2>1, CutKeeps
  <2>2. CASE ForgotPassword
    BY <2>2, ForgotKeeps
  <2>3. ASSUME NEW w \in AuthWorkers,
               Register(w) \/ BeginLogin(w) \/ BeginChange(w) \/ AbandonAuth(w)
        PROVE  AccountsInv'
    BY <2>3, BeginAuthKeeps
  <2>4. ASSUME NEW w \in AuthWorkers, CommitLogin(w) \/ CommitChange(w) PROVE AccountsInv'
    BY <2>4, CommitLoginKeeps, CutKeeps
  <2>5. ASSUME NEW w \in AuthWorkers, NEW t \in Tokens, BeginRotate(w, t) \/ CommitRotate(w, t)
        PROVE  AccountsInv'
    BY <2>5, BeginAuthKeeps, CommitRotateKeeps
  <2>6. ASSUME NEW w \in AuthWorkers, NEW r \in Resets, BeginReset(w, r) \/ CommitReset(w, r)
        PROVE  AccountsInv'
    BY <2>6, BeginAuthKeeps, CommitResetKeeps
  <2>7. ASSUME NEW t \in Tokens, DetectReuse(t) \/ Expire(t) PROVE AccountsInv'
    BY <2>7, CutKeeps, ExpireKeeps
  <2>8. ASSUME NEW r \in Resets, ExpireReset(r) PROVE AccountsInv'
    BY <2>8, IssueKeeps DEF ExpireReset
  <2>9. CASE UNCHANGED accountsVars
    BY <2>9 DEF accountsVars, AccountsInv, AccountsType, SuccessorsKnown, ResetsKnown, RotationsHold,
                SpentOnce, RevocationHolds, Serves
  <2> QED
    BY <2>1, <2>2, <2>3, <2>4, <2>5, <2>6, <2>7, <2>8, <2>9 DEF AccountsNext
<1> QED
  BY AccountsInvInit, <1>1, PTL DEF AccountsSpec

\* rotate_refresh_token gives a token one successor and consume_reset_token
\* lets it set one password, but for requests that held it together.
THEOREM TokensSpentOnce == AccountsSpec => []SpentOnce
<1>1. AccountsInv => SpentOnce
  BY DEF AccountsInv
<1> QED
  BY AccountsInvariant, <1>1, PTL

\* Logout-all, a password change and a detected reuse end every session that
\* began before, but for what a request that had read its rows then minted.
THEOREM RevocationEndsSessions == AccountsSpec => []RevocationHolds
<1>1. AccountsInv => RevocationHolds
  BY DEF AccountsInv
<1> QED
  BY AccountsInvariant, <1>1, PTL

-----------------------------------------------------------------------------
(***************************************************************************)
(* Presence (Presence), for any number of devices: a driver who asked to   *)
(* rest is not put back to work by requests that say nothing of it.        *)
(*                                                                         *)
(* A request in flight is described by the columns it will write. While    *)
(* the driver stops, one request says so and no other says what they want; *)
(* once they have stopped, only a request that had read the row before can *)
(* still put them online, which the property excepts as overlapped.        *)
(***************************************************************************)

Resting == {"offline", "paused"}

\* The row has its six columns.
RowOK(r) ==
  r = [requested |-> r.requested, beat |-> r.beat, avail |-> r.avail,
       online |-> r.online, seen |-> r.seen, coords |-> r.coords]

\* A request that does not say what the driver wants leaves the requested state alone, and
\* the online flag too unless it is a poll or an accept.
RequestOK(q) ==
  /\ q = [op |-> q.op, wants |-> q.wants, set |-> q.set, creates |-> q.creates]
  /\ q.wants = "none" => "requested" \notin DOMAIN q.set
  /\ q.wants = "none" /\ q.op # "sync" => "online" \notin DOMAIN q.set

\* What a column will hold once a request has committed.
Outcome(q, c) == IF c \in DOMAIN q.set THEN q.set[c] ELSE row[c]

\* The driver is stopping with one request, and no other in flight says what they want.
StopsWith(d) ==
  /\ inFlight[d].wants = "rest"
  /\ \A e \in Devices \ {d} : inFlight[e].wants = "none"
  /\ Outcome(inFlight[d], "requested") \in Resting
  /\ ~overlapped => Syncing = {} /\ Outcome(inFlight[d], "online") = FALSE

\* The driver has stopped, and nothing in flight undoes it.
Stopped ==
  /\ Wanting = {} /\ row.requested \in Resting
  /\ ~overlapped => row.online = FALSE /\ \A d \in Devices : "online" \notin DOMAIN inFlight[d].set

PresenceInv ==
  /\ RowOK(row) /\ DOMAIN inFlight = Devices
  /\ \A d \in Devices : RequestOK(inFlight[d])
  /\ intent = "stopping" => \E d \in Devices : StopsWith(d)
  /\ intent = "rest" => Stopped

\* A driver who asked to rest is not available, however old the last heartbeat is.
LEMMA RestingIsUnavailable ==
  ASSUME NEW r, r.requested \in Resting
  PROVE  Effective(r) # "available"
BY DEF Effective, Resting, Active

\* What the services write: an existing presence row is not created again; the profile, the
\* status and the heartbeat follow the requested state and never set it; and only the sync
\* of the status row puts a driver online, when their state is available.
LEMMA ServicesWrite ==
  ASSUME NEW r, RowOK(r)
  PROVE  /\ RowOK(Created(r)) /\ Created(r).online = r.online
         /\ r.requested # "none" => Created(r) = r
         /\ RowOK(AvailFromPresence(r)) /\ AvailFromPresence(r).online = r.online
         /\ AvailFromPresence(r).requested = r.requested
         /\ RowOK(TouchHeartbeat(r)) /\ TouchHeartbeat(r).online = r.online
         /\ TouchHeartbeat(r).requested = r.requested
         /\ RowOK(SyncFromPresence(r)) /\ SyncFromPresence(r).requested = r.requested
         /\ Effective(r) # "available" => SyncFromPresence(r).online = FALSE
<1>1. /\ RowOK(Created(r)) /\ Created(r).online = r.online
      /\ r.requested # "none" => Created(r) = r
BY DEF RowOK, Created
<1>2. /\ RowOK(AvailFromPresence(r)) /\ AvailFromPresence(r).online = r.online
      /\ AvailFromPresence(r).requested = r.requested
BY DEF RowOK, AvailFromPresence
<1>3. /\ RowOK(TouchHeartbeat(r)) /\ TouchHeartbeat(r).online = r.online
      /\ TouchHeartbeat(r).requested = r.requested
BY DEF RowOK, TouchHeartbeat
<1>4. /\ RowOK(SyncFromPresence(r)) /\ SyncFromPresence(r).requested = r.requested
      /\ Effective(r) # "available" => SyncFromPresence(r).online = FALSE
BY DEF RowOK, SyncFromPresence, SetOnline
<1> QED BY <1>1, <1>2, <1>3, <1>4

\* PUT presence writes the state it was asked for, and takes a resting driver offline.
LEMMA PutWrites ==
  ASSUME NEW r, RowOK(r), NEW state
  PROVE  /\ RowOK(SetPresenceState(r, state)) /\ SetPresenceState(r, state).requested = state
         /\ state \in Resting => SetPresenceState(r, state).online = FALSE
<1>1. PICK made : made = Created(r) OBVIOUS
<1>2. PICK asked : asked = [made EXCEPT !.requested = state, !.beat = IF state \in Active THEN Now ELSE @] OBVIOUS
<1>3. RowOK(made) BY <1>1, ServicesWrite
<1>4. RowOK(asked) /\ asked.requested = state BY <1>2, <1>3 DEF RowOK
<1>5. PICK profiled : profiled = AvailFromPresence(asked) OBVIOUS
<1>6. RowOK(profiled) /\ profiled.requested = state BY <1>4, <1>5, ServicesWrite
<1>7. SetPresenceState(r, state) = SyncFromPresence(profiled) BY <1>1, <1>2, <1>5 DEF SetPresenceState
<1>8. state \in Resting => Effective(profiled) # "available" BY <1>6, RestingIsUnavailable
<1>9. PICK synced : synced = SyncFromPresence(profiled) OBVIOUS
<1>10. /\ RowOK(synced) /\ synced.requested = profiled.requested
       /\ Effective(profiled) # "available" => synced.online = FALSE
BY <1>6, <1>9, ServicesWrite
<1>11. SetPresenceState(r, state) = synced BY <1>7, <1>9
<1> QED BY <1>6, <1>8, <1>10, <1>11

\* A heartbeat leaves the online flag alone.
LEMMA HeartbeatWrites ==
  ASSUME NEW r, RowOK(r)
  PROVE  RowOK(RecordHeartbeat(r)) /\ RecordHeartbeat(r).online = r.online
<1>1. PICK made : made = Created(r) OBVIOUS
<1>2. PICK beaten : beaten = [made EXCEPT !.beat = Now,
                     !.requested = IF @ \in {"stale", "disconnected"} THEN "available" ELSE @] OBVIOUS
<1>3. RowOK(made) /\ made.online = r.online BY <1>1, ServicesWrite
<1>4. RowOK(beaten) /\ beaten.online = r.online BY <1>2, <1>3 DEF RowOK
<1>5. PICK profiled : profiled = AvailFromPresence(beaten) OBVIOUS
<1>6. RowOK(profiled) /\ profiled.online = r.online BY <1>4, <1>5, ServicesWrite
<1>7. RecordHeartbeat(r) = TouchHeartbeat(profiled) BY <1>1, <1>2, <1>5 DEF RecordHeartbeat
<1>8. RowOK(TouchHeartbeat(profiled)) /\ TouchHeartbeat(profiled).online = profiled.online
BY <1>6, ServicesWrite
<1> QED BY <1>6, <1>7, <1>8

\* A poll or an accept leaves the row of a resting driver as it is.
LEMMA RefreshWrites ==
  ASSUME NEW r, RowOK(r)
  PROVE  RowOK(Refreshed(r)) /\ (r.requested \in Resting => Refreshed(r) = r)
<1>1. PICK made : made = Created(r) OBVIOUS
<1>2. RowOK(made) /\ (r.requested \in Resting => made = r) BY <1>1, ServicesWrite DEF Resting
<1>3. Refreshed(r) = IF Effective(made) = "available" THEN TouchHeartbeat(SyncFromPresence(made)) ELSE made
BY <1>1 DEF Refreshed
<1> QED BY <1>2, <1>3, ServicesWrite, RestingIsUnavailable

\* A request that begins keeps the invariant, given what the endpoints ensure: only one that
\* says what the driver wants writes the requested state, one that says rest takes them
\* offline, and only a poll or an accept writes the online flag besides, unless they rest.
LEMMA BeginPresenceKeeps ==
  ASSUME PresenceInv, NEW d \in Devices, NEW op, NEW wants, NEW new, RowOK(new),
         wants = "none" => new.requested = row.requested,
         wants = "none" /\ (op # "sync" \/ row.requested \in Resting) => new.online = row.online,
         wants = "rest" => new.requested \in Resting /\ new.online = FALSE,
         Begins(d, op, wants, new)
  PROVE  PresenceInv'
<1>1. PICK q : q = [op |-> op, wants |-> wants, set |-> Changed(new),
                    creates |-> row.requested = "none" /\ new.requested # "none"] OBVIOUS
<1>2. /\ UNCHANGED row /\ inFlight' = [inFlight EXCEPT ![d] = q] /\ inFlight[d] = NoCall
      /\ DOMAIN inFlight = Devices /\ RowOK(row)
BY <1>1 DEF Begins, PresenceInv
<1>3. \A e \in Devices : inFlight'[e] = IF e = d THEN q ELSE inFlight[e] BY <1>2
<1>4. PICK set : set = Changed(new) OBVIOUS
<1>5. /\ "requested" \in DOMAIN set <=> new.requested # row.requested
      /\ "requested" \in DOMAIN set => set["requested"] = new.requested
      /\ "online" \in DOMAIN set <=> new.online # row.online
      /\ "online" \in DOMAIN set => set["online"] = new.online
  <2>1. DOMAIN new = {"requested", "beat", "avail", "online", "seen", "coords"} BY DEF RowOK
  <2>2. DOMAIN set = {k \in DOMAIN new : new[k] # row[k]} BY <1>4 DEF Changed
  <2>3. \A c \in DOMAIN set : set[c] = IF c \in Times THEN Age(new[c]) ELSE new[c]
  BY <1>4, <2>2 DEF Changed, Stamped
  <2> QED BY <2>1, <2>2, <2>3 DEF Times
<1>6. q = [op |-> op, wants |-> wants, set |-> set, creates |-> q.creates] BY <1>1, <1>4
<1>7. RequestOK(q) BY <1>5, <1>6 DEF RequestOK
<1>8. \A e \in Devices : RequestOK(inFlight[e])' BY <1>2, <1>3, <1>7 DEF PresenceInv, RequestOK
<1>9. intent' = "stopping" => \E e \in Devices : StopsWith(e)'
  <2> SUFFICES ASSUME intent' = "stopping" PROVE \E e \in Devices : StopsWith(e)' OBVIOUS
  <2>0. /\ overlapped' <=> Syncing # {} \/ op = "sync" \/ (overlapped /\ intent = "stopping")
  BY DEF Begins
  <2>1. CASE wants = "none"
    <3>1. intent = "stopping" BY <2>1 DEF Begins
    <3>2. PICK e \in Devices : StopsWith(e) BY <3>1 DEF PresenceInv
    <3>3. e # d BY <1>2, <3>2 DEF StopsWith, NoCall
    <3>4. inFlight'[e] = inFlight[e] /\ inFlight'[d].wants = "none" BY <1>3, <1>6, <2>1, <3>3
    <3>5. Syncing = {} /\ op # "sync" => Syncing' = {} BY <1>3, <1>6 DEF Syncing
    <3>6. \A f \in Devices \ {e} : inFlight'[f].wants = "none" BY <1>3, <3>2, <3>4 DEF StopsWith
    <3>7. Outcome(inFlight[e], "requested") \in Resting BY <3>2 DEF StopsWith
    <3> QED BY <1>2, <2>0, <3>1, <3>2, <3>4, <3>5, <3>6, <3>7 DEF StopsWith, Outcome
  <2>2. CASE wants # "none"
    <3>1. wants = "rest" /\ Wanting = {} BY <2>2 DEF Begins
    <3>2. \A e \in Devices \ {d} : inFlight'[e].wants = "none" BY <1>3, <3>1 DEF Wanting
    <3>3. inFlight'[d] = q BY <1>3
    <3>4. Outcome(q, "requested") \in Resting /\ Outcome(q, "online") = FALSE
    BY <1>5, <1>6, <3>1 DEF Outcome
    <3>5. ~overlapped' => Syncing' = {} BY <1>3, <1>6, <2>0 DEF Syncing
    <3> QED BY <1>2, <1>6, <3>1, <3>2, <3>3, <3>4, <3>5 DEF StopsWith, Outcome
  <2> QED BY <2>1, <2>2
<1>10. intent' = "rest" => Stopped'
  <2> SUFFICES ASSUME intent' = "rest" PROVE Stopped' OBVIOUS
  <2>1. wants = "none" /\ intent = "rest" BY DEF Begins
  <2>2. Stopped BY <2>1 DEF PresenceInv
  <2>3. overlapped' <=> overlapped BY <2>1 DEF Begins
  <2>4. Wanting' = {} BY <1>3, <1>6, <2>1, <2>2 DEF Stopped, Wanting
  <2>5. "online" \notin DOMAIN q.set BY <1>5, <1>6, <2>1, <2>2 DEF Stopped
  <2>6. ~overlapped => \A e \in Devices : "online" \notin DOMAIN inFlight'[e].set
  BY <1>3, <2>2, <2>5 DEF Stopped
  <2> QED BY <1>2, <2>2, <2>3, <2>4, <2>6 DEF Stopped
<1> QED BY <1>2, <1>8, <1>9, <1>10 DEF PresenceInv, RowOK

\* Every endpoint that begins a request ensures what the lemma above asks for.
LEMMA BeginSteps ==
  ASSUME PresenceInv, NEW d \in Devices,
         \/ GetPresence(d) \/ PatchOnline(d) \/ PatchOffline(d) \/ PatchLocation(d)
         \/ Heartbeat(d) \/ Poll(d) \/ Accept(d)
         \/ \E s \in Asked : PutPresence(d, s)
         \/ \E a \in {"available", "busy", "offline"} : PutProfile(d, a)
  PROVE  PresenceInv'
<1>1. RowOK(row) BY DEF PresenceInv
<1>2. \A new : Incidental(new) \in {"none", "work"} /\ (Incidental(new) = "none" => new.requested = row.requested)
BY DEF Incidental
<1>3. CASE GetPresence(d)
  <2>1. PICK made : made = Created(row) OBVIOUS
  <2>2. PICK new : new = AvailFromPresence(made) OBVIOUS
  <2>3. RowOK(made) /\ made.online = row.online BY <1>1, <2>1, ServicesWrite
  <2>4. RowOK(new) /\ new.online = row.online BY <2>2, <2>3, ServicesWrite
  <2>5. Begins(d, "observe", Incidental(new), new) BY <1>3, <2>1, <2>2 DEF GetPresence
  <2> QED BY <1>2, <2>4, <2>5, BeginPresenceKeeps
<1>4. CASE PatchOnline(d)
  <2>1. PICK moved : moved = SetOnline(row) OBVIOUS
  <2>2. RowOK(moved) BY <1>1, <2>1 DEF RowOK, SetOnline
  <2>3. RowOK(SetPresenceState(moved, "available")) BY <2>2, PutWrites
  <2>4. Begins(d, "put", "work", SetPresenceState(moved, "available")) BY <1>4, <2>1 DEF PatchOnline
  <2> QED BY <2>3, <2>4, BeginPresenceKeeps
<1>5. CASE PatchOffline(d)
  <2>1. PICK moved : moved = [row EXCEPT !.online = FALSE, !.avail = "offline"] OBVIOUS
  <2>2. RowOK(moved) BY <1>1, <2>1 DEF RowOK
  <2>3. PICK new : new = SetPresenceState(moved, "offline") OBVIOUS
  <2>4. RowOK(new) /\ new.requested \in Resting /\ new.online = FALSE BY <2>2, <2>3, PutWrites DEF Resting
  <2>5. Begins(d, "put", "rest", new) BY <1>5, <2>1, <2>3 DEF PatchOffline
  <2> QED BY <2>4, <2>5, BeginPresenceKeeps
<1>6. CASE PatchLocation(d)
  <2>1. PICK moved : moved = [row EXCEPT !.seen = Now, !.coords = TRUE] OBVIOUS
  <2>2. RowOK(moved) /\ moved.online = row.online BY <1>1, <2>1 DEF RowOK
  <2>3. PICK new : new = RecordHeartbeat(moved) OBVIOUS
  <2>4. RowOK(new) /\ new.online = row.online BY <2>2, <2>3, HeartbeatWrites
  <2>5. Begins(d, "beat", Incidental(new), new) BY <1>6, <2>1, <2>3 DEF PatchLocation
  <2> QED BY <1>2, <2>4, <2>5, BeginPresenceKeeps
<1>7. CASE Heartbeat(d)
  <2>1. PICK new : new = RecordHeartbeat(row) OBVIOUS
  <2>2. RowOK(new) /\ new.online = row.online BY <1>1, <2>1, HeartbeatWrites
  <2>3. Begins(d, "beat", Incidental(new), new) BY <1>7, <2>1 DEF Heartbeat
  <2> QED BY <1>2, <2>2, <2>3, BeginPresenceKeeps
<1>8. CASE Poll(d) \/ Accept(d)
  <2>1. PICK read : read = Refreshed(row) OBVIOUS
  <2>2. PICK profiled : profiled = AvailFromPresence(read) OBVIOUS
  <2>3. RowOK(read) /\ (row.requested \in Resting => read = row) BY <1>1, <2>1, RefreshWrites
  <2>4. RowOK(profiled) /\ profiled.online = read.online /\ profiled.requested = read.requested
  BY <2>2, <2>3, ServicesWrite
  <2>5. PICK new \in {read, profiled} : Begins(d, "sync", Incidental(read), new)
    <3>1. CASE Poll(d) BY <2>1, <3>1 DEF Poll
    <3>2. CASE Accept(d)
      <4>1. Incidental(profiled) = Incidental(read) BY <2>4 DEF Incidental
      <4> QED BY <2>1, <2>2, <3>2, <4>1 DEF Accept
    <3> QED BY <1>8, <3>1, <3>2
  <2>6. /\ RowOK(new) /\ new.requested = read.requested
        /\ row.requested \in Resting => new.online = row.online
  BY <2>3, <2>4, <2>5
  <2> QED BY <1>2, <2>5, <2>6, BeginPresenceKeeps
<1>9. ASSUME NEW s \in Asked, PutPresence(d, s) PROVE PresenceInv'
  <2>1. PICK new : new = SetPresenceState(row, s) OBVIOUS
  <2>2. RowOK(new) /\ new.requested = s /\ (s \in Resting => new.online = FALSE) BY <1>1, <2>1, PutWrites
  <2>3. PICK wants \in {"rest", "work"} : Begins(d, "put", wants, new) /\ (wants = "rest" => s \in Resting)
  BY <1>9, <2>1 DEF PutPresence, Resting
  <2> QED BY <2>2, <2>3, BeginPresenceKeeps
<1>10. ASSUME NEW a \in {"available", "busy", "offline"}, PutProfile(d, a) PROVE PresenceInv'
  <2>1. PICK new : new = [row EXCEPT !.avail = a] OBVIOUS
  <2>2. RowOK(new) /\ new.requested = row.requested /\ new.online = row.online BY <1>1, <2>1 DEF RowOK
  <2>3. Begins(d, "observe", "none", new) BY <1>10, <2>1 DEF PutProfile
  <2> QED BY <2>2, <2>3, BeginPresenceKeeps
<1> QED BY <1>3, <1>4, <1>5, <1>6, <1>7, <1>8, <1>9, <1>10

\* A commit writes what its request set: the one the driver stops with makes them stopped,
\* and one that says nothing of what they want leaves the outcome of the others alone.
LEMMA CommitPresenceKeeps ==
  ASSUME PresenceInv, NEW d \in Devices, CommitCall(d)
  PROVE  PresenceInv'
<1>1. PICK q : q = inFlight[d] OBVIOUS
<1>2. RowOK(row) /\ RequestOK(q) /\ DOMAIN inFlight = Devices BY <1>1 DEF PresenceInv
<1>3. /\ inFlight' = [inFlight EXCEPT ![d] = NoCall] /\ UNCHANGED overlapped
      /\ row' = [c \in DOMAIN row |-> Outcome(q, c)]
      /\ intent' = IF q.wants = "rest" /\ intent = "stopping" THEN "rest" ELSE intent
BY <1>1 DEF CommitCall, Outcome
<1>4. \A e \in Devices : inFlight'[e] = IF e = d THEN NoCall ELSE inFlight[e] BY <1>2, <1>3
<1>5. RowOK(row') /\ row'.requested = Outcome(q, "requested") /\ row'.online = Outcome(q, "online")
  <2>1. DOMAIN row = {"requested", "beat", "avail", "online", "seen", "coords"} BY <1>2 DEF RowOK
  <2> QED BY <1>3, <2>1 DEF RowOK
<1>6. DOMAIN NoCall.set = {} /\ NoCall.wants = "none" /\ NoCall.op = "none" BY DEF NoCall
<1>7. \A e \in Devices : RequestOK(inFlight'[e])
  <2>1. RequestOK(NoCall) BY <1>6 DEF RequestOK, NoCall
  <2> QED BY <1>4, <2>1 DEF PresenceInv
<1>8. Syncing' \subseteq Syncing /\ Wanting' = Wanting \ {d} BY <1>4, <1>6 DEF Syncing, Wanting
<1>9. intent' = "stopping" => \E e \in Devices : StopsWith(e)'
  <2> SUFFICES ASSUME intent' = "stopping" PROVE \E e \in Devices : StopsWith(e)' OBVIOUS
  <2>1. intent = "stopping" /\ q.wants # "rest" BY <1>3
  <2>2. PICK e \in Devices : StopsWith(e) BY <2>1 DEF PresenceInv
  <2>3. e # d /\ q.wants = "none" BY <1>1, <2>1, <2>2 DEF StopsWith
  <2>4. inFlight'[e] = inFlight[e] BY <1>4, <2>3
  <2>5. \A f \in Devices \ {e} : inFlight'[f].wants = "none" BY <1>4, <1>6, <2>2 DEF StopsWith
  <2>6. row'.requested = row.requested BY <1>2, <1>5, <2>3 DEF RequestOK, Outcome
  <2>7. ~overlapped => row'.online = row.online
    <3>1. ~overlapped => q.op # "sync" BY <1>1, <2>2 DEF StopsWith, Syncing
    <3> QED BY <1>2, <1>5, <2>3, <3>1 DEF RequestOK, Outcome
  <2> QED BY <1>3, <1>8, <2>2, <2>4, <2>5, <2>6, <2>7 DEF StopsWith, Outcome
<1>10. intent' = "rest" => Stopped'
  <2> SUFFICES ASSUME intent' = "rest" PROVE Stopped' OBVIOUS
  <2>1. CASE q.wants = "rest" /\ intent = "stopping"
    <3>1. PICK e \in Devices : StopsWith(e) BY <2>1 DEF PresenceInv
    <3>2. e = d BY <1>1, <2>1, <3>1 DEF StopsWith
    <3>3. Wanting' = {} /\ row'.requested \in Resting BY <1>1, <1>5, <1>8, <3>1, <3>2 DEF StopsWith, Wanting
    <3>4. ~overlapped => row'.online = FALSE /\ \A f \in Devices : "online" \notin DOMAIN inFlight'[f].set
    BY <1>1, <1>4, <1>5, <1>6, <3>1, <3>2 DEF StopsWith, Syncing, PresenceInv, RequestOK
    <3> QED BY <1>3, <3>3, <3>4 DEF Stopped
  <2>2. CASE ~(q.wants = "rest" /\ intent = "stopping")
    <3>1. intent = "rest" BY <1>3, <2>2
    <3>2. Stopped BY <3>1 DEF PresenceInv
    <3>3. q.wants = "none" BY <1>1, <3>2 DEF Stopped, Wanting
    <3>4. row'.requested = row.requested BY <1>2, <1>5, <3>3 DEF RequestOK, Outcome
    <3>5. ~overlapped => row'.online = row.online BY <1>1, <1>5, <3>2 DEF Stopped, Outcome
    <3>6. ~overlapped => \A f \in Devices : "online" \notin DOMAIN inFlight'[f].set BY <1>4, <1>6, <3>2 DEF Stopped
    <3> QED BY <1>3, <1>8, <3>2, <3>4, <3>5, <3>6 DEF Stopped
  <2> QED BY <2>1, <2>2
<1>11. DOMAIN inFlight' = Devices BY <1>2, <1>3
<1> QED BY <1>5, <1>7, <1>9, <1>10, <1>11 DEF PresenceInv, RowOK, RequestOK

\* A request that is given up leaves the row; if it said what the driver wants, nobody knows.
LEMMA AbandonKeeps ==
  ASSUME PresenceInv, NEW d \in Devices, AbandonCall(d)
  PROVE  PresenceInv'
<1>1. /\ inFlight' = [inFlight EXCEPT ![d] = NoCall] /\ UNCHANGED row
      /\ intent' = IF inFlight[d].wants # "none" THEN "unclear" ELSE intent
      /\ overlapped' <=> overlapped /\ intent' # "unclear"
      /\ DOMAIN inFlight = Devices
BY DEF AbandonCall, PresenceInv
<1>2. \A e \in Devices : inFlight'[e] = IF e = d THEN NoCall ELSE inFlight[e] BY <1>1
<1>3. DOMAIN NoCall.set = {} /\ NoCall.wants = "none" /\ NoCall.op = "none" BY DEF NoCall
<1>4. \A e \in Devices : RequestOK(inFlight'[e])
  <2>1. RequestOK(NoCall) BY <1>3 DEF RequestOK, NoCall
  <2> QED BY <1>2, <2>1 DEF PresenceInv
<1>5. Syncing' \subseteq Syncing /\ Wanting' \subseteq Wanting BY <1>2, <1>3 DEF Syncing, Wanting
<1>6. intent' = "stopping" => \E e \in Devices : StopsWith(e)'
  <2> SUFFICES ASSUME intent' = "stopping" PROVE \E e \in Devices : StopsWith(e)' OBVIOUS
  <2>1. intent = "stopping" /\ inFlight[d].wants = "none" BY <1>1
  <2>2. PICK e \in Devices : StopsWith(e) BY <2>1 DEF PresenceInv
  <2>3. e # d BY <2>1, <2>2 DEF StopsWith
  <2>4. inFlight'[e] = inFlight[e] BY <1>2, <2>3
  <2>5. \A f \in Devices \ {e} : inFlight'[f].wants = "none" BY <1>2, <1>3, <2>2 DEF StopsWith
  <2> QED BY <1>1, <1>5, <2>2, <2>4, <2>5 DEF StopsWith, Outcome
<1>7. intent' = "rest" => Stopped'
  <2> SUFFICES ASSUME intent' = "rest" PROVE Stopped' OBVIOUS
  <2>1. intent = "rest" /\ (overlapped' <=> overlapped) BY <1>1
  <2>2. Stopped BY <2>1 DEF PresenceInv
  <2>3. ~overlapped => \A f \in Devices : "online" \notin DOMAIN inFlight'[f].set BY <1>2, <1>3, <2>2 DEF Stopped
  <2> QED BY <1>1, <1>5, <2>1, <2>2, <2>3 DEF Stopped
<1>8. DOMAIN inFlight' = Devices BY <1>1
<1> QED BY <1>1, <1>4, <1>6, <1>7, <1>8 DEF PresenceInv, RowOK, RequestOK

\* Time touches only the times, and a review of the driver none of this.
LEMMA TimeKeeps ==
  ASSUME PresenceInv, PassTime \/ Review \/ UNCHANGED presenceVars
  PROVE  PresenceInv'
<1>1. CASE PassTime
  <2>1. DOMAIN row = {"requested", "beat", "avail", "online", "seen", "coords"} BY DEF PresenceInv, RowOK
  <2>2. RowOK(row') /\ row'.requested = row.requested /\ row'.online = row.online
  BY <1>1, <2>1 DEF PassTime, Aged, Times, RowOK
  <2>3. DOMAIN inFlight' = Devices /\ UNCHANGED <<intent, overlapped>> BY <1>1 DEF PassTime
  <2>4. ASSUME NEW e \in Devices
        PROVE  /\ inFlight'[e].op = inFlight[e].op /\ inFlight'[e].wants = inFlight[e].wants
               /\ DOMAIN inFlight'[e].set = DOMAIN inFlight[e].set
               /\ \A c \in {"requested", "online"} \intersect DOMAIN inFlight[e].set :
                    inFlight'[e].set[c] = inFlight[e].set[c]
               /\ RequestOK(inFlight'[e])
    <3>1. PICK q : q = inFlight[e] OBVIOUS
    <3>2. RequestOK(q) BY <3>1 DEF PresenceInv
    <3>3. PICK set : set = Aged(q.set) OBVIOUS
    <3>4. inFlight'[e] = [q EXCEPT !.set = set] BY <1>1, <3>1, <3>3 DEF PassTime
    <3>5. inFlight'[e] = [op |-> q.op, wants |-> q.wants, set |-> set, creates |-> q.creates]
    BY <3>2, <3>4 DEF RequestOK
    <3>6. DOMAIN set = DOMAIN q.set /\ \A c \in DOMAIN set : c \notin Times => set[c] = q.set[c]
    BY <3>3 DEF Aged
    <3> QED BY <3>1, <3>2, <3>5, <3>6 DEF RequestOK, Times
  <2>5. Syncing' = Syncing /\ Wanting' = Wanting BY <2>4 DEF Syncing, Wanting
  <2>6. \A e \in Devices : StopsWith(e) => StopsWith(e)'
    <3> SUFFICES ASSUME NEW e \in Devices, StopsWith(e) PROVE StopsWith(e)' OBVIOUS
    <3>1. \A c \in {"requested", "online"} : Outcome(inFlight[e], c)' = Outcome(inFlight[e], c) BY <2>2, <2>4 DEF Outcome
    <3> QED BY <2>3, <2>4, <2>5, <3>1 DEF StopsWith
  <2>7. Stopped => Stopped' BY <2>2, <2>3, <2>4, <2>5 DEF Stopped
  <2> QED BY <2>2, <2>3, <2>4, <2>6, <2>7 DEF PresenceInv, RowOK, RequestOK
<1>2. CASE Review \/ UNCHANGED presenceVars
BY <1>2 DEF Review, presenceVars, PresenceInv, RowOK, RequestOK, StopsWith, Stopped, Outcome, Syncing, Wanting
<1> QED BY <1>1, <1>2

\* Every reachable state of a driver's presence satisfies the invariant.
THEOREM PresenceInvariant == PresenceSpec => []PresenceInv
<1>1. PresenceInit => PresenceInv
  <2> SUFFICES ASSUME PresenceInit PROVE PresenceInv OBVIOUS
  <2>1. DOMAIN NoCall.set = {} /\ NoCall.wants = "none" /\ NoCall.op = "none" BY DEF NoCall
  <2>2. \A d \in Devices : RequestOK(inFlight[d]) BY <2>1 DEF PresenceInit, RequestOK, NoCall
  <2> QED BY <2>2 DEF PresenceInit, PresenceInv, RowOK
<1>2. PresenceInv /\ [PresenceNext]_presenceVars => PresenceInv'
  BY BeginSteps, CommitPresenceKeeps, AbandonKeeps, TimeKeeps DEF PresenceNext
<1> QED BY <1>1, <1>2, PTL DEF PresenceSpec

\* A driver who stopped is offered nothing, and shows as online only when a poll or an
\* accept was in flight as they stopped, with any number of devices and any requests.
THEOREM RestIsKept == PresenceSpec => []RestHolds
<1>1. PresenceInv => RestHolds
  BY RestingIsUnavailable DEF PresenceInv, Stopped, RestHolds, Offerable
<1> QED BY <1>1, PresenceInvariant, PTL

-----------------------------------------------------------------------------
(***************************************************************************)
(* Proofs about CityCells for any number of requests, cells, activities,   *)
(* buckets and computations: a bucket is of one computation unless two     *)
(* overlapped, and what a driver is shown rests on the facts the gates ask *)
(* for.                                                                    *)
(*                                                                         *)
(* A computation that has deleted knows all other rows of its bucket       *)
(* except those of computations that committed since, which it crossed.    *)
(* Computations are known by numbers of their own, so two rows of one      *)
(* computation and one cell come from the same count; and the rows an      *)
(* answer read are in the table still unless a commit tore the answer.     *)
(***************************************************************************)

Kinds == SilQueries \union CityQueries

Computation(pc, kind, s, by, seen, c, gone) ==
  [pc |-> pc, kind |-> kind, slot |-> s, by |-> by, seen |-> seen, context |-> c, gone |-> gone]

\* The requests that are computing.
Computes(q) == q.pc \in {"counted", "deleted"}

IsComputation(q) == \E kind \in Kinds : \E s, by, seen, c, gone :
  q = Computation(q.pc, kind, s, by, seen, c, gone)

CityType ==
  /\ DOMAIN query = CityWorkers
  /\ computes \in Nat
  /\ \A w \in CityWorkers : Computes(query[w]) => IsComputation(query[w])
  /\ \A w \in CityWorkers : query[w].pc = "half" => {"pc", "torn"} \subseteq DOMAIN query[w]

\* Numbers are used once: by a request that computes, or by the rows it stored.
NumbersOnce ==
  /\ \A r \in table : r.by \in Nat /\ r.by <= computes
  /\ \A w \in CityWorkers : Computes(query[w]) =>
       /\ query[w].by \in Nat /\ query[w].by <= computes
       /\ \A r \in table : r.by # query[w].by
       /\ \A v \in CityWorkers : v # w /\ Computes(query[v]) => query[v].by # query[w].by

\* Buckets are numbered.
SlotsKnown ==
  /\ slot \in Nat
  /\ \A r \in table : r.slot \in Nat
  /\ \A w \in CityWorkers : Computes(query[w]) => query[w].slot \in Nat

\* Rows of one computation and one cell hold one count.
OneCount == \A r, s \in table : r.by = s.by /\ r.cell = s.cell => r.seen = s.seen

\* A computation that has deleted crossed whoever stored what it did not delete, and deletes
\* rows of its bucket only.
DeletedKnows == \A w \in CityWorkers : query[w].pc = "deleted" =>
  /\ \A r \in BucketRows(query[w]) : r \in query[w].gone \/ {r.by, query[w].by} \in crossed
  /\ \A r \in query[w].gone : r.layer = LayerOf(query[w].kind)

\* An answer that no commit tore has read rows that are in the table still.
HalvesHold == \A w \in CityWorkers : query[w].pc = "half" /\ ~ query[w].torn =>
  /\ \A r \in query[w].rows : r \in table /\ r.layer = "crl"
  /\ query[w].kind = "city map" => \A r \in query[w].rows : r.slot = query[w].slot
  /\ query[w].kind = "explain" => \A r \in query[w].rows : r \in LatestRows(r.cell)

CityInv ==
  /\ CityType /\ NumbersOnce /\ SlotsKnown /\ OneCount /\ DeletedKnows /\ HalvesHold
  /\ BucketsAreWhole /\ ShownIsBacked

\* All of it but what was shown last.
TableInv ==
  CityType /\ NumbersOnce /\ SlotsKnown /\ OneCount /\ DeletedKnows /\ HalvesHold /\ BucketsAreWhole

-----------------------------------------------------------------------------
(* The gates *)

\* A count that passes a gate rests on the facts the gate asks for.
LEMMA GatesAsk ==
  /\ \A a : CityEnough(a) => BusyEnough(a) /\ a.drivers >= 1
  /\ \A a : SilEnough(a) => BusyEnough(a) \/ SlowEnough(a)
<1>1. ASSUME NEW a, CityEnough(a) PROVE BusyEnough(a) /\ a.drivers >= 1
  <2>1. CASE BusyEnough(a) /\ a.drivers >= 1
    BY <2>1
  <2>2. CASE ~ (BusyEnough(a) /\ a.drivers >= 1)
    <3>1. CityConfidence(a) = 0
      BY <2>2 DEF CityConfidence
    <3>2. CityConfidence(a) >= 40
      BY <1>1 DEF CityEnough
    <3> QED
      BY <3>1, <3>2
  <2> QED
    BY <2>1, <2>2
<1>2. ASSUME NEW a, SilEnough(a) PROVE BusyEnough(a) \/ SlowEnough(a)
  BY <1>2 DEF SilEnough
<1> QED
  BY <1>1, <1>2

\* Nothing shown, nothing to back.
LEMMA NothingShown == ASSUME shown' = {} PROVE ShownIsBacked'
  BY DEF ShownIsBacked

-----------------------------------------------------------------------------
(* Steps that leave the table alone *)

\* The fields of a computation are those it was made with.
LEMMA ComputationFields ==
  ASSUME NEW pc, NEW kind, NEW s, NEW by, NEW seen, NEW c, NEW gone
  PROVE  LET q == Computation(pc, kind, s, by, seen, c, gone) IN
         q.pc = pc /\ q.kind = kind /\ q.slot = s /\ q.by = by /\ q.seen = seen /\ q.gone = gone
  BY DEF Computation

\* A request becomes q, which is not computing unless it was.
LEMMA AskKeeps ==
  ASSUME TableInv, UNCHANGED <<slot, table, computes, crossed>>, NEW w \in CityWorkers, NEW q, Ask(w, q),
         q.pc \notin {"counted", "deleted"},
         q.pc = "half" =>
           /\ {"pc", "torn"} \subseteq DOMAIN q
           /\ \A r \in q.rows : r \in table /\ r.layer = "crl"
           /\ q.kind = "city map" => \A r \in q.rows : r.slot = q.slot
           /\ q.kind = "explain" => \A r \in q.rows : r \in LatestRows(r.cell)
  PROVE  TableInv'
<1> USE DEF TableInv
<1>1. /\ DOMAIN query = CityWorkers /\ DOMAIN query' = CityWorkers
      /\ query'[w] = q /\ \A v \in CityWorkers : v # w => query'[v] = query[v]
  BY DEF Ask, CityType
<1>2. ~ Computes(q)
  BY DEF Computes
<1>7. CityType'
  BY <1>1, <1>2 DEF CityType
<1>3. NumbersOnce'
  <2> SUFFICES ASSUME NEW v \in CityWorkers, Computes(query'[v])
               PROVE  /\ query'[v].by \in Nat /\ query'[v].by <= computes
                      /\ \A r \in table : r.by # query'[v].by
                      /\ \A u \in CityWorkers : u # v /\ Computes(query'[u]) => query'[u].by # query'[v].by
    BY DEF NumbersOnce
  <2>1. v # w /\ query'[v] = query[v]
    BY <1>1, <1>2
  <2>2. \A u \in CityWorkers : Computes(query'[u]) => query'[u] = query[u]
    BY <1>1, <1>2
  <2> QED
    BY <2>1, <2>2 DEF NumbersOnce
<1>4. OneCount' /\ BucketsAreWhole'
  BY DEF OneCount, BucketsAreWhole, Overlapped
<1>5. DeletedKnows'
  BY <1>1 DEF DeletedKnows, BucketRows
<1>6. HalvesHold'
  <2> SUFFICES ASSUME NEW v \in CityWorkers, query'[v].pc = "half", ~ query'[v].torn
               PROVE  /\ \A r \in query'[v].rows : r \in table /\ r.layer = "crl"
                      /\ query'[v].kind = "city map" => \A r \in query'[v].rows : r.slot = query'[v].slot
                      /\ query'[v].kind = "explain" => \A r \in query'[v].rows : r \in LatestRows(r.cell)
    BY DEF HalvesHold, LatestRows
  <2>1. CASE v = w
    BY <1>1, <2>1
  <2>2. CASE v # w
    BY <1>1, <2>2 DEF HalvesHold
  <2> QED
    BY <2>1, <2>2
<1>8. SlotsKnown'
  BY <1>1, <1>2 DEF SlotsKnown
<1> QED
  BY <1>3, <1>4, <1>5, <1>6, <1>7, <1>8

\* A worker without a query is idle.
LEMMA NoQueryIsIdle == NoQuery.pc = "idle"
  BY DEF NoQuery

\* A worker that comes to rest keeps the invariant of the table.
LEMMA RestKeeps ==
  ASSUME TableInv, UNCHANGED <<slot, table, computes, crossed>>, NEW w \in CityWorkers, Ask(w, NoQuery)
  PROVE  TableInv'
  BY NoQueryIsIdle, AskKeeps

\* A computation begins under a number that nobody has.
LEMMA BeginComputeKeeps ==
  ASSUME TableInv, NEW w \in CityWorkers, NEW kind \in Kinds, NEW seen, NEW c,
         BeginCompute(w, kind, seen, c)
  PROVE  TableInv'
<1> USE DEF TableInv
<1> DEFINE q == Computation("counted", kind, slot, computes + 1, seen, c, {})
<1>1. query' = [query EXCEPT ![w] = q] /\ computes' = computes + 1 /\ UNCHANGED <<slot, table, crossed>>
  BY DEF BeginCompute, Ask, Computation
<1>2. q.pc = "counted" /\ q.by = computes + 1 /\ q.slot = slot
  BY ComputationFields
<1>3. IsComputation(q)
  BY <1>2 DEF IsComputation
<1> HIDE DEF q
<1>4. /\ DOMAIN query' = CityWorkers /\ computes \in Nat
      /\ query'[w] = q /\ \A v \in CityWorkers : v # w => query'[v] = query[v]
  BY <1>1 DEF CityType
<1>5. CityType'
  <2>1. query'[w].pc # "half"
    BY <1>2, <1>4
  <2>2. \A v \in CityWorkers : Computes(query'[v]) => IsComputation(query'[v])
    BY <1>3, <1>4 DEF CityType
  <2>3. \A v \in CityWorkers : query'[v].pc = "half" => {"pc", "torn"} \subseteq DOMAIN query'[v]
    BY <1>4, <2>1 DEF CityType
  <2> QED
    BY <1>1, <1>4, <2>2, <2>3 DEF CityType
<1>6. NumbersOnce'
  <2>1. \A r \in table : r.by \in Nat /\ r.by <= computes
    BY DEF NumbersOnce
  <2>2. \A v \in CityWorkers : v # w /\ Computes(query'[v]) =>
          query'[v].by = query[v].by /\ query[v].by \in Nat /\ query[v].by <= computes
    BY <1>4 DEF NumbersOnce
  <2>3. \A r \in table : r.by <= computes + 1 /\ r.by # computes + 1
    BY <1>4, <2>1
  <2>4. \A v \in CityWorkers : v # w /\ Computes(query'[v]) =>
          query'[v].by <= computes + 1 /\ query'[v].by # computes + 1
    BY <1>4, <2>2
  <2>5. ASSUME NEW v \in CityWorkers, Computes(query'[v])
        PROVE  /\ query'[v].by \in Nat /\ query'[v].by <= computes + 1
               /\ \A r \in table : r.by # query'[v].by
               /\ \A u \in CityWorkers : u # v /\ Computes(query'[u]) => query'[u].by # query'[v].by
    <3>1. CASE v = w
      BY <1>2, <1>4, <2>3, <2>4, <3>1
    <3>2. CASE v # w
      <4>1. Computes(query[v]) /\ query'[v] = query[v]
        BY <1>4, <2>5, <3>2
      <4>2. \A u \in CityWorkers : u # v /\ u # w /\ Computes(query'[u]) => query'[u].by # query'[v].by
        BY <1>4, <4>1 DEF NumbersOnce
      <4>3. query'[w].by # query'[v].by
        BY <1>2, <1>4, <2>4, <2>5, <3>2
      <4> QED
        BY <2>2, <2>4, <2>5, <3>2, <4>1, <4>2, <4>3 DEF NumbersOnce
    <3> QED
      BY <3>1, <3>2
  <2> QED
    BY <1>1, <2>1, <2>3, <2>5 DEF NumbersOnce
<1>7. OneCount' /\ BucketsAreWhole'
  BY <1>1 DEF OneCount, BucketsAreWhole, Overlapped
<1>8. DeletedKnows'
  BY <1>1, <1>2, <1>4 DEF DeletedKnows, BucketRows
<1>9. HalvesHold'
  <2>0. table' = table
    BY <1>1
  <2> SUFFICES ASSUME NEW v \in CityWorkers, query'[v].pc = "half", ~ query'[v].torn
               PROVE  /\ \A r \in query'[v].rows : r \in table /\ r.layer = "crl"
                      /\ query'[v].kind = "city map" => \A r \in query'[v].rows : r.slot = query'[v].slot
                      /\ query'[v].kind = "explain" => \A r \in query'[v].rows : r \in LatestRows(r.cell)
    BY <2>0 DEF HalvesHold, LatestRows
  <2>1. v # w /\ query'[v] = query[v]
    BY <1>2, <1>4
  <2> QED
    BY <2>1 DEF HalvesHold
<1>10. SlotsKnown'
  BY <1>1, <1>2, <1>4 DEF SlotsKnown
<1> QED
  BY <1>5, <1>6, <1>7, <1>8, <1>9, <1>10

\* The delete takes all rows of the bucket that there are.
LEMMA DeleteKeeps ==
  ASSUME TableInv, NEW w \in CityWorkers, DeleteBucket(w)
  PROVE  TableInv'
<1> USE DEF TableInv
<1>1. query[w].pc = "counted" /\ IsComputation(query[w])
  BY DEF DeleteBucket, CityType, Computes
<1>2. PICK kind \in Kinds : \E s, by, seen, c, gone :
        query[w] = Computation("counted", kind, s, by, seen, c, gone)
  BY <1>1 DEF IsComputation
<1>3. PICK s, by, seen, c, gone : query[w] = Computation("counted", kind, s, by, seen, c, gone)
  BY <1>2
<1>0. PICK rows : rows = BucketRows(query[w])
  OBVIOUS
<1> DEFINE q == Computation("deleted", kind, s, by, seen, c, rows)
<1>4. /\ query[w].by = by /\ query[w].kind = kind /\ query[w].slot = s
      /\ [query[w] EXCEPT !.pc = "deleted", !.gone = rows] = q
  <2>1. query[w].by = by /\ query[w].kind = kind /\ query[w].slot = s
    BY <1>3, ComputationFields
  <2> DEFINE d == Computation("deleted", kind, s, by, seen, c, gone)
  <2>2. [query[w] EXCEPT !.pc = "deleted", !.gone = rows] = [[query[w] EXCEPT !.pc = "deleted"] EXCEPT !.gone = rows]
    OBVIOUS
  <2>3. [query[w] EXCEPT !.pc = "deleted"] = d
    BY <1>3 DEF Computation
  <2>4. [d EXCEPT !.gone = rows] = q
    BY DEF Computation
  <2> HIDE DEF d, q
  <2>5. [query[w] EXCEPT !.pc = "deleted", !.gone = rows] = q
    BY <2>2, <2>3, <2>4
  <2> QED
    BY <2>1, <2>5
<1>5. query' = [query EXCEPT ![w] = q] /\ UNCHANGED <<slot, table, computes, crossed>>
  BY <1>0, <1>4 DEF DeleteBucket, Ask, Cleared
<1>6. rows = {r \in table : r.layer = LayerOf(kind) /\ r.slot = s}
  BY <1>0, <1>4 DEF BucketRows
<1>7. /\ q.pc = "deleted" /\ q.by = by /\ q.kind = kind /\ q.slot = s /\ q.gone = rows
  BY ComputationFields
<1>8. IsComputation(q)
  BY <1>7 DEF IsComputation
<1> HIDE DEF q
<1>9. /\ DOMAIN query' = CityWorkers
      /\ query'[w] = q /\ \A v \in CityWorkers : v # w => query'[v] = query[v]
  BY <1>5 DEF CityType
<1>10. CityType'
  <2>1. query'[w].pc # "half"
    BY <1>7, <1>9
  <2>2. \A v \in CityWorkers : Computes(query'[v]) => IsComputation(query'[v])
    BY <1>8, <1>9 DEF CityType
  <2>3. \A v \in CityWorkers : query'[v].pc = "half" => {"pc", "torn"} \subseteq DOMAIN query'[v]
    BY <1>9, <2>1 DEF CityType
  <2> QED
    BY <1>5, <1>9, <2>2, <2>3 DEF CityType
<1>11. \A v \in CityWorkers : (Computes(query'[v]) <=> Computes(query[v])) /\ query'[v].by = query[v].by
  BY <1>1, <1>4, <1>7, <1>9 DEF Computes
<1>12. NumbersOnce'
  BY <1>5, <1>11 DEF NumbersOnce
<1>13. OneCount' /\ BucketsAreWhole'
  BY <1>5 DEF OneCount, BucketsAreWhole, Overlapped
<1>14. DeletedKnows'
  <2> SUFFICES ASSUME NEW v \in CityWorkers, query'[v].pc = "deleted"
               PROVE  /\ \A r \in BucketRows(query'[v]) : r \in query'[v].gone \/ {r.by, query'[v].by} \in crossed
                      /\ \A r \in query'[v].gone : r.layer = LayerOf(query'[v].kind)
    BY <1>5 DEF DeletedKnows, BucketRows
  <2>1. CASE v = w
    BY <1>6, <1>7, <1>9, <2>1 DEF BucketRows
  <2>2. CASE v # w
    BY <1>9, <2>2 DEF DeletedKnows
  <2> QED
    BY <2>1, <2>2
<1>15. HalvesHold'
  <2>0. table' = table
    BY <1>5
  <2> SUFFICES ASSUME NEW v \in CityWorkers, query'[v].pc = "half", ~ query'[v].torn
               PROVE  /\ \A r \in query'[v].rows : r \in table /\ r.layer = "crl"
                      /\ query'[v].kind = "city map" => \A r \in query'[v].rows : r.slot = query'[v].slot
                      /\ query'[v].kind = "explain" => \A r \in query'[v].rows : r \in LatestRows(r.cell)
    BY <2>0 DEF HalvesHold, LatestRows
  <2>1. v # w /\ query'[v] = query[v]
    BY <1>7, <1>9
  <2> QED
    BY <2>1 DEF HalvesHold
<1>16. SlotsKnown'
  BY <1>1, <1>4, <1>5, <1>7, <1>9, <1>11 DEF SlotsKnown, Computes
<1> QED
  BY <1>10, <1>12, <1>13, <1>14, <1>15, <1>16

-----------------------------------------------------------------------------
(* The commit *)

\* The new rows are of one computation and one layer and bucket.
LEMMA ComputedRows ==
  ASSUME NEW q, NEW r \in Computed(q)
  PROVE  /\ r.layer = LayerOf(q.kind) /\ r.slot = q.slot /\ r.by = q.by
         /\ r.cell \in DOMAIN q.seen /\ r.seen = q.seen[r.cell]
  BY DEF Computed

\* The rows of a computation that commits cross those of the computations of its layer that
\* have deleted, and the answers that are half read are torn.
LEMMA CommitComputeKeeps ==
  ASSUME TableInv, NEW w \in CityWorkers, CommitBucket(w)
  PROVE  TableInv'
<1> USE DEF TableInv
<1> DEFINE q == query[w]
<1>1. q.pc = "deleted" /\ Computes(q) /\ UNCHANGED <<slot, computes>>
  BY DEF CommitBucket, Computes
<1>2. table' = (table \ q.gone) \union Computed(q)
  BY DEF CommitBucket
<1>3. /\ crossed \subseteq crossed'
      /\ \A v \in CityWorkers : v # w /\ query[v].pc = "deleted" /\ LayerOf(query[v].kind) = LayerOf(q.kind)
           => {q.by, query[v].by} \in crossed'
  BY DEF CommitBucket
<1> DEFINE answering == [pc |-> "committed", kind |-> q.kind, slot |-> q.slot]
<1>4. /\ DOMAIN query' = CityWorkers /\ query'[w] \in {NoQuery, answering}
      /\ \A v \in CityWorkers : v # w =>
           query'[v] = IF query[v].pc = "half" /\ LayerOf(q.kind) = "crl"
                       THEN [query[v] EXCEPT !.torn = TRUE] ELSE query[v]
  BY DEF CommitBucket
<1>5. query'[w].pc \in {"idle", "committed"}
  BY <1>4, NoQueryIsIdle
<1>6. ASSUME NEW v \in CityWorkers, Computes(query'[v])
      PROVE  v # w /\ query'[v] = query[v]
  <2>1. v # w
    BY <1>5, <1>6 DEF Computes
  <2>2. CASE query[v].pc = "half" /\ LayerOf(q.kind) = "crl"
    <3>1. query'[v] = [query[v] EXCEPT !.torn = TRUE] /\ {"pc", "torn"} \subseteq DOMAIN query[v]
      BY <1>4, <2>1, <2>2 DEF CityType
    <3>2. query'[v].pc = "half"
      BY <2>2, <3>1
    <3> QED
      BY <1>6, <3>2 DEF Computes
  <2> QED
    BY <1>4, <2>1, <2>2
<1>7. ASSUME NEW v \in CityWorkers, query'[v].pc = "half"
      PROVE  /\ v # w /\ {"pc", "torn"} \subseteq DOMAIN query'[v]
             /\ ~ query'[v].torn => query'[v] = query[v] /\ LayerOf(q.kind) # "crl"
  <2>1. v # w
    BY <1>5, <1>7
  <2>2. CASE query[v].pc = "half" /\ LayerOf(q.kind) = "crl"
    <3>1. query'[v] = [query[v] EXCEPT !.torn = TRUE] /\ {"pc", "torn"} \subseteq DOMAIN query[v]
      BY <1>4, <2>1, <2>2 DEF CityType
    <3>2. query'[v].torn = TRUE /\ DOMAIN query'[v] = DOMAIN query[v]
      BY <3>1
    <3> QED
      BY <2>1, <3>1, <3>2
  <2>3. CASE ~ (query[v].pc = "half" /\ LayerOf(q.kind) = "crl")
    <3>1. query'[v] = query[v]
      BY <1>4, <2>1, <2>3
    <3> QED
      BY <1>7, <2>1, <2>3, <3>1 DEF CityType
  <2> QED
    BY <2>2, <2>3
<1>8. CityType'
  BY <1>1, <1>4, <1>6, <1>7 DEF CityType
<1>9. \A r \in table' : \/ r \in table /\ r \notin q.gone
                       \/ /\ r.layer = LayerOf(q.kind) /\ r.slot = q.slot /\ r.by = q.by
                          /\ r.seen = q.seen[r.cell]
  BY <1>2, ComputedRows
<1>10. /\ q.by \in Nat /\ q.by <= computes
       /\ \A r \in table : r.by # q.by
       /\ \A v \in CityWorkers : v # w /\ Computes(query[v]) => query[v].by # q.by
  BY <1>1 DEF NumbersOnce
<1>11. /\ \A r \in BucketRows(q) : r \in q.gone \/ {r.by, q.by} \in crossed
       /\ \A r \in q.gone : r.layer = LayerOf(q.kind)
  BY <1>1 DEF DeletedKnows
<1>12. NumbersOnce'
  <2>1. \A r \in table' : r.by \in Nat /\ r.by <= computes
    BY <1>9, <1>10 DEF NumbersOnce
  <2>2. ASSUME NEW v \in CityWorkers, Computes(query'[v])
        PROVE  /\ query'[v].by \in Nat /\ query'[v].by <= computes
               /\ \A r \in table' : r.by # query'[v].by
               /\ \A u \in CityWorkers : u # v /\ Computes(query'[u]) => query'[u].by # query'[v].by
    <3>1. v # w /\ query'[v] = query[v] /\ Computes(query[v])
      BY <1>6, <2>2
    <3>2. \A r \in table : r.by # query[v].by
      BY <3>1 DEF NumbersOnce
    <3>3. \A r \in table' : r.by # query'[v].by
      BY <1>9, <1>10, <3>1, <3>2
    <3>4. \A u \in CityWorkers : Computes(query'[u]) => query'[u] = query[u]
      BY <1>6
    <3> QED
      BY <3>1, <3>3, <3>4 DEF NumbersOnce
  <2> QED
    BY <1>1, <2>1, <2>2 DEF NumbersOnce
<1>13. OneCount'
  <2> SUFFICES ASSUME NEW r \in table', NEW s \in table', r.by = s.by, r.cell = s.cell
               PROVE  r.seen = s.seen
    BY DEF OneCount
  <2> QED
    BY <1>9, <1>10 DEF OneCount
<1>14. DeletedKnows'
  <2> SUFFICES ASSUME NEW v \in CityWorkers, query'[v].pc = "deleted"
               PROVE  /\ \A r \in table' : r.layer = LayerOf(query'[v].kind) /\ r.slot = query'[v].slot
                           => r \in query'[v].gone \/ {r.by, query'[v].by} \in crossed'
                      /\ \A r \in query'[v].gone : r.layer = LayerOf(query'[v].kind)
    BY DEF DeletedKnows, BucketRows
  <2>1. v # w /\ query'[v] = query[v]
    BY <1>6 DEF Computes
  <2>2. /\ \A r \in table : r.layer = LayerOf(query[v].kind) /\ r.slot = query[v].slot
             => r \in query[v].gone \/ {r.by, query[v].by} \in crossed
        /\ \A r \in query[v].gone : r.layer = LayerOf(query[v].kind)
    BY <2>1 DEF DeletedKnows, BucketRows
  <2>3. LayerOf(query[v].kind) = LayerOf(q.kind) => {q.by, query[v].by} \in crossed'
    BY <1>3, <2>1
  <2> QED
    BY <1>3, <1>9, <2>1, <2>2, <2>3
<1>15. BucketsAreWhole'
  <2> SUFFICES ASSUME NEW r \in table', NEW s \in table', r.layer = s.layer, r.slot = s.slot
               PROVE  r.by = s.by \/ {r.by, s.by} \in crossed'
    BY DEF BucketsAreWhole, Overlapped
  <2> DEFINE old(x) == x \in table /\ x \notin q.gone
             new(x) == x.layer = LayerOf(q.kind) /\ x.slot = q.slot /\ x.by = q.by
  <2>1. \A x \in table' : old(x) \/ new(x)
    BY <1>9
  <2>2. \A x : old(x) /\ x.layer = LayerOf(q.kind) /\ x.slot = q.slot => {x.by, q.by} \in crossed'
    BY <1>3, <1>11 DEF BucketRows
  <2>3. CASE old(r) /\ old(s)
    BY <1>3, <2>3 DEF BucketsAreWhole, Overlapped
  <2>4. CASE new(r) /\ new(s)
    BY <2>4
  <2>5. CASE old(r) /\ new(s)
    BY <2>2, <2>5
  <2>6. CASE new(r) /\ old(s)
    <3>1. {s.by, q.by} \in crossed' /\ r.by = q.by
      BY <2>2, <2>6
    <3>2. {r.by, s.by} = {s.by, q.by}
      BY <3>1
    <3> QED
      BY <3>1, <3>2
  <2> QED
    BY <2>1, <2>3, <2>4, <2>5, <2>6
<1>16. HalvesHold'
  <2>1. ASSUME LayerOf(q.kind) # "crl", NEW r, r.layer = "crl"
        PROVE  r \in table <=> r \in table'
    BY <1>2, <1>11, <2>1, ComputedRows
  <2>2. ASSUME LayerOf(q.kind) # "crl", NEW x PROVE LatestRows(x)' = LatestRows(x)
    BY <2>1, <2>2 DEF LatestRows
  <2> SUFFICES ASSUME NEW v \in CityWorkers, query'[v].pc = "half", ~ query'[v].torn
               PROVE  /\ \A r \in query'[v].rows : r \in table' /\ r.layer = "crl"
                      /\ query'[v].kind = "city map" => \A r \in query'[v].rows : r.slot = query'[v].slot
                      /\ query'[v].kind = "explain" => \A r \in query'[v].rows : r \in LatestRows(r.cell)'
    BY DEF HalvesHold
  <2>3. v # w /\ query'[v] = query[v] /\ LayerOf(q.kind) # "crl"
    BY <1>7
  <2>4. /\ \A r \in query[v].rows : r \in table /\ r.layer = "crl"
        /\ query[v].kind = "city map" => \A r \in query[v].rows : r.slot = query[v].slot
        /\ query[v].kind = "explain" => \A r \in query[v].rows : r \in LatestRows(r.cell)
    BY <2>3 DEF HalvesHold
  <2> QED
    BY <2>1, <2>2, <2>3, <2>4
<1>17. SlotsKnown'
  BY <1>1, <1>6, <1>9 DEF SlotsKnown
<1> QED
  BY <1>8, <1>12, <1>13, <1>14, <1>15, <1>16, <1>17

-----------------------------------------------------------------------------
(* The answers *)

\* Two stored rows of one bucket, one cell and one computation hold one count: what let the
\* one pass backs the other.
LEMMA CauseIsBacked ==
  ASSUME TableInv, NEW r \in table, NEW e \in table, r.layer = e.layer, r.slot = e.slot,
         r.cell = e.cell, CityEnough(r.seen)
  PROVE  /\ Overlapped(r, e)
         /\ r.by = e.by => BusyEnough(e.seen) /\ e.seen.drivers >= 1
<1>1. Overlapped(r, e)
  BY DEF TableInv, BucketsAreWhole
<1>2. r.by = e.by => r.seen = e.seen
  BY DEF TableInv, OneCount
<1> QED
  BY <1>1, <1>2, GatesAsk

\* The fields of a shown item are those it was made with.
LEMMA ItemFields ==
  ASSUME NEW what, NEW r, NEW from
  PROVE  Item(what, r, from).what = what /\ Item(what, r, from).row = r /\ Item(what, r, from).from = from
  BY DEF Item

\* The map shows a cell only on rows that passed its gate.
LEMMA ShowMapBacked ==
  ASSUME TableInv, NEW w \in CityWorkers, NEW floor, ShowMap(w, floor)
  PROVE  ShownIsBacked'
<1> DEFINE rows == {r \in table : r.layer = "sil" /\ r.slot = query[w].slot
                                  /\ SilEnough(r.seen) /\ SilConfidence(r.seen) >= floor}
<1>1. shown' = {Item("slow", r, r) : r \in {x \in rows : ShowsSlow(x.seen)}}
                 \union {Item("busy", r, r) : r \in {x \in rows : ShowsBusy(x.seen)}}
  BY DEF ShowMap
<1> HIDE DEF rows
<1>2. ASSUME NEW i \in shown'
      PROVE  \/ i.what = "slow" /\ SlowEnough(i.row.seen)
             \/ i.what = "busy" /\ BusyEnough(i.row.seen)
  <2>1. CASE \E r \in {x \in rows : ShowsSlow(x.seen)} : i = Item("slow", r, r)
    BY <2>1, ItemFields DEF ShowsSlow
  <2>2. CASE \E r \in {x \in rows : ShowsBusy(x.seen)} : i = Item("busy", r, r)
    BY <2>2, ItemFields DEF ShowsBusy
  <2> QED
    BY <1>1, <1>2, <2>1, <2>2
<1> QED
  BY <1>2 DEF ShownIsBacked, SlowEnough, BusyEnough

\* A suggestion rests on a row that passed the gate.
LEMMA ShowSuggestionsBacked ==
  ASSUME NEW w \in CityWorkers, NEW here, ShowSuggestions(w, here)
  PROVE  ShownIsBacked'
<1>1. \A i \in shown' : \E r \in table : i = Item("suggestion", r, r) /\ SilEnough(r.seen)
  BY DEF ShowSuggestions
<1>2. ASSUME NEW i \in shown'
      PROVE  i.what = "suggestion" /\ (BusyEnough(i.row.seen) \/ SlowEnough(i.row.seen))
  BY <1>1, <1>2, GatesAsk, ItemFields
<1> QED
  BY <1>2 DEF ShownIsBacked

\* The overview shows the causes of its bucket, of which the property asks no gate.
LEMMA ShowOverviewBacked ==
  ASSUME NEW w \in CityWorkers, ShowOverview(w)
  PROVE  ShownIsBacked'
<1>1. \A i \in shown' : \E r : i = Item("overview", r, r)
  BY DEF ShowOverview
<1>2. \A i \in shown' : i.what = "overview"
  BY <1>1, ItemFields
<1> QED
  BY <1>2 DEF ShownIsBacked

\* Every item an answer gives as a cause is of two stored rows.
LEMMA CausesBacked ==
  ASSUME TableInv,
         \A i \in shown' : i.what = "cause" =>
           /\ i.row \in table /\ i.from \in table
           /\ i.row.layer = i.from.layer /\ i.row.slot = i.from.slot
           /\ i.row.cell = i.from.cell /\ CityEnough(i.row.seen),
         \A i \in shown' : i.what \in {"cause", "torn cause"},
         UNCHANGED <<table, crossed>>
  PROVE  ShownIsBacked'
  BY CauseIsBacked DEF ShownIsBacked, Overlapped

\* The map reads its two tables one after the other; unless a commit tore it, both reads
\* are of the rows as they are.
LEMMA ShowCityBacked ==
  ASSUME TableInv, NEW w \in CityWorkers, NEW floor, ShowCity(w, floor)
  PROVE  ShownIsBacked'
<1> DEFINE passing == {r \in query[w].rows : CityEnough(r.seen) /\ CityConfidence(r.seen) >= floor}
           explained == {r \in BucketRows(query[w]) : r.cell \in {s.cell : s \in passing}}
<1>1. PICK chosen \in [{r.cell : r \in explained} -> explained] :
        /\ \A x \in DOMAIN chosen : chosen[x].cell = x
        /\ shown' = {Item(IF query[w].torn THEN "torn cause" ELSE "cause", r, chosen[r.cell]) :
                        r \in {s \in passing : s.cell \in DOMAIN chosen}}
  BY DEF ShowCity
<1>2. \A x \in DOMAIN chosen : chosen[x] \in BucketRows(query[w]) /\ chosen[x].cell = x
  BY <1>1
<1>3. query[w].pc = "half" /\ query[w].kind = "city map" /\ UNCHANGED <<table, crossed>>
  BY DEF ShowCity
<1>4. LayerOf(query[w].kind) = "crl"
  BY <1>3 DEF LayerOf, SilQueries
<1>5. ~ query[w].torn => \A r \in query[w].rows : r \in table /\ r.layer = "crl" /\ r.slot = query[w].slot
  BY <1>3 DEF TableInv, HalvesHold
<1>6. ASSUME NEW i \in shown'
      PROVE  /\ i.what \in {"cause", "torn cause"}
             /\ i.what = "cause" =>
                  /\ i.row \in table /\ i.from \in table
                  /\ i.row.layer = i.from.layer /\ i.row.slot = i.from.slot
                  /\ i.row.cell = i.from.cell /\ CityEnough(i.row.seen)
  <2> DEFINE name == IF query[w].torn THEN "torn cause" ELSE "cause"
  <2>1. PICK r \in passing : r.cell \in DOMAIN chosen /\ i = Item(name, r, chosen[r.cell])
    BY <1>1, <1>6
  <2>2. r \in query[w].rows /\ CityEnough(r.seen)
    BY <2>1
  <2>3. name \in {"cause", "torn cause"} /\ (name = "cause" => ~ query[w].torn)
    OBVIOUS
  <2> HIDE DEF passing, explained, name
  <2>4. i.what = name /\ i.row = r /\ i.from = chosen[r.cell]
    BY <2>1, ItemFields
  <2>5. i.from \in BucketRows(query[w]) /\ i.from.cell = r.cell
    BY <1>2, <2>1, <2>4
  <2>6. i.from \in table /\ i.from.layer = "crl" /\ i.from.slot = query[w].slot
    BY <1>4, <2>5 DEF BucketRows
  <2> QED
    BY <1>5, <2>2, <2>3, <2>4, <2>5, <2>6
<1> QED
  BY <1>3, <1>6, CausesBacked

\* Two latest rows of a cell are of one bucket.
LEMMA LatestTogether ==
  ASSUME SlotsKnown, NEW x, NEW r \in LatestRows(x), NEW e \in LatestRows(x)
  PROVE  r.slot = e.slot /\ r.slot \in Nat
<1>1. r.slot <= e.slot /\ e.slot <= r.slot /\ r.slot \in Nat /\ e.slot \in Nat
  BY DEF LatestRows, SlotsKnown
<1> QED
  BY <1>1

\* An explanation is shown only with a row of its cell that passed the gate.
LEMMA ShowExplanationBacked ==
  ASSUME TableInv, NEW w \in CityWorkers, ShowExplanation(w), query[w].kind = "explain"
  PROVE  ShownIsBacked'
<1>0. PICK e \in query[w].rows : \E r \in LatestRows(e.cell) :
        shown' = IF CityEnough(r.seen)
                 THEN {Item(IF query[w].torn THEN "torn cause" ELSE "cause", r, e)} ELSE {}
  BY DEF ShowExplanation
<1>1. PICK r \in LatestRows(e.cell) :
        shown' = IF CityEnough(r.seen)
                 THEN {Item(IF query[w].torn THEN "torn cause" ELSE "cause", r, e)} ELSE {}
  BY <1>0
<1>2. query[w].pc = "half" /\ UNCHANGED <<table, crossed>>
  BY DEF ShowExplanation
<1> DEFINE name == IF query[w].torn THEN "torn cause" ELSE "cause"
<1>3. name \in {"cause", "torn cause"} /\ (name = "cause" => ~ query[w].torn)
  OBVIOUS
<1>4. \A i \in shown' : i = Item(name, r, e) /\ CityEnough(r.seen)
  BY <1>1
<1> HIDE DEF name
<1>5. r \in table /\ r.layer = "crl" /\ r.cell = e.cell
  BY DEF LatestRows
<1>6. ~ query[w].torn => e \in table /\ e.layer = "crl" /\ e \in LatestRows(e.cell)
  BY <1>2 DEF TableInv, HalvesHold
<1>7. ~ query[w].torn => r.slot = e.slot
  BY <1>6, LatestTogether DEF TableInv
<1>8. ASSUME NEW i \in shown'
      PROVE  /\ i.what \in {"cause", "torn cause"}
             /\ i.what = "cause" =>
                  /\ i.row \in table /\ i.from \in table
                  /\ i.row.layer = i.from.layer /\ i.row.slot = i.from.slot
                  /\ i.row.cell = i.from.cell /\ CityEnough(i.row.seen)
  <2>1. i.what = name /\ i.row = r /\ i.from = e /\ CityEnough(r.seen)
    BY <1>4, <1>8, ItemFields
  <2> QED
    BY <1>3, <1>5, <1>6, <1>7, <2>1
<1> QED
  BY <1>2, <1>8, CausesBacked

-----------------------------------------------------------------------------
(* The reads *)

\* A read for an answer writes nothing.
LEMMA ReadKeeps ==
  ASSUME TableInv, NEW w \in CityWorkers, ReadSnapshots(w) \/ \E x \in Cells : ReadExplanation(w, x)
  PROVE  TableInv' /\ ShownIsBacked'
<1>1. UNCHANGED <<slot, table, computes, crossed>> /\ shown' = {}
  BY DEF ReadSnapshots, ReadExplanation
<1>2. CASE ReadSnapshots(w)
  <2> DEFINE rows == BucketRows(query[w])
             q == [pc |-> "half", kind |-> "city map", slot |-> query[w].slot, rows |-> rows, torn |-> FALSE]
  <2>1. Ask(w, q) /\ query[w].kind = "city map"
    BY <1>2 DEF ReadSnapshots
  <2>2. \A r \in rows : r \in table /\ r.layer = "crl" /\ r.slot = query[w].slot
    BY <2>1 DEF BucketRows, LayerOf, SilQueries
  <2> HIDE DEF rows
  <2>3. /\ q.pc = "half" /\ q.kind = "city map" /\ q.rows = rows /\ q.slot = query[w].slot
        /\ {"pc", "torn"} \subseteq DOMAIN q
    OBVIOUS
  <2> HIDE DEF q
  <2> QED
    BY <1>1, <2>1, <2>2, <2>3, AskKeeps, NothingShown
<1>3. ASSUME NEW x \in Cells, ReadExplanation(w, x) PROVE TableInv' /\ ShownIsBacked'
  <2>1. CASE Ask(w, NoQuery)
    BY <1>1, <2>1, RestKeeps, NothingShown
  <2>2. ASSUME NEW r \in LatestRows(x),
               Ask(w, [pc |-> "half", kind |-> "explain", slot |-> query[w].slot, rows |-> {r}, torn |-> FALSE])
        PROVE  TableInv' /\ ShownIsBacked'
    <3> DEFINE q == [pc |-> "half", kind |-> "explain", slot |-> query[w].slot, rows |-> {r}, torn |-> FALSE]
    <3>1. /\ q.pc = "half" /\ q.kind = "explain" /\ q.rows = {r} /\ {"pc", "torn"} \subseteq DOMAIN q
          /\ Ask(w, q)
      BY <2>2
    <3>2. r \in table /\ r.layer = "crl" /\ r \in LatestRows(r.cell)
      BY DEF LatestRows
    <3> HIDE DEF q
    <3> QED
      BY <1>1, <3>1, <3>2, AskKeeps, NothingShown
  <2> QED
    BY <1>3, <2>1, <2>2 DEF ReadExplanation
<1> QED
  BY <1>2, <1>3

\* A new bucket changes no row and shows nothing.
LEMMA NextSlotKeeps ==
  ASSUME TableInv, NextSlot
  PROVE  TableInv' /\ ShownIsBacked'
<1>1. slot' = slot + 1 /\ UNCHANGED <<table, query, computes, crossed>> /\ shown' = {}
  BY DEF NextSlot
<1>2. SlotsKnown'
  BY <1>1 DEF TableInv, SlotsKnown, Computes
<1>3. CityType' /\ NumbersOnce'
  BY <1>1 DEF TableInv, CityType, NumbersOnce, Computes, IsComputation
<1>4. OneCount' /\ DeletedKnows' /\ HalvesHold'
  BY <1>1 DEF TableInv, OneCount, DeletedKnows, BucketRows, HalvesHold, LatestRows
<1>5. BucketsAreWhole'
  BY <1>1 DEF TableInv, BucketsAreWhole, Overlapped
<1> QED
  BY <1>1, <1>2, <1>3, <1>4, <1>5, NothingShown DEF TableInv

-----------------------------------------------------------------------------
(* The theorems *)

\* The invariant holds of an empty table.
LEMMA CityInvInit == CityInit => CityInv
<1> SUFFICES ASSUME CityInit PROVE CityInv
  OBVIOUS
<1>1. \A w \in CityWorkers : query[w].pc = "idle"
  BY NoQueryIsIdle DEF CityInit
<1>2. CityType /\ NumbersOnce /\ SlotsKnown /\ DeletedKnows /\ HalvesHold
  BY <1>1 DEF CityInit, CityType, NumbersOnce, SlotsKnown, DeletedKnows, HalvesHold, Computes
<1>3. OneCount /\ BucketsAreWhole /\ ShownIsBacked
  BY DEF CityInit, OneCount, BucketsAreWhole, ShownIsBacked
<1> QED
  BY <1>2, <1>3 DEF CityInv

\* An answer keeps the table and shows only what is backed.
LEMMA AnswerKeeps ==
  ASSUME TableInv, NEW w \in CityWorkers,
         \/ \E floor \in {0, 100} : ShowMap(w, floor) \/ ShowCity(w, floor)
         \/ \E x \in Cells : ShowSuggestions(w, x)
         \/ ShowExplanation(w) \/ ShowOverview(w)
  PROVE  TableInv' /\ ShownIsBacked'
<1>1. Ask(w, NoQuery) /\ UNCHANGED <<slot, table, computes, crossed>>
  BY DEF ShowMap, ShowCity, ShowSuggestions, ShowExplanation, ShowOverview
<1>2. TableInv'
  BY <1>1, RestKeeps
<1>3. ShownIsBacked'
  <2>1. ASSUME NEW floor \in {0, 100}, ShowMap(w, floor) \/ ShowCity(w, floor) PROVE ShownIsBacked'
    BY <2>1, ShowMapBacked, ShowCityBacked
  <2>2. ASSUME NEW x \in Cells, ShowSuggestions(w, x) PROVE ShownIsBacked'
    BY <2>2, ShowSuggestionsBacked
  <2>3. CASE ShowExplanation(w)
    BY <2>3, ShowExplanationBacked DEF ShowExplanation
  <2>4. CASE ShowOverview(w)
    BY <2>4, ShowOverviewBacked
  <2> QED
    BY <2>1, <2>2, <2>3, <2>4
<1> QED
  BY <1>2, <1>3

\* What the computations and the answers keep in every order of their reads and commits.
THEOREM CityInvariant == CitySpec => []CityInv
<1>1. CityInv /\ [CityNext]_cityVars => CityInv'
  <2> SUFFICES ASSUME TableInv, ShownIsBacked, [CityNext]_cityVars PROVE TableInv' /\ ShownIsBacked'
    BY DEF CityInv, TableInv
  <2>1. ASSUME NEW w \in CityWorkers, NEW kind \in SilQueries \union CityQueries, NEW c \in Contexts,
               NEW some \in SUBSET Cells, NEW seen \in [some -> Activities],
               BeginCompute(w, kind, seen, c)
        PROVE  TableInv' /\ ShownIsBacked'
    <3>1. TableInv'
      BY <2>1, BeginComputeKeeps DEF Kinds
    <3>2. shown' = {}
      BY <2>1 DEF BeginCompute
    <3> QED
      BY <3>1, <3>2, NothingShown
  <2>2. ASSUME NEW w \in CityWorkers, DeleteBucket(w) \/ CommitBucket(w)
        PROVE  TableInv' /\ ShownIsBacked'
    <3>1. shown' = {}
      BY <2>2 DEF DeleteBucket, CommitBucket
    <3> QED
      BY <2>2, <3>1, DeleteKeeps, CommitComputeKeeps, NothingShown
  <2>3. ASSUME NEW w \in CityWorkers, AbandonCompute(w) PROVE TableInv' /\ ShownIsBacked'
    BY <2>3, RestKeeps, NothingShown DEF AbandonCompute
  <2>4. ASSUME NEW w \in CityWorkers, ReadSnapshots(w) \/ \E x \in Cells : ReadExplanation(w, x)
        PROVE  TableInv' /\ ShownIsBacked'
    BY <2>4, ReadKeeps
  <2>5. ASSUME NEW w \in CityWorkers,
               \/ \E floor \in {0, 100} : ShowMap(w, floor) \/ ShowCity(w, floor)
               \/ \E x \in Cells : ShowSuggestions(w, x)
               \/ ShowExplanation(w) \/ ShowOverview(w)
        PROVE  TableInv' /\ ShownIsBacked'
    BY <2>5, AnswerKeeps
  <2>6. CASE NextSlot
    BY <2>6, NextSlotKeeps
  <2>7. CASE UNCHANGED cityVars
    <3>1. UNCHANGED <<slot, table, query, computes, crossed, shown>>
      BY <2>7 DEF cityVars
    <3>2. SlotsKnown' /\ CityType' /\ NumbersOnce'
      BY <3>1 DEF TableInv, SlotsKnown, CityType, NumbersOnce, Computes, IsComputation
    <3>3. OneCount' /\ DeletedKnows' /\ HalvesHold'
      BY <3>1 DEF TableInv, OneCount, DeletedKnows, BucketRows, HalvesHold, LatestRows
    <3>4. BucketsAreWhole' /\ ShownIsBacked'
      BY <3>1 DEF TableInv, BucketsAreWhole, Overlapped, ShownIsBacked
    <3> QED
      BY <3>2, <3>3, <3>4 DEF TableInv
  <2> QED
    BY <2>1, <2>2, <2>3, <2>4, <2>5, <2>6, <2>7 DEF CityNext
<1> QED
  BY CityInvInit, <1>1, PTL DEF CitySpec

\* compute_sil_bucket and compute_crl_bucket leave a bucket with the rows of one computation,
\* unless computations overlapped between delete and commit.
THEOREM OneComputationPerBucket == CitySpec => []BucketsAreWhole
<1>1. CityInv => BucketsAreWhole
  BY DEF CityInv
<1> QED
  BY CityInvariant, <1>1, PTL

\* The maps show a cell, a suggestion or a cause only on the facts that the gates of
\* services/sil_gates.py ask for, whatever was computed, deleted and read in between.
THEOREM WhatIsShownIsBacked == CitySpec => []ShownIsBacked
<1>1. CityInv => ShownIsBacked
  BY DEF CityInv
<1> QED
  BY CityInvariant, <1>1, PTL
=============================================================================
