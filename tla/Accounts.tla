------------------------------ MODULE Accounts ------------------------------
(***************************************************************************)
(* One driver's account: registration, login, the refresh tokens and their *)
(* rotation, logout everywhere, password change and password reset.        *)
(*                                                                         *)
(* A request reads rows, checks them in Python and commits; nothing is     *)
(* locked in between, so a request that checks a row it will write is two  *)
(* steps.  revoke_all_refresh_tokens is one UPDATE and one step.           *)
(***************************************************************************)
EXTENDS Integers, FiniteSets

CONSTANTS
  AuthWorkers,   \* threads that serve account requests
  MaxTokens,     \* bound: refresh tokens ever minted
  MaxResets,     \* bound: password reset tokens ever created
  MaxCuts        \* bound: revocations of all refresh tokens

ASSUME AccountsAssumption == MaxTokens \in Nat /\ MaxResets \in Nat /\ MaxCuts \in Nat

Tokens == 1..MaxTokens
Resets == 1..MaxResets

VARIABLES
  account,     \* the user row and its approval row: absent or registered
  token,       \* refresh_tokens by id
  resetToken,  \* password_reset_tokens by id: absent, issued, expired, used
  authReq,     \* worker -> its request in flight
  cuts,        \* history: how often all refresh tokens were revoked
  raced,       \* history: tokens two requests in flight held at once
  resets       \* history: how often each reset token set the password

accountsVars == <<account, token, resetToken, authReq, cuts, raced, resets>>

NoToken == [state |-> "absent", parent |-> 0, next |-> 0, born |-> 0, late |-> FALSE]
NoRequest == [op |-> "none", row |-> 0, since |-> 0]

AccountsInit ==
  /\ account = "absent"
  /\ token = [t \in Tokens |-> NoToken]
  /\ resetToken = [r \in Resets |-> "absent"]
  /\ authReq = [w \in AuthWorkers |-> NoRequest]
  /\ cuts = 0 /\ raced = {}
  /\ resets = [r \in Resets |-> 0]

UnusedTokens == {t \in Tokens : token[t].state = "absent"}
Fresh(ids) == CHOOSE i \in ids : \A j \in ids : i <= j
Serves(w, op, row) == authReq[w].op = op /\ authReq[w].row = row
Takes(w, op, row) == authReq' = [authReq EXCEPT ![w] = [op |-> op, row |-> row, since |-> cuts]]
Finishes(w) == authReq' = [authReq EXCEPT ![w] = NoRequest]

\* A row for a request that began when `since` revocations had happened;
\* born is when the session it continues was logged in.
Minted(parent, born, since) ==
  [state |-> "active", parent |-> parent, next |-> 0, born |-> born,
   late |-> since # cuts \/ (parent # 0 /\ token[parent].late)]

\* Mutant: only the tokens that nobody rotated from are revoked.
RevokedHeads(tokens) ==
  [t \in Tokens |-> IF tokens[t].state = "active" /\ tokens[t].parent = 0
                    THEN [tokens[t] EXCEPT !.state = "revoked"] ELSE tokens[t]]

Revoked(tokens) ==
  [t \in Tokens |-> IF tokens[t].state = "active" THEN [tokens[t] EXCEPT !.state = "revoked"]
                    ELSE tokens[t]]

RevokeAll == cuts < MaxCuts /\ token' = Revoked(token) /\ cuts' = cuts + 1

-----------------------------------------------------------------------------
(* Registration and login *)

\* register looks the email up, create_user commits the user and its approval
\* row together, and the unique email refuses a second row.
Register(w) ==
  /\ account = "absent" /\ authReq[w] = NoRequest
  /\ account' = "registered"
  /\ Takes(w, "login", 0)
  /\ UNCHANGED <<token, resetToken, cuts, raced, resets>>

\* The password was right.
BeginLogin(w) ==
  /\ account = "registered" /\ authReq[w] = NoRequest
  /\ Takes(w, "login", 0)
  /\ UNCHANGED <<account, token, resetToken, cuts, raced, resets>>

\* mint_refresh_token.
CommitLogin(w) ==
  /\ Serves(w, "login", 0) /\ UnusedTokens # {}
  /\ token' = [token EXCEPT ![Fresh(UnusedTokens)] = Minted(0, authReq[w].since, authReq[w].since)]
  /\ Finishes(w)
  /\ UNCHANGED <<account, resetToken, cuts, raced, resets>>

-----------------------------------------------------------------------------
(* Rotation *)

\* Mutant: a revoked token rotates again.
StillGood(t) == token[t].state \in {"active", "revoked"}

Rotatable(t) == token[t].state = "active"

BeginRotate(w, t) ==
  /\ authReq[w] = NoRequest /\ Rotatable(t)
  /\ Takes(w, "rotate", t)
  /\ UNCHANGED <<account, token, resetToken, cuts, raced, resets>>

\* The old row is revoked and names the new one; the row is written as it was
\* read, whatever another request made of it.
CommitRotate(w, t) ==
  /\ Serves(w, "rotate", t) /\ UnusedTokens # {}
  /\ LET n == Fresh(UnusedTokens) IN
       token' = [token EXCEPT ![t].state = "revoked", ![t].next = n,
                              ![n] = Minted(t, token[t].born, authReq[w].since)]
  /\ raced' = IF \E v \in AuthWorkers \ {w} : Serves(v, "rotate", t) THEN raced \union {t} ELSE raced
  /\ Finishes(w)
  /\ UNCHANGED <<account, resetToken, cuts, resets>>

\* A rotated token is presented again: every session of the user ends.
DetectReuse(t) ==
  /\ token[t].state = "revoked" /\ token[t].next # 0
  /\ RevokeAll
  /\ UNCHANGED <<account, resetToken, authReq, raced, resets>>

\* A token is presented after its time: it is marked revoked, without a successor.
Expire(t) ==
  /\ token[t].state = "active"
  /\ token' = [token EXCEPT ![t].state = "revoked"]
  /\ UNCHANGED <<account, resetToken, authReq, cuts, raced, resets>>

LogoutAll ==
  /\ account = "registered"
  /\ RevokeAll
  /\ UNCHANGED <<account, resetToken, authReq, raced, resets>>

-----------------------------------------------------------------------------
(* Passwords.  Changing it ends all sessions in the same commit. *)

BeginChange(w) ==
  /\ account = "registered" /\ authReq[w] = NoRequest
  /\ Takes(w, "change", 0)
  /\ UNCHANGED <<account, token, resetToken, cuts, raced, resets>>

CommitChange(w) ==
  /\ Serves(w, "change", 0)
  /\ RevokeAll
  /\ Finishes(w)
  /\ UNCHANGED <<account, resetToken, raced, resets>>

ForgotPassword ==
  /\ account = "registered"
  /\ LET unused == {r \in Resets : resetToken[r] = "absent"} IN
       unused # {} /\ resetToken' = [resetToken EXCEPT ![Fresh(unused)] = "issued"]
  /\ UNCHANGED <<account, token, authReq, cuts, raced, resets>>

ExpireReset(r) ==
  /\ resetToken[r] = "issued"
  /\ resetToken' = [resetToken EXCEPT ![r] = "expired"]
  /\ UNCHANGED <<account, token, authReq, cuts, raced, resets>>

Usable(r) == resetToken[r] = "issued"

BeginReset(w, r) ==
  /\ authReq[w] = NoRequest /\ Usable(r)
  /\ Takes(w, "reset", r)
  /\ UNCHANGED <<account, token, resetToken, cuts, raced, resets>>

\* A reset spends its token and leaves the sessions alone.
CommitReset(w, r) ==
  /\ Serves(w, "reset", r)
  /\ resetToken' = [resetToken EXCEPT ![r] = "used"]
  /\ resets' = [resets EXCEPT ![r] = @ + 1]
  /\ raced' = IF \E v \in AuthWorkers \ {w} : Serves(v, "reset", r) THEN raced \union {-r} ELSE raced
  /\ Finishes(w)
  /\ UNCHANGED <<account, token, cuts>>

-----------------------------------------------------------------------------

\* A worker dies with its request.
AbandonAuth(w) ==
  /\ authReq[w] # NoRequest
  /\ Finishes(w)
  /\ UNCHANGED <<account, token, resetToken, cuts, raced, resets>>

AccountsNext ==
  \/ LogoutAll \/ ForgotPassword
  \/ \E w \in AuthWorkers :
       \/ Register(w) \/ BeginLogin(w) \/ CommitLogin(w) \/ BeginChange(w) \/ CommitChange(w)
       \/ AbandonAuth(w)
       \/ \E t \in Tokens : BeginRotate(w, t) \/ CommitRotate(w, t)
       \/ \E r \in Resets : BeginReset(w, r) \/ CommitReset(w, r)
  \/ \E t \in Tokens : DetectReuse(t) \/ Expire(t)
  \/ \E r \in Resets : ExpireReset(r)

AccountsSpec == AccountsInit /\ [][AccountsNext]_accountsVars

\* A refresh token has at most one successor, and a password reset token
\* sets the password at most once.  rotate_refresh_token and
\* consume_reset_token check the row and write it later without a lock: only
\* two requests that held the same token in flight together spend it twice.
SpentOnce ==
  /\ \A s, t \in Tokens : s # t /\ token[s].parent = token[t].parent /\ token[s].parent # 0
       => token[s].parent \in raced
  /\ \A r \in Resets : resets[r] > 1 => -r \in raced

\* After logout-all, a password change or a detected reuse no session from
\* before is active, however often it was rotated; what survives was minted
\* by a login or rotation that had read its rows before the revocation.
RevocationHolds ==
  \A t \in Tokens : token[t].state = "active" => token[t].born = cuts \/ token[t].late
=============================================================================
