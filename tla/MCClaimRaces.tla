---------------------------- MODULE MCClaimRaces ----------------------------
(***************************************************************************)
(* What overlapping requests do to a ride, and to the ledger chains that   *)
(* they append to, checked in one run.  The two share no state: a behaviour *)
(* runs one and leaves the other at its initial state.                     *)
(***************************************************************************)
EXTENDS MCRideSessions, MarketLedger

\* What accepting, losing and giving back a ride append; each driver makes one request.
MCScripts ==
  {<<"claim_attempted", "claim_won", "ride.accepted">>, <<"claim_attempted", "claim_lost">>,
   <<"ride.cancelled", "claim_released">>}

RacesInit == SessionsInit /\ LedgerInit

\* While the ledger runs, the board takes any claim.
BoardAtRest == ~sequential /\ SessionsInit

RacesNext ==
  \/ LedgerInit /\ SessionsNext /\ UNCHANGED ledgerVars
  \/ BoardAtRest /\ LedgerNext /\ UNCHANGED allVars

RacesSpec == RacesInit /\ [][RacesNext]_<<allVars, ledgerVars>>
=============================================================================
