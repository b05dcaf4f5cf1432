--------------------------- MODULE RideAssignment ----------------------------
(***************************************************************************)
(* What the board promises about who has which ride, with nothing said     *)
(* about offers, approvals, stamps or ledgers: an open ride is claimed by  *)
(* one free driver, who gives it back or ends it; an ended ride stays      *)
(* ended.  RideBoard implements this.                                      *)
(***************************************************************************)
CONSTANTS Rides, Drivers, NoDriver

VARIABLES
  phase,    \* ride -> unborn, open, held, done or dropped
  holder    \* ride -> the driver who has it now, or NoDriver

assignmentVars == <<phase, holder>>

Init ==
  /\ phase = [r \in Rides |-> "unborn"]
  /\ holder = [r \in Rides |-> NoDriver]

Request(r) ==
  /\ phase[r] = "unborn"
  /\ phase' = [phase EXCEPT ![r] = "open"]
  /\ UNCHANGED holder

Claim(d, r) ==
  /\ phase[r] = "open"
  /\ \A other \in Rides : holder[other] # d
  /\ phase' = [phase EXCEPT ![r] = "held"]
  /\ holder' = [holder EXCEPT ![r] = d]

Release(r) ==
  /\ phase[r] = "held"
  /\ phase' = [phase EXCEPT ![r] = "open"]
  /\ holder' = [holder EXCEPT ![r] = NoDriver]

\* Completed by its driver, or dropped by its customer.
End(r, how) ==
  /\ phase[r] = "held"
  /\ phase' = [phase EXCEPT ![r] = how]
  /\ holder' = [holder EXCEPT ![r] = NoDriver]

\* Open rides nobody claimed are dropped; one poll may give up on several.
Drop(gone) ==
  /\ \A r \in gone : phase[r] = "open"
  /\ phase' = [r \in Rides |-> IF r \in gone THEN "dropped" ELSE phase[r]]
  /\ UNCHANGED holder

Next ==
  \/ \E r \in Rides : Request(r) \/ Release(r)
  \/ \E r \in Rides, how \in {"done", "dropped"} : End(r, how)
  \/ \E d \in Drivers, r \in Rides : Claim(d, r)
  \/ \E gone \in SUBSET Rides : Drop(gone)

Spec == Init /\ [][Next]_assignmentVars
=============================================================================
