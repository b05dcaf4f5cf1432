----------------------------- MODULE MCDrivers -----------------------------
(***************************************************************************)
(* A driver's account, a driver's presence and the maps drivers are shown, *)
(* checked in one run.  They share no state: a behaviour runs one and      *)
(* leaves the others at rest.  Threads, and devices and cells, are the     *)
(* same model values, which keeps the symmetry group small.                *)
(***************************************************************************)
EXTENDS Accounts, Presence, CityCells, TLC

CONSTANTS w1, w2, d1, d2

Activity(demand, cancels, dropoffs, idle, drivers, samples, wait, slow) ==
  [demand |-> demand, cancels |-> cancels, dropoffs |-> dropoffs, idle |-> idle,
   drivers |-> drivers, samples |-> samples, wait |-> wait, slow |-> slow]
MCActivities ==
  {Activity(6, 0, 1, 1, 2, 30, 300, TRUE),  \* requests, and the speeds of two drivers
   Activity(1, 1, 2, 3, 3, 25, 0, TRUE)}    \* the speeds of three drivers, few requests
MCContexts == {[hour |-> 8, hub |-> 100, event |-> 0]}

DriversSymmetry == Permutations(AuthWorkers) \union Permutations(Devices)

DriversInit == AccountsInit /\ PresenceInit /\ CityInit

\* While another part runs, the driver is approved.
PresenceAtRest == approved /\ PresenceInit

DriversNext ==
  \/ /\ PresenceAtRest /\ CityInit /\ AccountsNext
     /\ UNCHANGED <<presenceVars, cityVars>>
  \/ /\ AccountsInit /\ CityInit /\ PresenceNext
     /\ UNCHANGED <<accountsVars, cityVars>>
  \/ /\ AccountsInit /\ PresenceAtRest /\ CityNext
     /\ UNCHANGED <<accountsVars, presenceVars>>

DriversSpec == DriversInit /\ [][DriversNext]_<<accountsVars, presenceVars, cityVars>>
=============================================================================
