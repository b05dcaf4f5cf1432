---------------------------- MODULE RideLifecycle ----------------------------
(***************************************************************************)
(* The ride lifecycle of backend/services/lifecycle.py: the statuses a     *)
(* ride row may store, the table of legal transitions and the release of   *)
(* an accepted ride back to the pool.  Nothing here keeps state; the       *)
(* modules that own ride rows decide when a transition is taken.           *)
(***************************************************************************)

(***************************************************************************)
(* RideStatus.  "offered" is in the enum but no handler ever writes it, so *)
(* it has no transitions.  "absent" is the row that has not been inserted. *)
(***************************************************************************)
RideStatus == {"requested", "offered", "accepted", "driver_arrived",
               "in_progress", "completed", "cancelled"}

TerminalStatuses == {"completed", "cancelled"}

\* The statuses in which a ride occupies its driver.
ActiveStatuses == {"accepted", "driver_arrived", "in_progress"}

\* _TRANSITIONS: <<from, action, actor, to>>.
Transitions ==
  {<<"requested",      "accept",   "driver", "accepted">>,
   <<"accepted",       "arrive",   "driver", "driver_arrived">>,
   <<"driver_arrived", "start",    "driver", "in_progress">>,
   <<"in_progress",    "complete", "driver", "completed">>}
  \union {<<from, "cancel", "customer", "cancelled">> :
            from \in {"requested"} \union ActiveStatuses}

\* Mutant: a cancellation skips the terminal check and the table.
NextStatusCancelAnyway(current, action, actor) ==
  {to \in RideStatus : \/ <<current, action, actor, to>> \in Transitions
                       \/ action = "cancel" /\ current # "absent" /\ to = "cancelled"}

(***************************************************************************)
(* next_ride_status(current, action, role): the status the call returns,   *)
(* as a set that is empty when it raises InvalidRideTransition.            *)
(***************************************************************************)
NextRideStatus(current, action, actor) ==
  {to \in RideStatus : /\ current \notin TerminalStatuses
                       /\ <<current, action, actor, to>> \in Transitions}

\* release_accepted_ride_to_pool(current, role).
ReleaseToPool(current, actor) ==
  IF current = "accepted" /\ actor = "driver" THEN {"requested"} ELSE {}
=============================================================================
