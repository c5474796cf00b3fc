----------------------------- MODULE RideStates -----------------------------
(***************************************************************************)
(* The ride states and the transitions between them, as domain/ride-state  *)
(* declares them.  No service calls canTransition: the SQL statements of   *)
(* RidesService name the states themselves, so that every step they take   *)
(* is one of these transitions is a property (LegalTransitions), not a     *)
(* guard.                                                                  *)
(***************************************************************************)

RideState ==
    {"REQUESTED", "MATCHED", "ARRIVED", "IN_PROGRESS", "COMPLETED",
     "NO_DRIVER", "CANCELLED_BY_PASSENGER", "CANCELLED_BY_DRIVER"}

TRANSITIONS ==
    [REQUESTED |-> {"MATCHED", "NO_DRIVER", "CANCELLED_BY_PASSENGER"},
     MATCHED   |-> {"ARRIVED", "CANCELLED_BY_PASSENGER", "CANCELLED_BY_DRIVER"},
     ARRIVED   |-> {"IN_PROGRESS", "CANCELLED_BY_PASSENGER",
                    "CANCELLED_BY_DRIVER"},
     IN_PROGRESS |-> {"COMPLETED"},
     COMPLETED |-> {},
     NO_DRIVER |-> {},
     CANCELLED_BY_PASSENGER |-> {},
     CANCELLED_BY_DRIVER |-> {}]

canTransition(from, to) == to \in TRANSITIONS[from]
=============================================================================
