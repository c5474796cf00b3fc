---------------------------- MODULE MCRideStore -----------------------------
(***************************************************************************)
(* Instances of RideStore for TLC.  The run has liveness properties, for which *)
(* TLC's symmetry reduction is unsound, and uses none.                     *)
(***************************************************************************)
EXTENDS RideStore, TLC
=============================================================================
