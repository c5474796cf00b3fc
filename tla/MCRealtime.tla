----------------------------- MODULE MCRealtime -----------------------------
(***************************************************************************)
(* Instances of Realtime for TLC.  The run has liveness properties, for which *)
(* TLC's symmetry reduction is unsound, and uses none.                     *)
(***************************************************************************)
EXTENDS Realtime, TLC
=============================================================================
