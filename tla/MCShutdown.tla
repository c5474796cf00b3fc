----------------------------- MODULE MCShutdown -----------------------------
(***************************************************************************)
(* Instances of Shutdown for TLC.  One run has a liveness property, and the *)
(* other is small: neither uses symmetry.                                  *)
(***************************************************************************)
EXTENDS Shutdown, TLC
=============================================================================
