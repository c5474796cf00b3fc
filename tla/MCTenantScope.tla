--------------------------- MODULE MCTenantScope ----------------------------
(***************************************************************************)
(* Instances of TenantScope for TLC.  The run has a liveness property, for *)
(* which TLC's symmetry reduction is unsound, and uses none.               *)
(***************************************************************************)
EXTENDS TenantScope, TLC
=============================================================================
