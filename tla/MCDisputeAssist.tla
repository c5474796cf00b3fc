--------------------------- MODULE MCDisputeAssist ---------------------------
(***************************************************************************)
(* Instances of DisputeAssist for TLC.                                     *)
(***************************************************************************)
EXTENDS DisputeAssist, TLC

SymmetricIds ==
    Permutations(Tenant) \cup Permutations(DriverId) \cup Permutations(Ride)
=============================================================================
