----------------------------- MODULE MCMatching -----------------------------
(***************************************************************************)
(* Instances of Matching for TLC.  Ids carry no structure, so those of one *)
(* kind may be exchanged.                                                  *)
(***************************************************************************)
EXTENDS Matching, TLC

SymmetricIds ==
    Permutations(Tenant) \cup Permutations(DriverId) \cup Permutations(Ride)
        \cup Permutations(Passenger)
=============================================================================
