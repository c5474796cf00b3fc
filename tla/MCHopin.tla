------------------------------- MODULE MCHopin -------------------------------
(***************************************************************************)
(* Instances of Hopin for TLC.                                             *)
(***************************************************************************)
EXTENDS Hopin, TLC

SymmetricIds ==
    Permutations(DriverId) \cup Permutations(Ride) \cup Permutations(Passenger)
        \cup Permutations(Socket) \cup Permutations(Tenant)
=============================================================================
