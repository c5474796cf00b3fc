------------------------- MODULE MCCandidateSelection -------------------------
(***************************************************************************)
(* Instances of CandidateSelection for TLC.                                *)
(***************************************************************************)
EXTENDS CandidateSelection, TLC

SymmetricIds == Permutations(Driver)
=============================================================================
