---------------------------- MODULE MCOwnerState ----------------------------
(* The instance of OwnerState for TLC. *)
EXTENDS OwnerState, MCValues

CONSTANTS r1, r2, r3

MCSymmetry == Permutations(Requests)
=============================================================================
