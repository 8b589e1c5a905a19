------------------------------- MODULE MCOwner -------------------------------
(* The instance of OwnerHistory for TLC. *)
EXTENDS OwnerHistory, MCValues

CONSTANTS r1, r2, r3

MCSymmetry == Permutations(Requests \ Cancelable) \cup Permutations(Cancelable)
=============================================================================
