--------------------------- MODULE MCOwnerLiveness ---------------------------
(* The instance of OwnerLiveness and OwnerRefinement for TLC. *)
EXTENDS OwnerLiveness, OwnerRefinement, MCValues

CONSTANTS r1, r2
=============================================================================
