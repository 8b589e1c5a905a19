--------------------------- MODULE OwnerRefinement ---------------------------
(* The owner goroutine implements the contract of the admission scheduler. *)
EXTENDS OwnerState

(* Where the contract sees a request, read off the owner's books *)
statusOf(r) ==
  IF phase[r] = "queued" THEN "waiting"
  ELSE IF phase[r] = "inflight" THEN "serving"
  ELSE IF terminal[r] # "none" THEN "finished"
  ELSE IF result[r] # <<>> THEN "turnedAway"
  ELSE "outside"

Contract == INSTANCE AdmissionContract WITH
  demand <- admission,
  status <- [r \in Requests |-> statusOf(r)],
  open <- accepting

(* Every step of the owner is a step of the contract or changes nothing the *)
(* contract sees: a request joins, starts or leaves one at a time and only  *)
(* within the limits computed from the requests themselves, and nothing     *)
(* joins or starts after beginDrain.                                        *)
ImplementsContract == Contract!CSpec
=============================================================================
