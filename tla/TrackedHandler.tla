--------------------------- MODULE TrackedHandler ---------------------------
(***************************************************************************)
(* The count of application handlers (internal/server/handler.go).  HTTP   *)
(* goroutines enter and leave under a mutex while the shutdown seals the   *)
(* entrance; the last one out, or the seal itself, closes the drained      *)
(* channel.  Faults: see OwnerState.                                       *)
(***************************************************************************)
EXTENDS Integers, FiniteSets

CONSTANT Handlers     \* goroutines of net/http that call ServeHTTP

ASSUME HandlersAssumption == IsFiniteSet(Handlers)

VARIABLES
  accepting, active,
  closes,     \* how often drained was closed; a second time would panic
  at          \* "away", "calling", "inside", "left", or "panicked" in finish

tracked == <<accepting, active, closes, at>>

HandlersInit ==
  /\ accepting = TRUE /\ active = 0 /\ closes = 0
  /\ at = [h \in Handlers |-> "away"]

Move(h, place) == at' = [at EXCEPT ![h] = place]
CloseDrained(now) == closes' = IF now THEN closes + 1 ELSE closes

(* net/http hands over a request, at any time: also after it was closed. *)
Arrive(h) == at[h] = "away" /\ Move(h, "calling") /\ UNCHANGED <<accepting, active, closes>>

(* begin, and the two answers given without it *)
Enter(h) ==
  /\ at[h] = "calling" /\ accepting
  /\ active' = active + 1
  /\ Move(h, "inside")
  /\ UNCHANGED <<accepting, closes>>

TurnedBack(h) == at[h] = "calling" /\ Move(h, "left") /\ UNCHANGED <<accepting, active, closes>>

(* finish, deferred: the inner handler returned or panicked *)
Leave(h) ==
  /\ at[h] = "inside"
  /\ IF active = 0 THEN Move(h, "panicked") /\ UNCHANGED <<active, closes>>
     ELSE /\ active' = active - 1 /\ CloseDrained(~accepting /\ active = 1)
          /\ Move(h, "left")
  /\ UNCHANGED accepting

(* Fault: a second seal closes drained again. *)
SealAgain ==
  /\ accepting' = FALSE
  /\ CloseDrained(active = 0)
  /\ UNCHANGED <<active, at>>

Seal ==
  /\ accepting' = FALSE
  /\ CloseDrained(accepting /\ active = 0)
  /\ UNCHANGED <<active, at>>

HandlersNext == Seal \/ \E h \in Handlers : Arrive(h) \/ Enter(h) \/ TurnedBack(h) \/ Leave(h)

HandlersSpec == HandlersInit /\ [][HandlersNext]_tracked

(* Type invariant; the count is unsigned and never goes below zero. *)
HandlersType ==
  /\ accepting \in BOOLEAN /\ active \in Nat /\ closes \in Nat
  /\ at \in [Handlers -> {"away", "calling", "inside", "left", "panicked"}]

(* The count is exact, and the drained channel is closed exactly once: when *)
(* the entrance is sealed and the last handler has left, whichever comes    *)
(* last and however often the shutdown seals.                               *)
HandlersExact ==
  /\ active = Cardinality({h \in Handlers : at[h] = "inside"})
  /\ closes = IF ~accepting /\ active = 0 THEN 1 ELSE 0
  /\ \A h \in Handlers : at[h] # "panicked"
=============================================================================
