---------------------------- MODULE OwnerHistory ----------------------------
(***************************************************************************)
(* OwnerState with history variables, for properties that relate a step to *)
(* a much earlier one.  They observe the owner and never restrict it.      *)
(***************************************************************************)
EXTENDS OwnerState

VARIABLES
  reserved,   \* requests at which a pump stopped, funded, for global capacity
  forced,     \* a force command has been handled
  gaveUp,     \* requests whose client was gone when the first one was handled
  signaled    \* permits that nobody had asked to cancel when one was handled

history == <<reserved, forced, gaveUp, signaled>>

HInit == Init /\ reserved = {} /\ forced = FALSE /\ gaveUp = {} /\ signaled = {}

Forcing == ForceCancelInflight /\ UNCHANGED <<outside, drainNotified, timerAt, sweep>>

HNext ==
  /\ Next
  /\ reserved' = IF pc = "serve" /\ pc' = "notify" /\ result' = result
                 THEN reserved \cup {head} ELSE reserved \cap expiry'
  /\ forced' = (forced \/ Forcing)
  /\ gaveUp' = IF Forcing /\ ~forced THEN {r \in Requests : ctxDone[r]} ELSE gaveUp
  /\ signaled' = IF Forcing THEN signaled \cup {r \in inflight : cause[r] = "none" /\ ~ctxDone[r]}
                 ELSE signaled

HSpec == HInit /\ [][HNext]_<<vars, history>>

(* The funded-head barrier: from the moment a pump stops at a funded head   *)
(* for lack of global capacity until that head leaves the queue, no other   *)
(* request is dispatched, whatever is finished, cancelled or admitted in    *)
(* between; a stream of small requests cannot starve a large one.           *)
NoOvertaking ==
  [][\A r \in reserved \cap expiry : inflight' \subseteq inflight \cup {r}]_<<vars, history>>

(* After a force command every permit still held has been signalled, and no *)
(* permit without a signal appears later.  A client that was already gone   *)
(* when the gateway forced cancellation keeps the attribution: its permit   *)
(* never ends as a shutdown, whatever later commands and outcomes do; and a *)
(* permit the gateway took back from a client that was still there never    *)
(* ends as anything else, although that client may leave or cancel later.   *)
ForceAttributed ==
  /\ forced => \A r \in inflight : cause[r] # "none"
  /\ \A r \in gaveUp : terminal[r] # "Shutdown"
  /\ \A r \in signaled : terminal[r] \in {"none", "Shutdown"}
=============================================================================
