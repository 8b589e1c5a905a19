--------------------------- MODULE BoundedListener ---------------------------
(***************************************************************************)
(* The listener that admits a bounded number of connections                *)
(* (internal/server/listener.go).  net/http's accept loop takes a slot     *)
(* before it accepts; the connection gives it back when it is closed, by   *)
(* the goroutine that serves it, by Server.Close, or by both.              *)
(***************************************************************************)
EXTENDS Integers, FiniteSets

CONSTANTS
  Connections,    \* connections clients open
  Closers,        \* goroutines that may close a connection
  Maximum         \* maxConnections

None == "none"

ASSUME ListenerAssumption ==
  IsFiniteSet(Connections) /\ None \notin Connections /\ Maximum \in Nat \ {0}

VARIABLES
  slots,        \* how many elements the slots channel holds
  closed,       \* the closed channel
  innerClosed,  \* the wrapped listener
  loop,         \* "slot", "accept", "check" or "returned": where Accept is
  current,      \* the connection in the accept loop's hands, if any
  conn,         \* per connection "away", "loop", "open", "closing", "closed"
  closing,      \* per closer: the connection whose Close it is in, if any
  panicked      \* release found no slot to give back

vars == <<slots, closed, innerClosed, loop, current, conn, closing, panicked>>

Init ==
  /\ slots = 0 /\ closed = FALSE /\ innerClosed = FALSE /\ panicked = FALSE
  /\ loop = "slot" /\ current = None
  /\ conn = [c \in Connections |-> "away"]
  /\ closing = [k \in Closers |-> None]

release ==
  IF slots = 0 THEN panicked' = TRUE /\ UNCHANGED slots
  ELSE slots' = slots - 1 /\ UNCHANGED panicked

-----------------------------------------------------------------------------
(* Accept, called again and again by net/http *)

TakeSlot ==
  /\ loop = "slot"
  /\ \/ slots < Maximum /\ slots' = slots + 1 /\ loop' = "accept"
     \/ closed /\ loop' = "returned" /\ UNCHANGED slots
  /\ UNCHANGED <<closed, innerClosed, current, conn, closing, panicked>>

Connect(c) ==
  /\ loop = "accept" /\ ~innerClosed /\ conn[c] = "away"
  /\ loop' = "check" /\ current' = c
  /\ conn' = [conn EXCEPT ![c] = "loop"]
  /\ UNCHANGED <<slots, closed, innerClosed, closing, panicked>>

(* net/http tries again after a temporary error. *)
AcceptFails ==
  /\ loop = "accept"
  /\ loop' \in IF innerClosed THEN {"returned"} ELSE {"slot", "returned"}
  /\ release
  /\ UNCHANGED <<closed, innerClosed, current, conn, closing>>

CheckClosed ==
  /\ loop = "check"
  /\ current' = None
  /\ IF closed
     THEN /\ loop' = "returned" /\ release
          /\ conn' = [conn EXCEPT ![current] = "closed"]
     ELSE /\ loop' = "slot" /\ UNCHANGED <<slots, panicked>>
          /\ conn' = [conn EXCEPT ![current] = "open"]
  /\ UNCHANGED <<closed, innerClosed, closing>>

-----------------------------------------------------------------------------
(* Close of the listener: closeOnce, in two steps *)

CloseListener ==
  /\ ~closed /\ closed' = TRUE
  /\ UNCHANGED <<slots, innerClosed, loop, current, conn, closing, panicked>>

CloseInner ==
  /\ closed /\ ~innerClosed /\ innerClosed' = TRUE
  /\ UNCHANGED <<slots, closed, loop, current, conn, closing, panicked>>

-----------------------------------------------------------------------------
(* Close of a connection: the first caller closes the socket and releases,  *)
(* the others wait for it and do nothing.                                   *)

(* Fault: no closeOnce. *)
FirstCloserEvery(c) == conn[c] \in {"open", "closing", "closed"}

FirstCloser(c) == conn[c] = "open"

StartClose(k, c) ==
  /\ closing[k] = None /\ FirstCloser(c)
  /\ closing' = [closing EXCEPT ![k] = c]
  /\ conn' = [conn EXCEPT ![c] = "closing"]
  /\ UNCHANGED <<slots, closed, innerClosed, loop, current, panicked>>

EndClose(k) ==
  /\ closing[k] # None
  /\ release
  /\ conn' = [conn EXCEPT ![closing[k]] = "closed"]
  /\ closing' = [closing EXCEPT ![k] = None]
  /\ UNCHANGED <<closed, innerClosed, loop, current>>

-----------------------------------------------------------------------------
Accepting == TakeSlot \/ AcceptFails \/ CheckClosed

Done ==
  /\ loop = "returned" /\ closed /\ innerClosed
  /\ \A c \in Connections : conn[c] \in {"away", "closed"}
  /\ UNCHANGED vars

Next ==
  \/ Accepting \/ CloseListener \/ CloseInner \/ Done
  \/ \E c \in Connections : Connect(c) \/ \E k \in Closers : StartClose(k, c)
  \/ \E k \in Closers : EndClose(k)

Spec == Init /\ [][Next]_vars

(* Type invariant; slots is a length and cannot be negative. *)
TypeOK ==
  /\ slots \in Nat /\ closed \in BOOLEAN /\ innerClosed \in BOOLEAN /\ panicked \in BOOLEAN
  /\ loop \in {"slot", "accept", "check", "returned"}
  /\ current \in Connections \cup {None}
  /\ conn \in [Connections -> {"away", "loop", "open", "closing", "closed"}]
  /\ closing \in [Closers -> Connections \cup {None}]

(* Slots are neither lost nor given back twice: the channel holds one for   *)
(* every connection not yet closed and one for the accept loop while it     *)
(* accepts, so their number never exceeds the maximum, and release always   *)
(* finds one.                                                               *)
SlotsExact ==
  /\ slots = Cardinality({c \in Connections : conn[c] \in {"loop", "open", "closing"}})
               + (IF loop = "accept" THEN 1 ELSE 0)
  /\ slots <= Maximum
  /\ ~panicked
=============================================================================
