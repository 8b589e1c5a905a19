-------------------------- MODULE AdmissionContract --------------------------
(***************************************************************************)
(* What the admission scheduler promises its callers, without queues,      *)
(* credit, deadlines or a mailbox: a request is turned away, or it waits   *)
(* and is then turned away or served; it is served once; those waiting and *)
(* those served never exceed a limit of their tenant or of the gateway;    *)
(* and nothing joins or starts once admission is shut.                     *)
(***************************************************************************)
EXTENDS Resources

CONSTANT Requests

VARIABLES
  demand,   \* the reservation each request asks for
  status,   \* "outside", "waiting", "serving", "finished", "turnedAway"
  open      \* admission has not been shut

contract == <<demand, status, open>>

With(st, s) == {r \in Requests : status[r] = st /\ Charges(demand[r], s)}
Bytes == [r \in Requests |-> demand[r].bytes]
Work  == [r \in Requests |-> demand[r].work]

(* S may wait, respectively be served, together in scope s. *)
MayWait(S, s) ==
  /\ Cardinality(S) <= QueueLimits[s].count
  /\ Weigh(S, Bytes) <= QueueLimits[s].bytes
  /\ Weigh(S, Work) <= QueueLimits[s].work
MayServe(S, s) ==
  /\ Cardinality(S) <= InflightLimits[s].count
  /\ Weigh(S, Work) <= InflightLimits[s].work

CInit ==
  /\ demand \in [Requests -> Admission]
  /\ status = [r \in Requests |-> "outside"]
  /\ open = TRUE

Ask(r) ==
  /\ status[r] = "outside"
  /\ \E a \in Admission : demand' = [demand EXCEPT ![r] = a]
  /\ UNCHANGED <<status, open>>

Becomes(r, st) == status' = [status EXCEPT ![r] = st] /\ UNCHANGED <<demand, open>>

Join(r) ==
  /\ status[r] = "outside" /\ open
  /\ \A s \in {Global, demand[r].tenant} : MayWait(With("waiting", s) \cup {r}, s)
  /\ Becomes(r, "waiting")

TurnAway(r) ==
  /\ status[r] \in {"outside", "waiting"}
  /\ Becomes(r, "turnedAway")

Start(r) ==
  /\ status[r] = "waiting" /\ open
  /\ \A s \in {Global, demand[r].tenant} : MayServe(With("serving", s) \cup {r}, s)
  /\ Becomes(r, "serving")

Finish(r) ==
  /\ status[r] = "serving"
  /\ Becomes(r, "finished")

Shut == open /\ open' = FALSE /\ UNCHANGED <<demand, status>>

CNext ==
  \/ Shut
  \/ \E r \in Requests : Ask(r) \/ Join(r) \/ TurnAway(r) \/ Start(r) \/ Finish(r)

CSpec == CInit /\ [][CNext]_contract
=============================================================================
