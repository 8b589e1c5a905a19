---------------------------- MODULE MCScheduler ----------------------------
(* Instances of Scheduler for TLC: one tenant, one place in the queue and   *)
(* one in flight, fewer than there are requests.                              *)
EXTENDS Scheduler, TLC

CONSTANTS r1, r2, d1, d2, d3

MCForce == (d1 :> "close") @@ (d2 :> "force")
MCClose == (d1 :> "close") @@ (d2 :> "close") @@ (d3 :> "drain")
MCQuantum == <<1>>
MCQueueLimits == [s \in 0..1 |-> [count |-> 1, bytes |-> 1, work |-> 1]]
MCInflightLimits == [s \in 0..1 |-> [count |-> 1, work |-> 1]]
MCSymmetry == Permutations(Requests)
=============================================================================
