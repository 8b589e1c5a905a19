------------------------------ MODULE MCServer ------------------------------
(* Instances of Server for TLC: room for one waiting and one served request. *)
EXTENDS Server, TLC

MCQuantum == <<1>>
MCQueueLimits == [s \in 0..1 |-> [count |-> 1, bytes |-> 1, work |-> 1]]
MCInflightLimits == [s \in 0..1 |-> [count |-> 1, work |-> 1]]
MCSymmetry == Permutations(Requests)
=============================================================================
