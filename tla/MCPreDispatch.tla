---------------------------- MODULE MCPreDispatch ----------------------------
(* The instance of PreDispatch for TLC: two tenants, with one slot and with   *)
(* two, share two global slots; the queue holds no more than the envelope     *)
(* demands.                                                                   *)
EXTENDS PreDispatch, TLC

MCQuantum == <<1, 1>>
MCTenantLimit == <<1, 2>>
MCQueueLimits == [s \in 0..2 |-> LET n == IF s = 1 THEN 1 ELSE 2 IN
                                 [count |-> n, bytes |-> 2 * n, work |-> n]]
MCInflightLimits == [s \in 0..2 |-> [count |-> 1, work |-> 1]]
MCSymmetry == Permutations(Requests)
=============================================================================
