------------------------------ MODULE MCValues ------------------------------
(* Constant values of the small instances. *)
EXTENDS Integers, TLC

(* Two tenants.  Either may be held back by its own limit: the first by     *)
(* work, the second by count; two requests of work 2 do not fit the global  *)
(* limit together.  Every queue limit can be the one that refuses.          *)
MCQuantum == <<1, 2>>
MCQueueLimits ==
  (0 :> [count |-> 3, bytes |-> 4, work |-> 5])
    @@ (1 :> [count |-> 2, bytes |-> 3, work |-> 4])
    @@ (2 :> [count |-> 2, bytes |-> 2, work |-> 3])
MCInflightLimits ==
  (0 :> [count |-> 2, work |-> 3])
    @@ (1 :> [count |-> 2, work |-> 2])
    @@ (2 :> [count |-> 1, work |-> 3])
MCAdmissions == {[tenant |-> 1, bytes |-> 1, work |-> 1],
                 [tenant |-> 1, bytes |-> 2, work |-> 2],
                 [tenant |-> 2, bytes |-> 1, work |-> 2]}

(* One permit at a time, so that requests with different deadlines wait     *)
(* together.                                                                *)
MCSerialLimits == [s \in 0..2 |-> [count |-> 1, work |-> 2]]
MCSerialAdmissions == {[tenant |-> 1, bytes |-> 1, work |-> 1]}
=============================================================================
