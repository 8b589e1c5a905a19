---------------------------- MODULE MCSaturation ----------------------------
(* The instance of Saturation for TLC: the workload with one initial        *)
(* service job per tenant instead of eight, and sizes that keep the         *)
(* proportions of the quantum (3, the second tenant's 9), the jobs (2 or 4) *)
(* and the credit limit (18).                                               *)
EXTENDS Saturation

MCRequests == {"ctl", "a1", "a2", "a3", "ac", "ad", "ar", "b1", "b2", "b3", "bc", "bd", "br", "glob"}
MCKind == [r \in MCRequests |->
  CASE r = "ctl" -> "control" [] r = "glob" -> "global"
    [] r \in {"a1", "b1"} -> "initial" [] r \in {"a2", "a3", "b2", "b3"} -> "late"
    [] r \in {"ac", "bc"} -> "cancel" [] r \in {"ad", "bd"} -> "deadline" [] OTHER -> "reject"]
MCTenant == [r \in MCRequests |->
  CASE r = "ctl" -> 1 [] r = "glob" -> 4
    [] r \in {"a1", "a2", "a3", "ac", "ad", "ar"} -> 2 [] OTHER -> 3]
MCStreams == {"a3", "b3"}
MCCancelable == {"ac", "bc"}
MCServiceTenants == <<2, 3>>
MCQuantum == <<3, 3, 9, 3>>
MCPlaces == [s \in 0..4 |-> CASE s = 0 -> 6 [] s \in {2, 3} -> 3 [] OTHER -> 1]
MCQueueLimits == [s \in 0..4 |-> [count |-> MCPlaces[s], bytes |-> MCPlaces[s], work |-> 7 * MCPlaces[s]]]
MCInflightLimits == [s \in 0..4 |-> [count |-> 1, work |-> 7]]
MCAdmissions == [tenant : 1..4, bytes : {1}, work : {2, 4}]
MCService == {"a1", "a2", "a3", "b1", "b2", "b3"}
MCSizes == {[r \in MCRequests |-> IF r \in MCService THEN f[r] ELSE 2] : f \in [MCService -> {2, 4}]}
MCWorkload(forward, late, sizes) ==
  LET pair(a, b) == IF forward THEN <<a, b>> ELSE <<b, a>> IN
  [control |-> <<"ctl">>, initial |-> pair("a1", "b1"), cancel |-> pair("ac", "bc"),
   deadline |-> pair("ad", "bd"), late |-> late, reject |-> pair("ar", "br"), global |-> <<"glob">>,
   work |-> sizes]
MCWorkloads ==
  {MCWorkload(TRUE, <<"a2", "a3", "b2", "b3">>, f) : f \in MCSizes}
    \cup {MCWorkload(FALSE, <<"b3", "a3", "b2", "a2">>, f) : f \in MCSizes}
    \cup {MCWorkload(TRUE, <<"a3", "b2", "b3", "a2">>, f) : f \in MCSizes}
=============================================================================
