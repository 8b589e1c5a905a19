------------------------------ MODULE Resources ------------------------------
(***************************************************************************)
(* The resources the admission scheduler bounds: the validated limits of   *)
(* internal/admission/config.go and the Counters arithmetic of owner.go.   *)
(* Numbers are unbounded here: every addition is guarded by fits or        *)
(* boundedAdd, which compare by subtracting from a limit that is itself a  *)
(* uint64, so no sum leaves the width of the code's counters.              *)
(***************************************************************************)
EXTENDS Integers, FiniteSets

CONSTANTS
  N,                \* number of configured tenants
  MaxBodyBytes, MaxRequestUnits, DeficitCap,
  Quantum,          \* per tenant: BaseQuantum * Weight
  QueueLimits,      \* per scope: [count, bytes, work]
  InflightLimits    \* per scope: [count, work]

(* Tenants in configuration order.  There is one Counters record for each   *)
(* tenant and one for the whole gateway; scope 0 is the latter.             *)
Tenants == 1..N
Global == 0
Scopes == 0..N

Admission == [tenant : Tenants, bytes : 1..MaxBodyBytes, work : 1..MaxRequestUnits]

(* What validateQueueLimits and validateInflightLimits demand of a scope. *)
holdsOneMaximumRequest(s) ==
  /\ QueueLimits[s].count >= 1
  /\ QueueLimits[s].bytes >= MaxBodyBytes
  /\ QueueLimits[s].work >= MaxRequestUnits
  /\ InflightLimits[s].count >= 1
  /\ InflightLimits[s].work >= MaxRequestUnits

withinGlobalLimits(t) ==
  /\ QueueLimits[t].count <= QueueLimits[Global].count
  /\ QueueLimits[t].bytes <= QueueLimits[Global].bytes
  /\ QueueLimits[t].work <= QueueLimits[Global].work
  /\ InflightLimits[t].count <= InflightLimits[Global].count
  /\ InflightLimits[t].work <= InflightLimits[Global].work

(* New starts no scheduler for a configuration validateConfig refuses. *)
ASSUME ConfigAssumption ==
  /\ N \in Nat \ {0}
  /\ MaxBodyBytes \in Nat \ {0}
  /\ MaxRequestUnits \in Nat \ {0}
  /\ DeficitCap \in Nat
  /\ Quantum \in [Tenants -> Nat \ {0}]
  /\ QueueLimits \in [Scopes -> [count : Nat, bytes : Nat, work : Nat]]
  /\ InflightLimits \in [Scopes -> [count : Nat, work : Nat]]
  /\ \A s \in Scopes : holdsOneMaximumRequest(s)
  /\ \A t \in Tenants : withinGlobalLimits(t)
  /\ \A t \in Tenants : DeficitCap >= MaxRequestUnits - 1 + Quantum[t]

-----------------------------------------------------------------------------
(* Fault: the comparison is off by one. *)
fitsOffByOne(current, addition, limit) ==
  current <= limit /\ addition <= limit - current + 1

fits(current, addition, limit) ==
  current <= limit /\ addition <= limit - current

queueLimitFailure(c, a, limits) ==
  IF ~fits(c.queuedCount, 1, limits.count) THEN "count"
  ELSE IF ~fits(c.queuedBytes, a.bytes, limits.bytes) THEN "bytes"
  ELSE IF ~fits(c.queuedWork, a.work, limits.work) THEN "work"
  ELSE "none"

inflightFits(c, a, limits) ==
  /\ fits(c.inflightCount, 1, limits.count)
  /\ fits(c.inflightWork, a.work, limits.work)

boundedAdd(value, addition, maximum) ==
  IF value >= maximum \/ addition > maximum - value
  THEN maximum ELSE value + addition

(* Each of the four updates is applied to the tenant's and to the global    *)
(* counters together.  The removals panic in the code when they would drop  *)
(* below zero; AccountingExact of OwnerState shows that they never do.      *)
Charges(a, s) == s \in {Global, a.tenant}

addQueued(cs, a) == [s \in Scopes |->
  IF Charges(a, s)
  THEN [cs[s] EXCEPT !.queuedCount = @ + 1,
                     !.queuedBytes = @ + a.bytes,
                     !.queuedWork = @ + a.work]
  ELSE cs[s]]

removeQueuedFrom(cs, a) == [s \in Scopes |->
  IF Charges(a, s)
  THEN [cs[s] EXCEPT !.queuedCount = @ - 1,
                     !.queuedBytes = @ - a.bytes,
                     !.queuedWork = @ - a.work]
  ELSE cs[s]]

addInflight(cs, a) == [s \in Scopes |->
  IF Charges(a, s)
  THEN [cs[s] EXCEPT !.inflightCount = @ + 1, !.inflightWork = @ + a.work]
  ELSE cs[s]]

(* Fault: a finish releases the tenant's reservation and not the gateway's. *)
removeInflightTenantOnly(cs, a) == [cs EXCEPT
  ![a.tenant] = [@ EXCEPT !.inflightCount = @ - 1, !.inflightWork = @ - a.work]]

removeInflight(cs, a) == [s \in Scopes |->
  IF Charges(a, s)
  THEN [cs[s] EXCEPT !.inflightCount = @ - 1, !.inflightWork = @ - a.work]
  ELSE cs[s]]

(* pump gives up when one global in-flight resource is used up. *)
saturated(cs) ==
  \/ cs[Global].inflightCount = InflightLimits[Global].count
  \/ cs[Global].inflightWork = InflightLimits[Global].work

Idle == [queuedCount |-> 0, queuedBytes |-> 0, queuedWork |-> 0,
         inflightCount |-> 0, inflightWork |-> 0]

Counters == [queuedCount : Nat, queuedBytes : Nat, queuedWork : Nat,
             inflightCount : Nat, inflightWork : Nat]

(* The number of unit tokens of the requests in S: the sum of their sizes. *)
Weigh(S, size) == Cardinality(UNION {{r} \X (1..size[r]) : r \in S})
=============================================================================
