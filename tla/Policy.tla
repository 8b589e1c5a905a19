-------------------------------- MODULE Policy --------------------------------
(***************************************************************************)
(* The validation of an operator policy (validatePolicy in internal/app,    *)
(* validateConfig in internal/admission and internal/server,                *)
(* validateHandlerConfig in internal/httpapi), with machine words of Word   *)
(* values.  A policy p is a record: p.g holds the values that stand once,   *)
(* p.s those of each scope, the gateway or a tenant.                        *)
(***************************************************************************)
EXTENDS Integers

CONSTANTS
  Word,             \* unsigned values are below Word, signed ones below Word \div 2
  NT,               \* tenants
  absoluteMaxQueuedRequests, absoluteMaxInflightRequests, maxFundingVisits,
  AbsoluteMaxBodyBytes,
  minimumBodyBytes,     \* of the smallest request; depends on the name of the model
  AbsoluteMaxResponseBodyBytes, AbsoluteMaxSSETotalBytes, AbsoluteMaxSSEEventBytes,
  AbsoluteMaxSSEEvents,
  chunkBytes, doneBytes,    \* of the smallest chunk and of the terminal event
  absoluteMaxPreDispatchCount,
  absoluteMaxResponseHeaderBytes, absoluteMaxUpstreamConnections,
  absoluteMinEnvelope, absoluteMaxEnvelope, absoluteMaxConnections, absoluteMaxReservation,
  netHTTPHeaderReadSlopBytes,
  maximumPolicyTimeoutMS, maximumForceTimeoutMS,
  Millisecond, Minute, Hour,    \* durations, in the units of time.Duration
  shutdownSchedulingMargin, maximumShutdownWait

MaxInt == (Word \div 2) - 1
TenantScopes == 1..NT
PolicyScopes == 0..NT

(* Hour is MaximumQueueTimeout, absoluteMaxPolicyTimeout,                   *)
(* absoluteMaxTransportTimeout and absoluteMaxServerTimeout, Minute is      *)
(* absoluteMaxForceTimeout.                                                 *)
ASSUME PolicyAssumption ==
  /\ Word \in Nat \ {0, 1} /\ NT \in Nat \ {0} /\ maxFundingVisits \in 0..Word - 1
  /\ {absoluteMaxQueuedRequests, absoluteMaxInflightRequests, AbsoluteMaxBodyBytes,
      AbsoluteMaxResponseBodyBytes, AbsoluteMaxSSETotalBytes, AbsoluteMaxSSEEventBytes,
      AbsoluteMaxSSEEvents, chunkBytes, doneBytes, absoluteMaxPreDispatchCount,
      absoluteMaxUpstreamConnections, absoluteMaxEnvelope, absoluteMaxConnections,
      absoluteMaxReservation, maximumPolicyTimeoutMS, maximumForceTimeoutMS,
      Minute, Hour, shutdownSchedulingMargin} \subseteq Nat
  /\ minimumBodyBytes \in 1..Word - 1 /\ Millisecond \in Nat \ {0}
  /\ absoluteMaxResponseHeaderBytes \in 0..MaxInt /\ maximumShutdownWait \in 0..MaxInt
  /\ netHTTPHeaderReadSlopBytes \in Nat /\ absoluteMinEnvelope \in Nat
  /\ netHTTPHeaderReadSlopBytes <= absoluteMinEnvelope
  /\ maximumPolicyTimeoutMS * Millisecond = Hour /\ maximumForceTimeoutMS * Millisecond = Minute
  /\ Hour <= MaxInt /\ Minute <= MaxInt /\ Hour + 2 * Minute + shutdownSchedulingMargin < Word

(* The limits and timeouts of policyDocument, each decoded into a word.  The *)
(* schema version, the listener, names, identities and credentials are left *)
(* out.                                                                     *)
ContractValues == {"body", "messages", "text", "tokens", "cweight", "units"}
HTTPTimes == {"queueT", "bodyT", "upT", "streamRead", "streamEvent"}
HTTPValues == HTTPTimes \cup {"respBody", "event", "events"}
TransportTimes == {"connect", "tls", "respHeader", "idleConn"}
UpstreamValues == TransportTimes \cup {"headerBytes", "upConns"}
ServerTimes == {"header", "write", "idle", "grace"}
ServerValues == ServerTimes \cup {"force", "envelope", "conns"}
GatewayValues ==
  {"base", "cap"} \cup ContractValues \cup HTTPValues \cup UpstreamValues \cup ServerValues
ScopeValues == {"count", "bytes", "work", "icount", "iwork", "slots", "weight"}
PolicyDocuments ==
  [g : [GatewayValues -> 0..Word - 1], s : [PolicyScopes -> [ScopeValues -> 0..Word - 1]]]

-----------------------------------------------------------------------------
(* Machine arithmetic: bits.Mul64 and bits.Add64 *)

Mul64(a, b) == [hi |-> (a * b) \div Word, low |-> (a * b) % Word]
Add64(a, b) == [carry |-> (a + b) \div Word, low |-> (a + b) % Word]
Int64(a) == LET low == a % Word IN IF low > MaxInt THEN low - Word ELSE low

(* Fault: the high half of the product is forgotten. *)
overflowsIgnored(m) == FALSE
overflows(m) == m.hi # 0

divideRoundUp(value, divisor) == 1 + (value - 1) \div divisor

(* checkedMultiply of a product that may already have overflowed *)
checkedMultiply(m, b) ==
  IF overflows(m) THEN m ELSE Mul64(m.low, b)

-----------------------------------------------------------------------------
(* contract.NewParser *)

reservationUnits(bodyBytes, tokens, weight) ==
  LET completion == Mul64(weight, tokens)
      units == Add64(bodyBytes, completion.low) IN
  [ok |-> ~overflows(completion) /\ units.carry = 0 /\ units.low # 0, units |-> units.low]

NewParser(p) ==
  LET smallest == reservationUnits(minimumBodyBytes, 1, p.g.cweight)
      completion == Mul64(p.g.cweight, p.g.tokens) IN
  /\ p.g.body # 0 /\ p.g.body <= AbsoluteMaxBodyBytes /\ p.g.body < MaxInt
  /\ p.g.messages # 0 /\ p.g.messages <= MaxInt
  /\ \A f \in {"text", "tokens", "cweight", "units"} : p.g[f] # 0
  /\ ~overflows(completion) /\ Add64(p.g.body, completion.low).carry = 0
  /\ minimumBodyBytes <= p.g.body
  /\ smallest.ok /\ smallest.units <= p.g.units

-----------------------------------------------------------------------------
(* admission.validateConfig *)

validateQueueLimits(p, q) == q.count > 0 /\ q.bytes >= p.g.body /\ q.work >= p.g.units
validateInflightLimits(p, q) == q.icount > 0 /\ q.iwork >= p.g.units

quantum(p, t) == Mul64(p.g.base, p.s[t].weight)
Quanta(p) == {quantum(p, t).low : t \in TenantScopes}
maximumQuantum(p) == CHOOSE q \in Quanta(p) : \A r \in Quanta(p) : r <= q
minimumQuantum(p) == CHOOSE q \in Quanta(p) : \A r \in Quanta(p) : r >= q

validateTenant(p, t) ==
  LET q == p.s[t] IN
  /\ q.weight > 0
  /\ ~overflows(quantum(p, t)) /\ quantum(p, t).low > 0
  /\ validateQueueLimits(p, q)
  /\ q.count <= p.s[0].count /\ q.bytes <= p.s[0].bytes /\ q.work <= p.s[0].work
  /\ validateInflightLimits(p, q)
  /\ q.icount <= p.s[0].icount /\ q.iwork <= p.s[0].iwork

validateFunding(p) ==
  LET required == Add64(p.g.units - 1, maximumQuantum(p))
      rounds == divideRoundUp(p.g.units, minimumQuantum(p))
      visits == checkedMultiply(Mul64(rounds, NT), p.s[0].icount) IN
  /\ required.carry = 0 /\ p.g.cap >= required.low
  /\ ~overflows(visits) /\ visits.low <= maxFundingVisits

validateAdmissionConfig(p) ==
  /\ p.g.body > 0 /\ p.g.units > 0 /\ p.g.base > 0
  /\ validateQueueLimits(p, p.s[0]) /\ p.s[0].count <= absoluteMaxQueuedRequests
  /\ validateInflightLimits(p, p.s[0]) /\ p.s[0].icount <= absoluteMaxInflightRequests
  /\ \A t \in TenantScopes : validateTenant(p, t)
  /\ validateFunding(p)

-----------------------------------------------------------------------------
(* policyDuration: its second result, and the duration it makes of ms *)

policyDuration(ms, maximum) == ms # 0 /\ ms <= maximum
Duration(ms) == Int64(ms * Millisecond)
duration(p, f) == Duration(p.g[f])

(* validatePolicyTimeout, validateTransportTimeout and server.validateTimeout *)
validateTimeout(d, maximum) == d > 0 /\ d <= maximum

-----------------------------------------------------------------------------
(* httpapi.validateHandlerConfig *)

validatePreDispatchEnvelope(p, s) ==
  LET q == p.s[s]
      bodies == Mul64(q.slots, p.g.body)
      units == Mul64(q.slots, p.g.units) IN
  /\ q.slots <= q.count
  /\ ~overflows(bodies) /\ bodies.low <= q.bytes
  /\ ~overflows(units) /\ units.low <= q.work

(* contract.NewResponseValidator and ValidateSSELimits: a stream as a whole *)
(* has the limit of a response body.                                        *)
NewResponseValidator(p) == p.g.respBody # 0 /\ p.g.respBody <= AbsoluteMaxResponseBodyBytes

ValidateSSELimits(p) ==
  /\ p.g.respBody # 0 /\ p.g.respBody <= AbsoluteMaxSSETotalBytes /\ p.g.respBody < MaxInt
  /\ p.g.event # 0 /\ p.g.event <= AbsoluteMaxSSEEventBytes /\ p.g.event < MaxInt
  /\ p.g.event <= p.g.respBody
  /\ p.g.events >= 2 /\ p.g.events <= AbsoluteMaxSSEEvents /\ p.g.events <= MaxInt
  /\ p.g.event >= (IF chunkBytes > doneBytes THEN chunkBytes ELSE doneBytes)
  /\ p.g.respBody >= chunkBytes + doneBytes

validateHandlerConfig(p) ==
  /\ \A f \in HTTPTimes : policyDuration(p.g[f], maximumPolicyTimeoutMS)
  /\ \A f \in HTTPTimes : validateTimeout(duration(p, f), Hour)
  /\ duration(p, "streamRead") <= duration(p, "streamEvent")
  /\ duration(p, "streamEvent") <= duration(p, "upT")
  /\ NewResponseValidator(p) /\ ValidateSSELimits(p)
  /\ p.s[0].slots \in 1..absoluteMaxPreDispatchCount
  /\ \A t \in TenantScopes :
       p.s[t].slots > 0 /\ p.s[t].slots <= p.s[0].slots /\ p.s[t].slots <= absoluteMaxPreDispatchCount
  /\ \A s \in PolicyScopes : validatePreDispatchEnvelope(p, s)

-----------------------------------------------------------------------------
(* validateUpstreamPolicy with NewHTTPUpstream, server.validateConfig and   *)
(* validateServerPolicy                                                     *)

validateUpstreamPolicy(p) ==
  /\ \A f \in TransportTimes : policyDuration(p.g[f], maximumPolicyTimeoutMS)
  /\ p.g.headerBytes <= MaxInt
  /\ \A f \in TransportTimes : validateTimeout(duration(p, f), Hour)
  /\ Int64(p.g.headerBytes) > 0 /\ Int64(p.g.headerBytes) <= absoluteMaxResponseHeaderBytes
  /\ p.g.upConns # 0 /\ p.g.upConns <= absoluteMaxUpstreamConnections

(* addDurations adds one value to a total; -1 stands for a failure. *)
addDurations(a, b) == IF a < 0 \/ b <= 0 \/ b > MaxInt - a THEN -1 ELSE a + b

readTimeout(p) == addDurations(addDurations(0, duration(p, "header")), duration(p, "bodyT"))
writeTimeout(p) ==
  addDurations(addDurations(addDurations(addDurations(0, duration(p, "bodyT")),
    duration(p, "queueT")), duration(p, "upT")), duration(p, "write"))

validateServerConfig(p) ==
  /\ \A f \in ServerTimes \cup {"queueT", "bodyT", "upT"} : validateTimeout(duration(p, f), Hour)
  /\ validateTimeout(duration(p, "force"), Minute)
  /\ p.g.envelope >= absoluteMinEnvelope /\ p.g.envelope <= absoluteMaxEnvelope
  /\ p.g.conns # 0 /\ p.g.conns <= absoluteMaxConnections
  /\ p.g.envelope <= absoluteMaxReservation \div p.g.conns
  /\ readTimeout(p) >= 0 /\ writeTimeout(p) >= 0
  /\ (p.g.envelope - netHTTPHeaderReadSlopBytes) % Word <= MaxInt

shutdownWait(p) ==
  Int64(duration(p, "grace") + 2 * duration(p, "force") + shutdownSchedulingMargin)

validateServerPolicy(p) ==
  /\ \A f \in ServerTimes : policyDuration(p.g[f], maximumPolicyTimeoutMS)
  /\ policyDuration(p.g.force, maximumForceTimeoutMS)
  /\ validateServerConfig(p)
  /\ shutdownWait(p) > 0 /\ shutdownWait(p) <= maximumShutdownWait

validatePolicy(p) ==
  /\ NewParser(p) /\ validateAdmissionConfig(p) /\ validateHandlerConfig(p)
  /\ validateUpstreamPolicy(p) /\ validateServerPolicy(p)

-----------------------------------------------------------------------------
(* What the running gateway needs, in the arithmetic of integers: the       *)
(* assumptions of Resources, PreDispatch and SSEDecoder, the bound on       *)
(* funding, reservations and sums of durations that fit their types, and    *)
(* sizes within the hard limits.                                            *)

NeedsOf(p, s) ==
  LET q == p.s[s] IN
  /\ q.count > 0 /\ q.icount > 0
  /\ q.bytes >= p.g.body /\ q.work >= p.g.units /\ q.iwork >= p.g.units
  /\ q.slots > 0 /\ q.slots <= q.count
  /\ q.slots * p.g.body <= q.bytes /\ q.slots * p.g.units <= q.work

Fits(p, t) ==
  /\ \A f \in {"count", "bytes", "work", "icount", "iwork", "slots"} : p.s[t][f] <= p.s[0][f]
  /\ p.s[t].weight > 0
  /\ p.g.cap >= p.g.units - 1 + p.g.base * p.s[t].weight
  /\ (1 + (p.g.units - 1) \div (p.g.base * p.s[t].weight)) * NT * p.s[0].icount <= maxFundingVisits

(* The smallest request is served, and no request overflows its reservation. *)
RequestsFit(p) ==
  /\ p.g.body \in minimumBodyBytes..AbsoluteMaxBodyBytes /\ p.g.body < MaxInt
  /\ p.g.messages \in 1..MaxInt /\ p.g.text > 0 /\ p.g.tokens > 0 /\ p.g.cweight > 0
  /\ p.g.body + p.g.cweight * p.g.tokens < Word
  /\ minimumBodyBytes + p.g.cweight <= p.g.units

(* The smallest stream, a chunk and the terminal event, is relayed. *)
ResponsesFit(p) ==
  /\ p.g.respBody <= AbsoluteMaxResponseBodyBytes /\ p.g.respBody <= AbsoluteMaxSSETotalBytes
  /\ p.g.respBody > 0 /\ p.g.respBody < MaxInt /\ p.g.respBody >= chunkBytes + doneBytes
  /\ p.g.event > 0 /\ p.g.event <= AbsoluteMaxSSEEventBytes
  /\ p.g.event <= p.g.respBody /\ p.g.event >= chunkBytes /\ p.g.event >= doneBytes
  /\ p.g.events \in 2..AbsoluteMaxSSEEvents /\ p.g.events <= MaxInt
  /\ p.g.headerBytes \in 1..absoluteMaxResponseHeaderBytes
  /\ p.g.upConns \in 1..absoluteMaxUpstreamConnections

time(p, f) == p.g[f] * Millisecond
TimesFit(p) ==
  /\ \A f \in HTTPTimes \cup TransportTimes \cup ServerTimes : time(p, f) \in 1..Hour
  /\ time(p, "force") \in 1..Minute
  /\ p.g.streamRead <= p.g.streamEvent /\ p.g.streamEvent <= p.g.upT
  /\ time(p, "header") + time(p, "bodyT") <= MaxInt
  /\ time(p, "bodyT") + time(p, "queueT") + time(p, "upT") + time(p, "write") <= MaxInt
  /\ time(p, "grace") + 2 * time(p, "force") + shutdownSchedulingMargin <= maximumShutdownWait

(* All connections together stay within the reservation, and net/http's     *)
(* own limit, which excludes its slop, is a limit.                          *)
HeadersFit(p) ==
  /\ p.g.envelope \in absoluteMinEnvelope..absoluteMaxEnvelope
  /\ p.g.conns \in 1..absoluteMaxConnections
  /\ p.g.envelope * p.g.conns <= absoluteMaxReservation
  /\ p.g.envelope - netHTTPHeaderReadSlopBytes \in 0..MaxInt

Sound(p) ==
  /\ p.g.base > 0
  /\ \A s \in PolicyScopes : NeedsOf(p, s)
  /\ \A t \in TenantScopes : Fits(p, t)
  /\ p.s[0].slots <= absoluteMaxPreDispatchCount
  /\ p.s[0].count <= absoluteMaxQueuedRequests /\ p.s[0].icount <= absoluteMaxInflightRequests
  /\ RequestsFit(p) /\ ResponsesFit(p) /\ HeadersFit(p) /\ TimesFit(p)
=============================================================================
