---------------------------- MODULE OwnerTheorems ----------------------------
(***************************************************************************)
(* What the admission owner keeps and promises, for every configuration    *)
(* that passes validateConfig and every number of requests.                *)
(*                                                                         *)
(* The books.  IInv is the inductive invariant of OwnerState.  First what  *)
(* admitting, dropping, dispatching and finishing one entry do to the      *)
(* entries map, the tenant queues, the expiry heap, the counters and the   *)
(* answers; then every action of the owner is taken through it.            *)
(*                                                                         *)
(* The promises.  Why a permit ended, who may be dispatched after whom,    *)
(* how much a pump does, and that all of it is the contract of             *)
(* AdmissionContract.  Each rests on IInv and an invariant of its own:     *)
(*   CauseInv     the causes of permits, before and after a force          *)
(*   ReservedInv  a request that stopped a pump is still the next one      *)
(*   WorkInv      what the sweep under way has seen and left behind        *)
(*   FundInv      granted quanta, and those owed, against running requests *)
(***************************************************************************)
EXTENDS OwnerHistory, OwnerRefinement, FiniteSetTheorems, SequenceTheorems,
        WellFoundedInduction, TLAPS

-----------------------------------------------------------------------------
(* Sums over sets of entries *)

(* The tokens that Weigh counts *)
Tokens(S, size) == UNION {{r} \X (1..size[r]) : r \in S}

(* One request has as many tokens as its size. *)
LEMMA OneWeighs ==
  ASSUME NEW r, NEW n \in Nat
  PROVE  IsFiniteSet({r} \X (1..n)) /\ Cardinality({r} \X (1..n)) = n
<1>1. IsFiniteSet({r}) /\ Cardinality({r}) = 1
  BY FS_Singleton
<1>2. IsFiniteSet(1..n) /\ Cardinality(1..n) = n
  BY FS_Interval
<1>3. /\ IsFiniteSet({r} \X (1..n))
      /\ Cardinality({r} \X (1..n)) = Cardinality({r}) * Cardinality(1..n)
  BY <1>1, <1>2, FS_Product
<1> QED
  BY <1>1, <1>2, <1>3

(* Finitely many requests have finitely many tokens. *)
LEMMA TokensFinite ==
  ASSUME NEW S, IsFiniteSet(S), NEW size, \A x \in S : size[x] \in Nat
  PROVE  IsFiniteSet(Tokens(S, size)) /\ Weigh(S, size) \in Nat
<1> DEFINE T == {{x} \X (1..size[x]) : x \in S}
           f == [x \in S |-> {x} \X (1..size[x])]
<1>1. f \in Surjection(S, T)
  BY DEF Surjection
<1>2. IsFiniteSet(T)
  BY <1>1, FS_Surjection
<1>3. \A x \in S : IsFiniteSet({x} \X (1..size[x]))
  BY OneWeighs
<1>4. \A U \in T : IsFiniteSet(U)
  BY <1>3, Zenon
<1>5. IsFiniteSet(UNION T)
  BY <1>2, <1>4, FS_UNION
<1> QED
  BY <1>5, FS_CardinalityType DEF Tokens, Weigh

(* Admitting a request adds its size to the sum. *)
LEMMA WeighAdd ==
  ASSUME NEW S, IsFiniteSet(S), NEW r, r \notin S,
         NEW size, \A x \in S \cup {r} : size[x] \in Nat
  PROVE  Weigh(S \cup {r}, size) = Weigh(S, size) + size[r]
<1> DEFINE U == {r} \X (1..size[r])
<1>1. Tokens(S \cup {r}, size) = Tokens(S, size) \cup U
  BY DEF Tokens
<1>2. Tokens(S, size) \cap U = {}
  BY DEF Tokens
<1>3. IsFiniteSet(Tokens(S, size)) /\ Weigh(S, size) \in Nat
  BY TokensFinite
<1>4. IsFiniteSet(U) /\ Cardinality(U) = size[r]
  BY OneWeighs
<1>5. Cardinality(Tokens(S, size) \cap U) = 0
  BY <1>2, FS_EmptySet
<1>6. Cardinality(Tokens(S, size) \cup U) =
        Cardinality(Tokens(S, size)) + Cardinality(U) - Cardinality(Tokens(S, size) \cap U)
  BY <1>3, <1>4, FS_Union, Zenon
<1>7. \A X : Weigh(X, size) = Cardinality(Tokens(X, size))
  BY Zenon DEF Weigh, Tokens
<1>8. Weigh(S \cup {r}, size) = Cardinality(Tokens(S, size) \cup U)
  BY <1>1, <1>7, Zenon
<1>9. /\ Weigh(S, size) = Cardinality(Tokens(S, size))
      /\ size[r] \in Nat
  BY <1>7
<1> HIDE DEF U
<1> QED
  BY <1>3, <1>4, <1>5, <1>6, <1>8, <1>9

(* Releasing a request takes its size out of the sum, which held it. *)
LEMMA WeighRemove ==
  ASSUME NEW S, IsFiniteSet(S), NEW r \in S,
         NEW size, \A x \in S : size[x] \in Nat
  PROVE  /\ Weigh(S \ {r}, size) = Weigh(S, size) - size[r]
         /\ size[r] <= Weigh(S, size)
<1>1. IsFiniteSet(S \ {r})
  BY FS_RemoveElement
<1>2. Weigh(S \ {r}, size) \in Nat
  BY <1>1, TokensFinite
<1>3. (S \ {r}) \cup {r} = S
  OBVIOUS
<1>4. Weigh((S \ {r}) \cup {r}, size) = Weigh(S \ {r}, size) + size[r]
  <2>1. r \notin S \ {r} /\ \A x \in (S \ {r}) \cup {r} : size[x] \in Nat
    OBVIOUS
  <2> QED
    BY <1>1, <2>1, WeighAdd, Zenon
<1>5. Weigh(S, size) = Weigh(S \ {r}, size) + size[r] /\ size[r] \in Nat
  BY <1>3, <1>4, Zenon
<1> QED
  BY <1>2, <1>5

(* The sum depends on the sizes of its members only. *)
LEMMA WeighSame ==
  ASSUME NEW S, NEW f, NEW g, \A x \in S : f[x] = g[x]
  PROVE  Weigh(S, f) = Weigh(S, g)
BY DEF Weigh

(* Nothing weighs nothing. *)
LEMMA WeighEmpty == ASSUME NEW size PROVE Weigh({}, size) = 0
BY FS_EmptySet DEF Weigh

(* Products of sizes and counts are monotone. *)
LEMMA TimesMonotone ==
  ASSUME NEW a \in Nat, NEW b \in Nat, NEW m \in Nat, a <= b
  PROVE  a * m \in Nat /\ b * m \in Nat /\ a * m <= b * m
OBVIOUS

(* Requests of bounded size weigh at most the bound times their number. *)
LEMMA WeighBound ==
  ASSUME NEW S, IsFiniteSet(S), NEW m \in Nat,
         NEW size, \A x \in S : size[x] \in 0..m
  PROVE  Weigh(S, size) \in Nat /\ Weigh(S, size) <= Cardinality(S) * m
<1>1. IsFiniteSet(1..m) /\ Cardinality(1..m) = m
  BY FS_Interval
<1>2. /\ IsFiniteSet(S \X (1..m))
      /\ Cardinality(S \X (1..m)) = Cardinality(S) * m
  BY <1>1, FS_Product
<1>3. Tokens(S, size) \subseteq S \X (1..m)
  <2> SUFFICES ASSUME NEW x \in S, NEW u \in {x} \X (1..size[x])
               PROVE  u \in S \X (1..m)
    BY DEF Tokens
  <2>1. 1..size[x] \subseteq 1..m
    OBVIOUS
  <2> QED
    BY <2>1
<1>4. Cardinality(Tokens(S, size)) <= Cardinality(S \X (1..m))
  BY <1>2, <1>3, FS_Subset
<1>5. Weigh(S, size) \in Nat
  BY TokensFinite
<1>6. Weigh(S, size) = Cardinality(Tokens(S, size))
  BY Zenon DEF Weigh, Tokens
<1> QED
  BY <1>2, <1>4, <1>5, <1>6

(* Changing one size changes the sum by the difference. *)
LEMMA WeighChange ==
  ASSUME NEW S, IsFiniteSet(S), NEW t \in S, NEW f, NEW g,
         \A x \in S : f[x] \in Nat /\ g[x] \in Nat,
         \A x \in S \ {t} : g[x] = f[x]
  PROVE  /\ Weigh(S, f) \in Nat /\ Weigh(S, g) \in Nat
         /\ Weigh(S, g) + f[t] = Weigh(S, f) + g[t]
<1>1. Weigh(S, f) \in Nat /\ Weigh(S, g) \in Nat
  BY TokensFinite
<1>2. /\ Weigh(S \ {t}, f) = Weigh(S, f) - f[t]
      /\ Weigh(S \ {t}, g) = Weigh(S, g) - g[t]
  BY WeighRemove
<1>3. Weigh(S \ {t}, g) = Weigh(S \ {t}, f)
  BY WeighSame
<1> QED
  BY <1>1, <1>2, <1>3

-----------------------------------------------------------------------------
(* The parts of the invariant *)

(* What a command the owner is working on presupposes, and where the owner  *)
(* may be while admission is shut *)
Control ==
  /\ \A r \in Requests : received(r) => deadline[r] # 0
  /\ pc = "busy" =>
       /\ cmd.op = "admit" => deadline[cmd.id] # 0 /\ ~received(cmd.id)
       /\ cmd.op = "finish" => result[cmd.id] = <<Dispatched>> /\ terminal[cmd.id] = "none"
       /\ cmd.op = "stop" => drainNotified
  /\ pc \in {"drain", "force"} => ~accepting
  /\ ~accepting /\ pc # "drain" => expiry = {}
  /\ pc = "serve" => visits < N

(* Queues are in admission order, and sequence numbers are not reused. *)
QueueOrder ==
  /\ \A r \in Requests : seq[r] <= sequence
  /\ \A r, o \in expiry : seq[r] = seq[o] => r = o
  /\ \A t \in Tenants : \A i, j \in DOMAIN queue[t] :
       i < j => seq[queue[t][i]] < seq[queue[t][j]]

(* The inductive invariant, in two halves: what the owner records about     *)
(* requests, and where it is in its loop.                                   *)
TypeData ==
  /\ admission \in [Requests -> Admission]
  /\ state \in [Requests -> {"none", "queued", "inflight"}]
  /\ phase \in [Requests -> {"none", "queued", "inflight"}]
  /\ seq \in [Requests -> Nat]
  /\ cause \in [Requests -> {"none", "client", "shutdown"}]
  /\ result \in [Requests -> Seq(Decisions)]
  /\ terminal \in [Requests -> {"none", "Completed", "UpstreamFailed", "DownstreamFailed",
                                "CanceledInflight", "Shutdown", "InternalFailure",
                                "Unreleased"}]
  /\ entries \subseteq Requests /\ expiry \subseteq Requests /\ inflight \subseteq Requests
  /\ queue \in [Tenants -> Seq(Requests)]
  /\ counters \in [Scopes -> Counters]
  /\ sequence \in Nat
  /\ deficit \in [Tenants -> Nat]
  /\ visitOpen \in [Tenants -> BOOLEAN]

DataInv ==
  /\ TypeData
  /\ BooksAgree
  /\ AnsweredOnce
  /\ AccountingExact
  /\ LimitsHold
  /\ CreditBounded
  /\ QueueOrder
  /\ TenantFIFO

TypeLoop ==
  /\ now \in Nat /\ wake \in Nat /\ timerAt \in Nat /\ fundings \in Nat
  /\ ctxDone \in [Requests -> BOOLEAN]
  /\ deadline \in [Requests -> Nat]
  /\ source \in [Requests -> {"queue", "client"}]
  /\ cursor \in Tenants /\ visits \in 0..N
  /\ accepting \in BOOLEAN /\ drainNotified \in BOOLEAN
  /\ dispatched \in BOOLEAN /\ needsFunding \in BOOLEAN
  /\ pc \in {"select", "busy", "drain", "force", "pump", "visit", "serve", "notify",
             "stopped", "panicked"}
  /\ cmd \in Commands \cup {NoCommand, TimerFired}

LoopInv == TypeLoop /\ Control /\ DrainedIsFinal /\ TimerCoversQueue

IInv == DataInv /\ LoopInv

(* The halves cover the type invariant. *)
LEMMA TypeSplit == TypeOK <=> TypeData /\ TypeLoop
BY DEF TypeOK, TypeData, TypeLoop

-----------------------------------------------------------------------------
(* Sequences without duplicates *)

(* Without takes out one position and closes the gap. *)
LEMMA WithoutShape ==
  ASSUME NEW R, NEW q \in Seq(R), NEW r \in ToSet(q)
  PROVE  \E k \in 1..Len(q) :
           /\ q[k] = r
           /\ Without(q, r) = [i \in 1..(Len(q) - 1) |-> IF i < k THEN q[i] ELSE q[i + 1]]
<1> DEFINE k == CHOOSE i \in DOMAIN q : q[i] = r
<1>1. k \in 1..Len(q) /\ q[k] = r
  BY DEF ToSet
<1>2. RemoveAt(q, k) = [i \in 1..(Len(q) - 1) |-> IF i < k THEN q[i] ELSE q[i + 1]]
  <2> HIDE DEF k
  <2> DEFINE a == SubSeq(q, 1, k - 1)
             b == SubSeq(q, k + 1, Len(q))
             c == [i \in 1..(Len(q) - 1) |-> IF i < k THEN q[i] ELSE q[i + 1]]
  <2>1. a \in Seq(R) /\ Len(a) = k - 1 /\ \A i \in 1..(k - 1) : a[i] = q[i]
    BY <1>1
  <2>2. b \in Seq(R) /\ Len(b) = Len(q) - k /\ \A i \in 1..(Len(q) - k) : b[i] = q[k + i]
    BY <1>1
  <2> HIDE DEF a, b
  <2>3. a \o b = [i \in 1..(Len(q) - 1) |-> IF i <= k - 1 THEN a[i] ELSE b[i - (k - 1)]]
    <3>1. Len(a) + Len(b) = Len(q) - 1 /\ Len(a) = k - 1
      BY <1>1, <2>1, <2>2
    <3>2. /\ a \o b \in Seq(R)
          /\ Len(a \o b) = Len(a) + Len(b)
          /\ \A i \in 1..(Len(a) + Len(b)) :
               (a \o b)[i] = IF i <= Len(a) THEN a[i] ELSE b[i - Len(a)]
      BY <2>1, <2>2, ConcatProperties, Zenon
    <3> DEFINE ab == a \o b
    <3> HIDE DEF ab
    <3>3. /\ ab \in Seq(R)
          /\ Len(ab) = Len(q) - 1
          /\ \A i \in 1..(Len(q) - 1) : ab[i] = IF i <= k - 1 THEN a[i] ELSE b[i - (k - 1)]
      BY <3>1, <3>2, Zenon DEF ab
    <3>4. ab = [i \in 1..(Len(q) - 1) |-> IF i <= k - 1 THEN a[i] ELSE b[i - (k - 1)]]
      BY <3>3
    <3> QED
      BY <3>4, Zenon DEF ab
  <2>4. ASSUME NEW i \in 1..(Len(q) - 1)
        PROVE  (IF i <= k - 1 THEN a[i] ELSE b[i - (k - 1)]) = c[i]
    <3>1. CASE i <= k - 1
      BY <1>1, <2>1, <3>1
    <3>2. CASE i > k - 1
      <4>1. i - (k - 1) \in 1..(Len(q) - k) /\ k + (i - (k - 1)) = i + 1
        BY <1>1, <3>2
      <4> QED
        BY <1>1, <2>2, <3>2, <4>1
    <3> QED
      BY <1>1, <3>1, <3>2
  <2>5. a \o b = c
    BY <2>3, <2>4
  <2> QED
    BY <2>5 DEF RemoveAt, a, b
<1> QED
  BY <1>1, <1>2 DEF Without

(* Removing r from a queue without duplicates keeps everybody else, once    *)
(* and in order.                                                            *)
LEMMA WithoutQueue ==
  ASSUME NEW R, NEW q \in Seq(R), NEW r \in ToSet(q), IsInjective(q)
  PROVE  /\ Without(q, r) \in Seq(R)
         /\ Len(Without(q, r)) = Len(q) - 1
         /\ IsInjective(Without(q, r))
         /\ ToSet(Without(q, r)) = ToSet(q) \ {r}
         /\ \A i, j \in DOMAIN Without(q, r) : i < j =>
              \E u, v \in DOMAIN q : u < v /\ Without(q, r)[i] = q[u] /\ Without(q, r)[j] = q[v]
<1> DEFINE w == Without(q, r)
<1>1. PICK k \in 1..Len(q) :
        q[k] = r /\ w = [i \in 1..(Len(q) - 1) |-> IF i < k THEN q[i] ELSE q[i + 1]]
  BY WithoutShape
<1> HIDE DEF w
<1>2. /\ w \in Seq(R) /\ Len(w) = Len(q) - 1 /\ DOMAIN w = 1..(Len(q) - 1)
      /\ \A i \in DOMAIN w : w[i] = IF i < k THEN q[i] ELSE q[i + 1]
  BY <1>1
<1>3. IsInjective(w)
  BY <1>2 DEF IsInjective
<1>4. ToSet(w) = ToSet(q) \ {r}
  <2>1. ASSUME NEW x \in ToSet(w) PROVE x \in ToSet(q) \ {r}
    BY <1>1, <1>2 DEF ToSet, IsInjective
  <2>2. ASSUME NEW x \in ToSet(q) \ {r} PROVE x \in ToSet(w)
    <3>1. PICK i \in 1..Len(q) : q[i] = x
      BY DEF ToSet
    <3>2. CASE i < k
      <4>1. i \in DOMAIN w /\ w[i] = x
        BY <1>1, <1>2, <3>1, <3>2
      <4> QED
        BY <4>1 DEF ToSet
    <3>3. CASE i > k
      <4>1. i - 1 \in DOMAIN w /\ w[i - 1] = x
        BY <1>1, <1>2, <3>1, <3>3
      <4> QED
        BY <4>1 DEF ToSet
    <3> QED
      BY <1>1, <3>1, <3>2, <3>3
  <2> QED
    BY <2>1, <2>2
<1>5. ASSUME NEW i \in DOMAIN w, NEW j \in DOMAIN w, i < j
      PROVE  \E u, v \in DOMAIN q : u < v /\ w[i] = q[u] /\ w[j] = q[v]
  <2> DEFINE up(x) == IF x < k THEN x ELSE x + 1
  <2>1. up(i) \in DOMAIN q /\ up(j) \in DOMAIN q /\ up(i) < up(j)
    BY <1>2, <1>5
  <2>2. w[i] = q[up(i)] /\ w[j] = q[up(j)]
    BY <1>2
  <2> QED
    BY <2>1, <2>2
<1> QED
  BY <1>2, <1>3, <1>4, <1>5 DEF w

(* The head of a queue is one of its members. *)
LEMMA HeadQueued ==
  ASSUME NEW R, NEW q \in Seq(R), q # <<>>
  PROVE  Head(q) \in ToSet(q) /\ Head(q) \in R /\ Head(q) = q[1]
BY DEF ToSet


-----------------------------------------------------------------------------
(* Accounting *)

(* A reservation is of a configured tenant and of positive, bounded size. *)
LEMMA AdmissionTypes ==
  ASSUME TypeData, NEW r \in Requests
  PROVE  /\ admission[r] \in Admission
         /\ admission[r].tenant \in Tenants
         /\ admission[r].tenant \in Scopes
         /\ admission[r].bytes \in Nat /\ admission[r].bytes <= MaxBodyBytes
         /\ admission[r].work \in Nat /\ admission[r].work <= MaxRequestUnits
         /\ admission[r].work >= 1
<1>1. admission[r] \in Admission
  BY DEF TypeData
<1>2. N \in Nat /\ MaxBodyBytes \in Nat /\ MaxRequestUnits \in Nat
  BY ConfigAssumption
<1>3. /\ admission[r].tenant \in Tenants
      /\ admission[r].bytes \in 1..MaxBodyBytes
      /\ admission[r].work \in 1..MaxRequestUnits
  BY <1>1 DEF Admission
<1> QED
  BY <1>1, <1>2, <1>3 DEF Tenants, Scopes

(* The members of a scope and their sizes are as Resources wants them. *)
LEMMA ChargedTypes ==
  ASSUME TypeData, NEW S \in SUBSET Requests, NEW s \in Scopes
  PROVE  /\ IsFiniteSet(Charged(s, S))
         /\ \A x \in Charged(s, S) : bodyBytes[x] \in Nat /\ workUnits[x] \in Nat
         /\ Cardinality(Charged(s, S)) \in Nat
         /\ Weigh(Charged(s, S), bodyBytes) \in Nat
         /\ Weigh(Charged(s, S), workUnits) \in Nat
<1>1. Charged(s, S) \subseteq Requests
  BY DEF Charged
<1>2. IsFiniteSet(Charged(s, S))
  BY <1>1, FS_Subset, ClientAssumption
<1>3. \A x \in Charged(s, S) : bodyBytes[x] \in Nat /\ workUnits[x] \in Nat
  BY <1>1, AdmissionTypes DEF bodyBytes, workUnits
<1>4. Cardinality(Charged(s, S)) \in Nat
  BY <1>2, FS_CardinalityType
<1>5. Weigh(Charged(s, S), bodyBytes) \in Nat
  BY <1>2, <1>3, TokensFinite, Zenon
<1>6. Weigh(Charged(s, S), workUnits) \in Nat
  BY <1>2, <1>3, TokensFinite, Zenon
<1> QED
  BY <1>2, <1>3, <1>4, <1>5, <1>6

(* Taking a request out of S changes the sums of the scopes it is charged   *)
(* to by its own size, and those sums held at least that much.              *)
LEMMA AccountRemove ==
  ASSUME TypeData, NEW S \in SUBSET Requests, NEW r \in S, NEW s \in Scopes
  PROVE  /\ Charges(admission[r], s) =>
              /\ Cardinality(Charged(s, S \ {r})) = Cardinality(Charged(s, S)) - 1
              /\ Weigh(Charged(s, S \ {r}), bodyBytes)
                   = Weigh(Charged(s, S), bodyBytes) - admission[r].bytes
              /\ Weigh(Charged(s, S \ {r}), workUnits)
                   = Weigh(Charged(s, S), workUnits) - admission[r].work
              /\ 1 <= Cardinality(Charged(s, S))
              /\ admission[r].bytes <= Weigh(Charged(s, S), bodyBytes)
              /\ admission[r].work <= Weigh(Charged(s, S), workUnits)
         /\ ~Charges(admission[r], s) => Charged(s, S \ {r}) = Charged(s, S)
<1>1. CASE Charges(admission[r], s)
  <2> DEFINE C == Charged(s, S)
  <2>1. r \in C /\ Charged(s, S \ {r}) = C \ {r}
    BY <1>1 DEF Charged
  <2>2. /\ IsFiniteSet(C) /\ \A x \in C : bodyBytes[x] \in Nat /\ workUnits[x] \in Nat
        /\ Cardinality(C) \in Nat
    BY ChargedTypes
  <2>3. bodyBytes[r] = admission[r].bytes /\ workUnits[r] = admission[r].work
    BY DEF bodyBytes, workUnits
  <2> HIDE DEF C
  <2>4. Cardinality(C \ {r}) = Cardinality(C) - 1 /\ 1 <= Cardinality(C)
    <3>1. Cardinality(C \ {r}) = Cardinality(C) - 1 /\ IsFiniteSet(C \ {r})
      BY <2>1, <2>2, FS_RemoveElement
    <3>2. Cardinality(C \ {r}) \in Nat
      BY <3>1, FS_CardinalityType
    <3> QED
      BY <2>2, <3>1, <3>2
  <2>5. /\ Weigh(C \ {r}, bodyBytes) = Weigh(C, bodyBytes) - bodyBytes[r]
        /\ bodyBytes[r] <= Weigh(C, bodyBytes)
    BY <2>1, <2>2, WeighRemove
  <2>6. /\ Weigh(C \ {r}, workUnits) = Weigh(C, workUnits) - workUnits[r]
        /\ workUnits[r] <= Weigh(C, workUnits)
    BY <2>1, <2>2, WeighRemove
  <2> QED
    BY <1>1, <2>1, <2>3, <2>4, <2>5, <2>6 DEF C
<1>2. CASE ~Charges(admission[r], s)
  BY <1>2 DEF Charged
<1> QED
  BY <1>1, <1>2

(* Adding one is the inverse. *)
LEMMA AccountAdd ==
  ASSUME TypeData, NEW S \in SUBSET Requests, NEW r \in Requests, r \notin S, NEW s \in Scopes
  PROVE  /\ Charges(admission[r], s) =>
              /\ Cardinality(Charged(s, S \cup {r})) = Cardinality(Charged(s, S)) + 1
              /\ Weigh(Charged(s, S \cup {r}), bodyBytes)
                   = Weigh(Charged(s, S), bodyBytes) + admission[r].bytes
              /\ Weigh(Charged(s, S \cup {r}), workUnits)
                   = Weigh(Charged(s, S), workUnits) + admission[r].work
         /\ ~Charges(admission[r], s) => Charged(s, S \cup {r}) = Charged(s, S)
<1> DEFINE T == S \cup {r}
<1>1. T \in SUBSET Requests /\ r \in T /\ T \ {r} = S
  BY Zenon
<1>2. /\ Cardinality(Charged(s, T)) \in Nat
      /\ Weigh(Charged(s, T), bodyBytes) \in Nat
      /\ Weigh(Charged(s, T), workUnits) \in Nat
  BY <1>1, ChargedTypes
<1>3. admission[r].bytes \in Nat /\ admission[r].work \in Nat
  BY AdmissionTypes
<1> HIDE DEF T
<1>4. /\ Charges(admission[r], s) =>
              /\ Cardinality(Charged(s, S)) = Cardinality(Charged(s, T)) - 1
              /\ Weigh(Charged(s, S), bodyBytes)
                   = Weigh(Charged(s, T), bodyBytes) - admission[r].bytes
              /\ Weigh(Charged(s, S), workUnits)
                   = Weigh(Charged(s, T), workUnits) - admission[r].work
      /\ ~Charges(admission[r], s) => Charged(s, S) = Charged(s, T)
  BY <1>1, AccountRemove, Zenon
<1> QED
  BY <1>2, <1>3, <1>4 DEF T


-----------------------------------------------------------------------------
(* Steps that leave the books alone *)

(* What DataInv depends on when only credit, causes or nothing changes *)
LEMMA DataFrame ==
  ASSUME DataInv,
         UNCHANGED <<admission, state, phase, seq, result, terminal, books>>
  PROVE  /\ BooksAgree' /\ AnsweredOnce' /\ AccountingExact' /\ LimitsHold'
         /\ QueueOrder' /\ TenantFIFO'
<1> USE DEF DataInv, books
<1>1. BooksAgree'
  BY DEF BooksAgree, tenantOf
<1>2. AnsweredOnce'
  BY DEF AnsweredOnce
<1>3. AccountingExact'
  BY DEF AccountingExact, Charged, bodyBytes, workUnits
<1>4. LimitsHold'
  BY DEF LimitsHold
<1>5. QueueOrder'
  BY DEF QueueOrder
<1>6. TenantFIFO'
  BY DEF TenantFIFO, tenantOf
<1> QED
  BY <1>1, <1>2, <1>3, <1>4, <1>5, <1>6

(* Most steps of the loop, of the clock and of client contexts *)
LEMMA DataUnchanged ==
  ASSUME DataInv, UNCHANGED <<admission, marks, books, deficit, visitOpen>>
  PROVE  DataInv'
<1>1. TypeData'
  BY DEF DataInv, TypeData, marks, books
<1>2. CreditBounded'
  BY DEF DataInv, CreditBounded, books
<1> QED
  BY <1>1, <1>2, DataFrame DEF DataInv, marks

(* cancelEntry of a permit and forceCancelInflight *)
LEMMA DataCause ==
  ASSUME DataInv, cause' \in [Requests -> {"none", "client", "shutdown"}],
         UNCHANGED <<admission, state, phase, seq, result, terminal, books, deficit, visitOpen>>
  PROVE  DataInv'
<1>1. TypeData'
  BY DEF DataInv, TypeData, books
<1>2. CreditBounded'
  BY DEF DataInv, CreditBounded, books
<1> QED
  BY <1>1, <1>2, DataFrame DEF DataInv

(* A request told a refusal: it was neither queued nor dispatched. *)
LEMMA DataRefused ==
  ASSUME DataInv, NEW r \in Requests, result[r] = <<>>, r \notin entries,
         NEW d \in Decisions, d # Dispatched,
         resolve(r, d),
         UNCHANGED <<admission, state, phase, seq, cause, terminal, books, deficit, visitOpen>>
  PROVE  DataInv'
<1> USE DEF DataInv, books
<1>1. result' \in [Requests -> Seq(Decisions)] /\ result'[r] = <<d>>
      /\ \A o \in Requests \ {r} : result'[o] = result[o]
  BY DEF TypeData, resolve
<1>2. TypeData'
  BY <1>1 DEF TypeData
<1>3. CreditBounded'
  BY DEF CreditBounded
<1>4. BooksAgree'
  BY DEF BooksAgree, tenantOf
<1>5. AnsweredOnce'
  <2>1. r \notin expiry /\ r \notin inflight /\ terminal[r] = "none"
    BY DEF AnsweredOnce, BooksAgree
  <2>2. result'[r] # <<Dispatched>> /\ Len(result'[r]) = 1
    BY <1>1
  <2> QED
    BY <1>1, <2>1, <2>2 DEF AnsweredOnce
<1>6. AccountingExact'
  BY DEF AccountingExact, Charged, bodyBytes, workUnits
<1>7. LimitsHold'
  BY DEF LimitsHold
<1>8. QueueOrder'
  BY DEF QueueOrder
<1>9. TenantFIFO'
  <2>1. \A o \in Requests : result'[o] = <<Dispatched>> => result[o] = <<Dispatched>>
    BY <1>1 DEF Dispatched, Decision
  <2> QED
    BY <2>1 DEF TenantFIFO, tenantOf
<1> QED
  BY <1>2, <1>3, <1>4, <1>5, <1>6, <1>7, <1>8, <1>9


(* The funding steps of the pump: only the credit of one tenant changes. *)
LEMMA DataCredit ==
  ASSUME DataInv, NEW t \in Tenants, NEW c \in Nat, NEW v \in BOOLEAN,
         deficit' = [deficit EXCEPT ![t] = c], visitOpen' = [visitOpen EXCEPT ![t] = v],
         queue[t] = <<>> => c = 0 /\ ~v,
         ~v => c < MaxRequestUnits,
         c <= MaxRequestUnits - 1 + Quantum[t],
         UNCHANGED <<admission, marks, books>>
  PROVE  DataInv'
<1>1. TypeData'
  BY DEF DataInv, TypeData, marks, books
<1>2. CreditBounded'
  BY DEF DataInv, TypeData, CreditBounded, books
<1> QED
  BY <1>1, <1>2, DataFrame DEF DataInv, marks

(* Acquire: the reservation of a request the owner has not seen is set. *)
LEMMA DataAcquire ==
  ASSUME DataInv, NEW r \in Requests, ~received(r), NEW a \in Admission,
         admission' = [admission EXCEPT ![r] = a],
         UNCHANGED <<marks, books, deficit, visitOpen>>
  PROVE  DataInv'
<1> USE DEF DataInv, marks, books
<1>1. \A o \in Requests \ {r} : admission'[o] = admission[o]
  BY DEF TypeData
<1>2. r \notin expiry /\ r \notin inflight /\ result[r] = <<>>
  BY DEF BooksAgree, received
<1>3. TypeData'
  BY DEF TypeData
<1>4. BooksAgree'
  <2>1. \A o \in expiry : tenantOf(o)' = tenantOf(o)
    BY <1>1, <1>2 DEF tenantOf, TypeData
  <2> QED
    BY <2>1 DEF BooksAgree
<1>5. AnsweredOnce'
  BY DEF AnsweredOnce
<1>6. AccountingExact'
  <2>1. ASSUME NEW S \in SUBSET (Requests \ {r}), NEW s \in Scopes
        PROVE  /\ {x \in S : Charges(admission'[x], s)} = Charged(s, S)
               /\ Weigh(Charged(s, S), bodyBytes') = Weigh(Charged(s, S), bodyBytes)
               /\ Weigh(Charged(s, S), workUnits') = Weigh(Charged(s, S), workUnits)
    <3>1. {x \in S : Charges(admission'[x], s)} = Charged(s, S)
      BY <1>1 DEF Charged
    <3>2. \A x \in Charged(s, S) : bodyBytes'[x] = bodyBytes[x] /\ workUnits'[x] = workUnits[x]
      BY <1>1 DEF Charged, bodyBytes, workUnits
    <3>3. Weigh(Charged(s, S), bodyBytes') = Weigh(Charged(s, S), bodyBytes)
      BY <3>2, WeighSame, Zenon
    <3>4. Weigh(Charged(s, S), workUnits') = Weigh(Charged(s, S), workUnits)
      BY <3>2, WeighSame, Zenon
    <3> QED
      BY <3>1, <3>3, <3>4
  <2>2. expiry \in SUBSET (Requests \ {r}) /\ inflight \in SUBSET (Requests \ {r})
    BY <1>2 DEF TypeData
  <2>3. ASSUME NEW s \in Scopes
        PROVE  /\ Charged(s, expiry)' = Charged(s, expiry)
               /\ Charged(s, inflight)' = Charged(s, inflight)
    BY <2>1, <2>2 DEF Charged
  <2>4. ASSUME NEW s \in Scopes
        PROVE  /\ Weigh(Charged(s, expiry)', bodyBytes') = Weigh(Charged(s, expiry), bodyBytes)
               /\ Weigh(Charged(s, expiry)', workUnits') = Weigh(Charged(s, expiry), workUnits)
               /\ Weigh(Charged(s, inflight)', workUnits') = Weigh(Charged(s, inflight), workUnits)
    BY <2>1, <2>2, <2>3, Zenon
  <2> QED
    BY <2>3, <2>4 DEF AccountingExact
<1>7. LimitsHold'
  BY DEF LimitsHold
<1>8. CreditBounded'
  BY DEF CreditBounded
<1>9. QueueOrder'
  BY DEF QueueOrder
<1>10. TenantFIFO'
  <2>1. \A o \in Requests : o \in expiry \/ result[o] = <<Dispatched>> => tenantOf(o)' = tenantOf(o)
    <3>1. result[r] # <<Dispatched>>
      <4>1. Len(<<Dispatched>>) = 1
        OBVIOUS
      <4> QED
        BY <1>2, <4>1
    <3> QED
      BY <1>1, <1>2, <3>1 DEF tenantOf, TypeData
  <2> QED
    BY <2>1 DEF TenantFIFO
<1> QED
  BY <1>3, <1>4, <1>5, <1>6, <1>7, <1>8, <1>9, <1>10

-----------------------------------------------------------------------------
(* Steps that move a request *)

(* removeQueued takes r out of its tenant's queue and nothing else out of   *)
(* any queue.                                                               *)
LEMMA QueueWithout ==
  ASSUME DataInv, NEW r \in expiry, queue' = [queue EXCEPT ![tenantOf(r)] = Without(@, r)]
  PROVE  /\ tenantOf(r) \in Tenants
         /\ queue[tenantOf(r)] # <<>>
         /\ queue' \in [Tenants -> Seq(Requests)]
         /\ \A t \in Tenants : /\ IsInjective(queue'[t])
                               /\ ToSet(queue'[t]) = {o \in expiry \ {r} : tenantOf(o) = t}
                               /\ t # tenantOf(r) => queue'[t] = queue[t]
         /\ queue'[tenantOf(r)] = <<>> <=> empties(r)
         /\ \A t \in Tenants : \A i, j \in DOMAIN queue'[t] : i < j =>
              \E u, v \in DOMAIN queue[t] :
                u < v /\ queue'[t][i] = queue[t][u] /\ queue'[t][j] = queue[t][v]
<1> DEFINE m == tenantOf(r)
           q == queue[m]
<1>1. r \in Requests /\ m \in Tenants
  BY AdmissionTypes DEF DataInv, TypeData, tenantOf
<1>2. q \in Seq(Requests) /\ IsInjective(q) /\ r \in ToSet(q)
  BY <1>1 DEF DataInv, TypeData, BooksAgree
<1>3. /\ queue'[m] = Without(q, r)
      /\ \A t \in Tenants : t # m => queue'[t] = queue[t]
      /\ DOMAIN queue' = Tenants
  BY <1>1 DEF DataInv, TypeData
<1>4. /\ Without(q, r) \in Seq(Requests)
      /\ Len(Without(q, r)) = Len(q) - 1
      /\ IsInjective(Without(q, r))
      /\ ToSet(Without(q, r)) = ToSet(q) \ {r}
      /\ \A i, j \in DOMAIN Without(q, r) : i < j =>
           \E u, v \in DOMAIN q : u < v /\ Without(q, r)[i] = q[u] /\ Without(q, r)[j] = q[v]
  BY <1>2, WithoutQueue
<1>5. q # <<>>
  BY <1>2 DEF ToSet
<1>6. queue' \in [Tenants -> Seq(Requests)]
  BY <1>3, <1>4 DEF DataInv, TypeData
<1>7. queue'[m] = <<>> <=> empties(r)
  <2> DEFINE w == Without(q, r)
  <2>1. w \in Seq(Requests) /\ Len(w) = Len(q) - 1 /\ queue'[m] = w
    BY <1>3, <1>4
  <2>2. Len(q) \in Nat
    BY <1>2
  <2> HIDE DEF w, q
  <2>3. w = <<>> <=> Len(w) = 0
    BY <2>1, EmptySeq, Zenon
  <2>4. w = <<>> <=> Len(q) = 1
    BY <2>1, <2>2, <2>3
  <2> QED
    BY <2>1, <2>4 DEF empties, q
<1>8. ASSUME NEW t \in Tenants
      PROVE  /\ IsInjective(queue'[t])
             /\ ToSet(queue'[t]) = {o \in expiry \ {r} : tenantOf(o) = t}
  <2>1. IsInjective(queue[t]) /\ ToSet(queue[t]) = {o \in expiry : tenantOf(o) = t}
    BY DEF DataInv, BooksAgree
  <2>2. CASE t = m
    BY <1>3, <1>4, <2>1, <2>2
  <2>3. CASE t # m
    BY <1>3, <2>1, <2>3
  <2> QED
    BY <2>2, <2>3
<1>9. ASSUME NEW t \in Tenants, NEW i \in DOMAIN queue'[t], NEW j \in DOMAIN queue'[t], i < j
      PROVE  \E u, v \in DOMAIN queue[t] :
               u < v /\ queue'[t][i] = queue[t][u] /\ queue'[t][j] = queue[t][v]
  <2>1. CASE t = m
    <3>1. queue'[t] = Without(q, r) /\ queue[t] = q
      BY <1>3, <2>1
    <3>2. i \in DOMAIN Without(q, r) /\ j \in DOMAIN Without(q, r)
      BY <1>9, <3>1
    <3>3. PICK u, v \in DOMAIN q : u < v /\ Without(q, r)[i] = q[u] /\ Without(q, r)[j] = q[v]
      BY <1>4, <1>9, <3>2
    <3> QED
      BY <3>1, <3>3
  <2>2. CASE t # m
    BY <1>3, <1>9, <2>2
  <2> QED
    BY <2>1, <2>2
<1> QED
  BY <1>1, <1>3, <1>5, <1>6, <1>7, <1>8, <1>9

(* The counters without a queued request: exact for the queue without it,   *)
(* and never below zero, so removeQueued does not panic.                    *)
LEMMA CountersWithout ==
  ASSUME DataInv, NEW r \in expiry
  PROVE  LET cs == removeQueuedFrom(counters, admission[r]) IN
         /\ cs \in [Scopes -> Counters]
         /\ \A s \in Scopes :
              /\ cs[s].queuedCount = Cardinality(Charged(s, expiry \ {r}))
              /\ cs[s].queuedBytes = Weigh(Charged(s, expiry \ {r}), bodyBytes)
              /\ cs[s].queuedWork = Weigh(Charged(s, expiry \ {r}), workUnits)
              /\ cs[s].inflightCount = counters[s].inflightCount
              /\ cs[s].inflightWork = counters[s].inflightWork
              /\ cs[s].queuedCount <= counters[s].queuedCount
              /\ cs[s].queuedBytes <= counters[s].queuedBytes
              /\ cs[s].queuedWork <= counters[s].queuedWork
<1> DEFINE cs == removeQueuedFrom(counters, admission[r])
<1>1. expiry \in SUBSET Requests /\ r \in Requests /\ counters \in [Scopes -> Counters]
  BY DEF DataInv, TypeData
<1>2. admission[r].bytes \in Nat /\ admission[r].work \in Nat
  BY <1>1, AdmissionTypes DEF DataInv
<1>3. ASSUME NEW s \in Scopes
      PROVE  /\ cs[s] \in Counters
             /\ cs[s].queuedCount = Cardinality(Charged(s, expiry \ {r}))
             /\ cs[s].queuedBytes = Weigh(Charged(s, expiry \ {r}), bodyBytes)
             /\ cs[s].queuedWork = Weigh(Charged(s, expiry \ {r}), workUnits)
             /\ cs[s].inflightCount = counters[s].inflightCount
             /\ cs[s].inflightWork = counters[s].inflightWork
             /\ cs[s].queuedCount <= counters[s].queuedCount
             /\ cs[s].queuedBytes <= counters[s].queuedBytes
             /\ cs[s].queuedWork <= counters[s].queuedWork
  <2>1. /\ counters[s].queuedCount = Cardinality(Charged(s, expiry))
        /\ counters[s].queuedBytes = Weigh(Charged(s, expiry), bodyBytes)
        /\ counters[s].queuedWork = Weigh(Charged(s, expiry), workUnits)
    BY DEF DataInv, AccountingExact
  <2>2. counters[s] \in Counters
    BY <1>1
  <2>3. CASE Charges(admission[r], s)
    <3>1. cs[s] = [counters[s] EXCEPT !.queuedCount = @ - 1,
                                      !.queuedBytes = @ - admission[r].bytes,
                                      !.queuedWork = @ - admission[r].work]
      BY <2>3 DEF removeQueuedFrom
    <3>2. /\ Cardinality(Charged(s, expiry \ {r})) = Cardinality(Charged(s, expiry)) - 1
          /\ Weigh(Charged(s, expiry \ {r}), bodyBytes)
               = Weigh(Charged(s, expiry), bodyBytes) - admission[r].bytes
          /\ Weigh(Charged(s, expiry \ {r}), workUnits)
               = Weigh(Charged(s, expiry), workUnits) - admission[r].work
          /\ 1 <= Cardinality(Charged(s, expiry))
          /\ admission[r].bytes <= Weigh(Charged(s, expiry), bodyBytes)
          /\ admission[r].work <= Weigh(Charged(s, expiry), workUnits)
      BY <1>1, <2>3, AccountRemove, Zenon DEF DataInv
    <3>3. /\ counters[s].queuedCount \in Nat /\ counters[s].queuedBytes \in Nat
          /\ counters[s].queuedWork \in Nat
      BY <2>2 DEF Counters
    <3>4. /\ cs[s].queuedCount = counters[s].queuedCount - 1
          /\ cs[s].queuedBytes = counters[s].queuedBytes - admission[r].bytes
          /\ cs[s].queuedWork = counters[s].queuedWork - admission[r].work
          /\ cs[s].inflightCount = counters[s].inflightCount
          /\ cs[s].inflightWork = counters[s].inflightWork
      BY <2>2, <3>1 DEF Counters
    <3>5. /\ counters[s].queuedCount - 1 \in Nat
          /\ counters[s].queuedBytes - admission[r].bytes \in Nat
          /\ counters[s].queuedWork - admission[r].work \in Nat
      BY <1>2, <2>1, <3>2, <3>3
    <3>6. cs[s] \in Counters
      BY <2>2, <3>1, <3>5 DEF Counters
    <3> HIDE DEF cs
    <3> QED
      BY <1>2, <2>1, <3>2, <3>3, <3>4, <3>6
  <2>4. CASE ~Charges(admission[r], s)
    <3>1. cs[s] = counters[s]
      BY <2>4 DEF removeQueuedFrom
    <3>2. Charged(s, expiry \ {r}) = Charged(s, expiry)
      BY <1>1, <2>4, AccountRemove, Zenon DEF DataInv
    <3>3. /\ counters[s].queuedCount \in Nat
          /\ counters[s].queuedBytes \in Nat
          /\ counters[s].queuedWork \in Nat
      BY <2>2 DEF Counters
    <3> QED
      BY <2>1, <2>2, <3>1, <3>2, <3>3
  <2> QED
    BY <2>3, <2>4
<1>4. cs \in [Scopes -> Counters]
  BY <1>3 DEF removeQueuedFrom
<1> QED
  BY <1>3, <1>4

(* Drop: expiry, cancellation, drain and the purge of dead heads *)
LEMMA DataDrop ==
  ASSUME DataInv, NEW r \in expiry, NEW d \in Decisions, d # Dispatched,
         Drop(r, d), UNCHANGED admission
  PROVE  DataInv'
<1> DEFINE m == tenantOf(r)
<1>1. /\ queue' = [queue EXCEPT ![m] = Without(@, r)]
      /\ expiry' = expiry \ {r} /\ entries' = entries \ {r}
      /\ deficit' = [deficit EXCEPT ![m] = IF empties(r) THEN 0 ELSE deficit[m]]
      /\ visitOpen' = [visitOpen EXCEPT ![m] = @ /\ ~empties(r)]
      /\ counters' = removeQueuedFrom(counters, admission[r])
      /\ phase' = [phase EXCEPT ![r] = "none"]
      /\ result' = [result EXCEPT ![r] = Append(@, d)]
      /\ UNCHANGED <<state, seq, cause, terminal, inflight, sequence>>
  BY DEF Drop, removeQueued, creditAfter, resolve
<1>2. r \in Requests /\ r \notin inflight /\ result[r] = <<>> /\ phase[r] = "queued"
      /\ terminal[r] = "none"
  <2>1. r \in Requests /\ r \notin inflight /\ result[r] = <<>> /\ phase[r] = "queued"
    BY DEF DataInv, TypeData, BooksAgree, AnsweredOnce
  <2>2. result[r] # <<Dispatched>>
    <3>1. Len(<<Dispatched>>) = 1
      OBVIOUS
    <3> QED
      BY <2>1, <3>1
  <2> QED
    BY <2>1, <2>2 DEF DataInv, AnsweredOnce
<1>3. /\ m \in Tenants /\ queue[m] # <<>>
      /\ queue' \in [Tenants -> Seq(Requests)]
      /\ \A t \in Tenants : /\ IsInjective(queue'[t])
                            /\ ToSet(queue'[t]) = {o \in expiry \ {r} : tenantOf(o) = t}
                            /\ t # m => queue'[t] = queue[t]
      /\ queue'[m] = <<>> <=> empties(r)
      /\ \A t \in Tenants : \A i, j \in DOMAIN queue'[t] : i < j =>
           \E u, v \in DOMAIN queue[t] :
             u < v /\ queue'[t][i] = queue[t][u] /\ queue'[t][j] = queue[t][v]
  BY <1>1, QueueWithout
<1> HIDE DEF m
<1>4. /\ result' \in [Requests -> Seq(Decisions)] /\ result'[r] = <<d>>
      /\ \A o \in Requests \ {r} : result'[o] = result[o]
  BY <1>1, <1>2 DEF DataInv, TypeData
<1>5. TypeData'
  BY <1>1, <1>2, <1>3, <1>4, CountersWithout DEF DataInv, TypeData
<1>6. BooksAgree'
  <2>1. expiry' = {o \in Requests : phase'[o] = "queued"}
    BY <1>1, <1>2 DEF DataInv, TypeData, BooksAgree
  <2>2. inflight' = {o \in Requests : phase'[o] = "inflight"}
    BY <1>1, <1>2 DEF DataInv, TypeData, BooksAgree
  <2>3. entries' = expiry' \cup inflight' /\ \A o \in entries' : state'[o] = phase'[o]
    BY <1>1, <1>2 DEF DataInv, TypeData, BooksAgree
  <2>4. \A t \in Tenants : /\ IsInjective(queue'[t])
                           /\ ToSet(queue'[t]) = {o \in expiry' : tenantOf(o)' = t}
    BY <1>1, <1>3 DEF tenantOf
  <2> QED
    BY <2>1, <2>2, <2>3, <2>4 DEF BooksAgree
<1>7. AnsweredOnce'
  <2>1. result'[r] # <<Dispatched>> /\ Len(result'[r]) = 1
    BY <1>4
  <2> QED
    BY <1>1, <1>2, <1>4, <2>1 DEF DataInv, AnsweredOnce
<1>8. AccountingExact'
  <2>1. bodyBytes' = bodyBytes /\ workUnits' = workUnits
    BY DEF bodyBytes, workUnits
  <2>2. \A s \in Scopes : /\ Charged(s, expiry)' = Charged(s, expiry \ {r})
                          /\ Charged(s, inflight)' = Charged(s, inflight)
    BY <1>1 DEF Charged
  <2>3. \A s \in Scopes :
          /\ counters'[s].queuedCount = Cardinality(Charged(s, expiry \ {r}))
          /\ counters'[s].queuedBytes = Weigh(Charged(s, expiry \ {r}), bodyBytes)
          /\ counters'[s].queuedWork = Weigh(Charged(s, expiry \ {r}), workUnits)
          /\ counters'[s].inflightCount = counters[s].inflightCount
          /\ counters'[s].inflightWork = counters[s].inflightWork
    BY <1>1, CountersWithout
  <2> QED
    BY <2>1, <2>2, <2>3 DEF DataInv, AccountingExact
<1>9. LimitsHold'
  <2>1. ASSUME NEW s \in Scopes
        PROVE  /\ counters[s] \in Counters /\ counters'[s] \in Counters
               /\ counters'[s].inflightCount = counters[s].inflightCount
               /\ counters'[s].inflightWork = counters[s].inflightWork
               /\ counters'[s].queuedCount <= counters[s].queuedCount
               /\ counters'[s].queuedBytes <= counters[s].queuedBytes
               /\ counters'[s].queuedWork <= counters[s].queuedWork
    BY <1>1, CountersWithout DEF DataInv, TypeData
  <2>2. ASSUME NEW s \in Scopes
        PROVE  QueueLimits[s] \in [count : Nat, bytes : Nat, work : Nat]
    BY ConfigAssumption
  <2> QED
    BY <2>1, <2>2 DEF DataInv, LimitsHold, Counters
<1>10. CreditBounded'
  <2>1. /\ deficit' \in [Tenants -> Nat] /\ visitOpen' \in [Tenants -> BOOLEAN]
        /\ deficit'[m] = IF empties(r) THEN 0 ELSE deficit[m]
        /\ visitOpen'[m] = (visitOpen[m] /\ ~empties(r))
        /\ \A t \in Tenants \ {m} : deficit'[t] = deficit[t] /\ visitOpen'[t] = visitOpen[t]
    BY <1>1, <1>3 DEF DataInv, TypeData
  <2>2. MaxRequestUnits \in Nat \ {0} /\ \A t \in Tenants : Quantum[t] \in Nat
    BY ConfigAssumption
  <2>3. ASSUME NEW t \in Tenants
        PROVE  /\ queue'[t] = <<>> => deficit'[t] = 0 /\ ~visitOpen'[t]
               /\ ~visitOpen'[t] => deficit'[t] < MaxRequestUnits
               /\ deficit'[t] <= MaxRequestUnits - 1 + Quantum[t]
    <3>1. CASE t = m /\ empties(r)
      BY <2>1, <2>2, <3>1
    <3>2. CASE t = m /\ ~empties(r)
      BY <1>3, <2>1, <2>2, <3>2 DEF DataInv, CreditBounded
    <3>3. CASE t # m
      BY <1>3, <2>1, <2>2, <3>3 DEF DataInv, CreditBounded
    <3> QED
      BY <3>1, <3>2, <3>3
  <2> QED
    BY <2>3 DEF CreditBounded
<1>11. QueueOrder'
  <2>1. ASSUME NEW t \in Tenants, NEW i \in DOMAIN queue'[t], NEW j \in DOMAIN queue'[t], i < j
        PROVE  seq[queue'[t][i]] < seq[queue'[t][j]]
    <3>1. PICK u, v \in DOMAIN queue[t] :
            u < v /\ queue'[t][i] = queue[t][u] /\ queue'[t][j] = queue[t][v]
      BY <1>3, <2>1
    <3> QED
      BY <3>1 DEF DataInv, QueueOrder
  <2> QED
    BY <1>1, <2>1 DEF DataInv, QueueOrder
<1>12. TenantFIFO'
  <2>1. \A o \in Requests : result'[o] = <<Dispatched>> => result[o] = <<Dispatched>>
    BY <1>4
  <2> QED
    BY <1>1, <2>1 DEF DataInv, TenantFIFO, tenantOf
<1> QED
  BY <1>5, <1>6, <1>7, <1>8, <1>9, <1>10, <1>11, <1>12 DEF DataInv

(* addInflight after a request left the queue: the sums of the permits with *)
(* the new one, within the limits the pump compared with.                   *)
LEMMA CountersDispatched ==
  ASSUME DataInv, NEW r \in expiry,
         \A s \in {Global, tenantOf(r)} :
           inflightFits(counters[s], admission[r], InflightLimits[s])
  PROVE  LET cs == addInflight(removeQueuedFrom(counters, admission[r]), admission[r]) IN
         /\ cs \in [Scopes -> Counters]
         /\ \A s \in Scopes :
              /\ cs[s].queuedCount = Cardinality(Charged(s, expiry \ {r}))
              /\ cs[s].queuedBytes = Weigh(Charged(s, expiry \ {r}), bodyBytes)
              /\ cs[s].queuedWork = Weigh(Charged(s, expiry \ {r}), workUnits)
              /\ cs[s].inflightCount = Cardinality(Charged(s, inflight \cup {r}))
              /\ cs[s].inflightWork = Weigh(Charged(s, inflight \cup {r}), workUnits)
              /\ cs[s].queuedCount <= counters[s].queuedCount
              /\ cs[s].queuedBytes <= counters[s].queuedBytes
              /\ cs[s].queuedWork <= counters[s].queuedWork
              /\ cs[s].inflightCount <= InflightLimits[s].count
              /\ cs[s].inflightWork <= InflightLimits[s].work
<1> DEFINE ds == removeQueuedFrom(counters, admission[r])
           cs == addInflight(ds, admission[r])
<1>1. /\ inflight \in SUBSET Requests /\ r \in Requests /\ r \notin inflight
      /\ counters \in [Scopes -> Counters]
  BY DEF DataInv, TypeData, BooksAgree
<1>2. admission[r].work \in Nat
  BY <1>1, AdmissionTypes DEF DataInv
<1>3. /\ ds \in [Scopes -> Counters]
      /\ \A s \in Scopes :
           /\ ds[s].queuedCount = Cardinality(Charged(s, expiry \ {r}))
           /\ ds[s].queuedBytes = Weigh(Charged(s, expiry \ {r}), bodyBytes)
           /\ ds[s].queuedWork = Weigh(Charged(s, expiry \ {r}), workUnits)
           /\ ds[s].inflightCount = counters[s].inflightCount
           /\ ds[s].inflightWork = counters[s].inflightWork
           /\ ds[s].queuedCount <= counters[s].queuedCount
           /\ ds[s].queuedBytes <= counters[s].queuedBytes
           /\ ds[s].queuedWork <= counters[s].queuedWork
  BY CountersWithout
<1> HIDE DEF ds
<1>4. ASSUME NEW s \in Scopes
      PROVE  /\ cs[s] \in Counters
             /\ cs[s].queuedCount = ds[s].queuedCount
             /\ cs[s].queuedBytes = ds[s].queuedBytes
             /\ cs[s].queuedWork = ds[s].queuedWork
             /\ cs[s].inflightCount = Cardinality(Charged(s, inflight \cup {r}))
             /\ cs[s].inflightWork = Weigh(Charged(s, inflight \cup {r}), workUnits)
             /\ cs[s].inflightCount <= InflightLimits[s].count
             /\ cs[s].inflightWork <= InflightLimits[s].work
  <2>1. /\ ds[s] \in Counters
        /\ ds[s].inflightCount = Cardinality(Charged(s, inflight))
        /\ ds[s].inflightWork = Weigh(Charged(s, inflight), workUnits)
    BY <1>3 DEF DataInv, AccountingExact
  <2>2. ds[s].inflightCount \in Nat /\ ds[s].inflightWork \in Nat
    BY <2>1 DEF Counters
  <2>3. InflightLimits[s].count \in Nat /\ InflightLimits[s].work \in Nat
    BY ConfigAssumption
  <2>4. CASE Charges(admission[r], s)
    <3>1. cs[s] = [ds[s] EXCEPT !.inflightCount = @ + 1, !.inflightWork = @ + admission[r].work]
      BY <2>4 DEF addInflight
    <3>2. /\ cs[s].queuedCount = ds[s].queuedCount
          /\ cs[s].queuedBytes = ds[s].queuedBytes
          /\ cs[s].queuedWork = ds[s].queuedWork
          /\ cs[s].inflightCount = ds[s].inflightCount + 1
          /\ cs[s].inflightWork = ds[s].inflightWork + admission[r].work
          /\ cs[s] \in Counters
      <4>1. ds[s].inflightCount + 1 \in Nat /\ ds[s].inflightWork + admission[r].work \in Nat
        BY <1>2, <2>2
      <4> HIDE DEF cs
      <4> QED
        BY <2>1, <3>1, <4>1 DEF Counters
    <3>3. /\ Cardinality(Charged(s, inflight \cup {r})) = Cardinality(Charged(s, inflight)) + 1
          /\ Weigh(Charged(s, inflight \cup {r}), workUnits)
               = Weigh(Charged(s, inflight), workUnits) + admission[r].work
      BY <1>1, <2>4, AccountAdd, Zenon DEF DataInv
    <3>4. /\ ds[s].inflightCount + 1 <= InflightLimits[s].count
          /\ ds[s].inflightWork + admission[r].work <= InflightLimits[s].work
      <4>1. inflightFits(counters[s], admission[r], InflightLimits[s])
        BY <2>4 DEF Charges, tenantOf
      <4> QED
        BY <1>2, <1>3, <2>2, <2>3, <4>1 DEF inflightFits, fits
    <3> HIDE DEF cs
    <3> QED
      BY <2>1, <3>2, <3>3, <3>4
  <2>5. CASE ~Charges(admission[r], s)
    <3>1. cs[s] = ds[s]
      BY <2>5 DEF addInflight
    <3>2. Charged(s, inflight \cup {r}) = Charged(s, inflight)
      BY <1>1, <2>5, AccountAdd, Zenon DEF DataInv
    <3>3. /\ ds[s].inflightCount <= InflightLimits[s].count
          /\ ds[s].inflightWork <= InflightLimits[s].work
      BY <1>3 DEF DataInv, LimitsHold
    <3> QED
      BY <2>1, <3>1, <3>2, <3>3
  <2> QED
    BY <2>4, <2>5
<1>5. cs \in [Scopes -> Counters]
  BY <1>4 DEF addInflight
<1> HIDE DEF cs
<1>6. \A s \in Scopes :
              /\ cs[s].queuedCount = Cardinality(Charged(s, expiry \ {r}))
              /\ cs[s].queuedBytes = Weigh(Charged(s, expiry \ {r}), bodyBytes)
              /\ cs[s].queuedWork = Weigh(Charged(s, expiry \ {r}), workUnits)
              /\ cs[s].inflightCount = Cardinality(Charged(s, inflight \cup {r}))
              /\ cs[s].inflightWork = Weigh(Charged(s, inflight \cup {r}), workUnits)
              /\ cs[s].queuedCount <= counters[s].queuedCount
              /\ cs[s].queuedBytes <= counters[s].queuedBytes
              /\ cs[s].queuedWork <= counters[s].queuedWork
              /\ cs[s].inflightCount <= InflightLimits[s].count
              /\ cs[s].inflightWork <= InflightLimits[s].work
  BY <1>3, <1>4
<1> QED
  BY <1>5, <1>6 DEF cs, ds

(* dispatch of the head of a queue *)
LEMMA DataDispatch ==
  ASSUME DataInv, NEW t \in Tenants, queue[t] # <<>>, NEW r, r = Head(queue[t]),
         \A s \in {Global, t} : inflightFits(counters[s], admission[r], InflightLimits[s]),
         admission[r].work <= deficit[t],
         dispatch(r), UNCHANGED admission
  PROVE  DataInv'
<1>1. r \in Requests /\ r \in expiry /\ tenantOf(r) = t /\ r = queue[t][1]
  BY HeadQueued DEF DataInv, TypeData, BooksAgree
<1>2. /\ queue' = [queue EXCEPT ![t] = Without(@, r)]
      /\ expiry' = expiry \ {r} /\ inflight' = inflight \cup {r}
      /\ deficit' = [deficit EXCEPT ![t] = IF empties(r) THEN 0 ELSE deficit[t] - admission[r].work]
      /\ visitOpen' = [visitOpen EXCEPT ![t] = @ /\ ~empties(r)]
      /\ counters' = addInflight(removeQueuedFrom(counters, admission[r]), admission[r])
      /\ state' = [state EXCEPT ![r] = "inflight"]
      /\ phase' = [phase EXCEPT ![r] = "inflight"]
      /\ result' = [result EXCEPT ![r] = Append(@, Dispatched)]
      /\ UNCHANGED <<seq, cause, terminal, entries, sequence>>
  BY <1>1 DEF dispatch, removeQueued, creditAfter, resolve
<1>3. r \notin inflight /\ result[r] = <<>> /\ phase[r] = "queued"
  BY <1>1 DEF DataInv, TypeData, BooksAgree, AnsweredOnce
<1>4. terminal[r] = "none"
  <2>1. result[r] # <<Dispatched>>
    <3>1. Len(<<Dispatched>>) = 1
      OBVIOUS
    <3> QED
      BY <1>3, <3>1
  <2> QED
    BY <1>1, <2>1 DEF DataInv, AnsweredOnce
<1>5. /\ queue' \in [Tenants -> Seq(Requests)]
      /\ \A u \in Tenants : /\ IsInjective(queue'[u])
                            /\ ToSet(queue'[u]) = {o \in expiry \ {r} : tenantOf(o) = u}
                            /\ u # t => queue'[u] = queue[u]
      /\ queue'[t] = <<>> <=> empties(r)
      /\ \A u \in Tenants : \A i, j \in DOMAIN queue'[u] : i < j =>
           \E v, w \in DOMAIN queue[u] :
             v < w /\ queue'[u][i] = queue[u][v] /\ queue'[u][j] = queue[u][w]
  BY <1>1, <1>2, QueueWithout
<1>6. /\ counters' \in [Scopes -> Counters]
      /\ \A s \in Scopes :
           /\ counters'[s].queuedCount = Cardinality(Charged(s, expiry \ {r}))
           /\ counters'[s].queuedBytes = Weigh(Charged(s, expiry \ {r}), bodyBytes)
           /\ counters'[s].queuedWork = Weigh(Charged(s, expiry \ {r}), workUnits)
           /\ counters'[s].inflightCount = Cardinality(Charged(s, inflight \cup {r}))
           /\ counters'[s].inflightWork = Weigh(Charged(s, inflight \cup {r}), workUnits)
           /\ counters'[s].queuedCount <= counters[s].queuedCount
           /\ counters'[s].queuedBytes <= counters[s].queuedBytes
           /\ counters'[s].queuedWork <= counters[s].queuedWork
           /\ counters'[s].inflightCount <= InflightLimits[s].count
           /\ counters'[s].inflightWork <= InflightLimits[s].work
  <2>1. \A s \in {Global, tenantOf(r)} : inflightFits(counters[s], admission[r], InflightLimits[s])
    BY <1>1
  <2> QED
    BY <1>1, <1>2, <2>1, CountersDispatched
<1>7. /\ result' \in [Requests -> Seq(Decisions)] /\ result'[r] = <<Dispatched>>
      /\ \A o \in Requests \ {r} : result'[o] = result[o]
  <2>1. Dispatched \in Decisions
    BY DEF Dispatched, Decision, Decisions
  <2>2. Append(<<>>, Dispatched) = <<Dispatched>> /\ <<Dispatched>> \in Seq(Decisions)
    BY <2>1
  <2>3. result \in [Requests -> Seq(Decisions)]
    BY DEF DataInv, TypeData
  <2>4. result' = [result EXCEPT ![r] = <<Dispatched>>]
    BY <1>2, <1>3, <2>2
  <2> QED
    BY <1>1, <2>2, <2>3, <2>4
<1>8. /\ deficit' \in [Tenants -> Nat] /\ visitOpen' \in [Tenants -> BOOLEAN]
      /\ deficit'[t] = IF empties(r) THEN 0 ELSE deficit[t] - admission[r].work
      /\ visitOpen'[t] = (visitOpen[t] /\ ~empties(r))
      /\ \A u \in Tenants \ {t} : deficit'[u] = deficit[u] /\ visitOpen'[u] = visitOpen[u]
  <2>1. admission[r].work \in Nat /\ deficit[t] \in Nat
    BY <1>1, AdmissionTypes DEF DataInv, TypeData
  <2>2. deficit[t] - admission[r].work \in Nat
    BY <2>1
  <2> QED
    BY <1>2, <2>2 DEF DataInv, TypeData
<1>9. TypeData'
  BY <1>1, <1>2, <1>5, <1>6, <1>7, <1>8 DEF DataInv, TypeData
<1>10. BooksAgree'
  <2>1. expiry' = {o \in Requests : phase'[o] = "queued"}
    BY <1>1, <1>2 DEF DataInv, TypeData, BooksAgree
  <2>2. inflight' = {o \in Requests : phase'[o] = "inflight"}
    BY <1>1, <1>2 DEF DataInv, TypeData, BooksAgree
  <2>3. entries' = expiry' \cup inflight' /\ \A o \in entries' : state'[o] = phase'[o]
    BY <1>1, <1>2 DEF DataInv, TypeData, BooksAgree
  <2>4. \A u \in Tenants : /\ IsInjective(queue'[u])
                           /\ ToSet(queue'[u]) = {o \in expiry' : tenantOf(o)' = u}
    BY <1>2, <1>5 DEF tenantOf
  <2> QED
    BY <2>1, <2>2, <2>3, <2>4 DEF BooksAgree
<1>11. AnsweredOnce'
  <2>1. ASSUME NEW o \in Requests
        PROVE  /\ Len(result'[o]) <= 1
               /\ o \in expiry' => result'[o] = <<>>
               /\ result'[o] = <<Dispatched>> <=> (o \in inflight' \/ terminal'[o] # "none")
               /\ terminal'[o] # "none" => o \notin inflight' /\ terminal'[o] # "Unreleased"
    <3>1. CASE o = r
      <4>1. result'[r] = <<Dispatched>> /\ Len(<<Dispatched>>) = 1
        BY <1>7
      <4>2. r \notin expiry' /\ r \in inflight' /\ terminal'[r] = "none"
        BY <1>2, <1>4
      <4> QED
        BY <3>1, <4>1, <4>2
    <3>2. CASE o # r
      BY <1>1, <1>2, <1>7, <3>2 DEF DataInv, AnsweredOnce
    <3> QED
      BY <3>1, <3>2
  <2> QED
    BY <2>1 DEF AnsweredOnce
<1>12. AccountingExact'
  <2>1. bodyBytes' = bodyBytes /\ workUnits' = workUnits
    BY DEF bodyBytes, workUnits
  <2>2. \A s \in Scopes : /\ Charged(s, expiry)' = Charged(s, expiry \ {r})
                          /\ Charged(s, inflight)' = Charged(s, inflight \cup {r})
    BY <1>2 DEF Charged
  <2> QED
    BY <1>6, <2>1, <2>2 DEF AccountingExact
<1>13. LimitsHold'
  <2>1. ASSUME NEW s \in Scopes
        PROVE  /\ QueueLimits[s] \in [count : Nat, bytes : Nat, work : Nat]
               /\ counters[s] \in Counters /\ counters'[s] \in Counters
    BY <1>6, ConfigAssumption DEF DataInv, TypeData
  <2>2. ASSUME NEW s \in Scopes
        PROVE  /\ counters'[s].queuedCount <= QueueLimits[s].count
               /\ counters'[s].queuedBytes <= QueueLimits[s].bytes
               /\ counters'[s].queuedWork <= QueueLimits[s].work
    <3>1. /\ counters[s].queuedCount <= QueueLimits[s].count
          /\ counters[s].queuedBytes <= QueueLimits[s].bytes
          /\ counters[s].queuedWork <= QueueLimits[s].work
      BY DEF DataInv, LimitsHold
    <3>2. /\ counters'[s].queuedCount <= counters[s].queuedCount
          /\ counters'[s].queuedBytes <= counters[s].queuedBytes
          /\ counters'[s].queuedWork <= counters[s].queuedWork
      BY <1>6
    <3>3. /\ counters[s].queuedCount \in Nat /\ counters'[s].queuedCount \in Nat
          /\ counters[s].queuedBytes \in Nat /\ counters'[s].queuedBytes \in Nat
          /\ counters[s].queuedWork \in Nat /\ counters'[s].queuedWork \in Nat
      BY <2>1 DEF Counters
    <3>4. QueueLimits[s].count \in Nat /\ QueueLimits[s].bytes \in Nat /\ QueueLimits[s].work \in Nat
      BY <2>1
    <3> QED
      BY <3>1, <3>2, <3>3, <3>4
  <2> QED
    BY <1>6, <2>2 DEF LimitsHold
<1>14. CreditBounded'
  <2>1. MaxRequestUnits \in Nat \ {0} /\ \A u \in Tenants : Quantum[u] \in Nat
    BY ConfigAssumption
  <2>2. admission[r].work \in Nat /\ deficit[t] \in Nat
    BY <1>1, AdmissionTypes DEF DataInv, TypeData
  <2>3. ASSUME NEW u \in Tenants
        PROVE  /\ queue'[u] = <<>> => deficit'[u] = 0 /\ ~visitOpen'[u]
               /\ ~visitOpen'[u] => deficit'[u] < MaxRequestUnits
               /\ deficit'[u] <= MaxRequestUnits - 1 + Quantum[u]
    <3>1. CASE u = t /\ empties(r)
      BY <1>8, <2>1, <3>1
    <3>2. CASE u = t /\ ~empties(r)
      <4>1. /\ queue'[u] # <<>> /\ deficit'[u] = deficit[u] - admission[r].work
            /\ visitOpen'[u] <=> visitOpen[u]
        BY <1>5, <1>8, <3>2
      <4>2. /\ ~visitOpen[u] => deficit[u] < MaxRequestUnits
            /\ deficit[u] <= MaxRequestUnits - 1 + Quantum[u]
        BY DEF DataInv, CreditBounded
      <4> QED
        BY <2>1, <2>2, <3>2, <4>1, <4>2
    <3>3. CASE u # t
      BY <1>5, <1>8, <3>3 DEF DataInv, CreditBounded
    <3> QED
      BY <3>1, <3>2, <3>3
  <2> QED
    BY <2>3 DEF CreditBounded
<1>15. QueueOrder'
  <2>1. ASSUME NEW u \in Tenants, NEW i \in DOMAIN queue'[u], NEW j \in DOMAIN queue'[u], i < j
        PROVE  seq[queue'[u][i]] < seq[queue'[u][j]]
    <3>1. PICK v, w \in DOMAIN queue[u] :
            v < w /\ queue'[u][i] = queue[u][v] /\ queue'[u][j] = queue[u][w]
      BY <1>5, <2>1
    <3> QED
      BY <3>1 DEF DataInv, QueueOrder
  <2> QED
    BY <1>2, <2>1 DEF DataInv, QueueOrder
<1>16. TenantFIFO'
  <2>1. ASSUME NEW o \in expiry', tenantOf(o) = t PROVE seq[r] < seq[o]
    <3>1. o \in expiry /\ o # r /\ o \in ToSet(queue[t])
      BY <1>2, <2>1 DEF DataInv, BooksAgree
    <3>2. PICK j \in DOMAIN queue[t] : queue[t][j] = o
      BY <3>1 DEF ToSet
    <3>3. queue[t] \in Seq(Requests)
      BY DEF DataInv, TypeData
    <3>4. 1 \in DOMAIN queue[t] /\ 1 < j
      BY <1>1, <3>1, <3>2, <3>3
    <3> QED
      BY <1>1, <3>2, <3>4 DEF DataInv, QueueOrder
  <2>2. ASSUME NEW o \in Requests, NEW p \in Requests, o \in expiry',
               result'[p] = <<Dispatched>>, tenantOf(o) = tenantOf(p)
        PROVE  seq[p] < seq[o]
    <3>1. CASE p = r
      BY <1>1, <2>1, <2>2, <3>1
    <3>2. CASE p # r
      BY <1>2, <1>7, <2>2, <3>2 DEF DataInv, TenantFIFO
    <3> QED
      BY <3>1, <3>2
  <2> QED
    BY <1>2, <2>2 DEF TenantFIFO, tenantOf
<1> QED
  BY <1>9, <1>10, <1>11, <1>12, <1>13, <1>14, <1>15, <1>16 DEF DataInv

(* The counters with a request that passed both queue limit checks *)
LEMMA CountersQueued ==
  ASSUME DataInv, NEW r \in Requests, r \notin expiry,
         \A s \in {Global, tenantOf(r)} :
           queueLimitFailure(counters[s], admission[r], QueueLimits[s]) = "none"
  PROVE  LET cs == addQueued(counters, admission[r]) IN
         /\ cs \in [Scopes -> Counters]
         /\ \A s \in Scopes :
              /\ cs[s].queuedCount = Cardinality(Charged(s, expiry \cup {r}))
              /\ cs[s].queuedBytes = Weigh(Charged(s, expiry \cup {r}), bodyBytes)
              /\ cs[s].queuedWork = Weigh(Charged(s, expiry \cup {r}), workUnits)
              /\ cs[s].inflightCount = counters[s].inflightCount
              /\ cs[s].inflightWork = counters[s].inflightWork
              /\ cs[s].queuedCount <= QueueLimits[s].count
              /\ cs[s].queuedBytes <= QueueLimits[s].bytes
              /\ cs[s].queuedWork <= QueueLimits[s].work
<1> DEFINE cs == addQueued(counters, admission[r])
<1>1. expiry \in SUBSET Requests /\ counters \in [Scopes -> Counters]
  BY DEF DataInv, TypeData
<1>2. admission[r].bytes \in Nat /\ admission[r].work \in Nat
  BY <1>1, AdmissionTypes DEF DataInv
<1>3. ASSUME NEW s \in Scopes
      PROVE  /\ cs[s] \in Counters
             /\ cs[s].queuedCount = Cardinality(Charged(s, expiry \cup {r}))
             /\ cs[s].queuedBytes = Weigh(Charged(s, expiry \cup {r}), bodyBytes)
             /\ cs[s].queuedWork = Weigh(Charged(s, expiry \cup {r}), workUnits)
             /\ cs[s].inflightCount = counters[s].inflightCount
             /\ cs[s].inflightWork = counters[s].inflightWork
             /\ cs[s].queuedCount <= QueueLimits[s].count
             /\ cs[s].queuedBytes <= QueueLimits[s].bytes
             /\ cs[s].queuedWork <= QueueLimits[s].work
  <2>1. /\ counters[s].queuedCount = Cardinality(Charged(s, expiry))
        /\ counters[s].queuedBytes = Weigh(Charged(s, expiry), bodyBytes)
        /\ counters[s].queuedWork = Weigh(Charged(s, expiry), workUnits)
    BY DEF DataInv, AccountingExact
  <2>2. counters[s] \in Counters
    BY <1>1
  <2>3. /\ counters[s].queuedCount \in Nat /\ counters[s].queuedBytes \in Nat
        /\ counters[s].queuedWork \in Nat
    BY <2>2 DEF Counters
  <2>4. /\ QueueLimits[s].count \in Nat /\ QueueLimits[s].bytes \in Nat
        /\ QueueLimits[s].work \in Nat
    BY ConfigAssumption
  <2>5. CASE Charges(admission[r], s)
    <3>1. cs[s] = [counters[s] EXCEPT !.queuedCount = @ + 1,
                                      !.queuedBytes = @ + admission[r].bytes,
                                      !.queuedWork = @ + admission[r].work]
      BY <2>5 DEF addQueued
    <3>2. /\ counters[s].queuedCount + 1 \in Nat
          /\ counters[s].queuedBytes + admission[r].bytes \in Nat
          /\ counters[s].queuedWork + admission[r].work \in Nat
      BY <1>2, <2>3
    <3> HIDE DEF cs
    <3>3. /\ cs[s].queuedCount = counters[s].queuedCount + 1
          /\ cs[s].queuedBytes = counters[s].queuedBytes + admission[r].bytes
          /\ cs[s].queuedWork = counters[s].queuedWork + admission[r].work
          /\ cs[s].inflightCount = counters[s].inflightCount
          /\ cs[s].inflightWork = counters[s].inflightWork
          /\ cs[s] \in Counters
      BY <2>2, <3>1, <3>2 DEF Counters
    <3>4. /\ Cardinality(Charged(s, expiry \cup {r})) = Cardinality(Charged(s, expiry)) + 1
          /\ Weigh(Charged(s, expiry \cup {r}), bodyBytes)
               = Weigh(Charged(s, expiry), bodyBytes) + admission[r].bytes
          /\ Weigh(Charged(s, expiry \cup {r}), workUnits)
               = Weigh(Charged(s, expiry), workUnits) + admission[r].work
      BY <1>1, <2>5, AccountAdd, Zenon DEF DataInv
    <3>5. /\ counters[s].queuedCount + 1 <= QueueLimits[s].count
          /\ counters[s].queuedBytes + admission[r].bytes <= QueueLimits[s].bytes
          /\ counters[s].queuedWork + admission[r].work <= QueueLimits[s].work
      <4>1. queueLimitFailure(counters[s], admission[r], QueueLimits[s]) = "none"
        BY <2>5 DEF Charges, tenantOf
      <4>2. /\ fits(counters[s].queuedCount, 1, QueueLimits[s].count)
            /\ fits(counters[s].queuedBytes, admission[r].bytes, QueueLimits[s].bytes)
            /\ fits(counters[s].queuedWork, admission[r].work, QueueLimits[s].work)
        BY <4>1 DEF queueLimitFailure
      <4> QED
        BY <1>2, <2>3, <2>4, <4>2 DEF fits
    <3> QED
      BY <2>1, <3>3, <3>4, <3>5
  <2>6. CASE ~Charges(admission[r], s)
    <3>1. cs[s] = counters[s]
      BY <2>6 DEF addQueued
    <3>2. Charged(s, expiry \cup {r}) = Charged(s, expiry)
      BY <1>1, <2>6, AccountAdd, Zenon DEF DataInv
    <3> QED
      BY <2>1, <2>2, <3>1, <3>2 DEF DataInv, LimitsHold
  <2> QED
    BY <2>5, <2>6
<1>4. cs \in [Scopes -> Counters]
  BY <1>3 DEF addQueued
<1> QED
  BY <1>3, <1>4

(* removeInflight: exact for the permits without r, and never below zero,   *)
(* so it does not panic.                                                    *)
LEMMA CountersFinished ==
  ASSUME DataInv, NEW r \in inflight
  PROVE  LET cs == removeInflight(counters, admission[r]) IN
         /\ cs \in [Scopes -> Counters]
         /\ \A s \in Scopes :
              /\ cs[s].queuedCount = counters[s].queuedCount
              /\ cs[s].queuedBytes = counters[s].queuedBytes
              /\ cs[s].queuedWork = counters[s].queuedWork
              /\ cs[s].inflightCount = Cardinality(Charged(s, inflight \ {r}))
              /\ cs[s].inflightWork = Weigh(Charged(s, inflight \ {r}), workUnits)
              /\ cs[s].inflightCount <= counters[s].inflightCount
              /\ cs[s].inflightWork <= counters[s].inflightWork
<1> DEFINE cs == removeInflight(counters, admission[r])
<1>1. inflight \in SUBSET Requests /\ r \in Requests /\ counters \in [Scopes -> Counters]
  BY DEF DataInv, TypeData
<1>2. admission[r].work \in Nat
  BY <1>1, AdmissionTypes DEF DataInv
<1>3. ASSUME NEW s \in Scopes
      PROVE  /\ cs[s] \in Counters
             /\ cs[s].queuedCount = counters[s].queuedCount
             /\ cs[s].queuedBytes = counters[s].queuedBytes
             /\ cs[s].queuedWork = counters[s].queuedWork
             /\ cs[s].inflightCount = Cardinality(Charged(s, inflight \ {r}))
             /\ cs[s].inflightWork = Weigh(Charged(s, inflight \ {r}), workUnits)
             /\ cs[s].inflightCount <= counters[s].inflightCount
             /\ cs[s].inflightWork <= counters[s].inflightWork
  <2>1. /\ counters[s].inflightCount = Cardinality(Charged(s, inflight))
        /\ counters[s].inflightWork = Weigh(Charged(s, inflight), workUnits)
    BY DEF DataInv, AccountingExact
  <2>2. counters[s] \in Counters
    BY <1>1
  <2>3. counters[s].inflightCount \in Nat /\ counters[s].inflightWork \in Nat
    BY <2>2 DEF Counters
  <2>4. CASE Charges(admission[r], s)
    <3>1. cs[s] = [counters[s] EXCEPT !.inflightCount = @ - 1,
                                      !.inflightWork = @ - admission[r].work]
      BY <2>4 DEF removeInflight
    <3>2. /\ Cardinality(Charged(s, inflight \ {r})) = Cardinality(Charged(s, inflight)) - 1
          /\ Weigh(Charged(s, inflight \ {r}), workUnits)
               = Weigh(Charged(s, inflight), workUnits) - admission[r].work
          /\ 1 <= Cardinality(Charged(s, inflight))
          /\ admission[r].work <= Weigh(Charged(s, inflight), workUnits)
      BY <1>1, <2>4, AccountRemove, Zenon DEF DataInv
    <3>3. /\ counters[s].inflightCount - 1 \in Nat
          /\ counters[s].inflightWork - admission[r].work \in Nat
      BY <1>2, <2>1, <2>3, <3>2
    <3> HIDE DEF cs
    <3>4. /\ cs[s].inflightCount = counters[s].inflightCount - 1
          /\ cs[s].inflightWork = counters[s].inflightWork - admission[r].work
          /\ cs[s].queuedCount = counters[s].queuedCount
          /\ cs[s].queuedBytes = counters[s].queuedBytes
          /\ cs[s].queuedWork = counters[s].queuedWork
          /\ cs[s] \in Counters
      BY <2>2, <3>1, <3>3 DEF Counters
    <3> QED
      BY <1>2, <2>1, <2>3, <3>2, <3>4
  <2>5. CASE ~Charges(admission[r], s)
    <3>1. cs[s] = counters[s]
      BY <2>5 DEF removeInflight
    <3>2. Charged(s, inflight \ {r}) = Charged(s, inflight)
      BY <1>1, <2>5, AccountRemove, Zenon DEF DataInv
    <3> QED
      BY <2>1, <2>2, <2>3, <3>1, <3>2
  <2> QED
    BY <2>4, <2>5
<1>4. cs \in [Scopes -> Counters]
  BY <1>3 DEF removeInflight
<1> QED
  BY <1>3, <1>4

(* admit of a request that both queue limits leave room for *)
LEMMA DataEnqueue ==
  ASSUME DataInv, NEW r \in Requests, result[r] = <<>>, r \notin entries,
         \A s \in {Global, tenantOf(r)} :
           queueLimitFailure(counters[s], admission[r], QueueLimits[s]) = "none",
         sequence' = sequence + 1,
         seq' = [seq EXCEPT ![r] = sequence + 1],
         state' = [state EXCEPT ![r] = "queued"],
         phase' = [phase EXCEPT ![r] = "queued"],
         queue' = [queue EXCEPT ![tenantOf(r)] = Append(@, r)],
         counters' = addQueued(counters, admission[r]),
         entries' = entries \cup {r},
         expiry' = expiry \cup {r},
         UNCHANGED <<admission, cause, terminal, result, inflight, deficit, visitOpen>>
  PROVE  DataInv'
<1> DEFINE t == tenantOf(r)
<1>1. t \in Tenants /\ r \notin expiry /\ r \notin inflight
  BY AdmissionTypes DEF DataInv, TypeData, BooksAgree, tenantOf
<1>2. /\ queue[t] \in Seq(Requests) /\ IsInjective(queue[t])
      /\ ToSet(queue[t]) = {o \in expiry : tenantOf(o) = t}
  BY <1>1 DEF DataInv, TypeData, BooksAgree
<1>3. queue'[t] = Append(queue[t], r) /\ \A u \in Tenants \ {t} : queue'[u] = queue[u]
  BY <1>1 DEF DataInv, TypeData
<1> HIDE DEF t
<1>4. /\ queue'[t] \in Seq(Requests) /\ Len(queue'[t]) = Len(queue[t]) + 1
      /\ DOMAIN queue'[t] = 1..(Len(queue[t]) + 1)
      /\ queue'[t][Len(queue[t]) + 1] = r
      /\ \A i \in DOMAIN queue[t] : queue'[t][i] = queue[t][i]
      /\ DOMAIN queue[t] = 1..Len(queue[t])
      /\ Len(queue[t]) \in Nat
  BY <1>2, <1>3
<1>5. \A i \in DOMAIN queue[t] : queue[t][i] \in expiry
  BY <1>2 DEF ToSet
<1>6. /\ IsInjective(queue'[t])
      /\ ToSet(queue'[t]) = ToSet(queue[t]) \cup {r}
  <2>1. IsInjective(queue'[t])
    BY <1>1, <1>2, <1>4, <1>5 DEF IsInjective
  <2>2. ASSUME NEW x \in ToSet(queue'[t]) PROVE x \in ToSet(queue[t]) \cup {r}
    BY <1>4 DEF ToSet
  <2>3. ASSUME NEW x \in ToSet(queue[t]) PROVE x \in ToSet(queue'[t])
    BY <1>4 DEF ToSet
  <2>4. r \in ToSet(queue'[t])
    BY <1>4 DEF ToSet
  <2> QED
    BY <2>1, <2>2, <2>3, <2>4
<1>7. /\ counters' \in [Scopes -> Counters]
      /\ \A s \in Scopes :
           /\ counters'[s].queuedCount = Cardinality(Charged(s, expiry \cup {r}))
           /\ counters'[s].queuedBytes = Weigh(Charged(s, expiry \cup {r}), bodyBytes)
           /\ counters'[s].queuedWork = Weigh(Charged(s, expiry \cup {r}), workUnits)
           /\ counters'[s].inflightCount = counters[s].inflightCount
           /\ counters'[s].inflightWork = counters[s].inflightWork
           /\ counters'[s].queuedCount <= QueueLimits[s].count
           /\ counters'[s].queuedBytes <= QueueLimits[s].bytes
           /\ counters'[s].queuedWork <= QueueLimits[s].work
  BY <1>1, CountersQueued
<1>8. /\ seq' \in [Requests -> Nat] /\ seq'[r] = sequence + 1
      /\ \A o \in Requests \ {r} : seq'[o] = seq[o]
      /\ \A o \in Requests : seq[o] \in Nat /\ seq[o] <= sequence
      /\ sequence \in Nat /\ sequence' = sequence + 1
  BY DEF DataInv, TypeData, QueueOrder
<1>9. queue' \in [Tenants -> Seq(Requests)]
  BY <1>1, <1>2, <1>3, <1>4 DEF DataInv, TypeData, t
<1>10. TypeData'
  BY <1>7, <1>8, <1>9 DEF DataInv, TypeData
<1>11. BooksAgree'
  <2>1. /\ expiry' = {o \in Requests : phase'[o] = "queued"}
        /\ inflight' = {o \in Requests : phase'[o] = "inflight"}
    BY <1>1 DEF DataInv, TypeData, BooksAgree
  <2>2. entries' = expiry' \cup inflight' /\ \A o \in entries' : state'[o] = phase'[o]
    BY DEF DataInv, TypeData, BooksAgree
  <2>3. ASSUME NEW u \in Tenants
        PROVE  /\ IsInjective(queue'[u])
               /\ ToSet(queue'[u]) = {o \in expiry' : tenantOf(o)' = u}
    <3>1. CASE u = t
      BY <1>2, <1>6, <3>1 DEF tenantOf, t
    <3>2. CASE u # t
      BY <1>3, <3>2 DEF DataInv, BooksAgree, tenantOf, t
    <3> QED
      BY <3>1, <3>2
  <2> QED
    BY <2>1, <2>2, <2>3 DEF BooksAgree
<1>12. AnsweredOnce'
  BY <1>1 DEF DataInv, AnsweredOnce
<1>13. AccountingExact'
  <2>1. bodyBytes' = bodyBytes /\ workUnits' = workUnits
    BY DEF bodyBytes, workUnits
  <2>2. \A s \in Scopes : /\ Charged(s, expiry)' = Charged(s, expiry \cup {r})
                          /\ Charged(s, inflight)' = Charged(s, inflight)
    BY DEF Charged
  <2> QED
    BY <1>7, <2>1, <2>2 DEF DataInv, AccountingExact
<1>14. LimitsHold'
  BY <1>7 DEF DataInv, LimitsHold
<1>15. CreditBounded'
  <2>1. ASSUME NEW u \in Tenants, queue'[u] = <<>>
        PROVE  queue[u] = <<>>
    <3>1. CASE u = t
      BY <1>4, <2>1, <3>1
    <3>2. CASE u # t
      BY <1>3, <2>1, <3>2
    <3> QED
      BY <3>1, <3>2
  <2> QED
    BY <2>1 DEF DataInv, CreditBounded
<1>16. QueueOrder'
  <2>1. \A o \in Requests : seq'[o] <= sequence'
    BY <1>8
  <2>2. ASSUME NEW u \in Tenants, NEW i \in DOMAIN queue'[u], NEW j \in DOMAIN queue'[u], i < j
        PROVE  seq'[queue'[u][i]] < seq'[queue'[u][j]]
    <3>1. \A k \in DOMAIN queue[u] : queue[u][k] \in Requests \ {r}
      <4>1. ToSet(queue[u]) \subseteq expiry /\ expiry \subseteq Requests
        BY DEF DataInv, TypeData, BooksAgree
      <4> QED
        BY <1>1, <4>1 DEF ToSet
    <3>2. CASE u # t \/ j # Len(queue[t]) + 1
      <4>1. /\ i \in DOMAIN queue[u] /\ j \in DOMAIN queue[u]
            /\ queue'[u][i] = queue[u][i] /\ queue'[u][j] = queue[u][j]
        BY <1>3, <1>4, <2>2, <3>2
      <4>2. seq[queue[u][i]] < seq[queue[u][j]]
        BY <2>2, <4>1 DEF DataInv, QueueOrder
      <4> QED
        BY <1>8, <3>1, <4>1, <4>2
    <3>3. CASE u = t /\ j = Len(queue[t]) + 1
      <4>1. queue'[u][j] = r /\ i \in DOMAIN queue[u] /\ queue'[u][i] = queue[u][i]
        BY <1>4, <2>2, <3>3
      <4> QED
        BY <1>8, <3>1, <4>1
    <3> QED
      BY <3>2, <3>3
  <2>3. \A o, p \in expiry' : seq'[o] = seq'[p] => o = p
    <3>1. \A o, p \in expiry : seq[o] = seq[p] => o = p
      BY DEF DataInv, QueueOrder
    <3>2. expiry' = expiry \cup {r} /\ expiry \subseteq Requests
      BY DEF DataInv, TypeData
    <3>3. \A o \in expiry : seq'[o] = seq[o] /\ seq'[o] < seq'[r]
      BY <1>1, <1>8, <3>2
    <3> QED
      BY <1>8, <3>1, <3>2, <3>3
  <2> QED
    BY <2>1, <2>2, <2>3 DEF QueueOrder
<1>17. TenantFIFO'
  <2>1. result[r] # <<Dispatched>>
    <3>1. Len(<<Dispatched>>) = 1
      OBVIOUS
    <3> QED
      BY <3>1
  <2>2. ASSUME NEW o \in Requests, NEW p \in Requests, o \in expiry',
               result[p] = <<Dispatched>>, tenantOf(o) = tenantOf(p)
        PROVE  seq'[p] < seq'[o]
    <3>1. p # r
      BY <2>1, <2>2
    <3>2. CASE o = r
      BY <1>8, <3>1, <3>2
    <3>3. CASE o # r
      BY <1>8, <2>2, <3>1, <3>3 DEF DataInv, TenantFIFO
    <3> QED
      BY <3>2, <3>3
  <2> QED
    BY <2>2 DEF TenantFIFO, tenantOf
<1> QED
  BY <1>10, <1>11, <1>12, <1>13, <1>14, <1>15, <1>16, <1>17 DEF DataInv

(* finishEntry of a permit in flight: its reservation is released and it is *)
(* answered, once.                                                          *)
LEMMA DataFinish ==
  ASSUME DataInv, NEW r \in inflight, result[r] = <<Dispatched>>,
         cause' \in [Requests -> {"none", "client", "shutdown"}],
         NEW o \in {"Completed", "UpstreamFailed", "DownstreamFailed",
                    "CanceledInflight", "Shutdown", "InternalFailure"},
         terminal' = [terminal EXCEPT ![r] = o],
         counters' = removeInflight(counters, admission[r]),
         phase' = [phase EXCEPT ![r] = "none"],
         inflight' = inflight \ {r},
         entries' = entries \ {r},
         UNCHANGED <<admission, state, seq, result, queue, expiry, sequence,
                     deficit, visitOpen>>
  PROVE  DataInv'
<1>1. r \in Requests /\ r \notin expiry
  BY DEF DataInv, TypeData, BooksAgree
<1>2. /\ counters' \in [Scopes -> Counters]
      /\ \A s \in Scopes :
           /\ counters'[s].queuedCount = counters[s].queuedCount
           /\ counters'[s].queuedBytes = counters[s].queuedBytes
           /\ counters'[s].queuedWork = counters[s].queuedWork
           /\ counters'[s].inflightCount = Cardinality(Charged(s, inflight \ {r}))
           /\ counters'[s].inflightWork = Weigh(Charged(s, inflight \ {r}), workUnits)
           /\ counters'[s].inflightCount <= counters[s].inflightCount
           /\ counters'[s].inflightWork <= counters[s].inflightWork
  BY CountersFinished
<1>3. TypeData'
  BY <1>1, <1>2 DEF DataInv, TypeData
<1>4. BooksAgree'
  <2>1. /\ expiry' = {x \in Requests : phase'[x] = "queued"}
        /\ inflight' = {x \in Requests : phase'[x] = "inflight"}
    BY <1>1 DEF DataInv, TypeData, BooksAgree
  <2>2. entries' = expiry' \cup inflight' /\ \A x \in entries' : state'[x] = phase'[x]
    BY <1>1 DEF DataInv, TypeData, BooksAgree
  <2>3. \A u \in Tenants : /\ IsInjective(queue'[u])
                           /\ ToSet(queue'[u]) = {x \in expiry' : tenantOf(x)' = u}
    BY DEF DataInv, BooksAgree, tenantOf
  <2> QED
    BY <2>1, <2>2, <2>3 DEF BooksAgree
<1>5. AnsweredOnce'
  <2>1. terminal'[r] = o /\ \A x \in Requests \ {r} : terminal'[x] = terminal[x]
    BY <1>1 DEF DataInv, TypeData
  <2> QED
    BY <1>1, <2>1 DEF DataInv, AnsweredOnce
<1>6. AccountingExact'
  <2>1. bodyBytes' = bodyBytes /\ workUnits' = workUnits
    BY DEF bodyBytes, workUnits
  <2>2. \A s \in Scopes : /\ Charged(s, expiry)' = Charged(s, expiry)
                          /\ Charged(s, inflight)' = Charged(s, inflight \ {r})
    BY DEF Charged
  <2> QED
    BY <1>2, <2>1, <2>2 DEF DataInv, AccountingExact
<1>7. LimitsHold'
  <2>1. ASSUME NEW s \in Scopes
        PROVE  /\ InflightLimits[s] \in [count : Nat, work : Nat]
               /\ counters[s] \in Counters /\ counters'[s] \in Counters
    BY <1>2, ConfigAssumption DEF DataInv, TypeData
  <2> QED
    BY <1>2, <2>1 DEF DataInv, LimitsHold, Counters
<1>8. CreditBounded' /\ QueueOrder' /\ TenantFIFO'
  BY DEF DataInv, CreditBounded, QueueOrder, TenantFIFO, tenantOf
<1> QED
  BY <1>3, <1>4, <1>5, <1>6, <1>7, <1>8 DEF DataInv

-----------------------------------------------------------------------------
(* The actions *)

(* The command variable carries the fields its kind of command has. *)
LEMMA CommandTypes ==
  ASSUME TypeLoop
  PROVE  /\ cmd.op \in {"admit", "cancel", "finish"} => cmd.id \in Requests
         /\ cmd.op = "finish" => cmd.outcome \in Outcomes
<1>1. CASE cmd \in [op : {"admit", "cancel"}, id : Requests]
  BY <1>1
<1>2. CASE cmd \in [op : {"finish"}, id : Requests, outcome : Outcomes]
  BY <1>2
<1>3. CASE cmd \in [op : {"snapshot", "drain", "force", "stop"}]
  BY <1>3
<1>4. CASE cmd \in {NoCommand, TimerFired}
  BY <1>4 DEF NoCommand, TimerFired
<1> QED
  BY <1>1, <1>2, <1>3, <1>4 DEF TypeLoop, Commands

(* Handled leaves a well-typed command behind. *)
LEMMA NoCommandTyped ==
  NoCommand \in Commands \cup {NoCommand, TimerFired} /\ NoCommand.op = "none"
BY DEF NoCommand

(* The decisions a queued entry may be told *)
LEMMA DecisionTypes ==
  /\ {Canceled, Expired, ShutDown, Draining} \subseteq Decisions
  /\ Dispatched \notin {Canceled, Expired, ShutDown, Draining}
BY DEF Canceled, Expired, ShutDown, Draining, Dispatched, Decision, Decisions

(* isDrained reads two global counters only; since these are exact, it      *)
(* means that the owner holds no entry.                                     *)
LEMMA DrainedEmpty ==
  ASSUME DataInv
  PROVE  isDrained <=> entries = {}
<1>1. Global \in Scopes
  BY ConfigAssumption DEF Global, Scopes
<1>2. Charged(Global, expiry) = expiry /\ Charged(Global, inflight) = inflight
  BY DEF Charged, Charges
<1>3. IsFiniteSet(expiry) /\ IsFiniteSet(inflight)
  BY ClientAssumption, FS_Subset DEF DataInv, TypeData
<1>4. /\ counters[Global].queuedCount = Cardinality(expiry)
      /\ counters[Global].inflightCount = Cardinality(inflight)
  BY <1>1, <1>2 DEF DataInv, AccountingExact
<1>5. (Cardinality(expiry) = 0 <=> expiry = {}) /\ (Cardinality(inflight) = 0 <=> inflight = {})
  BY <1>3, FS_EmptySet
<1> QED
  BY <1>4, <1>5 DEF isDrained, DataInv, BooksAgree

(* An entry has been received and, while queued, was not answered. *)
LEMMA EntryFacts ==
  ASSUME DataInv, NEW r \in entries
  PROVE  /\ r \in Requests /\ received(r)
         /\ r \in expiry => result[r] = <<>> /\ result[r] # <<Dispatched>>
<1>1. r \in Requests /\ received(r) /\ (r \in expiry => result[r] = <<>>)
  BY DEF DataInv, TypeData, BooksAgree, AnsweredOnce, received
<1>2. <<>> # <<Dispatched>>
  <2>1. Len(<<Dispatched>>) = 1 /\ Len(<<>>) = 0
    OBVIOUS
  <2> QED
    BY <2>1
<1> QED
  BY <1>1, <1>2

-----------------------------------------------------------------------------
(* The initial state *)
LEMMA InitInv == Init => IInv
<1> SUFFICES ASSUME Init PROVE IInv
  OBVIOUS
<1>1. /\ N \in Nat \ {0} /\ MaxBodyBytes \in Nat \ {0} /\ MaxRequestUnits \in Nat \ {0}
      /\ Quantum \in [Tenants -> Nat \ {0}]
      /\ QueueLimits \in [Scopes -> [count : Nat, bytes : Nat, work : Nat]]
      /\ InflightLimits \in [Scopes -> [count : Nat, work : Nat]]
  BY ConfigAssumption
<1>2. 1 \in Tenants /\ [tenant |-> 1, bytes |-> 1, work |-> 1] \in Admission
  BY <1>1 DEF Tenants, Admission
<1>3. Idle \in Counters
  BY DEF Idle, Counters
<1>4. TypeData
  BY <1>2, <1>3 DEF Init, TypeData
<1>5. TypeLoop
  <2>1. /\ accepting \in BOOLEAN /\ drainNotified \in BOOLEAN
        /\ dispatched \in BOOLEAN /\ needsFunding \in BOOLEAN
    BY Zenon DEF Init
  <2>2. cmd \in Commands \cup {NoCommand, TimerFired}
    BY NoCommandTyped, Zenon DEF Init
  <2>3. /\ now \in Nat /\ wake \in Nat /\ timerAt \in Nat /\ fundings \in Nat
        /\ ctxDone \in [Requests -> BOOLEAN] /\ deadline \in [Requests -> Nat]
        /\ source \in [Requests -> {"queue", "client"}]
        /\ cursor \in Tenants /\ visits \in 0..N /\ pc = "select"
    BY <1>1, <1>2 DEF Init
  <2> QED
    BY <2>1, <2>2, <2>3, Zenon DEF TypeLoop
<1>6. BooksAgree
  BY DEF Init, BooksAgree, IsInjective, ToSet
<1>7. AnsweredOnce
  <2>1. Len(<<Dispatched>>) = 1 /\ Len(<<>>) = 0
    OBVIOUS
  <2> QED
    BY <2>1 DEF Init, AnsweredOnce
<1>8. AccountingExact
  <2>1. Cardinality({}) = 0
    BY FS_EmptySet
  <2>2. Weigh({}, bodyBytes) = 0 /\ Weigh({}, workUnits) = 0
    BY WeighEmpty
  <2>3. \A s \in Scopes : Charged(s, expiry) = {} /\ Charged(s, inflight) = {}
    BY DEF Init, Charged
  <2>4. \A s \in Scopes : counters[s] = Idle
    BY DEF Init
  <2> QED
    BY <2>1, <2>2, <2>3, <2>4 DEF AccountingExact, Idle
<1>9. LimitsHold
  <2>1. \A s \in Scopes : counters[s] = Idle
    BY DEF Init
  <2> QED
    BY <1>1, <2>1 DEF LimitsHold, Idle
<1>10. CreditBounded
  BY <1>1 DEF Init, CreditBounded
<1>11. QueueOrder /\ TenantFIFO
  BY DEF Init, QueueOrder, TenantFIFO
<1>12. DataInv
  BY <1>4, <1>6, <1>7, <1>8, <1>9, <1>10, <1>11 DEF DataInv
<1>13. Control /\ DrainedIsFinal /\ TimerCoversQueue
  BY DEF Init, Control, DrainedIsFinal, TimerCoversQueue, received
<1> QED
  BY <1>5, <1>12, <1>13 DEF IInv, LoopInv

-----------------------------------------------------------------------------
(* The clock and the clients *)
LEMMA OutsideInv ==
  ASSUME IInv, Outside
  PROVE  IInv'
<1> USE DEF IInv, LoopInv
<1>1. CASE Tick
  <2>1. DataInv'
    BY <1>1, DataUnchanged DEF Tick, owner, drr
  <2>2. LoopInv'
    BY <1>1 DEF Tick, owner, marks, books, drr, command, sweep, TypeLoop, Control,
                received, DrainedIsFinal, TimerCoversQueue, isDrained
  <2> QED
    BY <2>1, <2>2
<1>2. ASSUME NEW r \in Requests, CtxDone(r) PROVE IInv'
  <2>1. DataInv'
    BY <1>2, DataUnchanged DEF CtxDone, owner, drr
  <2>2. LoopInv'
    BY <1>2 DEF CtxDone, owner, marks, books, drr, command, sweep, TypeLoop, Control,
                received, DrainedIsFinal, TimerCoversQueue, isDrained
  <2> QED
    BY <2>1, <2>2
<1>3. ASSUME NEW r \in Requests, Acquire(r) PROVE IInv'
  <2>1. PICK a \in Admissions, d \in Timeouts, src \in Sources :
          /\ admission' = [admission EXCEPT ![r] = a]
          /\ deadline' = [deadline EXCEPT ![r] = now + d]
          /\ source' = [source EXCEPT ![r] = src]
    BY <1>3 DEF Acquire
  <2>2. a \in Admission /\ d \in Nat \ {0} /\ src \in {"queue", "client"} /\ now \in Nat
    BY ClientAssumption DEF TypeLoop
  <2>3. ~received(r)
    BY <1>3 DEF Acquire, Control
  <2>4. DataInv'
    <3>1. UNCHANGED <<marks, books, deficit, visitOpen>>
      BY <1>3 DEF Acquire, owner, drr
    <3> QED
      BY <2>1, <2>2, <2>3, <3>1, DataAcquire
  <2>5. /\ deadline' \in [Requests -> Nat] /\ deadline'[r] # 0
        /\ \A o \in Requests : deadline[o] # 0 => deadline'[o] # 0
    BY <2>1, <2>2 DEF TypeLoop
  <2>6. TypeLoop'
    BY <1>3, <2>1, <2>2, <2>5 DEF Acquire, owner, command, sweep, drr, TypeLoop
  <2>7. cmd.op = "admit" => cmd.id \in Requests
    BY CommandTypes
  <2>8. Control' /\ DrainedIsFinal'
    BY <1>3, <2>5, <2>7 DEF Acquire, owner, marks, books, drr, command, sweep, Control,
                       received, DrainedIsFinal, isDrained
  <2>9. TimerCoversQueue'
    <3>1. r \notin expiry /\ \A o \in Requests \ {r} : deadline'[o] = deadline[o]
      BY <2>1, <2>3 DEF received, DataInv, BooksAgree, TypeLoop
    <3>2. \A o \in expiry : o \in Requests /\ deadline'[o] = deadline[o]
      BY <3>1 DEF DataInv, TypeData
    <3> QED
      BY <1>3, <3>2 DEF Acquire, owner, books, TimerCoversQueue
  <2> QED
    BY <2>4, <2>6, <2>8, <2>9
<1> QED
  BY <1>1, <1>2, <1>3 DEF Outside

(* The select of run takes a command a client may have sent, or the timer. *)
LEMMA WakeInv ==
  ASSUME IInv,
         (\E c \in Commands : Receive(c)) \/ TimerFires
  PROVE  IInv'
<1> USE DEF IInv, LoopInv
<1>1. PICK c \in Commands \cup {TimerFired} : WakeUp(c) /\ (c = TimerFired \/ pending(c))
  BY DEF Receive, TimerFires
<1>2. DataInv'
  BY <1>1, DataUnchanged DEF WakeUp, outside, drr
<1>3. TypeLoop'
  BY <1>1 DEF WakeUp, outside, drr, sweep, TypeLoop
<1>4. /\ c.op = "admit" => deadline[c.id] # 0 /\ ~received(c.id)
      /\ c.op = "finish" => result[c.id] = <<Dispatched>> /\ terminal[c.id] = "none"
      /\ c.op = "stop" => drainNotified
  BY <1>1 DEF pending, mayFinish, TimerFired
<1>5. Control'
  BY <1>1, <1>4 DEF WakeUp, outside, marks, books, Control, received
<1>6. DrainedIsFinal'
  BY <1>1 DEF WakeUp, books, DrainedIsFinal, isDrained
<1>7. TimerCoversQueue'
  BY <1>1 DEF WakeUp, TimerCoversQueue
<1> QED
  BY <1>2, <1>3, <1>5, <1>6, <1>7

-----------------------------------------------------------------------------
(* Leaving the queue without a permit: expireReady, cancelEntry, beginDrain *)
(* and the purge of the pump.  The owner may be anywhere but behind a       *)
(* completed drain.                                                         *)
LEMMA DropInv ==
  ASSUME IInv, pc # "select", NEW r \in expiry, NEW d \in Decisions, d # Dispatched,
         Drop(r, d),
         UNCHANGED <<outside, accepting, drainNotified, timerAt, sweep>>,
         \/ UNCHANGED <<pc, command>>
         \/ Handled /\ pc = "busy"
  PROVE  IInv'
<1> USE DEF IInv, LoopInv
<1>1. DataInv'
  BY DataDrop DEF outside
<1>2. r \in entries /\ r \in Requests /\ received(r) /\ result[r] # <<Dispatched>>
  BY EntryFacts DEF DataInv, BooksAgree
<1>3. /\ expiry' \subseteq expiry /\ entries' \subseteq entries /\ terminal' = terminal
      /\ \A o \in Requests \ {r} : result'[o] = result[o]
      /\ cursor' = cursor
  BY DEF Drop, removeQueued, resolve, DataInv, TypeData
<1>4. \A o \in Requests \ {r} : received(o)' => received(o)
  BY <1>3 DEF received
<1>5. ~drainNotified
  BY <1>2 DEF DrainedIsFinal
<1>6. pc' \in {pc, "pump"} /\ (pc' # pc => pc = "busy")
  BY Zenon DEF Handled
<1>7. TypeLoop'
  BY <1>3, <1>6, NoCommandTyped DEF TypeLoop, outside, command, sweep, Handled
<1>8. Control'
  <2>1. \A o \in Requests : received(o)' => deadline'[o] # 0
    BY <1>2, <1>4 DEF Control, outside
  <2>2. pc' = "busy" => pc = "busy" /\ cmd' = cmd
    BY DEF Handled, command
  <2>3. cmd.op \in {"admit", "finish"} => cmd.id \in Requests
    BY CommandTypes
  <2>4. ASSUME pc' = "busy"
        PROVE  /\ cmd'.op = "admit" => deadline'[cmd'.id] # 0 /\ ~received(cmd.id)'
               /\ cmd'.op = "finish" => result'[cmd'.id] = <<Dispatched>> /\ terminal'[cmd'.id] = "none"
               /\ cmd'.op = "stop" => drainNotified'
    <3>1. CASE cmd.op = "admit"
      <4>1. cmd' = cmd /\ cmd.id \in Requests \ {r} /\ deadline[cmd.id] # 0 /\ ~received(cmd.id)
        BY <1>2, <2>2, <2>3, <2>4, <3>1 DEF Control
      <4>2. deadline'[cmd'.id] # 0 /\ ~received(cmd.id)'
        BY <1>3, <4>1 DEF outside, received
      <4> QED
        BY <3>1, <4>1, <4>2
    <3>2. CASE cmd.op = "finish"
      BY <1>2, <1>3, <2>2, <2>3, <2>4, <3>2 DEF Control
    <3>3. CASE cmd.op = "stop"
      BY <1>5, <2>2, <2>4, <3>3 DEF Control
    <3> QED
      BY <2>2, <2>4, <3>1, <3>2, <3>3
  <2>5. (pc' \in {"drain", "force"} => ~accepting') /\ (~accepting' /\ pc' # "drain" => expiry' = {})
    BY <1>3, <1>6 DEF Control
  <2>6. pc' = "serve" => visits' < N
    BY <1>6 DEF Control, sweep
  <2> QED
    BY <2>1, <2>4, <2>5, <2>6 DEF Control
<1>9. DrainedIsFinal' /\ TimerCoversQueue'
  BY <1>5, <1>6 DEF DrainedIsFinal, TimerCoversQueue
<1> QED
  BY <1>1, <1>7, <1>8, <1>9

(* What a handler that goes on to the pump has to keep: answers only go to  *)
(* requests that have a deadline, nothing is queued behind a closed door,   *)
(* and a completed drain is not disturbed.                                  *)
LEMMA HandledInv ==
  ASSUME IInv, DataInv', Handled, pc \in {"busy", "drain", "force"},
         UNCHANGED <<outside, cursor, accepting, drainNotified, timerAt, sweep>>,
         \A o \in Requests : received(o)' => deadline[o] # 0,
         ~accepting => expiry' = {},
         drainNotified => UNCHANGED <<entries, counters>>
  PROVE  IInv'
<1> USE DEF IInv, LoopInv
<1>1. TypeLoop'
  BY NoCommandTyped DEF TypeLoop, outside, sweep, Handled
<1>2. Control'
  BY DEF Control, Handled, outside
<1>3. DrainedIsFinal' /\ TimerCoversQueue'
  BY DEF DrainedIsFinal, TimerCoversQueue, Handled, isDrained
<1> QED
  BY <1>1, <1>2, <1>3

(* With all queues empty, nothing is queued. *)
LEMMA QueuesEmpty ==
  ASSUME DataInv, \A t \in Tenants : queue[t] = <<>>
  PROVE  expiry = {}
<1>1. ASSUME NEW r \in expiry PROVE FALSE
  <2>1. r \in Requests /\ tenantOf(r) \in Tenants
    BY AdmissionTypes DEF DataInv, TypeData, tenantOf
  <2>2. r \in ToSet(queue[tenantOf(r)])
    BY <2>1 DEF DataInv, BooksAgree
  <2> QED
    BY <2>1, <2>2 DEF ToSet
<1> QED
  BY <1>1

(* handle, command by command *)
LEMMA HandleInv ==
  ASSUME IInv, Handle
  PROVE  IInv'
<1> USE DEF IInv, LoopInv
<1>0. UNCHANGED <<outside, drainNotified, timerAt, sweep>>
  BY DEF Handle
<1>1. CASE NothingToHandle
  <2>1. UNCHANGED <<marks, books, drr, accepting>> /\ Handled /\ pc = "busy"
    BY <1>1 DEF NothingToHandle, Handling
  <2>2. DataInv'
    BY <1>0, <2>1, DataUnchanged DEF outside, drr
  <2>3. \A o \in Requests : received(o)' => deadline[o] # 0
    BY <2>1 DEF marks, books, received, Control
  <2>4. ~accepting => expiry' = {}
    BY <2>1 DEF books, Control
  <2> QED
    BY <1>0, <2>1, <2>2, <2>3, <2>4, HandledInv DEF books, drr
<1>2. CASE BeginDrain
  <2>1. UNCHANGED <<marks, books, drr, command>> /\ accepting' = FALSE /\ pc' = "drain"
    BY <1>2 DEF BeginDrain
  <2>2. DataInv'
    BY <1>0, <2>1, DataUnchanged DEF outside, drr
  <2>3. TypeLoop'
    BY <1>0, <2>1 DEF TypeLoop, outside, drr, command, sweep
  <2>4. Control'
    BY <1>0, <2>1 DEF Control, outside, marks, books, received
  <2>5. DrainedIsFinal' /\ TimerCoversQueue'
    BY <1>0, <2>1 DEF DrainedIsFinal, TimerCoversQueue, books, isDrained
  <2> QED
    BY <2>2, <2>3, <2>4, <2>5
<1>3. CASE DrainDone
  <2>1. UNCHANGED <<marks, books, drr, accepting>> /\ pc = "drain"
    BY <1>3 DEF DrainDone
  <2>2. DataInv'
    BY <1>0, <2>1, DataUnchanged DEF outside, drr
  <2>3. expiry = {}
    BY <1>3, QueuesEmpty DEF DrainDone
  <2>4. \A o \in Requests : received(o)' => deadline[o] # 0
    BY <2>1 DEF marks, books, received, Control
  <2>5. CASE Handled
    BY <1>0, <2>1, <2>2, <2>3, <2>4, <2>5, HandledInv DEF books, drr
  <2>6. CASE pc' = "force" /\ UNCHANGED command
    <3>1. TypeLoop'
      BY <1>0, <2>1, <2>6 DEF TypeLoop, outside, drr, command, sweep
    <3>2. Control'
      BY <1>0, <2>1, <2>3, <2>4, <2>6 DEF Control, outside, books
    <3>3. DrainedIsFinal' /\ TimerCoversQueue'
      BY <1>0, <2>1, <2>6 DEF DrainedIsFinal, TimerCoversQueue, books, isDrained
    <3> QED
      BY <2>2, <3>1, <3>2, <3>3
  <2> QED
    BY <1>3, <2>5, <2>6 DEF DrainDone
<1>4. CASE ForceCancelInflight
  <2>1. /\ UNCHANGED <<state, phase, seq, terminal, result, books, drr, accepting>>
        /\ Handled /\ pc \in {"busy", "force"}
    BY <1>4 DEF ForceCancelInflight, Handling
  <2>2. cause' \in [Requests -> {"none", "client", "shutdown"}]
    BY <1>4 DEF ForceCancelInflight, forcedCause, DataInv, TypeData
  <2>3. DataInv'
    BY <1>0, <2>1, <2>2, DataCause DEF outside, drr
  <2>4. \A o \in Requests : received(o)' => deadline[o] # 0
    BY <2>1 DEF books, received, Control
  <2>5. ~accepting => expiry' = {}
    BY <2>1 DEF books, Control
  <2> QED
    BY <1>0, <2>1, <2>3, <2>4, <2>5, HandledInv DEF books, drr
<1>5. CASE Stop
  <2>1. /\ UNCHANGED <<marks, books, drr, accepting, command>>
        /\ pc = "busy" /\ cmd.op = "stop"
        /\ pc' = IF isDrained THEN "stopped" ELSE "panicked"
    BY <1>5 DEF Stop, Handling
  <2>2. drainNotified /\ isDrained
    BY <2>1 DEF Control, DrainedIsFinal
  <2>3. pc' = "stopped"
    BY <2>1, <2>2
  <2>4. DataInv'
    BY <1>0, <2>1, DataUnchanged DEF outside, drr
  <2>5. TypeLoop'
    BY <1>0, <2>1, <2>3 DEF TypeLoop, outside, drr, command, sweep
  <2>6. Control'
    BY <1>0, <2>1, <2>3 DEF Control, outside, marks, books, received
  <2>7. DrainedIsFinal' /\ TimerCoversQueue'
    BY <1>0, <2>1, <2>3 DEF DrainedIsFinal, TimerCoversQueue, books, isDrained
  <2> QED
    BY <2>4, <2>5, <2>6, <2>7
<1>6. ASSUME NEW r \in Requests, ExpireReady(r) PROVE IInv'
  <2>1. /\ r \in expiry /\ Drop(r, deadlineDecision(r)) /\ pc = "busy"
        /\ UNCHANGED <<accepting, pc, command>>
    BY <1>6 DEF ExpireReady, isLate, isTop
  <2>2. deadlineDecision(r) \in Decisions /\ deadlineDecision(r) # Dispatched
    BY DecisionTypes DEF deadlineDecision
  <2> QED
    BY <1>0, <2>1, <2>2, DropInv
<1>7. ASSUME NEW r \in Requests, Refuse(r) PROVE IInv'
  <2>1. /\ pc = "busy" /\ cmd.op = "admit" /\ cmd.id = r /\ refusal(r) # <<>>
        /\ resolve(r, refusal(r)[1]) /\ Handled
        /\ UNCHANGED <<state, phase, seq, cause, terminal, books, drr, accepting>>
    BY <1>7 DEF Refuse, Handling
  <2>2. deadline[r] # 0 /\ result[r] = <<>> /\ r \notin entries
    BY <2>1 DEF Control, received
  <2>3. refusal(r)[1] \in Decisions /\ refusal(r)[1] # Dispatched
    <3> DEFINE f(s) == queueLimitFailure(counters[s], admission[r], QueueLimits[s])
    <3>1. \A s : f(s) \in {"none", "count", "bytes", "work"}
      BY DEF queueLimitFailure
    <3>2. refusal(r)[1] \in {Draining, Canceled, deadlineDecision(r),
                             Decision("TenantRejected", f(admission[r].tenant)),
                             Decision("GlobalRejected", f(Global))}
      BY <2>1 DEF refusal
    <3> HIDE DEF f
    <3>3. \A k \in {"TenantRejected", "GlobalRejected"}, x \in {"none", "count", "bytes", "work"} :
            Decision(k, x) \in Decisions /\ Decision(k, x) # Dispatched
      BY DEF Decision, Decisions, Dispatched
    <3>4. deadlineDecision(r) \in {Canceled, Expired}
      BY DEF deadlineDecision
    <3> QED
      BY <3>1, <3>2, <3>3, <3>4, DecisionTypes
  <2>4. DataInv'
    BY <1>0, <2>1, <2>2, <2>3, DataRefused DEF outside, drr
  <2>5. \A o \in Requests : received(o)' => deadline[o] # 0
    BY <2>1, <2>2 DEF books, received, Control, resolve, DataInv, TypeData
  <2>6. ~accepting => expiry' = {}
    BY <2>1 DEF books, Control
  <2> QED
    BY <1>0, <2>1, <2>4, <2>5, <2>6, HandledInv DEF books, drr
<1>8. ASSUME NEW r \in Requests, Enqueue(r) PROVE IInv'
  <2>1. pc = "busy" /\ cmd.op = "admit" /\ cmd.id = r /\ refusal(r) = <<>> /\ Handled
    BY <1>8 DEF Enqueue, Handling
  <2>2. /\ sequence' = sequence + 1
        /\ seq' = [seq EXCEPT ![r] = sequence + 1]
        /\ state' = [state EXCEPT ![r] = "queued"]
        /\ phase' = [phase EXCEPT ![r] = "queued"]
        /\ queue' = [queue EXCEPT ![tenantOf(r)] = Append(@, r)]
        /\ counters' = addQueued(counters, admission[r])
        /\ entries' = entries \cup {r}
        /\ expiry' = expiry \cup {r}
        /\ UNCHANGED <<cause, terminal, result, inflight, deficit, visitOpen, cursor, accepting>>
    BY <1>8 DEF Enqueue, PushBack, drr
  <2>3. deadline[r] # 0 /\ result[r] = <<>> /\ r \notin entries
    BY <2>1 DEF Control, received
  <2>4. accepting /\ \A s \in {Global, tenantOf(r)} :
          queueLimitFailure(counters[s], admission[r], QueueLimits[s]) = "none"
    <3>1. \A d : <<d>> # <<>>
      OBVIOUS
    <3> QED
      BY <2>1, <3>1 DEF refusal, tenantOf
  <2>5. DataInv'
    BY <1>0, <2>2, <2>3, <2>4, DataEnqueue DEF outside
  <2>6. \A o \in Requests : received(o)' => deadline[o] # 0
    BY <2>2, <2>3 DEF received, Control
  <2>7. ~drainNotified
    BY <2>4 DEF DrainedIsFinal
  <2> QED
    BY <1>0, <2>1, <2>2, <2>4, <2>5, <2>6, <2>7, HandledInv
<1>9. ASSUME NEW r \in Requests, CancelQueued(r) PROVE IInv'
  <2>1. /\ pc = "busy" /\ r \in entries /\ state[r] = "queued"
        /\ Drop(r, Canceled) /\ Handled /\ UNCHANGED accepting
    BY <1>9 DEF CancelQueued, Handling
  <2>2. r \in expiry
    BY <2>1 DEF DataInv, BooksAgree
  <2>3. Canceled \in Decisions /\ Canceled # Dispatched
    BY DecisionTypes
  <2> QED
    BY <1>0, <2>1, <2>2, <2>3, DropInv
<1>10. ASSUME NEW r \in Requests, CancelOther(r) PROVE IInv'
  <2>1. /\ UNCHANGED <<state, phase, seq, terminal, result, books, drr, accepting>>
        /\ Handled /\ pc = "busy"
    BY <1>10 DEF CancelOther, Handling
  <2>2. cause' \in [Requests -> {"none", "client", "shutdown"}]
    BY <1>10 DEF CancelOther, DataInv, TypeData
  <2>3. DataInv'
    BY <1>0, <2>1, <2>2, DataCause DEF outside, drr
  <2>4. \A o \in Requests : received(o)' => deadline[o] # 0
    BY <2>1 DEF books, received, Control
  <2>5. ~accepting => expiry' = {}
    BY <2>1 DEF books, Control
  <2> QED
    BY <1>0, <2>1, <2>3, <2>4, <2>5, HandledInv DEF books, drr
<1>11. ASSUME NEW r \in Requests, FinishEntry(r) PROVE IInv'
  <2>1. /\ pc = "busy" /\ cmd.op = "finish" /\ cmd.id = r /\ Handled
        /\ UNCHANGED <<state, seq, result, queue, expiry, sequence, drr, accepting>>
    BY <1>11 DEF FinishEntry, Handling
  <2>2. r \in inflight /\ result[r] = <<Dispatched>>
    BY <2>1 DEF Control, DataInv, AnsweredOnce
  <2>3. r \in entries /\ state[r] = "inflight" /\ phase[r] = "inflight"
    BY <2>2 DEF DataInv, BooksAgree
  <2> DEFINE c == IF cause[r] = "none" /\ ctxDone[r] THEN "client" ELSE cause[r]
  <2>4. /\ cause' = [cause EXCEPT ![r] = c]
        /\ terminal' = [terminal EXCEPT ![r] = terminalOutcome(c, cmd.outcome)]
        /\ counters' = removeInflight(counters, admission[r])
        /\ phase' = [phase EXCEPT ![r] = "none"]
        /\ inflight' = inflight \ {r}
        /\ entries' = entries \ {r}
    BY <1>11, <2>3 DEF FinishEntry
  <2>5. c \in {"none", "client", "shutdown"}
    BY DEF DataInv, TypeData
  <2> HIDE DEF c
  <2>6. terminalOutcome(c, cmd.outcome)
          \in {"Completed", "UpstreamFailed", "DownstreamFailed",
               "CanceledInflight", "Shutdown", "InternalFailure"}
    BY <2>1, ClientAssumption, CommandTypes DEF terminalOutcome
  <2>7. cause' \in [Requests -> {"none", "client", "shutdown"}]
    BY <2>4, <2>5 DEF DataInv, TypeData
  <2>8. DataInv'
    BY <1>0, <2>1, <2>2, <2>4, <2>6, <2>7, DataFinish DEF outside, drr
  <2>9. \A o \in Requests : received(o)' => deadline[o] # 0
    BY <2>1, <2>4 DEF received, Control
  <2>10. ~accepting => expiry' = {}
    BY <2>1 DEF Control
  <2>11. ~drainNotified
    BY <2>3 DEF DrainedIsFinal
  <2> QED
    BY <1>0, <2>1, <2>8, <2>9, <2>10, <2>11, HandledInv DEF drr
<1>12. ASSUME NEW r \in Requests, DrainNext(r) PROVE IInv'
  <2>1. /\ Drop(r, IF ctxDone[r] THEN Canceled ELSE ShutDown) /\ pc = "drain"
        /\ UNCHANGED <<accepting, pc, command>>
        /\ \E t \in Tenants : queue[t] # <<>> /\ Head(queue[t]) = r
    BY <1>12 DEF DrainNext
  <2>2. PICK t \in Tenants : queue[t] # <<>> /\ Head(queue[t]) = r
    BY <2>1
  <2>3. r \in expiry
    BY <2>2, HeadQueued DEF DataInv, TypeData, BooksAgree
  <2> DEFINE d == IF ctxDone[r] THEN Canceled ELSE ShutDown
  <2>4. d \in Decisions /\ d # Dispatched
    BY DecisionTypes
  <2> HIDE DEF d
  <2>5. Drop(r, d)
    BY <2>1 DEF d
  <2> QED
    BY <1>0, <2>1, <2>3, <2>4, <2>5, DropInv
<1> QED
  BY <1>1, <1>2, <1>3, <1>4, <1>5, <1>6, <1>7, <1>8, <1>9, <1>10, <1>11, <1>12 DEF Handle

-----------------------------------------------------------------------------
(* What a step of the pump that keeps the data half has to keep besides *)
LEMMA PumpLoop ==
  ASSUME IInv, DataInv',
         UNCHANGED <<outside, accepting, drainNotified, timerAt, command>>,
         pc \in {"pump", "visit", "serve"}, pc' \in {"visit", "serve", "notify"},
         cursor' \in Tenants, visits' \in 0..N, fundings' \in Nat,
         dispatched' \in BOOLEAN, needsFunding' \in BOOLEAN,
         pc' = "serve" => visits' < N,
         \A o \in Requests : received(o)' => received(o),
         expiry' \subseteq expiry,
         drainNotified => UNCHANGED <<entries, counters>>
  PROVE  IInv'
<1> USE DEF IInv, LoopInv
<1>1. TypeLoop'
  BY DEF TypeLoop, outside, command
<1>2. Control'
  BY DEF Control, outside
<1>3. DrainedIsFinal' /\ TimerCoversQueue'
  BY DEF DrainedIsFinal, TimerCoversQueue, isDrained
<1> QED
  BY <1>1, <1>2, <1>3

(* The round robin position stays within the tenants. *)
LEMMA AdvanceTypes ==
  ASSUME TypeLoop, advance
  PROVE  cursor' \in Tenants
<1>1. N \in Nat \ {0}
  BY ConfigAssumption
<1> QED
  BY <1>1 DEF TypeLoop, advance, Tenants

(* The head of the tenant under the cursor is a queued entry of that tenant. *)
LEMMA CursorHead ==
  ASSUME IInv, current # <<>>
  PROVE  /\ head \in expiry /\ head \in Requests /\ head \in entries /\ received(head)
         /\ tenantOf(head) = cursor /\ cursor \in Tenants
         /\ admission[head].work \in Nat /\ admission[head].work <= MaxRequestUnits
<1>1. cursor \in Tenants
  BY DEF IInv, LoopInv, TypeLoop
<1>2. queue[cursor] \in Seq(Requests)
  BY <1>1 DEF IInv, DataInv, TypeData
<1>3. head \in ToSet(queue[cursor]) /\ head \in Requests
  BY <1>2, HeadQueued DEF current, head
<1>4. head \in expiry /\ tenantOf(head) = cursor
  BY <1>1, <1>3 DEF IInv, DataInv, BooksAgree
<1>5. head \in entries
  BY <1>4 DEF IInv, DataInv, BooksAgree
<1> QED
  BY <1>1, <1>3, <1>4, <1>5, AdmissionTypes DEF IInv, DataInv, received

(* Steps of the pump that touch no entry *)
LEMMA SweepInv ==
  ASSUME IInv, DataInv',
         UNCHANGED <<outside, accepting, drainNotified, timerAt, command, marks, books>>,
         pc \in {"pump", "visit", "serve"}, pc' \in {"visit", "serve", "notify"},
         cursor' \in Tenants, visits' \in 0..N, fundings' \in Nat,
         dispatched' \in BOOLEAN, needsFunding' \in BOOLEAN,
         pc' = "serve" => visits' < N
  PROVE  IInv'
<1>1. \A o \in Requests : received(o)' => received(o)
  BY DEF received, marks, books
<1>2. UNCHANGED <<expiry, entries, counters>>
  BY DEF books
<1> QED
  BY <1>1, <1>2, PumpLoop

(* pump, step by step *)
LEMMA PumpInv ==
  ASSUME IInv, Pump
  PROVE  IInv'
<1>0. UNCHANGED <<outside, accepting, drainNotified, timerAt, command>>
  BY DEF Pump
<1>a. /\ N \in Nat \ {0} /\ MaxRequestUnits \in Nat \ {0} /\ DeficitCap \in Nat
      /\ 1 \in Tenants
      /\ \A t \in Tenants : Quantum[t] \in Nat \ {0} /\ DeficitCap >= MaxRequestUnits - 1 + Quantum[t]
  BY ConfigAssumption DEF Tenants
<1>b. /\ cursor \in Tenants /\ visits \in 0..N /\ fundings \in Nat
      /\ dispatched \in BOOLEAN /\ needsFunding \in BOOLEAN
      /\ deficit \in [Tenants -> Nat] /\ visitOpen \in [Tenants -> BOOLEAN]
      /\ DataInv
  BY DEF IInv, LoopInv, TypeLoop, DataInv, TypeData
<1>c. pc = "serve" => visits < N
  BY DEF IInv, LoopInv, Control
<1>d. ASSUME LeavePump
      PROVE  /\ pc' = "notify" /\ visits' \in 0..N /\ fundings' \in Nat
             /\ dispatched' \in BOOLEAN /\ needsFunding' \in BOOLEAN
  <2>1. dispatched' \in BOOLEAN /\ needsFunding' \in BOOLEAN
    BY <1>d, Zenon DEF LeavePump
  <2>2. pc' = "notify" /\ visits' \in 0..N /\ fundings' \in Nat
    BY <1>a, <1>d DEF LeavePump
  <2> QED
    BY <2>1, <2>2
<1>e. ASSUME NextTenant, visits < N
      PROVE  pc' = "visit" /\ visits' \in 0..N /\ cursor' \in Tenants
  BY <1>a, <1>b, <1>e, AdvanceTypes DEF NextTenant, IInv, LoopInv
<1>1. CASE EnterPump
  <2>1. /\ pc = "pump" /\ pc' \in {"notify", "visit"} /\ UNCHANGED <<marks, books, drr, sweep>>
    BY <1>1 DEF EnterPump
  <2>2. DataInv'
    BY <1>0, <1>b, <2>1, DataUnchanged DEF outside, drr
  <2> QED
    BY <1>0, <1>b, <2>1, <2>2, SweepInv DEF drr, sweep
<1>2. CASE DropHead
  <2> DEFINE d == IF ctxDone[head] THEN Canceled ELSE deadlineDecision(head)
  <2>1. current # <<>> /\ Drop(head, d) /\ UNCHANGED <<pc, sweep>> /\ pc # "select"
    BY <1>2 DEF DropHead, Visiting
  <2>2. d \in Decisions /\ d # Dispatched
    BY DecisionTypes DEF deadlineDecision
  <2> HIDE DEF d
  <2> QED
    BY <1>0, <2>1, <2>2, CursorHead, DropInv
<1>3. CASE SkipEmpty
  <2>1. /\ pc = "visit" /\ visits < N /\ queue[cursor] = <<>> /\ NextTenant
        /\ deficit' = [deficit EXCEPT ![cursor] = 0]
        /\ visitOpen' = [visitOpen EXCEPT ![cursor] = FALSE]
        /\ UNCHANGED <<marks, books, dispatched, needsFunding, fundings>>
    BY <1>3 DEF SkipEmpty, Visiting, current
  <2>2. 0 < MaxRequestUnits /\ 0 <= MaxRequestUnits - 1 + Quantum[cursor] /\ 0 \in Nat
    BY <1>a, <1>b
  <2>3. DataInv'
    BY <1>0, <1>b, <2>1, <2>2, DataCredit DEF outside
  <2> QED
    BY <1>0, <1>b, <1>e, <2>1, <2>3, SweepInv
<1>4. CASE OpenVisit
  <2>1. /\ pc = "visit" /\ visits < N /\ queue[cursor] # <<>> /\ pc' = "serve"
        /\ UNCHANGED <<marks, books, cursor, visits, dispatched, needsFunding>>
    BY <1>4 DEF OpenVisit, Visiting, current
  <2>2. CASE visitOpen[cursor]
    <3>1. UNCHANGED <<deficit, visitOpen, fundings>>
      BY <1>4, <2>2 DEF OpenVisit
    <3>2. DataInv'
      BY <1>0, <1>b, <2>1, <3>1, DataUnchanged DEF outside
    <3> QED
      BY <1>0, <1>b, <2>1, <3>1, <3>2, SweepInv
  <2>3. CASE ~visitOpen[cursor]
    <3> DEFINE c == boundedAdd(deficit[cursor], Quantum[cursor], DeficitCap)
    <3>1. /\ deficit' = [deficit EXCEPT ![cursor] = c]
          /\ visitOpen' = [visitOpen EXCEPT ![cursor] = TRUE]
          /\ fundings' = fundings + 1
      BY <1>4, <2>3 DEF OpenVisit
    <3>2. deficit[cursor] \in Nat /\ deficit[cursor] < MaxRequestUnits
      BY <1>b, <2>3 DEF DataInv, CreditBounded
    <3>3. c \in Nat /\ c <= MaxRequestUnits - 1 + Quantum[cursor]
      BY <1>a, <1>b, <3>2 DEF boundedAdd
    <3> HIDE DEF c
    <3>4. DataInv'
      BY <1>0, <1>b, <2>1, <3>1, <3>3, DataCredit DEF outside
    <3>5. fundings' \in Nat
      BY <1>b, <3>1
    <3> QED
      BY <1>0, <1>b, <2>1, <3>4, <3>5, SweepInv
  <2> QED
    BY <2>2, <2>3
<1>5. CASE LeaveTenant
  <2>1. /\ pc = "serve" /\ NextTenant
        /\ UNCHANGED <<marks, books, deficit, visitOpen, dispatched, needsFunding, fundings>>
    BY <1>5 DEF LeaveTenant
  <2>2. DataInv'
    BY <1>0, <1>b, <2>1, DataUnchanged DEF outside
  <2> QED
    BY <1>0, <1>b, <1>c, <1>e, <2>1, <2>2, SweepInv
<1>6. CASE NotFunded
  <2>1. /\ pc = "serve" /\ current # <<>> /\ ~funded /\ NextTenant
        /\ visitOpen' = [visitOpen EXCEPT ![cursor] = FALSE]
        /\ UNCHANGED <<marks, books, deficit, dispatched, fundings>>
    BY <1>6 DEF NotFunded
  <2>2. needsFunding' \in BOOLEAN
    BY <1>6, Zenon DEF NotFunded
  <2>3. deficit[cursor] \in Nat /\ deficit[cursor] < MaxRequestUnits
    BY <1>a, <1>b, <2>1, CursorHead DEF funded
  <2>4. deficit' = [deficit EXCEPT ![cursor] = deficit[cursor]]
    BY <1>b, <2>1
  <2>5. deficit[cursor] <= MaxRequestUnits - 1 + Quantum[cursor] /\ queue[cursor] # <<>>
    BY <1>a, <1>b, <2>1, <2>3 DEF current
  <2>6. DataInv'
    BY <1>0, <1>b, <2>1, <2>3, <2>4, <2>5, DataCredit DEF outside
  <2> QED
    BY <1>0, <1>b, <1>c, <1>e, <2>1, <2>2, <2>6, SweepInv
<1>7. CASE Barrier
  <2>1. pc = "serve" /\ LeavePump /\ UNCHANGED <<marks, books, drr>>
    BY <1>7 DEF Barrier, Servable
  <2>2. DataInv'
    BY <1>0, <1>b, <2>1, DataUnchanged DEF outside, drr
  <2> QED
    BY <1>0, <1>b, <1>d, <2>1, <2>2, SweepInv DEF drr
<1>8. CASE Serve
  <2>1. pc = "serve" /\ current # <<>> /\ tenantFits /\ globalFits /\ funded /\ dispatch(head)
    BY <1>8 DEF Serve, Servable
  <2>2. /\ head \in expiry /\ head \in Requests /\ head \in entries /\ received(head)
        /\ tenantOf(head) = cursor /\ cursor \in Tenants
    BY <2>1, CursorHead
  <2>3. DataInv'
    <3>1. \A s \in {Global, cursor} : inflightFits(counters[s], admission[head], InflightLimits[s])
      BY <2>1 DEF tenantFits, globalFits
    <3>2. admission[head].work <= deficit[cursor] /\ queue[cursor] # <<>> /\ head = Head(queue[cursor])
      BY <2>1 DEF funded, current, head
    <3>3. UNCHANGED admission
      BY <1>0 DEF outside
    <3> QED
      BY <1>b, <2>1, <2>2, <3>1, <3>2, <3>3, DataDispatch
  <2>4. \A o \in Requests : received(o)' => received(o)
    BY <2>1, <2>2 DEF dispatch, removeQueued, resolve, received, IInv, DataInv, TypeData
  <2>5. expiry' \subseteq expiry
    BY <2>1 DEF dispatch, removeQueued
  <2>6. ~drainNotified
    BY <2>2 DEF IInv, LoopInv, DrainedIsFinal
  <2>7. /\ pc' \in {"visit", "serve", "notify"} /\ cursor' \in Tenants /\ visits' \in 0..N
        /\ fundings' \in Nat /\ needsFunding' \in BOOLEAN
        /\ pc' = "serve" => visits' < N
    <3>1. CASE LeavePump /\ IF empties(head) THEN advance ELSE UNCHANGED cursor
      <4>1. cursor' \in Tenants
        BY <1>b, <3>1, AdvanceTypes DEF IInv, LoopInv
      <4> QED
        BY <1>d, <3>1, <4>1
    <3>2. CASE /\ UNCHANGED <<needsFunding, fundings>>
               /\ IF empties(head) THEN NextTenant ELSE UNCHANGED <<pc, visits, cursor>>
      BY <1>b, <1>c, <1>e, <2>1, <3>2
    <3> QED
      BY <1>8, <3>1, <3>2 DEF Serve
  <2>8. dispatched' \in BOOLEAN
    <3>1. dispatched' = TRUE \/ dispatched' = FALSE
      BY <1>8, Zenon DEF Serve, LeavePump
    <3> QED
      BY <3>1, Zenon
  <2> QED
    BY <1>0, <2>1, <2>3, <2>4, <2>5, <2>6, <2>7, <2>8, PumpLoop
<1>9. CASE EndSweep
  <2>1. /\ pc = "visit" /\ UNCHANGED <<marks, books, deficit, visitOpen>>
        /\ cursor' \in {1, cursor}
    BY <1>9 DEF EndSweep
  <2>2. DataInv'
    BY <1>0, <1>b, <2>1, DataUnchanged DEF outside
  <2>3. CASE LeavePump
    BY <1>0, <1>a, <1>b, <1>d, <2>1, <2>2, <2>3, SweepInv
  <2>4. CASE ~LeavePump
    <3>1. visits' = 0 /\ UNCHANGED <<pc, fundings>>
      BY <1>9, <2>4 DEF EndSweep
    <3>2. dispatched' \in BOOLEAN /\ needsFunding' \in BOOLEAN
      <4>1. dispatched' = FALSE /\ needsFunding' = FALSE
        BY <1>9, <2>4, Zenon DEF EndSweep
      <4> QED
        BY <4>1, Zenon
    <3>3. visits' \in 0..N /\ cursor' \in Tenants
      BY <1>a, <1>b, <2>1, <3>1
    <3> QED
      BY <1>0, <1>b, <2>1, <2>2, <3>1, <3>2, <3>3, SweepInv
  <2> QED
    BY <2>3, <2>4
<1> QED
  BY <1>1, <1>2, <1>3, <1>4, <1>5, <1>6, <1>7, <1>8, <1>9 DEF Pump

(* Every nonempty set of natural numbers has a least element. *)
LEMMA NatLeast ==
  ASSUME NEW T \in SUBSET Nat, T # {}
  PROVE  \E x \in T : \A y \in T : x <= y
<1> DEFINE R == OpToRel(<, Nat)
<1>1. IsWellFoundedOn(R, Nat)
  BY NatLessThanWellFounded
<1>2. \A x, y \in Nat : y < x => <<y, x>> \in R
  BY DEF OpToRel
<1> HIDE DEF R
<1>3. PICK x \in T : \A y \in T : ~(<<y, x>> \in R)
  BY <1>1, WFMin
<1>4. \A y \in T : ~(y < x)
  BY <1>2, <1>3, Zenon
<1>5. \A y \in T : x <= y
  BY <1>4
<1> QED
  BY <1>5

(* A heap that is not empty has a top: the order by deadline, then by       *)
(* sequence number, has a least element, and no two entries tie.            *)
LEMMA TopExists ==
  ASSUME DataInv, deadline \in [Requests -> Nat], expiry # {}
  PROVE  \E r \in expiry : isTop(r)
<1>1. /\ expiry \subseteq Requests /\ seq \in [Requests -> Nat]
      /\ \A r, o \in expiry : seq[r] = seq[o] => r = o
  BY DEF DataInv, TypeData, QueueOrder
<1>2. PICK e \in expiry : \A o \in expiry : deadline[e] <= deadline[o]
  <2> DEFINE T == {deadline[r] : r \in expiry}
  <2>1. T \in SUBSET Nat /\ T # {}
    BY <1>1
  <2>2. PICK x \in T : \A y \in T : x <= y
    BY <2>1, NatLeast
  <2> QED
    BY <2>2
<1> DEFINE E == {r \in expiry : deadline[r] = deadline[e]}
<1>3. PICK m \in E : \A o \in E : seq[m] <= seq[o]
  <2> DEFINE T == {seq[r] : r \in E}
  <2>1. T \in SUBSET Nat /\ T # {}
    BY <1>1, <1>2
  <2>2. PICK x \in T : \A y \in T : x <= y
    BY <2>1, NatLeast
  <2> QED
    BY <2>2
<1>4. ASSUME NEW o \in expiry \ {m} PROVE Less(m, o)
  <2>1. /\ deadline[m] = deadline[e] /\ deadline[m] <= deadline[o]
        /\ deadline[m] \in Nat /\ deadline[o] \in Nat /\ seq[m] \in Nat /\ seq[o] \in Nat
        /\ seq[m] # seq[o]
    BY <1>1, <1>2, <1>3
  <2>2. CASE deadline[m] < deadline[o]
    BY <2>2 DEF Less
  <2>3. CASE deadline[m] = deadline[o]
    BY <1>3, <2>1, <2>3 DEF Less
  <2> QED
    BY <2>1, <2>2, <2>3
<1> QED
  BY <1>3, <1>4 DEF isTop

(* resetExpiryTimer arms the timer for the earliest deadline. *)
LEMMA ArmedCovers ==
  ASSUME IInv
  PROVE  armed \in Nat /\ \A r \in expiry : armed # 0 /\ armed <= deadline[r]
<1>1. /\ expiry \subseteq Requests /\ deadline \in [Requests -> Nat]
      /\ \A r \in expiry : deadline[r] # 0
  BY EntryFacts DEF IInv, DataInv, TypeData, BooksAgree, LoopInv, TypeLoop, Control
<1>2. CASE expiry = {}
  BY <1>2 DEF armed
<1>3. CASE expiry # {}
  <2> DEFINE m == CHOOSE r \in expiry : isTop(r)
  <2>1. m \in expiry /\ isTop(m)
    BY <1>1, <1>3, TopExists DEF IInv
  <2>2. armed = deadline[m]
    BY <1>3 DEF armed
  <2> HIDE DEF m
  <2>3. \A r \in expiry : deadline[m] <= deadline[r]
    BY <1>1, <2>1 DEF isTop, Less
  <2> QED
    BY <1>1, <2>1, <2>2, <2>3
<1> QED
  BY <1>2, <1>3

(* notifyDrained and resetExpiryTimer *)
LEMMA NotifyInv ==
  ASSUME IInv, Notify
  PROVE  IInv'
<1> USE DEF IInv, LoopInv
<1>1. /\ UNCHANGED <<outside, marks, books, drr, accepting, command, sweep>>
      /\ pc = "notify" /\ pc' = "select" /\ timerAt' = armed
      /\ drainNotified' = (drainNotified \/ (~accepting /\ isDrained))
  BY DEF Notify
<1>2. DataInv'
  BY <1>1, DataUnchanged DEF outside, drr
<1>3. drainNotified' \in BOOLEAN
  BY <1>1, Zenon DEF TypeLoop
<1>4. drainNotified' => ~accepting /\ entries = {} /\ isDrained
  BY <1>1, DrainedEmpty DEF DrainedIsFinal
<1>5. TypeLoop'
  <2>1. timerAt' \in Nat
    BY <1>1, ArmedCovers
  <2> QED
    BY <1>1, <1>3, <2>1 DEF TypeLoop, outside, drr, command, sweep
<1>6. Control'
  BY <1>1 DEF Control, outside, marks, books, received
<1>7. DrainedIsFinal'
  BY <1>1, <1>4 DEF DrainedIsFinal, books, isDrained
<1>8. TimerCoversQueue'
  BY <1>1, ArmedCovers DEF TimerCoversQueue, outside, books
<1> QED
  BY <1>2, <1>5, <1>6, <1>7, <1>8

-----------------------------------------------------------------------------
(* The invariant is inductive: every step of the specification, whoever     *)
(* takes it, keeps it.                                                      *)
LEMMA StepInv == IInv /\ [Next]_vars => IInv'
<1> SUFFICES ASSUME IInv, [Next]_vars PROVE IInv'
  OBVIOUS
<1>1. CASE UNCHANGED vars
  <2>1. UNCHANGED <<outside, marks, books, drr, accepting, drainNotified, timerAt, pc,
                    command, sweep>>
    BY <1>1 DEF vars, owner
  <2>2. DataInv'
    BY <2>1, DataUnchanged DEF IInv, outside, drr
  <2>3. LoopInv'
    BY <2>1 DEF IInv, LoopInv, TypeLoop, Control, received, DrainedIsFinal, isDrained,
                TimerCoversQueue, outside, marks, books, drr, command, sweep
  <2> QED
    BY <2>2, <2>3 DEF IInv
<1>2. CASE Next
  <2>1. CASE Outside
    BY <2>1, OutsideInv
  <2>2. CASE (\E c \in Commands : Receive(c)) \/ TimerFires
    BY <2>2, WakeInv
  <2>3. CASE Handle
    BY <2>3, HandleInv
  <2>4. CASE Pump
    BY <2>4, PumpInv
  <2>5. CASE Notify
    BY <2>5, NotifyInv
  <2>6. CASE Stopped
    BY <1>1, <2>6 DEF Stopped
  <2> QED
    BY <1>2, <2>1, <2>2, <2>3, <2>4, <2>5, <2>6 DEF Next, Run
<1> QED
  BY <1>1, <1>2

(* The inductive invariant holds in every reachable state. *)
THEOREM Invariance == Spec => []IInv
<1>1. Init => IInv
  BY InitInv
<1>2. IInv /\ [Next]_vars => IInv'
  BY StepInv
<1> QED
  BY <1>1, <1>2, PTL DEF Spec

(* The owner's fields keep their types; in particular no counter and no     *)
(* deficit of the unsigned kind ever drops below zero.                      *)
THEOREM TypeCorrect == Spec => []TypeOK
<1>1. IInv => TypeOK
  BY TypeSplit DEF IInv, DataInv, LoopInv
<1> QED
  BY <1>1, Invariance, PTL

(* The map of entries, the tenant queues, the expiry heap and the in-flight *)
(* list never disagree about a request.                                     *)
THEOREM BooksCorrect == Spec => []BooksAgree
<1>1. IInv => BooksAgree
  BY DEF IInv, DataInv
<1> QED
  BY <1>1, Invariance, PTL

(* Every Acquire is answered at most once and every permit released at most *)
(* once, whichever of its timer, its client, a drain or the pump is first.  *)
THEOREM AnswersCorrect == Spec => []AnsweredOnce
<1>1. IInv => AnsweredOnce
  BY DEF IInv, DataInv
<1> QED
  BY <1>1, Invariance, PTL

(* The counters are the exact sums over what is queued and in flight, so    *)
(* the underflow panics of removeQueued and removeInflight are unreachable. *)
THEOREM AccountingCorrect == Spec => []AccountingExact
<1>1. IInv => AccountingExact
  BY DEF IInv, DataInv
<1> QED
  BY <1>1, Invariance, PTL

(* No configured limit is ever exceeded, by a tenant or by the gateway. *)
THEOREM LimitsCorrect == Spec => []LimitsHold
<1>1. IInv => LimitsHold
  BY DEF IInv, DataInv
<1> QED
  BY <1>1, Invariance, PTL

(* Within a tenant, dispatch follows admission order. *)
THEOREM FIFOCorrect == Spec => []TenantFIFO
<1>1. IInv => TenantFIFO
  BY DEF IInv, DataInv
<1> QED
  BY <1>1, Invariance, PTL

(* Round robin credit stays below what DeficitCap was validated to hold. *)
THEOREM CreditCorrect == Spec => []CreditBounded
<1>1. IInv => CreditBounded
  BY DEF IInv, DataInv
<1> QED
  BY <1>1, Invariance, PTL

(* The owner never sleeps through the deadline of a queued request. *)
THEOREM TimerCorrect == Spec => []TimerCoversQueue
<1>1. IInv => TimerCoversQueue
  BY DEF IInv, LoopInv
<1> QED
  BY <1>1, Invariance, PTL

(* After the drained channel closed nothing is held any more, and the stop  *)
(* that Close sends never finds the owner undrained.                        *)
THEOREM DrainCorrect == Spec => []DrainedIsFinal
<1>1. IInv => DrainedIsFinal
  BY DEF IInv, LoopInv
<1> QED
  BY <1>1, Invariance, PTL

(* A step taken with admission shut neither opens it nor dispatches: only   *)
(* Serve makes a permit, and beginDrain left it nothing to serve.           *)
LEMMA StepDraining ==
  ASSUME IInv, [Next]_vars, ~accepting
  PROVE  ~accepting' /\ inflight' \subseteq inflight
<1>1. CASE UNCHANGED vars
  BY <1>1 DEF vars, owner, books
<1>2. CASE Outside
  BY <1>2 DEF Outside, Tick, CtxDone, Acquire, owner, books
<1>3. CASE (\E c \in Commands : Receive(c)) \/ TimerFires
  BY <1>3 DEF Receive, TimerFires, WakeUp, books
<1>4. CASE Handle
  <2>1. CASE NothingToHandle \/ BeginDrain \/ DrainDone \/ ForceCancelInflight \/ Stop
    BY <2>1 DEF NothingToHandle, BeginDrain, DrainDone, ForceCancelInflight, Stop, books
  <2>2. ASSUME NEW r \in Requests, ExpireReady(r) \/ CancelQueued(r) \/ DrainNext(r)
        PROVE  accepting' = accepting /\ inflight' = inflight
    BY <2>2 DEF ExpireReady, CancelQueued, DrainNext, Drop
  <2>3. ASSUME NEW r \in Requests, Refuse(r) \/ Enqueue(r) \/ CancelOther(r)
        PROVE  accepting' = accepting /\ inflight' = inflight
    BY <2>3 DEF Refuse, Enqueue, CancelOther, books
  <2>4. ASSUME NEW r \in Requests, FinishEntry(r)
        PROVE  accepting' = accepting /\ inflight' \subseteq inflight
    BY <2>4 DEF FinishEntry
  <2> QED
    BY <1>4, <2>1, <2>2, <2>3, <2>4 DEF Handle
<1>5. CASE Pump
  <2>1. accepting' = accepting
    BY <1>5 DEF Pump
  <2>2. CASE EnterPump \/ SkipEmpty \/ OpenVisit \/ LeaveTenant \/ NotFunded \/ Barrier \/ EndSweep
    BY <2>1, <2>2 DEF EnterPump, SkipEmpty, OpenVisit, LeaveTenant, NotFunded, Barrier, EndSweep,
                      books
  <2>3. CASE DropHead
    BY <2>1, <2>3 DEF DropHead, Drop
  <2>4. CASE Serve
    <3>1. pc = "serve" /\ current # <<>>
      BY <2>4 DEF Serve, Servable
    <3>2. head \in expiry
      BY <3>1, CursorHead
    <3> QED
      BY <3>1, <3>2 DEF IInv, LoopInv, Control
  <2> QED
    BY <1>5, <2>2, <2>3, <2>4 DEF Pump
<1>6. CASE Notify
  BY <1>6 DEF Notify, books
<1>7. CASE Stopped
  BY <1>1, <1>7 DEF Stopped
<1> QED
  BY <1>1, <1>2, <1>3, <1>4, <1>5, <1>6, <1>7 DEF Next, Run

(* A drain is irreversible and stops dispatch at once. *)
THEOREM DrainStops == Spec => DrainStopsDispatch
<1>1. IInv /\ [Next]_vars => [~accepting => ~accepting' /\ inflight' \subseteq inflight]_vars
  BY StepDraining
<1> QED
  BY <1>1, Invariance, PTL DEF Spec, DrainStopsDispatch

-----------------------------------------------------------------------------
(* The promises *)

(* Before a force no permit ends as a shutdown. After it admission is shut, *)
(* every permit in flight has a cause, the clients that were gone by then   *)
(* have theirs, and whoever was signalled keeps the shutdown.               *)
CauseInv ==
  /\ gaveUp \subseteq Requests /\ signaled \subseteq Requests
  /\ forced => ~accepting /\ \A r \in inflight : cause[r] # "none"
  /\ ~forced => \A r \in Requests : cause[r] # "shutdown"
  /\ \A r \in gaveUp : cause[r] # "shutdown"
  /\ \A r \in Requests : terminal[r] = "Shutdown" => cause[r] = "shutdown"
  /\ \A r \in signaled : cause[r] = "shutdown" /\ terminal[r] \in {"none", "Shutdown"}

(* What a step may do to the causes and to the outcomes that follow from    *)
(* them: a cause once set stays, only a force attributes one to shutdown.   *)
LEMMA CauseStep ==
  ASSUME IInv, [Next]_vars, NEW r \in Requests
  PROVE  /\ cause[r] # "none" => cause'[r] = cause[r]
         /\ ~Forcing /\ cause'[r] = "shutdown" => cause[r] = "shutdown"
         /\ terminal'[r] = "Shutdown" => terminal[r] = "Shutdown" \/ cause'[r] = "shutdown"
         /\ cause[r] = "shutdown" => terminal'[r] \in {terminal[r], "Shutdown", "Unreleased"}
<1>0. cause \in [Requests -> {"none", "client", "shutdown"}] /\ DOMAIN terminal = Requests
  BY DEF IInv, DataInv, TypeData
<1>1. CASE UNCHANGED vars
  BY <1>1 DEF vars, owner, marks
<1>2. CASE Outside
  BY <1>2 DEF Outside, Tick, CtxDone, Acquire, owner, marks
<1>3. CASE (\E c \in Commands : Receive(c)) \/ TimerFires
  BY <1>3 DEF Receive, TimerFires, WakeUp, marks
<1>4. CASE Handle
  <2>1. CASE NothingToHandle \/ BeginDrain \/ DrainDone \/ Stop
    BY <2>1 DEF NothingToHandle, BeginDrain, DrainDone, Stop, marks
  <2>2. CASE ForceCancelInflight
    <3>1. Forcing
      BY <1>4, <2>2 DEF Handle, Forcing
    <3>2. cause'[r] = forcedCause(r) /\ terminal' = terminal
      BY <2>2 DEF ForceCancelInflight
    <3> QED
      BY <3>1, <3>2 DEF forcedCause
  <2>3. ASSUME NEW o \in Requests,
               ExpireReady(o) \/ CancelQueued(o) \/ DrainNext(o) \/ Refuse(o) \/ Enqueue(o)
        PROVE  UNCHANGED <<cause, terminal>>
    BY <2>3 DEF ExpireReady, CancelQueued, DrainNext, Drop, Refuse, Enqueue
  <2>4. ASSUME NEW o \in Requests, CancelOther(o)
        PROVE  /\ cause[r] # "none" => cause'[r] = cause[r]
               /\ cause'[r] = "shutdown" => cause[r] = "shutdown"
               /\ terminal' = terminal
    BY <1>0, <2>4 DEF CancelOther
  <2>5. ASSUME NEW o \in Requests, FinishEntry(o)
        PROVE  /\ cause[r] # "none" => cause'[r] = cause[r]
               /\ cause'[r] = "shutdown" => cause[r] = "shutdown"
               /\ terminal'[r] = "Shutdown" => terminal[r] = "Shutdown" \/ cause'[r] = "shutdown"
               /\ cause[r] = "shutdown" => terminal'[r] \in {terminal[r], "Shutdown", "Unreleased"}
    <3>1. cmd.outcome # "Shutdown"
      BY <2>5, CommandTypes, ClientAssumption DEF FinishEntry, Handling, IInv, LoopInv
    <3>2. CASE r # o
      BY <1>0, <2>5, <3>2 DEF FinishEntry
    <3>3. CASE r = o
      <4>1. CASE r \in entries /\ state[r] = "inflight" /\ phase[r] = "inflight"
        <5> DEFINE c == IF cause[r] = "none" /\ ctxDone[r] THEN "client" ELSE cause[r]
        <5>1. cause'[r] = c /\ terminal'[r] = terminalOutcome(c, cmd.outcome)
          BY <1>0, <2>5, <3>3, <4>1 DEF FinishEntry
        <5> QED
          BY <3>1, <5>1 DEF terminalOutcome
      <4>2. CASE ~(r \in entries /\ state[r] = "inflight" /\ phase[r] = "inflight")
        BY <1>0, <2>5, <3>3, <4>2 DEF FinishEntry
      <4> QED
        BY <4>1, <4>2
    <3> QED
      BY <3>2, <3>3
  <2> QED
    BY <1>4, <2>1, <2>2, <2>3, <2>4, <2>5 DEF Handle
<1>5. CASE Pump
  <2>1. CASE EnterPump \/ SkipEmpty \/ OpenVisit \/ LeaveTenant \/ NotFunded \/ Barrier \/ EndSweep
    BY <2>1 DEF EnterPump, SkipEmpty, OpenVisit, LeaveTenant, NotFunded, Barrier, EndSweep, marks
  <2>2. CASE DropHead
    BY <2>2 DEF DropHead, Drop
  <2>3. CASE Serve
    BY <2>3 DEF Serve, dispatch
  <2> QED
    BY <1>5, <2>1, <2>2, <2>3 DEF Pump
<1>6. CASE Notify
  BY <1>6 DEF Notify, marks
<1>7. CASE Stopped
  BY <1>1, <1>7 DEF Stopped
<1> QED
  BY <1>1, <1>2, <1>3, <1>4, <1>5, <1>6, <1>7 DEF Next, Run

(* A force command finds admission shut and signals every permit. *)
LEMMA ForceStep ==
  ASSUME IInv, Forcing
  PROVE  /\ ~accepting /\ ~accepting' /\ inflight' = inflight
         /\ \A r \in Requests : cause'[r] = forcedCause(r)
BY DEF IInv, LoopInv, Control, Forcing, ForceCancelInflight, books

(* CauseInv is inductive: a force finds whoever gave up already attributed  *)
(* to its client, and later steps attribute nothing to shutdown except by   *)
(* another force, which leaves causes that are set.                         *)
LEMMA CauseInvStep ==
  ASSUME IInv, CauseInv, [HNext]_<<vars, history>>
  PROVE  CauseInv'
<1>0. [Next]_vars
  BY DEF HNext
<1>1. inflight \subseteq Requests /\ inflight' \subseteq Requests
  BY <1>0, StepInv DEF IInv, DataInv, TypeData
<1>2. \A r \in Requests : terminal'[r] = "Shutdown" => cause'[r] = "shutdown"
  BY <1>0, CauseStep DEF CauseInv
<1>3. ASSUME NEW r \in signaled
      PROVE  cause'[r] = "shutdown" /\ terminal'[r] \in {"none", "Shutdown"}
  <2>1. r \in Requests /\ cause[r] = "shutdown" /\ terminal[r] \in {"none", "Shutdown"}
    BY DEF CauseInv
  <2>2. terminal'[r] # "Unreleased"
    BY <1>0, <2>1, StepInv DEF IInv, DataInv, AnsweredOnce
  <2> QED
    BY <1>0, <2>1, <2>2, CauseStep
<1>4. CASE ~Forcing \/ UNCHANGED <<vars, history>>
  <2>1. (forced' <=> forced) /\ gaveUp' = gaveUp /\ signaled' = signaled
    <3>1. CASE UNCHANGED <<vars, history>>
      BY <3>1 DEF history
    <3>2. CASE ~Forcing /\ HNext
      <4>1. (forced' = (forced \/ Forcing)) /\ gaveUp' = gaveUp /\ signaled' = signaled
        BY <3>2 DEF HNext
      <4> QED
        BY <3>2, <4>1, Zenon
    <3> QED
      BY <1>4, <3>1, <3>2
  <2>2. \A r \in Requests : cause'[r] = "shutdown" => cause[r] = "shutdown"
    <3>1. CASE ~Forcing
      BY <1>0, <3>1, CauseStep
    <3>2. CASE UNCHANGED <<vars, history>>
      BY <3>2 DEF vars, owner, marks
    <3> QED
      BY <1>4, <3>1, <3>2
  <2>3. forced => ~accepting' /\ \A r \in inflight' : cause'[r] # "none"
    BY <1>0, <1>1, CauseStep, StepDraining DEF CauseInv
  <2>4. \A r \in signaled : cause'[r] = "shutdown" /\ terminal'[r] \in {"none", "Shutdown"}
    BY <1>3
  <2> QED
    BY <1>2, <2>1, <2>2, <2>3, <2>4 DEF CauseInv
<1>5. CASE Forcing /\ HNext
  <2>1. forced' /\ gaveUp' = IF ~forced THEN {r \in Requests : ctxDone[r]} ELSE gaveUp
    BY <1>5 DEF HNext
  <2>2. \A r \in inflight' : cause'[r] # "none"
    BY <1>1, <1>5, ForceStep DEF forcedCause
  <2>3. ASSUME NEW r \in gaveUp' PROVE r \in Requests /\ cause'[r] # "shutdown"
    <3>1. CASE ~forced
      BY <1>5, <2>1, <2>3, <3>1, ForceStep DEF CauseInv, forcedCause
    <3>2. CASE forced
      BY <1>5, <2>1, <2>3, <3>2, ForceStep DEF CauseInv, forcedCause
    <3> QED
      BY <3>1, <3>2
  <2>4. signaled' = signaled \cup {r \in inflight : cause[r] = "none" /\ ~ctxDone[r]}
    BY <1>5 DEF HNext
  <2>5. ASSUME NEW r \in signaled', r \notin signaled
        PROVE  r \in Requests /\ cause'[r] = "shutdown" /\ terminal'[r] \in {"none", "Shutdown"}
    <3>1. r \in Requests /\ r \in inflight /\ cause[r] = "none" /\ ~ctxDone[r]
      BY <1>1, <2>4, <2>5
    <3>2. terminal[r] = "none"
      BY <3>1 DEF IInv, DataInv, AnsweredOnce
    <3>3. terminal' = terminal /\ cause'[r] = "shutdown"
      BY <1>5, <3>1, ForceStep DEF forcedCause, Forcing, ForceCancelInflight
    <3> QED
      BY <3>1, <3>2, <3>3
  <2>6. /\ signaled' \subseteq Requests
        /\ \A r \in signaled' : cause'[r] = "shutdown" /\ terminal'[r] \in {"none", "Shutdown"}
    BY <1>3, <2>5 DEF CauseInv
  <2> QED
    BY <1>2, <1>5, <2>1, <2>2, <2>3, <2>6, ForceStep DEF CauseInv
<1> QED
  BY <1>4, <1>5

(* The history variables observe: a behaviour with them is one of the owner. *)
LEMMA HistoryInv == HSpec => []IInv
<1>1. HInit => IInv
  BY InitInv DEF HInit
<1>2. IInv /\ [HNext]_<<vars, history>> => IInv'
  <2>1. [HNext]_<<vars, history>> => [Next]_vars
    BY DEF HNext
  <2> QED
    BY <2>1, StepInv
<1> QED
  BY <1>1, <1>2, PTL DEF HSpec

(* forceCancelInflight (owner.go) signals every permit, spares the          *)
(* attribution of clients that were gone before it and keeps its own on     *)
(* those that were not, for good: with any number of requests, and whatever *)
(* finishes, cancels and forces follow.                                     *)
THEOREM ForceIsAttributed == HSpec => []ForceAttributed
<1>1. HInit => CauseInv
  BY DEF HInit, Init, CauseInv
<1>2. IInv /\ CauseInv /\ [HNext]_<<vars, history>> => CauseInv'
  BY CauseInvStep
<1>3. CauseInv => ForceAttributed
  BY DEF CauseInv, ForceAttributed
<1> QED
  BY <1>1, <1>2, <1>3, HistoryInv, PTL DEF HSpec

-----------------------------------------------------------------------------
(* Taking another entry out of a queue leaves its head where it is. *)
LEMMA HeadStays ==
  ASSUME DataInv, NEW t \in Tenants, queue[t] # <<>>,
         NEW o \in expiry, o # Head(queue[t]),
         queue' = [queue EXCEPT ![tenantOf(o)] = Without(@, o)]
  PROVE  /\ queue'[t] # <<>> /\ Head(queue'[t]) = Head(queue[t])
         /\ t = tenantOf(o) => ~empties(o)
<1>1. /\ tenantOf(o) \in Tenants /\ queue'[tenantOf(o)] = <<>> <=> empties(o)
      /\ \A u \in Tenants : u # tenantOf(o) => queue'[u] = queue[u]
      /\ queue \in [Tenants -> Seq(Requests)] /\ queue' \in [Tenants -> Seq(Requests)]
  BY QueueWithout DEF DataInv, TypeData
<1>2. CASE t # tenantOf(o)
  BY <1>1, <1>2
<1>3. CASE t = tenantOf(o)
  <2> DEFINE q == queue[t]
  <2>1. q \in Seq(Requests) /\ o \in ToSet(q) /\ queue'[t] = Without(q, o)
    <3>1. o \in Requests
      BY DEF DataInv, TypeData
    <3> QED
      BY <1>1, <1>3, <3>1 DEF DataInv, BooksAgree
  <2>2. PICK k \in 1..Len(q) :
          /\ q[k] = o
          /\ Without(q, o) = [i \in 1..(Len(q) - 1) |-> IF i < k THEN q[i] ELSE q[i + 1]]
    BY <2>1, WithoutShape
  <2>3. k # 1 /\ Len(q) \in Nat
    BY <2>1, <2>2
  <2>4. 1 < k /\ Len(q) > 1
    BY <2>2, <2>3
  <2>5. queue'[t][1] = q[1] /\ Len(queue'[t]) = Len(q) - 1
    BY <2>1, <2>2, <2>4, <1>1
  <2> QED
    BY <1>1, <1>3, <2>1, <2>4, <2>5 DEF empties
<1> QED
  BY <1>2, <1>3

(* The tenant under the cursor has counters, limits and credit. *)
LEMMA CursorTypes ==
  ASSUME IInv
  PROVE  /\ cursor \in Tenants /\ cursor \in Scopes
         /\ deficit \in [Tenants -> Nat] /\ deficit[cursor] \in Nat
         /\ counters[cursor] \in Counters
         /\ counters[cursor].inflightCount \in Nat /\ counters[cursor].inflightWork \in Nat
         /\ InflightLimits[cursor].count \in Nat /\ InflightLimits[cursor].work \in Nat
<1>1. N \in Nat \ {0} /\ InflightLimits \in [Scopes -> [count : Nat, work : Nat]]
  BY ConfigAssumption
<1>2. /\ cursor \in Tenants /\ deficit \in [Tenants -> Nat]
      /\ counters \in [Scopes -> Counters]
  BY DEF IInv, LoopInv, TypeLoop, DataInv, TypeData
<1>3. cursor \in Scopes
  BY <1>1, <1>2 DEF Tenants, Scopes
<1> QED
  BY <1>1, <1>2, <1>3 DEF Counters

(* The barrier: a reserved request is still queued, the head under the      *)
(* cursor, fits its tenant's limits and is funded, and no sweep has begun.  *)
ReservedInv ==
  \A r \in reserved :
    r \in expiry /\ current # <<>> /\ r = head /\ tenantFits /\ funded /\ visits = 0

(* What keeps a reservation: the cursor stays, the head and its reservation *)
(* stay, its credit does not shrink and its tenant's load does not grow.    *)
LEMMA ReservedFrame ==
  ASSUME IInv, ReservedInv, cursor' = cursor,
         \A r \in reserved' :
           /\ r \in reserved /\ r \in expiry'
           /\ queue'[cursor] # <<>> /\ Head(queue'[cursor]) = r
           /\ visits' = visits /\ admission'[r] = admission[r]
           /\ deficit[cursor] <= deficit'[cursor] /\ deficit'[cursor] \in Nat
           /\ counters'[cursor].inflightCount <= counters[cursor].inflightCount
           /\ counters'[cursor].inflightWork <= counters[cursor].inflightWork
           /\ counters'[cursor] \in Counters
  PROVE  ReservedInv'
<1> SUFFICES ASSUME NEW r \in reserved'
             PROVE  /\ r \in expiry' /\ queue'[cursor] # <<>> /\ r = Head(queue'[cursor]) /\ visits' = 0
                    /\ inflightFits(counters'[cursor], admission'[r], InflightLimits[cursor])
                    /\ admission'[r].work <= deficit'[cursor]
  BY DEF ReservedInv, current, head, tenantFits, funded
<1>1. /\ r \in reserved /\ current # <<>> /\ r = head /\ tenantFits /\ funded
      /\ visits = 0
  BY DEF ReservedInv
<1>2. admission[r].work \in Nat /\ admission'[r] = admission[r]
  BY <1>1, CursorHead
<1>3. counters'[cursor].inflightCount \in Nat /\ counters'[cursor].inflightWork \in Nat
  BY DEF Counters
<1>4. /\ counters'[cursor].inflightCount <= counters[cursor].inflightCount
      /\ counters'[cursor].inflightWork <= counters[cursor].inflightWork
  OBVIOUS
<1>5. inflightFits(counters[cursor], admission[r], InflightLimits[cursor])
  BY <1>1 DEF tenantFits
<1>6. inflightFits(counters'[cursor], admission[r], InflightLimits[cursor])
  BY <1>2, <1>3, <1>4, <1>5, CursorTypes, SMTT(30) DEF inflightFits, fits
<1> QED
  BY <1>1, <1>2, <1>6, CursorTypes DEF funded

(* A queued request other than the reserved one leaves, or that one itself. *)
LEMMA ReservedDrop ==
  ASSUME IInv, ReservedInv, NEW o \in expiry, NEW d, Drop(o, d),
         UNCHANGED <<outside, visits>>, reserved' \subseteq reserved \cap expiry'
  PROVE  ReservedInv'
<1>1. /\ expiry' = expiry \ {o} /\ cursor' = cursor
      /\ queue' = [queue EXCEPT ![tenantOf(o)] = Without(@, o)]
      /\ deficit' = [deficit EXCEPT ![tenantOf(o)] = IF empties(o) THEN 0 ELSE @]
      /\ counters' = removeQueuedFrom(counters, admission[o])
      /\ UNCHANGED admission
  BY DEF Drop, removeQueued, creditAfter, outside
<1>2. deficit \in [Tenants -> Nat] /\ cursor \in Tenants /\ cursor \in Scopes
  BY CursorTypes
<1>3. ASSUME NEW r \in reserved'
      PROVE  /\ r \in reserved /\ r \in expiry'
             /\ queue'[cursor] # <<>> /\ Head(queue'[cursor]) = r
             /\ deficit'[cursor] = deficit[cursor] /\ deficit[cursor] \in Nat
             /\ counters'[cursor].inflightCount = counters[cursor].inflightCount
             /\ counters'[cursor].inflightWork = counters[cursor].inflightWork
             /\ counters'[cursor] \in Counters
             /\ counters[cursor] \in Counters
  <2>1. r \in reserved /\ r \in expiry' /\ current # <<>> /\ r = head /\ o # head
    BY <1>1, <1>3 DEF ReservedInv
  <2>2. /\ queue'[cursor] # <<>> /\ Head(queue'[cursor]) = head
        /\ cursor = tenantOf(o) => ~empties(o)
    BY <1>1, <1>2, <2>1, HeadStays DEF IInv, current, head
  <2>3. /\ counters' \in [Scopes -> Counters]
        /\ counters'[cursor].inflightCount = counters[cursor].inflightCount
        /\ counters'[cursor].inflightWork = counters[cursor].inflightWork
    BY <1>1, <1>2, CountersWithout DEF IInv
  <2> QED
    BY <1>1, <1>2, <2>1, <2>2, <2>3 DEF IInv, DataInv, TypeData
<1>4. \A r \in reserved' :
         /\ counters'[cursor].inflightCount <= counters[cursor].inflightCount
         /\ counters'[cursor].inflightWork <= counters[cursor].inflightWork
         /\ deficit[cursor] <= deficit'[cursor] /\ deficit'[cursor] \in Nat
  BY <1>3 DEF Counters
<1> QED
  BY <1>1, <1>3, <1>4, ReservedFrame

(* Steps that leave the queues, the credit and the counters alone *)
LEMMA ReservedSame ==
  ASSUME IInv, ReservedInv, UNCHANGED <<books, drr, visits>>,
         reserved' \subseteq reserved \cap expiry',
         \A r \in expiry : admission'[r] = admission[r]
  PROVE  ReservedInv'
<1>1. /\ deficit[cursor] <= deficit[cursor]
      /\ counters[cursor].inflightCount <= counters[cursor].inflightCount
      /\ counters[cursor].inflightWork <= counters[cursor].inflightWork
  BY CursorTypes
<1>2. \A r \in reserved' :
        r \in reserved /\ r \in expiry' /\ queue'[cursor] # <<>> /\ Head(queue'[cursor]) = r
  BY DEF ReservedInv, books, current, head
<1> QED
  BY <1>1, <1>2, CursorTypes, ReservedFrame DEF books, drr

(* No handler of a command takes the reservation away except by taking the  *)
(* request out of its queue.                                                *)
LEMMA ReservedHandle ==
  ASSUME IInv, ReservedInv, Handle, reserved' \subseteq reserved \cap expiry'
  PROVE  ReservedInv'
<1>0. UNCHANGED <<outside, sweep>>
  BY DEF Handle
<1>1. UNCHANGED <<admission, visits>>
  BY <1>0 DEF outside, sweep
<1>2. CASE NothingToHandle \/ BeginDrain \/ DrainDone \/ ForceCancelInflight \/ Stop
  BY <1>1, <1>2, ReservedSame
     DEF NothingToHandle, BeginDrain, DrainDone, ForceCancelInflight, Stop
<1>3. ASSUME NEW o \in Requests, Refuse(o) \/ CancelOther(o) PROVE ReservedInv'
  BY <1>1, <1>3, ReservedSame DEF Refuse, CancelOther
<1>4. ASSUME NEW o \in Requests, ExpireReady(o) PROVE ReservedInv'
  BY <1>0, <1>1, <1>4, ReservedDrop DEF ExpireReady, isLate, isTop
<1>5. ASSUME NEW o \in Requests, CancelQueued(o) PROVE ReservedInv'
  <2>1. o \in expiry /\ Drop(o, Canceled)
    BY <1>5 DEF CancelQueued, IInv, DataInv, BooksAgree
  <2> QED
    BY <1>0, <1>1, <2>1, ReservedDrop
<1>6. ASSUME NEW o \in Requests, DrainNext(o) PROVE ReservedInv'
  <2>1. PICK t \in Tenants : queue[t] # <<>> /\ Head(queue[t]) = o
    BY <1>6 DEF DrainNext
  <2>2. o \in expiry
    BY <2>1, HeadQueued DEF IInv, DataInv, TypeData, BooksAgree
  <2> DEFINE d == IF ctxDone[o] THEN Canceled ELSE ShutDown
  <2>3. Drop(o, d)
    BY <1>6 DEF DrainNext
  <2> HIDE DEF d
  <2> QED
    BY <1>0, <1>1, <2>2, <2>3, ReservedDrop
<1>7. ASSUME NEW o \in Requests, Enqueue(o) PROVE ReservedInv'
  <2>1. /\ queue' = [queue EXCEPT ![tenantOf(o)] = Append(@, o)]
        /\ counters' = addQueued(counters, admission[o])
        /\ UNCHANGED drr
    BY <1>7 DEF Enqueue, PushBack
  <2>2. /\ queue \in [Tenants -> Seq(Requests)] /\ counters \in [Scopes -> Counters]
        /\ tenantOf(o) \in Tenants /\ admission[o].work \in Nat /\ admission[o].bytes \in Nat
    BY AdmissionTypes DEF IInv, DataInv, TypeData, tenantOf
  <2>3. /\ counters'[cursor] \in Counters
        /\ counters'[cursor].inflightCount = counters[cursor].inflightCount
        /\ counters'[cursor].inflightWork = counters[cursor].inflightWork
    <3>1. \A d : <<d>> # <<>>
      OBVIOUS
    <3>2. \A s \in {Global, tenantOf(o)} :
            queueLimitFailure(counters[s], admission[o], QueueLimits[s]) = "none"
      BY <1>7, <3>1 DEF Enqueue, refusal, tenantOf
    <3>3. o \notin expiry
      BY <1>7 DEF Enqueue, Handling, IInv, LoopInv, Control, received, DataInv, BooksAgree
    <3> QED
      BY <2>1, <3>2, <3>3, CountersQueued, CursorTypes DEF IInv
  <2>4. ASSUME NEW r \in reserved'
        PROVE  /\ r \in reserved /\ r \in expiry'
               /\ queue'[cursor] # <<>> /\ Head(queue'[cursor]) = r
    <3>1. queue[cursor] # <<>> /\ r = Head(queue[cursor]) /\ r \in reserved /\ r \in expiry'
      BY <2>4 DEF ReservedInv, current, head
    <3>2. queue'[cursor] = queue[cursor] \/ queue'[cursor] = Append(queue[cursor], o)
      BY <2>1, <2>2, CursorTypes
    <3>3. queue[cursor] \in Seq(Requests)
      BY <2>2, CursorTypes
    <3> QED
      BY <3>1, <3>2, <3>3
  <2> QED
    BY <1>1, <2>1, <2>3, <2>4, CursorTypes, ReservedFrame DEF drr
<1>8. ASSUME NEW o \in Requests, FinishEntry(o) PROVE ReservedInv'
  <2>1. /\ UNCHANGED <<queue, expiry, drr>>
        /\ \/ counters' = counters
           \/ counters' = removeInflight(counters, admission[o]) /\ phase[o] = "inflight"
    BY <1>8 DEF FinishEntry
  <2>2. /\ counters'[cursor] \in Counters
        /\ counters'[cursor].inflightCount <= counters[cursor].inflightCount
        /\ counters'[cursor].inflightWork <= counters[cursor].inflightWork
    <3>1. CASE counters' = counters
      BY <3>1, CursorTypes
    <3>2. CASE counters' = removeInflight(counters, admission[o]) /\ phase[o] = "inflight"
      <4>1. o \in inflight
        BY <3>2 DEF IInv, DataInv, BooksAgree
      <4>2. /\ counters' \in [Scopes -> Counters]
            /\ counters'[cursor].inflightCount = Cardinality(Charged(cursor, inflight \ {o}))
            /\ counters'[cursor].inflightWork = Weigh(Charged(cursor, inflight \ {o}), workUnits)
        BY <3>2, <4>1, CountersFinished, CursorTypes DEF IInv
      <4>3. /\ counters[cursor].inflightCount = Cardinality(Charged(cursor, inflight))
            /\ counters[cursor].inflightWork = Weigh(Charged(cursor, inflight), workUnits)
        BY CursorTypes DEF IInv, DataInv, AccountingExact
      <4>4. admission[o].work \in Nat /\ TypeData /\ inflight \in SUBSET Requests
        BY AdmissionTypes DEF IInv, DataInv, TypeData
      <4>5. /\ counters'[cursor].inflightCount <= counters[cursor].inflightCount
            /\ counters'[cursor].inflightWork <= counters[cursor].inflightWork
        <5>1. CASE Charges(admission[o], cursor)
          <6>1. /\ Cardinality(Charged(cursor, inflight \ {o})) = Cardinality(Charged(cursor, inflight)) - 1
                /\ Weigh(Charged(cursor, inflight \ {o}), workUnits)
                     = Weigh(Charged(cursor, inflight), workUnits) - admission[o].work
            BY <4>1, <4>4, <5>1, AccountRemove, CursorTypes
          <6> QED
            BY <4>2, <4>3, <4>4, <6>1, CursorTypes
        <5>2. CASE ~Charges(admission[o], cursor)
          <6>1. Charged(cursor, inflight \ {o}) = Charged(cursor, inflight)
            BY <4>1, <4>4, <5>2, AccountRemove, CursorTypes
          <6> QED
            BY <4>2, <4>3, <6>1, CursorTypes
        <5> QED
          BY <5>1, <5>2
      <4> QED
        BY <4>2, <4>5, CursorTypes
    <3> QED
      BY <2>1, <3>1, <3>2
  <2>3. ASSUME NEW r \in reserved'
        PROVE  /\ r \in reserved /\ r \in expiry'
               /\ queue'[cursor] # <<>> /\ Head(queue'[cursor]) = r
    BY <2>1, <2>3 DEF ReservedInv, current, head
  <2> QED
    BY <1>1, <2>1, <2>2, <2>3, CursorTypes, ReservedFrame DEF drr
<1> QED
  BY <1>2, <1>3, <1>4, <1>5, <1>6, <1>7, <1>8 DEF Handle

(* The pump looks at the reserved head first: it starts it or stops at it   *)
(* again.                                                                   *)
LEMMA ReservedPump ==
  ASSUME IInv, ReservedInv, Pump,
         reserved' = IF pc = "serve" /\ pc' = "notify" /\ result' = result
                     THEN reserved \cup {head} ELSE reserved \cap expiry'
  PROVE  ReservedInv'
<1>0. UNCHANGED admission
  BY DEF Pump, outside
<1>a. ASSUME reserved \cap expiry' = {},
             pc # "serve" \/ pc' # "notify" \/ result' # result
      PROVE  ReservedInv'
  BY <1>a DEF ReservedInv
<1>1. CASE EnterPump
  BY <1>0, <1>1, ReservedSame DEF EnterPump, sweep
<1>2. CASE DropHead
  <2>1. /\ pc' = pc /\ expiry' = expiry \ {head}
    BY <1>2 DEF DropHead, Drop, removeQueued
  <2> QED
    BY <1>a, <2>1 DEF ReservedInv
<1>3. CASE SkipEmpty \/ LeaveTenant \/ NotFunded
  <2>1. /\ pc' = "visit" /\ UNCHANGED expiry
        /\ current = <<>> \/ ~tenantFits \/ ~funded
    BY <1>3 DEF SkipEmpty, LeaveTenant, NotFunded, NextTenant, books
  <2> QED
    BY <1>a, <2>1 DEF ReservedInv
<1>4. CASE OpenVisit
  <2>1. pc = "visit" /\ UNCHANGED <<books, cursor, visits>>
    BY <1>4 DEF OpenVisit, Visiting
  <2>2. deficit[cursor] <= deficit'[cursor] /\ deficit'[cursor] \in Nat
    <3>1. CASE visitOpen[cursor]
      BY <1>4, <3>1, CursorTypes DEF OpenVisit
    <3>2. CASE ~visitOpen[cursor]
      <4>1. /\ MaxRequestUnits \in Nat \ {0} /\ DeficitCap \in Nat /\ Quantum[cursor] \in Nat \ {0}
            /\ DeficitCap >= MaxRequestUnits - 1 + Quantum[cursor]
        BY ConfigAssumption, CursorTypes
      <4>2. deficit[cursor] < MaxRequestUnits
        BY <3>2, CursorTypes DEF IInv, DataInv, CreditBounded
      <4>3. deficit'[cursor] = boundedAdd(deficit[cursor], Quantum[cursor], DeficitCap)
        BY <1>4, <3>2, CursorTypes DEF OpenVisit
      <4> QED
        BY <4>1, <4>2, <4>3, CursorTypes DEF boundedAdd
    <3> QED
      BY <3>1, <3>2
  <2>3. ASSUME NEW r \in reserved'
        PROVE  /\ r \in reserved /\ r \in expiry'
               /\ queue'[cursor] # <<>> /\ Head(queue'[cursor]) = r
    BY <2>1, <2>3 DEF ReservedInv, current, head, books
  <2>4. /\ counters'[cursor].inflightCount <= counters[cursor].inflightCount
        /\ counters'[cursor].inflightWork <= counters[cursor].inflightWork
        /\ counters'[cursor] \in Counters
    BY <2>1, CursorTypes DEF books
  <2> QED
    BY <1>0, <2>1, <2>2, <2>3, <2>4, ReservedFrame
<1>5. CASE Barrier
  <2>1. /\ current # <<>> /\ tenantFits /\ funded /\ UNCHANGED <<books, drr>> /\ visits' = 0
    BY <1>5 DEF Barrier, Servable, LeavePump
  <2>2. reserved' \subseteq {head} /\ head \in expiry'
    BY <2>1, CursorHead DEF ReservedInv, books
  <2> QED
    BY <1>0, <2>1, <2>2 DEF ReservedInv, books, drr, current, head, tenantFits, funded
<1>6. CASE Serve
  <2>1. /\ expiry' = expiry \ {head} /\ current # <<>>
        /\ result' = [result EXCEPT ![head] = Append(@, Dispatched)]
    BY <1>6 DEF Serve, Servable, dispatch, removeQueued, resolve
  <2>2. head \in Requests /\ result[head] \in Seq(Decisions) /\ DOMAIN result = Requests
    BY <2>1, CursorHead DEF IInv, DataInv, TypeData
  <2>3. Len(result'[head]) = Len(result[head]) + 1 /\ Len(result[head]) \in Nat
    BY <2>1, <2>2
  <2>4. result' # result
    BY <2>3
  <2> QED
    BY <1>a, <2>1, <2>4 DEF ReservedInv
<1>7. CASE EndSweep
  <2>1. pc = "visit" /\ visits = N /\ N # 0 /\ UNCHANGED expiry
    BY <1>7, ConfigAssumption DEF EndSweep, books
  <2> QED
    BY <1>a, <2>1 DEF ReservedInv
<1> QED
  BY <1>1, <1>2, <1>3, <1>4, <1>5, <1>6, <1>7 DEF Pump

(* ReservedInv is inductive. *)
LEMMA ReservedStep ==
  ASSUME IInv, ReservedInv, [HNext]_<<vars, history>>
  PROVE  ReservedInv'
<1>1. CASE UNCHANGED <<vars, history>>
  <2>1. reserved' \subseteq reserved \cap expiry'
    BY <1>1 DEF vars, owner, books, history, ReservedInv
  <2> QED
    BY <1>1, <2>1, ReservedSame DEF vars, outside, owner, sweep
<1>2. CASE HNext
  <2>0. reserved' = IF pc = "serve" /\ pc' = "notify" /\ result' = result
                    THEN reserved \cup {head} ELSE reserved \cap expiry'
    BY <1>2 DEF HNext
  <2>1. CASE Pump
    BY <2>0, <2>1, ReservedPump
  <2>2. ASSUME pc # "serve" \/ pc' # "notify" PROVE reserved' = reserved \cap expiry'
    BY <2>0, <2>2
  <2>3. CASE Handle
    <3>1. pc # "serve"
      BY <2>3 DEF Handle, NothingToHandle, BeginDrain, DrainDone, ForceCancelInflight, Stop,
                  ExpireReady, Refuse, Enqueue, CancelQueued, CancelOther, FinishEntry,
                  DrainNext, Handling
    <3> QED
      BY <2>2, <2>3, <3>1, ReservedHandle
  <2>4. CASE Tick \/ \E r \in Requests : CtxDone(r)
    BY <2>2, <2>4, ReservedSame DEF Tick, CtxDone, owner, sweep
  <2>5. ASSUME NEW o \in Requests, Acquire(o) PROVE ReservedInv'
    <3>1. \A r \in expiry : r # o /\ r \in Requests
      BY <2>5, EntryFacts DEF Acquire, IInv, DataInv, BooksAgree, LoopInv, Control
    <3>2. \A r \in expiry : admission'[r] = admission[r]
      BY <2>5, <3>1 DEF Acquire, IInv, DataInv, TypeData
    <3> QED
      BY <2>2, <2>5, <3>2, ReservedSame DEF Acquire, owner, sweep
  <2>6. CASE (\E c \in Commands : Receive(c)) \/ TimerFires
    BY <2>2, <2>6, ReservedSame DEF Receive, TimerFires, WakeUp, outside, sweep
  <2>7. CASE Notify
    BY <2>2, <2>7, ReservedSame DEF Notify, outside, sweep
  <2>8. CASE Stopped
    <3>1. pc # "serve"
      BY <2>8 DEF Stopped
    <3> QED
      BY <2>2, <2>8, <3>1, ReservedSame DEF Stopped, vars, outside, owner, sweep
  <2> QED
    BY <1>2, <2>1, <2>3, <2>4, <2>5, <2>6, <2>7, <2>8 DEF HNext, Next, Run, Outside
<1> QED
  BY <1>1, <1>2

(* Only the pump starts a request, and only the head under the cursor. *)
LEMMA StartsHead ==
  ASSUME IInv, [Next]_vars
  PROVE  inflight' \subseteq inflight \/ (current # <<>> /\ inflight' \subseteq inflight \cup {head})
<1>1. CASE UNCHANGED vars \/ Stopped
  BY <1>1 DEF vars, owner, books, Stopped
<1>2. CASE Outside
  BY <1>2 DEF Outside, Tick, CtxDone, Acquire, owner, books
<1>3. CASE (\E c \in Commands : Receive(c)) \/ TimerFires
  BY <1>3 DEF Receive, TimerFires, WakeUp, books
<1>4. CASE Handle
  <2>1. CASE NothingToHandle \/ BeginDrain \/ DrainDone \/ ForceCancelInflight \/ Stop
    BY <2>1 DEF NothingToHandle, BeginDrain, DrainDone, ForceCancelInflight, Stop, books
  <2>2. ASSUME NEW r \in Requests,
               \/ ExpireReady(r) \/ CancelQueued(r) \/ DrainNext(r)
               \/ Refuse(r) \/ Enqueue(r) \/ CancelOther(r)
        PROVE  inflight' = inflight
    BY <2>2 DEF ExpireReady, CancelQueued, DrainNext, Drop, Refuse, Enqueue, CancelOther, books
  <2>3. ASSUME NEW r \in Requests, FinishEntry(r)
        PROVE  inflight' \subseteq inflight
    BY <2>3 DEF FinishEntry
  <2> QED
    BY <1>4, <2>1, <2>2, <2>3 DEF Handle
<1>5. CASE Pump
  <2>1. CASE EnterPump \/ SkipEmpty \/ OpenVisit \/ LeaveTenant \/ NotFunded \/ Barrier \/ EndSweep
    BY <2>1 DEF EnterPump, SkipEmpty, OpenVisit, LeaveTenant, NotFunded, Barrier, EndSweep, books
  <2>2. CASE DropHead
    BY <2>2 DEF DropHead, Drop
  <2>3. CASE Serve
    BY <2>3 DEF Serve, Servable, dispatch
  <2> QED
    BY <1>5, <2>1, <2>2, <2>3 DEF Pump
<1>6. CASE Notify
  BY <1>6 DEF Notify, books
<1> QED
  BY <1>1, <1>2, <1>3, <1>4, <1>5, <1>6 DEF Next, Run

(* The funded-head barrier of pump (owner_state.go), for every              *)
(* configuration: once a pump has stopped at a funded head for lack of      *)
(* global capacity, nobody else is dispatched before that head leaves its   *)
(* queue.                                                                   *)
THEOREM NobodyOvertakes == HSpec => NoOvertaking
<1>1. HInit => ReservedInv
  BY DEF HInit, ReservedInv
<1>2. IInv /\ ReservedInv /\ [HNext]_<<vars, history>> => ReservedInv'
  BY ReservedStep
<1>3. IInv /\ ReservedInv /\ [HNext]_<<vars, history>>
        => [\A r \in reserved \cap expiry : inflight' \subseteq inflight \cup {r}]_<<vars, history>>
  <2> SUFFICES ASSUME IInv, ReservedInv, [HNext]_<<vars, history>>, NEW r \in reserved \cap expiry
               PROVE  inflight' \subseteq inflight \cup {r}
    OBVIOUS
  <2>1. r = head
    BY DEF ReservedInv
  <2>2. [Next]_vars
    BY DEF HNext
  <2> QED
    BY <2>1, <2>2, StartsHead
<1> QED
  BY <1>1, <1>2, <1>3, HistoryInv, PTL DEF HSpec, NoOvertaking

-----------------------------------------------------------------------------
(* The tenants the sweep under way has been at, going round to cursor *)
Visited(t) ==
  \/ cursor - visits <= t /\ t < cursor
  \/ cursor + N - visits <= t

(* The head of t cannot start within the limits of its own tenant. *)
HeldBack(t) ==
  queue[t] # <<>> => ~inflightFits(counters[t], admission[Head(queue[t])], InflightLimits[t])

(* A sweep without a dispatch or a grant so far has found every tenant it   *)
(* has been at empty or held back.                                          *)
SweepKeeps ==
  pc \in {"visit", "serve"} /\ ~dispatched /\ ~needsFunding =>
    \A t \in Tenants : Visited(t) => HeldBack(t)

(* What WorkConserving says, in the notation above *)
NothingUsable ==
  \/ \A t \in Tenants : queue[t] = <<>>
  \/ saturated(counters)
  \/ queue[cursor] # <<>> /\ tenantFits /\ funded /\ ~globalFits
  \/ \A t \in Tenants : HeldBack(t)

(* A pump starts with a clean slate and, when it ends, leaves nothing       *)
(* usable.                                                                  *)
WorkInv ==
  /\ pc \notin {"visit", "serve"} => visits = 0 /\ ~dispatched /\ ~needsFunding
  /\ SweepKeeps
  /\ pc \in {"notify", "select"} => NothingUsable

(* Between two steps of the pump only the admissions of requests that are   *)
(* not queued change.                                                       *)
LEMMA WorkSame ==
  ASSUME IInv, WorkInv,
         UNCHANGED <<queue, counters, deficit, cursor, visits, dispatched, needsFunding, pc>>,
         \A r \in expiry : admission'[r] = admission[r]
  PROVE  WorkInv'
<1>1. \A t \in Tenants : queue[t] # <<>> => admission'[Head(queue[t])] = admission[Head(queue[t])]
  <2> SUFFICES ASSUME NEW t \in Tenants, queue[t] # <<>> PROVE Head(queue[t]) \in expiry
    OBVIOUS
  <2> QED
    BY HeadQueued DEF IInv, DataInv, TypeData, BooksAgree
<1>2. \A t \in Tenants : HeldBack(t)' <=> HeldBack(t)
  BY <1>1 DEF HeldBack
<1>3. \A t \in Tenants : Visited(t)' <=> Visited(t)
  BY DEF Visited
<1>4. NothingUsable => NothingUsable'
  BY <1>1, <1>2, CursorTypes DEF NothingUsable, tenantFits, globalFits, funded, head
<1> QED
  BY <1>2, <1>3, <1>4 DEF WorkInv, SweepKeeps

(* Nothing was visited when a sweep begins, everything when it ends, and in *)
(* between one tenant at a time.                                            *)
LEMMA VisitedFacts ==
  ASSUME IInv, NEW t \in Tenants
  PROVE  /\ visits = 0 => ~Visited(t)
         /\ visits = N => Visited(t)
         /\ visits < N => ~Visited(cursor)
         /\ advance /\ visits < N /\ visits' = visits + 1 => (Visited(t)' => Visited(t) \/ t = cursor)
<1>1. N \in Nat \ {0} /\ cursor \in 1..N /\ t \in 1..N /\ visits \in 0..N
  BY ConfigAssumption DEF IInv, LoopInv, TypeLoop, Tenants
<1> QED
  BY <1>1 DEF Visited, advance

(* With nothing in the global count, every queue is empty. *)
LEMMA CountZero ==
  ASSUME IInv, counters[Global].queuedCount = 0
  PROVE  \A t \in Tenants : queue[t] = <<>>
<1>1. Global \in Scopes
  BY ConfigAssumption DEF Global, Scopes
<1>2. Charged(Global, expiry) = expiry
  BY DEF Charged, Charges
<1>3. IsFiniteSet(expiry)
  BY ClientAssumption, FS_Subset DEF IInv, DataInv, TypeData
<1>4. expiry = {}
  BY <1>1, <1>2, <1>3, FS_EmptySet DEF IInv, DataInv, AccountingExact
<1> SUFFICES ASSUME NEW t \in Tenants, queue[t] # <<>> PROVE FALSE
  OBVIOUS
<1> QED
  BY <1>4, HeadQueued DEF IInv, DataInv, TypeData, BooksAgree

(* A pump ends early only with nothing queued, saturated, or at a funded    *)
(* head without global capacity; otherwise it has swept all tenants in vain.*)
LEMMA WorkPump ==
  ASSUME IInv, WorkInv, Pump
  PROVE  WorkInv'
<1>0. UNCHANGED admission /\ cursor \in Tenants
  BY CursorTypes DEF Pump, outside
<1>a. pc = "serve" => visits < N
  BY DEF IInv, LoopInv, Control
<1>b. ASSUME LeavePump PROVE pc' = "notify" /\ visits' = 0 /\ ~dispatched' /\ ~needsFunding'
  BY <1>b DEF LeavePump
<1>1. CASE EnterPump
  <2>1. /\ pc = "pump" /\ UNCHANGED <<queue, counters, cursor, visits, dispatched, needsFunding>>
        /\ visits = 0 /\ ~dispatched /\ ~needsFunding
        /\ pc' = IF saturated(counters) \/ counters[Global].queuedCount = 0
                 THEN "notify" ELSE "visit"
    BY <1>1 DEF EnterPump, sweep, books, drr, WorkInv
  <2>2. CASE pc' = "notify"
    <3>1. saturated(counters)' \/ \A t \in Tenants : queue'[t] = <<>>
      BY <2>1, <2>2, CountZero DEF saturated
    <3> QED
      BY <2>1, <2>2, <3>1 DEF WorkInv, SweepKeeps, NothingUsable
  <2>3. CASE pc' = "visit"
    <3>1. \A t \in Tenants : ~Visited(t)'
      BY <2>1, VisitedFacts DEF Visited
    <3> QED
      BY <2>3, <3>1 DEF WorkInv, SweepKeeps
  <2> QED
    BY <2>1, <2>2, <2>3
<1>2. CASE DropHead
  <2>1. /\ current # <<>> /\ UNCHANGED <<pc, visits, dispatched, needsFunding, cursor>>
        /\ pc \in {"visit", "serve"} /\ visits < N
        /\ queue' = [queue EXCEPT ![tenantOf(head)] = Without(@, head)]
        /\ counters' = removeQueuedFrom(counters, admission[head])
    BY <1>2, <1>a DEF DropHead, Visiting, Drop, removeQueued, sweep
  <2>2. head \in expiry /\ tenantOf(head) = cursor
    BY <2>1, CursorHead
  <2>3. ASSUME NEW t \in Tenants, Visited(t)', HeldBack(t) PROVE HeldBack(t)'
    <3>1. t # cursor
      BY <1>0, <2>1, <2>3, VisitedFacts DEF Visited
    <3>2. queue'[t] = queue[t]
      BY <2>1, <2>2, <3>1 DEF IInv, DataInv, TypeData
    <3>3. t \in Scopes
      BY ConfigAssumption DEF Tenants, Scopes
    <3>4. /\ counters'[t].inflightCount = counters[t].inflightCount
          /\ counters'[t].inflightWork = counters[t].inflightWork
      BY <2>1, <2>2, <3>3, CountersWithout DEF IInv
    <3> QED
      BY <1>0, <2>3, <3>2, <3>4 DEF HeldBack, inflightFits
  <2>4. SweepKeeps'
    BY <2>1, <2>3 DEF WorkInv, SweepKeeps, Visited
  <2> QED
    BY <2>1, <2>4 DEF WorkInv
<1>3. CASE SkipEmpty \/ LeaveTenant
  <2>1. /\ NextTenant /\ UNCHANGED <<queue, counters, dispatched, needsFunding>>
        /\ pc \in {"visit", "serve"} /\ visits < N /\ HeldBack(cursor)
    BY <1>3, <1>a DEF SkipEmpty, LeaveTenant, Visiting, books, current, HeldBack, tenantFits, head
  <2>2. \A t \in Tenants : HeldBack(t)' <=> HeldBack(t)
    BY <1>0, <2>1 DEF HeldBack
  <2>3. \A t \in Tenants : Visited(t)' => Visited(t) \/ t = cursor
    BY <2>1, VisitedFacts DEF NextTenant
  <2> QED
    BY <2>1, <2>2, <2>3 DEF WorkInv, SweepKeeps, NextTenant
<1>4. CASE OpenVisit
  <2>1. /\ pc = "visit" /\ pc' = "serve"
        /\ UNCHANGED <<queue, counters, cursor, visits, dispatched, needsFunding>>
    BY <1>4 DEF OpenVisit, Visiting, books
  <2> QED
    BY <1>0, <2>1 DEF WorkInv, SweepKeeps, Visited, HeldBack
<1>5. CASE NotFunded
  BY <1>5 DEF NotFunded, NextTenant, WorkInv, SweepKeeps
<1>6. CASE Barrier
  <2>1. /\ LeavePump /\ UNCHANGED <<queue, counters, deficit, cursor>>
        /\ queue[cursor] # <<>> /\ tenantFits /\ funded /\ ~globalFits
    BY <1>6 DEF Barrier, Servable, books, drr, current
  <2> QED
    BY <1>0, <1>b, <2>1
       DEF WorkInv, SweepKeeps, NothingUsable, tenantFits, funded, globalFits, head
<1>7. CASE Serve
  <2>1. CASE saturated(counters')
    BY <1>7, <1>b, <2>1 DEF Serve, WorkInv, SweepKeeps, NothingUsable, saturated
  <2>2. CASE ~saturated(counters')
    <3>1. dispatched' /\ pc' \in {"visit", "serve"}
      BY <1>7, <2>2 DEF Serve, Servable, NextTenant
    <3> QED
      BY <3>1 DEF WorkInv, SweepKeeps
  <2> QED
    BY <2>1, <2>2
<1>8. CASE EndSweep
  <2>1. pc = "visit" /\ visits = N /\ UNCHANGED <<queue, counters>>
    BY <1>8 DEF EndSweep, books
  <2>2. CASE sweepAgain
    <3>1. pc' = "visit" /\ visits' = 0 /\ cursor' = cursor
      BY <1>8, <2>1, <2>2 DEF EndSweep, sweepAgain
    <3>2. \A t \in Tenants : ~Visited(t)'
      BY <1>0, <3>1, ConfigAssumption DEF Visited, Tenants
    <3> QED
      BY <3>1, <3>2 DEF WorkInv, SweepKeeps
  <2>3. CASE ~sweepAgain
    <3>1. pc' = "notify" /\ visits' = 0 /\ ~dispatched' /\ ~needsFunding'
      BY <1>8, <1>b, <2>3 DEF EndSweep
    <3>2. CASE counters[Global].queuedCount = 0
      BY <2>1, <3>1, <3>2, CountZero DEF WorkInv, SweepKeeps, NothingUsable
    <3>3. CASE ~dispatched /\ ~needsFunding
      <4>1. \A t \in Tenants : HeldBack(t)
        BY <2>1, <3>3, VisitedFacts DEF WorkInv, SweepKeeps
      <4>2. \A t \in Tenants : HeldBack(t)'
        BY <1>0, <2>1, <4>1 DEF HeldBack
      <4> QED
        BY <3>1, <4>2 DEF WorkInv, SweepKeeps, NothingUsable
    <3> QED
      BY <2>3, <3>2, <3>3 DEF sweepAgain
  <2> QED
    BY <2>2, <2>3
<1> QED
  BY <1>1, <1>2, <1>3, <1>4, <1>5, <1>6, <1>7, <1>8 DEF Pump

(* WorkInv is inductive; a handler always leads back to the pump. *)
LEMMA WorkStep ==
  ASSUME IInv, WorkInv, [Next]_vars
  PROVE  WorkInv'
<1>1. CASE UNCHANGED vars \/ Stopped
  BY <1>1, WorkSame DEF vars, outside, owner, Stopped, books, drr, sweep
<1>2. CASE Tick \/ \E r \in Requests : CtxDone(r)
  BY <1>2, WorkSame DEF Tick, CtxDone, owner, books, drr, sweep
<1>3. ASSUME NEW o \in Requests, Acquire(o) PROVE WorkInv'
  <2>1. \A r \in expiry : r # o /\ r \in Requests
    BY <1>3, EntryFacts DEF Acquire, IInv, DataInv, BooksAgree, LoopInv, Control
  <2>2. \A r \in expiry : admission'[r] = admission[r]
    BY <1>3, <2>1 DEF Acquire, IInv, DataInv, TypeData
  <2> QED
    BY <1>3, <2>2, WorkSame DEF Acquire, owner, books, drr, sweep
<1>4. CASE (\E c \in Commands : Receive(c)) \/ TimerFires
  <2>1. pc = "select" /\ pc' = "busy" /\ UNCHANGED sweep
    BY <1>4 DEF Receive, TimerFires, WakeUp
  <2> QED
    BY <2>1 DEF WorkInv, SweepKeeps, sweep
<1>5. CASE Handle
  <2>1. /\ pc \in {"busy", "drain", "force"} /\ UNCHANGED sweep
        /\ pc' \in {"busy", "drain", "force", "pump", "stopped", "panicked"}
    BY <1>5 DEF Handle, NothingToHandle, BeginDrain, DrainDone, ForceCancelInflight, Stop,
                ExpireReady, Refuse, Enqueue, CancelQueued, CancelOther, FinishEntry,
                DrainNext, Handling, Handled
  <2> QED
    BY <2>1 DEF WorkInv, SweepKeeps, sweep
<1>6. CASE Pump
  BY <1>6, WorkPump
<1>7. CASE Notify
  <2>1. /\ UNCHANGED <<admission, queue, counters, deficit, cursor, visits, dispatched, needsFunding>>
        /\ pc = "notify" /\ pc' = "select"
    BY <1>7 DEF Notify, outside, books, drr, sweep
  <2>2. NothingUsable'
    BY <2>1 DEF WorkInv, NothingUsable, HeldBack, tenantFits, funded, globalFits, head
  <2> QED
    BY <2>1, <2>2 DEF WorkInv, SweepKeeps
<1> QED
  BY <1>1, <1>2, <1>3, <1>4, <1>5, <1>6, <1>7 DEF Next, Run, Outside

(* When the owner waits, no capacity is idle that a queued request could    *)
(* use: the loop of pump ends for one of the four reasons only, and none of *)
(* them is undone before the owner selects again.                           *)
THEOREM PumpConserves == Spec => []WorkConserving
<1>1. Init => WorkInv
  BY DEF Init, WorkInv, SweepKeeps, NothingUsable
<1>2. IInv /\ WorkInv /\ [Next]_vars => WorkInv'
  BY WorkStep
<1>3. WorkInv => WorkConserving
  BY DEF WorkInv, NothingUsable, HeldBack, WorkConserving
<1> QED
  BY <1>1, <1>2, <1>3, Invariance, PTL DEF Spec

-----------------------------------------------------------------------------
(* The quanta a tenant needs at most before any head of it is funded *)
leastQuantum == CHOOSE q \in {Quantum[t] : t \in Tenants} : \A t \in Tenants : q <= Quantum[t]

(* Quanta after which a tenant with credit d can pay for any request *)
Rounds(d) ==
  IF d >= MaxRequestUnits THEN 0 ELSE 1 + ((MaxRequestUnits - 1 - d) \div leastQuantum)

(* Quanta that the tenants with something queued may still be granted *)
owed == [t \in Tenants |-> IF queue[t] = <<>> THEN 0 ELSE Rounds(deficit[t])]

(* While a pump runs, a grant takes one off what is owed, and only a started*)
(* request, which uses up its tenant's credit, can put Rounds(0) back. A    *)
(* pump starts with at most Rounds(0) for each tenant and starts no more    *)
(* than the global limit lets it.                                           *)
FundInv ==
  IF pc \in {"visit", "serve"}
  THEN /\ counters[Global].inflightCount < InflightLimits[Global].count
       /\ fundings + Weigh(Tenants, owed) <= Rounds(0) * (N + counters[Global].inflightCount)
  ELSE fundings = 0

(* The least quantum is one of the tenants' and positive. *)
LEMMA LeastQuantum ==
  leastQuantum \in Nat \ {0} /\ \A t \in Tenants : leastQuantum <= Quantum[t]
<1> DEFINE T == {Quantum[t] : t \in Tenants}
<1>1. Quantum \in [Tenants -> Nat \ {0}] /\ 1 \in Tenants
  BY ConfigAssumption DEF Tenants
<1>2. T \in SUBSET Nat /\ T # {}
  BY <1>1
<1>3. \E q \in T : \A y \in T : q <= y
  BY <1>2, NatLeast
<1>4. \E q \in T : \A t \in Tenants : q <= Quantum[t]
  BY <1>3
<1>5. leastQuantum \in T /\ \A t \in Tenants : leastQuantum <= Quantum[t]
  BY <1>4 DEF leastQuantum
<1> QED
  BY <1>1, <1>5

(* Division rounds down: it is monotone, and a whole divisor less takes one off. *)
LEMMA DivStep ==
  ASSUME NEW q \in Nat \ {0}, NEW x \in Nat, NEW y \in Nat, x + q <= y
  PROVE  x \div q \in Nat /\ (x \div q) + 1 <= y \div q
BY Z3

LEMMA DivMonotone ==
  ASSUME NEW q \in Nat \ {0}, NEW x \in Nat, NEW y \in Nat, x <= y
  PROVE  x \div q \in Nat /\ y \div q \in Nat /\ x \div q <= y \div q
BY Z3

(* Rounds falls as credit grows, is at most Rounds(0), and a quantum granted*)
(* to a tenant that cannot pay takes one off.                               *)
LEMMA RoundsFacts ==
  /\ \A d \in Nat : Rounds(d) \in Nat /\ Rounds(d) <= Rounds(0)
  /\ \A d \in Nat, t \in Tenants : d < MaxRequestUnits => Rounds(d + Quantum[t]) + 1 <= Rounds(d)
<1>1. MaxRequestUnits \in Nat \ {0} /\ \A t \in Tenants : Quantum[t] \in Nat \ {0}
  BY ConfigAssumption
<1>2. leastQuantum \in Nat \ {0} /\ \A t \in Tenants : leastQuantum <= Quantum[t]
  BY LeastQuantum
<1>3. ASSUME NEW d \in Nat PROVE Rounds(d) \in Nat /\ Rounds(d) <= Rounds(0)
  <2>1. CASE d < MaxRequestUnits
    <3>1. /\ MaxRequestUnits - 1 - d \in Nat /\ MaxRequestUnits - 1 - 0 \in Nat
          /\ MaxRequestUnits - 1 - d <= MaxRequestUnits - 1 - 0
      BY <1>1, <2>1
    <3>2. /\ (MaxRequestUnits - 1 - d) \div leastQuantum \in Nat
          /\ (MaxRequestUnits - 1 - d) \div leastQuantum
               <= (MaxRequestUnits - 1 - 0) \div leastQuantum
          /\ (MaxRequestUnits - 1 - 0) \div leastQuantum \in Nat
      BY <1>2, <3>1, DivMonotone
    <3>3. /\ Rounds(d) = 1 + ((MaxRequestUnits - 1 - d) \div leastQuantum)
          /\ Rounds(0) = 1 + ((MaxRequestUnits - 1 - 0) \div leastQuantum)
      BY <1>1, <2>1 DEF Rounds
    <3> QED
      BY <3>2, <3>3
  <2>2. CASE d >= MaxRequestUnits
    <3>1. MaxRequestUnits - 1 - 0 \in Nat
      BY <1>1
    <3>2. (MaxRequestUnits - 1 - 0) \div leastQuantum \in Nat
      BY <1>2, <3>1, DivMonotone
    <3>3. Rounds(d) = 0 /\ Rounds(0) = 1 + ((MaxRequestUnits - 1 - 0) \div leastQuantum)
      BY <1>1, <2>2 DEF Rounds
    <3> QED
      BY <3>2, <3>3
  <2> QED
    BY <1>1, <2>1, <2>2
<1>4. ASSUME NEW d \in Nat, NEW t \in Tenants, d < MaxRequestUnits
      PROVE  Rounds(d + Quantum[t]) + 1 <= Rounds(d)
  <2> DEFINE x == MaxRequestUnits - 1 - (d + Quantum[t])
             y == MaxRequestUnits - 1 - d
  <2>1. y \in Nat /\ Quantum[t] \in Nat /\ d + Quantum[t] \in Nat
    BY <1>1, <1>4
  <2>2. Rounds(d) = 1 + (y \div leastQuantum) /\ y \div leastQuantum \in Nat
    <3>1. y <= y
      BY <2>1
    <3>2. y \div leastQuantum \in Nat
      BY <1>2, <2>1, <3>1, DivMonotone
    <3>3. ~(d >= MaxRequestUnits)
      BY <1>1, <1>4
    <3> QED
      BY <3>2, <3>3 DEF Rounds
  <2>3. CASE d + Quantum[t] >= MaxRequestUnits
    BY <2>2, <2>3 DEF Rounds
  <2>4. CASE d + Quantum[t] < MaxRequestUnits
    <3>1. x \in Nat /\ x + leastQuantum <= y
      BY <1>1, <1>2, <2>1, <2>4
    <3>2. x \div leastQuantum \in Nat /\ (x \div leastQuantum) + 1 <= y \div leastQuantum
      BY <1>2, <2>1, <3>1, DivStep
    <3>3. Rounds(d + Quantum[t]) = 1 + (x \div leastQuantum)
      BY <1>1, <2>1, <2>4 DEF Rounds
    <3> QED
      BY <2>2, <3>2, <3>3
  <2> QED
    BY <1>1, <2>1, <2>3, <2>4
<1> QED
  BY <1>3, <1>4

(* One more request makes room for one more round of quanta. *)
LEMMA MoreRounds ==
  \A R, n, c \in Nat : R * (n + c) \in Nat /\ R * (n + (c + 1)) = R * (n + c) + R
OBVIOUS

(* A step of the pump at one tenant: it takes a quantum off what that       *)
(* tenant is owed, or it starts one more request.                           *)
LEMMA FundTenant ==
  ASSUME IInv, IInv', FundInv, NEW t \in Tenants,
         pc \in {"visit", "serve"}, pc' \in {"visit", "serve"},
         \A u \in Tenants \ {t} : owed'[u] = owed[u],
         counters'[Global].inflightCount < InflightLimits[Global].count,
         \/ /\ counters'[Global].inflightCount = counters[Global].inflightCount
            /\ fundings' + owed'[t] <= fundings + owed[t]
         \/ /\ counters'[Global].inflightCount = counters[Global].inflightCount + 1
            /\ fundings' = fundings
  PROVE  FundInv'
<1> DEFINE R == Rounds(0)
           c == counters[Global].inflightCount
           w == Weigh(Tenants, owed)
           v == Weigh(Tenants, owed')
<1>1. N \in Nat /\ Global \in Scopes
  BY ConfigAssumption DEF Global, Scopes
<1>2. IsFiniteSet(Tenants)
  BY <1>1, FS_Interval DEF Tenants
<1>3. R \in Nat
  BY RoundsFacts
<1>4. c \in Nat /\ fundings \in Nat /\ fundings' \in Nat
  BY <1>1 DEF IInv, DataInv, TypeData, LoopInv, TypeLoop, Counters
<1>5. \A u \in Tenants : owed[u] \in Nat /\ owed'[u] \in Nat /\ owed'[u] <= R
  <2>1. deficit \in [Tenants -> Nat] /\ deficit' \in [Tenants -> Nat]
    BY DEF IInv, DataInv, TypeData
  <2> QED
    BY <2>1, RoundsFacts DEF owed
<1>6. w \in Nat /\ v \in Nat /\ v + owed[t] = w + owed'[t]
  BY <1>2, <1>5, WeighChange
<1>7. fundings + w <= R * (N + c)
  BY DEF FundInv
<1>8. owed[t] \in Nat /\ owed'[t] \in Nat /\ owed'[t] <= R
  BY <1>5
<1> HIDE DEF R, c, w, v
<1>9. /\ fundings' + owed'[t] <= fundings + owed[t] => fundings' + v <= R * (N + c)
      /\ fundings' = fundings => fundings' + v <= R * (N + (c + 1))
  <2>1. PICK P \in Nat : P = R * (N + c) /\ R * (N + (c + 1)) = P + R
    <3>1. R * (N + c) \in Nat /\ R * (N + (c + 1)) = R * (N + c) + R
      BY <1>1, <1>3, <1>4, MoreRounds, Zenon
    <3> QED
      BY <3>1, Zenon
  <2>2. fundings + w <= P
    BY <1>7, <2>1
  <2>3. /\ fundings' + owed'[t] <= fundings + owed[t] => fundings' + v <= P
        /\ fundings' = fundings => fundings' + v <= P + R
    <3>1. PICK o, p \in Nat : o = owed[t] /\ p = owed'[t]
      BY <1>8, Zenon
    <3>2. p <= R /\ v + o = w + p
      BY <1>6, <1>8, <3>1, Zenon
    <3>3. w \in Nat /\ v \in Nat
      BY <1>6, Zenon
    <3>4. /\ fundings' + p <= fundings + o => fundings' + v <= P
          /\ fundings' = fundings => fundings' + v <= P + R
      <4>1. PICK f, g \in Nat : f = fundings /\ g = fundings'
        BY <1>4, Zenon
      <4>2. PICK ww, vv, RR \in Nat : ww = w /\ vv = v /\ RR = R
        BY <1>3, <3>3, Zenon
      <4>3. p <= RR /\ vv + o = ww + p /\ f + ww <= P
        BY <2>2, <3>2, <4>1, <4>2, Zenon
      <4>4. /\ g + p <= f + o => g + vv <= P
            /\ g = f => g + vv <= P + RR
        BY <4>3
      <4> QED
        BY <4>1, <4>2, <4>4, Zenon
    <3> QED
      BY <3>1, <3>4, Zenon
  <2> QED
    BY <2>1, <2>3, Zenon
<1>10. fundings' + v <= R * (N + counters'[Global].inflightCount)
  BY <1>9 DEF c
<1> QED
  BY <1>10 DEF FundInv, R, v

(* Steps that change neither what is owed nor what was granted *)
LEMMA FundSame ==
  ASSUME FundInv, UNCHANGED <<queue, deficit, counters, fundings>>,
         pc' \in {"visit", "serve"} <=> pc \in {"visit", "serve"}
  PROVE  FundInv'
<1>1. owed' = owed
  BY DEF owed
<1> QED
  BY <1>1 DEF FundInv

(* Every step of the pump keeps FundInv. *)
LEMMA FundPump ==
  ASSUME IInv, IInv', FundInv, Pump
  PROVE  FundInv'
<1>1. /\ N \in Nat \ {0} /\ Global \in Scopes /\ cursor \in Tenants
      /\ InflightLimits[Global].count \in Nat
      /\ counters[Global].inflightCount \in Nat /\ counters'[Global].inflightCount \in Nat
      /\ counters[Global].inflightCount <= InflightLimits[Global].count
      /\ counters'[Global].inflightCount <= InflightLimits[Global].count
  <2>1. N \in Nat \ {0} /\ InflightLimits \in [Scopes -> [count : Nat, work : Nat]]
    BY ConfigAssumption
  <2>2. Global \in Scopes
    BY <2>1 DEF Global, Scopes
  <2> QED
    BY <2>1, <2>2, CursorTypes DEF IInv, DataInv, TypeData, LimitsHold, Counters
<1>2. /\ deficit \in [Tenants -> Nat] /\ queue \in [Tenants -> Seq(Requests)] /\ fundings \in Nat
      /\ deficit' \in [Tenants -> Nat]
  BY DEF IInv, DataInv, TypeData, LoopInv, TypeLoop
<1>3. CASE EnterPump
  <2>1. pc = "pump" /\ fundings = 0 /\ UNCHANGED <<queue, deficit, counters, fundings>>
    BY <1>3 DEF EnterPump, FundInv, sweep, books, drr
  <2>2. CASE pc' = "notify"
    BY <2>1, <2>2, FundSame
  <2>3. CASE pc' = "visit"
    <3>1. counters[Global].inflightCount < InflightLimits[Global].count
      BY <1>1, <1>3, <2>3 DEF EnterPump, saturated
    <3>2. /\ Weigh(Tenants, owed) \in Nat
          /\ Weigh(Tenants, owed) <= Cardinality(Tenants) * Rounds(0)
      <4>1. \A t \in Tenants : owed[t] \in 0..Rounds(0)
        BY <1>2, RoundsFacts DEF owed
      <4>2. IsFiniteSet(Tenants) /\ Rounds(0) \in Nat
        BY <1>1, FS_Interval, RoundsFacts DEF Tenants
      <4> QED
        BY <4>1, <4>2, WeighBound
    <3>3. Cardinality(Tenants) = N /\ Rounds(0) \in Nat
      BY <1>1, FS_Interval, RoundsFacts DEF Tenants
    <3>4. N * Rounds(0) <= Rounds(0) * (N + counters[Global].inflightCount)
      BY <1>1, <3>3
    <3>5. Weigh(Tenants, owed) <= N * Rounds(0)
      BY <3>2, <3>3
    <3>6. Weigh(Tenants, owed) <= Rounds(0) * (N + counters[Global].inflightCount)
      <4>1. N * Rounds(0) \in Nat /\ Rounds(0) * (N + counters[Global].inflightCount) \in Nat
        BY <1>1, <3>3
      <4> QED
        BY <3>2, <3>4, <3>5, <4>1
    <3>7. owed' = owed
      BY <2>1 DEF owed
    <3>8. fundings' + Weigh(Tenants, owed) <= Rounds(0) * (N + counters[Global].inflightCount)
      BY <2>1, <3>2, <3>6
    <3> QED
      BY <2>1, <2>3, <3>1, <3>7, <3>8 DEF FundInv
  <2> QED
    BY <1>3, <2>2, <2>3 DEF EnterPump
<1>4. CASE LeaveTenant \/ NotFunded
  <2>1. UNCHANGED <<queue, deficit, counters, fundings>> /\ pc = "serve" /\ pc' = "visit"
    BY <1>4 DEF LeaveTenant, NotFunded, NextTenant, books
  <2> QED
    BY <2>1, FundSame
<1>5. ASSUME pc' = "notify", fundings' = 0 PROVE FundInv'
  BY <1>5 DEF FundInv
<1>6. CASE Barrier
  BY <1>5, <1>6 DEF Barrier, LeavePump
<1>7. CASE SkipEmpty
  <2>1. /\ pc = "visit" /\ pc' = "visit" /\ queue[cursor] = <<>>
        /\ UNCHANGED <<queue, counters, fundings>>
        /\ deficit' = [deficit EXCEPT ![cursor] = 0]
    BY <1>7 DEF SkipEmpty, Visiting, NextTenant, books, current
  <2>2. owed' = owed
    BY <1>2, <2>1 DEF owed
  <2> QED
    BY <2>1, <2>2 DEF FundInv
<1>8. CASE OpenVisit
  <2>1. /\ pc = "visit" /\ pc' = "serve" /\ queue[cursor] # <<>> /\ UNCHANGED <<queue, counters>>
    BY <1>8 DEF OpenVisit, Visiting, books, current
  <2>2. CASE visitOpen[cursor]
    BY <1>8, <2>1, <2>2, FundSame DEF OpenVisit
  <2>3. CASE ~visitOpen[cursor]
    <3>1. /\ deficit' = [deficit EXCEPT ![cursor] = boundedAdd(@, Quantum[cursor], DeficitCap)]
          /\ fundings' = fundings + 1
      BY <1>8, <2>3 DEF OpenVisit
    <3>2. deficit[cursor] \in Nat /\ deficit[cursor] < MaxRequestUnits
      BY <1>1, <1>2, <2>3 DEF IInv, DataInv, CreditBounded
    <3>3. boundedAdd(deficit[cursor], Quantum[cursor], DeficitCap) = deficit[cursor] + Quantum[cursor]
      <4>1. /\ MaxRequestUnits \in Nat \ {0} /\ DeficitCap \in Nat /\ Quantum[cursor] \in Nat \ {0}
            /\ DeficitCap >= MaxRequestUnits - 1 + Quantum[cursor]
        BY <1>1, ConfigAssumption
      <4> QED
        BY <3>2, <4>1 DEF boundedAdd
    <3>4. owed'[cursor] + 1 <= owed[cursor]
      BY <1>1, <1>2, <2>1, <3>1, <3>2, <3>3, RoundsFacts DEF owed
    <3>5. \A u \in Tenants \ {cursor} : owed'[u] = owed[u]
      BY <1>2, <2>1, <3>1 DEF owed
    <3>6. owed[cursor] \in Nat /\ owed'[cursor] \in Nat
      BY <1>1, <1>2, RoundsFacts DEF owed
    <3>7. fundings' + owed'[cursor] <= fundings + owed[cursor]
      BY <1>2, <3>1, <3>4, <3>6
    <3>8. counters'[Global].inflightCount < InflightLimits[Global].count
      BY <2>1 DEF FundInv
    <3> QED
      BY <1>1, <2>1, <3>5, <3>7, <3>8, FundTenant
  <2> QED
    BY <2>2, <2>3
<1>9. CASE DropHead
  <2>1. /\ current # <<>> /\ UNCHANGED <<pc, fundings>> /\ pc \in {"visit", "serve"}
        /\ queue' = [queue EXCEPT ![tenantOf(head)] = Without(@, head)]
        /\ deficit' = [deficit EXCEPT ![tenantOf(head)] = IF empties(head) THEN 0 ELSE @]
        /\ counters' = removeQueuedFrom(counters, admission[head])
    BY <1>9 DEF DropHead, Visiting, Drop, removeQueued, creditAfter, sweep
  <2>2. head \in expiry /\ tenantOf(head) = cursor
    BY <2>1, CursorHead
  <2>3. /\ queue'[cursor] = <<>> <=> empties(head)
        /\ \A u \in Tenants \ {cursor} : queue'[u] = queue[u]
    BY <2>1, <2>2, QueueWithout DEF IInv
  <2>4. counters'[Global].inflightCount = counters[Global].inflightCount
    BY <1>1, <2>1, <2>2, CountersWithout DEF IInv
  <2>5. \A u \in Tenants \ {cursor} : owed'[u] = owed[u]
    BY <1>2, <2>1, <2>2, <2>3 DEF owed
  <2>6. owed[cursor] \in Nat /\ owed'[cursor] \in Nat /\ owed'[cursor] <= owed[cursor]
    <3>1. owed[cursor] = Rounds(deficit[cursor]) /\ Rounds(deficit[cursor]) \in Nat
      BY <1>1, <1>2, <2>1, RoundsFacts DEF owed, current
    <3>2. owed'[cursor] = IF empties(head) THEN 0 ELSE Rounds(deficit[cursor])
      BY <1>1, <1>2, <2>1, <2>2, <2>3 DEF owed
    <3> QED
      BY <3>1, <3>2
  <2>7. fundings' + owed'[cursor] <= fundings + owed[cursor]
    BY <1>2, <2>1, <2>6
  <2>8. counters'[Global].inflightCount < InflightLimits[Global].count
    BY <2>1, <2>4 DEF FundInv
  <2> QED
    BY <1>1, <2>1, <2>4, <2>5, <2>7, <2>8, FundTenant
<1>10. CASE Serve
  <2>1. CASE saturated(counters')
    BY <1>5, <1>10, <2>1 DEF Serve, LeavePump
  <2>2. CASE ~saturated(counters')
    <3>1. /\ current # <<>> /\ fundings' = fundings /\ pc = "serve" /\ pc' \in {"visit", "serve"}
          /\ queue' = [queue EXCEPT ![tenantOf(head)] = Without(@, head)]
          /\ \E d : deficit' = [deficit EXCEPT ![tenantOf(head)] = d]
          /\ counters' = addInflight(removeQueuedFrom(counters, admission[head]), admission[head])
          /\ tenantFits /\ globalFits
      BY <1>10, <2>2 DEF Serve, Servable, NextTenant, dispatch, removeQueued
    <3>2. head \in expiry /\ tenantOf(head) = cursor
      BY <3>1, CursorHead
    <3>3. \A u \in Tenants \ {cursor} : queue'[u] = queue[u] /\ deficit'[u] = deficit[u]
      BY <1>2, <3>1, <3>2, QueueWithout DEF IInv
    <3>4. \A u \in Tenants \ {cursor} : owed'[u] = owed[u]
      BY <3>3 DEF owed
    <3>5. counters'[Global].inflightCount = counters[Global].inflightCount + 1
      <4>1. counters'[Global].inflightCount = Cardinality(Charged(Global, inflight \cup {head}))
        <5>1. \A s \in {Global, tenantOf(head)} :
                inflightFits(counters[s], admission[head], InflightLimits[s])
          BY <3>1, <3>2 DEF tenantFits, globalFits
        <5> QED
          BY <1>1, <3>1, <3>2, <5>1, CountersDispatched DEF IInv
      <4>2. head \notin inflight /\ head \in Requests /\ inflight \in SUBSET Requests /\ TypeData
        BY <3>2 DEF IInv, DataInv, BooksAgree, TypeData
      <4>3. Charges(admission[head], Global)
        BY DEF Charges
      <4>4. Cardinality(Charged(Global, inflight \cup {head})) = Cardinality(Charged(Global, inflight)) + 1
        BY <1>1, <4>2, <4>3, AccountAdd
      <4> QED
        BY <1>1, <4>1, <4>4 DEF IInv, DataInv, AccountingExact
    <3>6. counters'[Global].inflightCount < InflightLimits[Global].count
      BY <1>1, <2>2 DEF saturated
    <3> QED
      BY <1>1, <3>1, <3>4, <3>5, <3>6, FundTenant
  <2> QED
    BY <2>1, <2>2
<1>11. CASE EndSweep
  <2>1. CASE sweepAgain
    BY <1>11, <2>1, FundSame DEF EndSweep, books
  <2>2. CASE ~sweepAgain
    BY <1>5, <1>11, <2>2 DEF EndSweep, LeavePump
  <2> QED
    BY <2>1, <2>2
<1> QED
  BY <1>3, <1>4, <1>6, <1>7, <1>8, <1>9, <1>10, <1>11 DEF Pump

(* FundInv is inductive: fundings is counted from zero in every pump. *)
LEMMA FundStep ==
  ASSUME IInv, FundInv, [Next]_vars
  PROVE  FundInv'
<1>0. IInv'
  BY StepInv
<1>1. CASE UNCHANGED vars \/ Stopped
  BY <1>1, FundSame DEF vars, owner, Stopped, books, drr, sweep
<1>2. CASE Outside
  BY <1>2, FundSame DEF Outside, Tick, CtxDone, Acquire, owner, books, drr, sweep
<1>3. CASE (\E c \in Commands : Receive(c)) \/ TimerFires
  BY <1>3, FundSame DEF Receive, TimerFires, WakeUp, books, drr, sweep
<1>4. CASE Handle
  <2>1. /\ pc \in {"busy", "drain", "force"} /\ UNCHANGED sweep
        /\ pc' \in {"busy", "drain", "force", "pump", "stopped", "panicked"}
    BY <1>4 DEF Handle, NothingToHandle, BeginDrain, DrainDone, ForceCancelInflight, Stop,
                ExpireReady, Refuse, Enqueue, CancelQueued, CancelOther, FinishEntry,
                DrainNext, Handling, Handled
  <2> QED
    BY <2>1 DEF FundInv, sweep
<1>5. CASE Pump
  BY <1>0, <1>5, FundPump
<1>6. CASE Notify
  BY <1>6, FundSame DEF Notify, books, drr, sweep
<1> QED
  BY <1>1, <1>2, <1>3, <1>4, <1>5, <1>6 DEF Next, Run

(* With one request fewer than the limit running, the sum FundInv bounds by *)
(* is within the product of validateConfig.                                 *)
LEMMA ProductBound ==
  ASSUME NEW n \in Nat \ {0}, NEW l \in Nat, NEW r \in Nat, NEW c \in Nat, c < l
  PROVE  r * (n + c) \in Nat /\ r * (n + c) <= r * n * l
OBVIOUS

(* FundInv gives the bound that validateConfig checks. *)
LEMMA FundBound ==
  ASSUME IInv, FundInv
  PROVE  FundingBounded
<1> DEFINE R == Rounds(0)
           c == counters[Global].inflightCount
           L == InflightLimits[Global].count
           w == Weigh(Tenants, owed)
<1>1. N \in Nat \ {0} /\ MaxRequestUnits \in Nat \ {0}
      /\ InflightLimits \in [Scopes -> [count : Nat, work : Nat]]
  BY ConfigAssumption
<1>2. Global \in Scopes
  BY <1>1 DEF Global, Scopes
<1>3. c \in Nat /\ L \in Nat /\ fundings \in Nat
  BY <1>1, <1>2 DEF IInv, DataInv, TypeData, LoopInv, TypeLoop, Counters
<1>4. R \in Nat /\ R = 1 + (MaxRequestUnits - 1) \div leastQuantum
  BY <1>1, RoundsFacts DEF Rounds
<1>5. w \in Nat
  <2>1. IsFiniteSet(Tenants)
    BY <1>1, FS_Interval DEF Tenants
  <2>2. \A t \in Tenants : owed[t] \in Nat
    BY RoundsFacts DEF IInv, DataInv, TypeData, owed
  <2> QED
    BY <2>1, <2>2, TokensFinite
<1> SUFFICES fundings <= R * N * L
  BY <1>4 DEF FundingBounded, leastQuantum
<1> HIDE DEF R, c, L, w
<1>6. CASE pc \in {"visit", "serve"}
  <2>1. c < L /\ fundings + w <= R * (N + c)
    BY <1>6 DEF FundInv, R, c, L, w
  <2>2. R * (N + c) \in Nat /\ R * (N + c) <= R * N * L
    BY <1>1, <1>3, <1>4, <2>1, ProductBound
  <2>3. R * N * L \in Nat
    BY <1>1, <1>3, <1>4
  <2> QED
    BY <1>3, <1>5, <2>1, <2>2, <2>3
<1>7. CASE pc \notin {"visit", "serve"}
  <2>1. fundings = 0 /\ R * N * L \in Nat
    BY <1>1, <1>3, <1>4, <1>7 DEF FundInv
  <2> QED
    BY <2>1
<1> QED
  BY <1>6, <1>7

(* One pump does neither too little nor too much: it conserves work, and the*)
(* quanta it grants stay within the product that validateConfig (config.go) *)
(* bounds by maxFundingVisits, for every number of tenants and any quanta.  *)
THEOREM PumpIsExact == Spec => []PumpExact
<1>1. Init => FundInv
  BY DEF Init, FundInv
<1>2. IInv /\ FundInv /\ [Next]_vars => FundInv'
  BY FundStep
<1>3. IInv /\ FundInv => FundingBounded
  BY FundBound
<1>4. WorkConserving /\ FundingBounded <=> PumpExact
  BY DEF PumpExact
<1> QED
  BY <1>1, <1>2, <1>3, <1>4, Invariance, PumpConserves, PTL DEF Spec

-----------------------------------------------------------------------------
(* What the contract sees of a request the owner holds, or has not met *)
LEMMA StatusFacts ==
  ASSUME IInv, NEW r \in Requests
  PROVE  /\ statusOf(r) = "waiting" <=> r \in expiry
         /\ statusOf(r) = "serving" <=> r \in inflight
         /\ ~received(r) => statusOf(r) = "outside" /\ terminal[r] = "none" /\ phase[r] = "none"
         /\ r \in expiry => terminal[r] = "none"
<1>1. phase[r] \in {"none", "queued", "inflight"}
  BY DEF IInv, DataInv, TypeData
<1>2. <<>> # <<Dispatched>>
  <2>1. Len(<<Dispatched>>) = 1 /\ Len(<<>>) = 0
    OBVIOUS
  <2> QED
    BY <2>1
<1>3. /\ r \in expiry <=> phase[r] = "queued"
      /\ r \in inflight <=> phase[r] = "inflight"
      /\ r \in entries <=> phase[r] # "none"
  BY <1>1 DEF IInv, DataInv, BooksAgree
<1>4. result[r] = <<>> => terminal[r] = "none"
  BY <1>2 DEF IInv, DataInv, AnsweredOnce
<1>5. r \in expiry => result[r] = <<>>
  BY DEF IInv, DataInv, AnsweredOnce
<1> QED
  BY <1>1, <1>3, <1>4, <1>5 DEF statusOf, received

(* Those waiting and those served, as the contract counts them *)
LEMMA ContractSets ==
  ASSUME IInv, NEW s
  PROVE  /\ Contract!With("waiting", s) = Charged(s, expiry)
         /\ Contract!With("serving", s) = Charged(s, inflight)
         /\ Contract!Bytes = bodyBytes /\ Contract!Work = workUnits
<1>1. expiry \subseteq Requests /\ inflight \subseteq Requests
  BY DEF IInv, DataInv, TypeData
<1>2. \A r \in Requests : /\ statusOf(r) = "waiting" <=> r \in expiry
                          /\ statusOf(r) = "serving" <=> r \in inflight
  BY StatusFacts
<1>3. Contract!With("waiting", s) = Charged(s, expiry)
  BY <1>1, <1>2 DEF Contract!With, Charged, Contract!Charges, Charges, Contract!Global, Global
<1>4. Contract!With("serving", s) = Charged(s, inflight)
  BY <1>1, <1>2 DEF Contract!With, Charged, Contract!Charges, Charges, Contract!Global, Global
<1>5. Contract!Bytes = bodyBytes /\ Contract!Work = workUnits
  BY DEF Contract!Bytes, bodyBytes, Contract!Work, workUnits
<1> QED
  BY <1>3, <1>4, <1>5

(* The contract measures with the owner's yardsticks. *)
LEMMA ContractMeasures ==
  /\ \A S : Contract!Cardinality(S) = Cardinality(S)
  /\ \A S, f : Contract!Weigh(S, f) = Weigh(S, f)
<1>1. \A S : Contract!Cardinality(S) = Cardinality(S)
  BY DEF Contract!Cardinality, Cardinality
<1> QED
  BY <1>1 DEF Contract!Weigh, Weigh

(* One request moves and the rest stay. *)
LEMMA MovesOne ==
  ASSUME NEW r \in Requests, NEW st, statusOf(r)' = st,
         \A o \in Requests \ {r} : /\ phase'[o] = phase[o] /\ terminal'[o] = terminal[o]
                                   /\ result'[o] = result[o],
         UNCHANGED <<admission, accepting>>
  PROVE  Contract!Becomes(r, st)
<1>1. \A o \in Requests \ {r} : statusOf(o)' = statusOf(o)
  BY DEF statusOf
<1> QED
  BY <1>1 DEF Contract!Becomes

(* A step that touches neither phases, outcomes, answers nor admissions     *)
(* changes nothing the contract sees.                                       *)
LEMMA ContractStutters ==
  ASSUME UNCHANGED <<phase, terminal, result, admission, accepting>>
  PROVE  UNCHANGED Contract!contract
<1>1. \A o \in Requests : statusOf(o)' = statusOf(o)
  BY DEF statusOf
<1> QED
  BY <1>1 DEF Contract!contract

(* Whoever drops a queued request turns it away. *)
LEMMA DropTurnsAway ==
  ASSUME IInv, NEW r \in expiry, NEW d, Drop(r, d), UNCHANGED <<admission, accepting>>
  PROVE  Contract!TurnAway(r)
<1>1. /\ r \in Requests /\ result[r] = <<>> /\ terminal[r] = "none" /\ statusOf(r) = "waiting"
  <2>1. r \in entries
    BY DEF IInv, DataInv, BooksAgree
  <2> QED
    BY <2>1, EntryFacts, StatusFacts DEF IInv
<1>2. /\ phase' = [phase EXCEPT ![r] = "none"] /\ result' = [result EXCEPT ![r] = Append(@, d)]
      /\ terminal' = terminal
  BY DEF Drop, resolve
<1>3. phase'[r] = "none" /\ result'[r] = <<d>> /\ <<d>> # <<>>
  BY <1>1, <1>2 DEF IInv, DataInv, TypeData
<1>4. statusOf(r)' = "turnedAway"
  BY <1>1, <1>2, <1>3 DEF statusOf
<1>5. Contract!Becomes(r, "turnedAway")
  BY <1>1, <1>2, <1>4, MovesOne DEF IInv, DataInv, TypeData
<1> QED
  BY <1>1, <1>5 DEF Contract!TurnAway

(* A refused request is turned away. *)
LEMMA RefuseTurnsAway ==
  ASSUME IInv, NEW r \in Requests, Refuse(r), UNCHANGED admission
  PROVE  Contract!TurnAway(r)
<1>1. ~received(r)
  BY DEF Refuse, Handling, IInv, LoopInv, Control
<1>2. /\ result[r] = <<>> /\ terminal[r] = "none" /\ phase[r] = "none" /\ statusOf(r) = "outside"
  BY <1>1, StatusFacts DEF received
<1> DEFINE d == refusal(r)[1]
<1>3. /\ result' = [result EXCEPT ![r] = Append(@, d)] /\ UNCHANGED <<phase, terminal, accepting>>
  BY DEF Refuse, resolve
<1> HIDE DEF d
<1>4. result'[r] = <<d>> /\ <<d>> # <<>>
  BY <1>2, <1>3 DEF IInv, DataInv, TypeData
<1>5. statusOf(r)' = "turnedAway"
  BY <1>2, <1>3, <1>4 DEF statusOf
<1>6. Contract!Becomes(r, "turnedAway")
  BY <1>3, <1>5, MovesOne DEF IInv, DataInv, TypeData
<1> QED
  BY <1>2, <1>6 DEF Contract!TurnAway

(* An admitted request joins, within limits the contract computes from the  *)
(* requests that wait.                                                      *)
LEMMA EnqueueJoins ==
  ASSUME IInv, NEW r \in Requests, Enqueue(r), UNCHANGED admission
  PROVE  Contract!Join(r)
<1>1. ~received(r) /\ refusal(r) = <<>>
  BY DEF Enqueue, Handling, IInv, LoopInv, Control
<1>2. /\ result[r] = <<>> /\ terminal[r] = "none" /\ phase[r] = "none" /\ statusOf(r) = "outside"
      /\ r \notin expiry
  BY <1>1, StatusFacts DEF received
<1>3. /\ phase' = [phase EXCEPT ![r] = "queued"] /\ UNCHANGED <<result, terminal, accepting>>
  BY DEF Enqueue
<1>4. statusOf(r)' = "waiting"
  BY <1>3 DEF statusOf, IInv, DataInv, TypeData
<1>5. Contract!Becomes(r, "waiting")
  BY <1>3, <1>4, MovesOne DEF IInv, DataInv, TypeData
<1>6. /\ accepting
      /\ \A s \in {Global, tenantOf(r)} :
           queueLimitFailure(counters[s], admission[r], QueueLimits[s]) = "none"
  <2>1. \A d : <<d>> # <<>>
    OBVIOUS
  <2> QED
    BY <1>1, <2>1 DEF refusal, tenantOf
<1>7. ASSUME NEW s \in {Global, tenantOf(r)}
      PROVE  Contract!MayWait(Contract!With("waiting", s) \cup {r}, s)
  <2>1. s \in Scopes /\ Charges(admission[r], s)
    <3>1. Global \in Scopes
      BY ConfigAssumption DEF Global, Scopes
    <3>2. tenantOf(r) \in Scopes
      BY AdmissionTypes DEF IInv, DataInv, tenantOf
    <3> QED
      BY <3>1, <3>2 DEF Charges, tenantOf
  <2> DEFINE cs == addQueued(counters, admission[r])
  <2>2. /\ cs[s].queuedCount = Cardinality(Charged(s, expiry \cup {r}))
        /\ cs[s].queuedBytes = Weigh(Charged(s, expiry \cup {r}), bodyBytes)
        /\ cs[s].queuedWork = Weigh(Charged(s, expiry \cup {r}), workUnits)
        /\ cs[s].queuedCount <= QueueLimits[s].count
        /\ cs[s].queuedBytes <= QueueLimits[s].bytes
        /\ cs[s].queuedWork <= QueueLimits[s].work
    BY <1>2, <1>6, <2>1, CountersQueued DEF IInv
  <2> HIDE DEF cs
  <2>3. Charged(s, expiry \cup {r}) = Contract!With("waiting", s) \cup {r}
    BY <2>1, ContractSets DEF Charged
  <2> QED
    BY <2>2, <2>3, ContractSets, ContractMeasures DEF Contract!MayWait
<1> QED
  BY <1>2, <1>5, <1>6, <1>7 DEF Contract!Join, Contract!Global, Global, tenantOf

(* A dispatched request starts, within limits the contract computes from the*)
(* requests that are served.                                                *)
LEMMA ServeStarts ==
  ASSUME IInv, Serve, UNCHANGED <<admission, accepting>>
  PROVE  Contract!Start(head) /\ head \in Requests
<1>1. /\ pc = "serve" /\ current # <<>> /\ tenantFits /\ globalFits /\ dispatch(head)
  BY DEF Serve, Servable
<1>2. /\ head \in expiry /\ head \in Requests /\ tenantOf(head) = cursor
  BY <1>1, CursorHead
<1>3. accepting
  BY <1>1, <1>2 DEF IInv, LoopInv, Control
<1> DEFINE h == head
<1>4. PICK r \in Requests : r = h
  BY <1>2
<1>5. statusOf(r) = "waiting" /\ r \in expiry /\ terminal[r] = "none"
  BY <1>2, <1>4, StatusFacts
<1>6. /\ phase' = [phase EXCEPT ![r] = "inflight"] /\ terminal' = terminal
      /\ result' = [result EXCEPT ![r] = Append(@, Dispatched)]
  BY <1>1, <1>4 DEF dispatch, resolve
<1>7. statusOf(r)' = "serving"
  BY <1>6 DEF statusOf, IInv, DataInv, TypeData
<1>8. Contract!Becomes(r, "serving")
  BY <1>6, <1>7, MovesOne DEF IInv, DataInv, TypeData
<1>9. ASSUME NEW s \in {Global, tenantOf(r)}
      PROVE  Contract!MayServe(Contract!With("serving", s) \cup {r}, s)
  <2>1. s \in Scopes /\ Charges(admission[r], s)
    <3>1. Global \in Scopes
      BY ConfigAssumption DEF Global, Scopes
    <3>2. tenantOf(r) \in Scopes
      BY AdmissionTypes DEF IInv, DataInv, tenantOf
    <3> QED
      BY <3>1, <3>2 DEF Charges, tenantOf
  <2> DEFINE cs == addInflight(removeQueuedFrom(counters, admission[r]), admission[r])
  <2>2. \A u \in {Global, tenantOf(r)} : inflightFits(counters[u], admission[r], InflightLimits[u])
    BY <1>1, <1>2, <1>4 DEF tenantFits, globalFits
  <2>3. /\ cs[s].inflightCount = Cardinality(Charged(s, inflight \cup {r}))
        /\ cs[s].inflightWork = Weigh(Charged(s, inflight \cup {r}), workUnits)
        /\ cs[s].inflightCount <= InflightLimits[s].count
        /\ cs[s].inflightWork <= InflightLimits[s].work
    BY <1>5, <2>1, <2>2, CountersDispatched DEF IInv
  <2> HIDE DEF cs
  <2>4. Charged(s, inflight \cup {r}) = Contract!With("serving", s) \cup {r}
    BY <2>1, ContractSets DEF Charged
  <2> QED
    BY <2>3, <2>4, ContractSets, ContractMeasures DEF Contract!MayServe
<1>10. Contract!Start(r)
  BY <1>3, <1>5, <1>8, <1>9 DEF Contract!Start, Contract!Global, Global, tenantOf
<1> QED
  BY <1>2, <1>4, <1>10

(* A finish that finds its permit ends the service; any other changes       *)
(* nothing.                                                                 *)
LEMMA FinishFinishes ==
  ASSUME IInv, NEW r \in Requests, FinishEntry(r), UNCHANGED admission
  PROVE  Contract!Finish(r)
<1>1. cmd.op = "finish" /\ cmd.id = r /\ result[r] = <<Dispatched>> /\ terminal[r] = "none"
  BY DEF FinishEntry, Handling, IInv, LoopInv, Control
<1>2. r \in inflight /\ r \in entries /\ state[r] = "inflight" /\ phase[r] = "inflight"
  BY <1>1 DEF IInv, DataInv, AnsweredOnce, BooksAgree
<1> DEFINE c == IF cause[r] = "none" /\ ctxDone[r] THEN "client" ELSE cause[r]
<1>3. /\ terminal' = [terminal EXCEPT ![r] = terminalOutcome(c, cmd.outcome)]
      /\ phase' = [phase EXCEPT ![r] = "none"] /\ UNCHANGED <<result, accepting>>
  BY <1>2 DEF FinishEntry
<1>4. terminalOutcome(c, cmd.outcome) # "none"
  BY <1>1, CommandTypes, ClientAssumption DEF terminalOutcome, IInv, LoopInv
<1> HIDE DEF c
<1>5. statusOf(r)' = "finished"
  BY <1>3, <1>4 DEF statusOf, IInv, DataInv, TypeData
<1>6. Contract!Becomes(r, "finished")
  BY <1>3, <1>5, MovesOne DEF IInv, DataInv, TypeData
<1> QED
  BY <1>2, <1>6, StatusFacts DEF Contract!Finish

(* Acquire states what a request demands. *)
LEMMA AcquireAsks ==
  ASSUME IInv, NEW r \in Requests, Acquire(r)
  PROVE  Contract!Ask(r)
<1>1. ~received(r)
  BY DEF Acquire, IInv, LoopInv, Control
<1>2. statusOf(r) = "outside"
  BY <1>1, StatusFacts
<1>3. \E a \in Admission : admission' = [admission EXCEPT ![r] = a]
  BY ClientAssumption DEF Acquire
<1>4. UNCHANGED <<phase, terminal, result, accepting>>
  BY DEF Acquire, owner, marks
<1>5. \A o \in Requests : statusOf(o)' = statusOf(o)
  BY <1>4 DEF statusOf
<1> QED
  BY <1>2, <1>3, <1>4, <1>5 DEF Contract!Ask, Contract!Admission, Admission,
                                 Contract!Tenants, Tenants

(* Every step of the owner is one of the contract's, or a stutter. *)
LEMMA ContractStep ==
  ASSUME IInv, [Next]_vars
  PROVE  [Contract!CNext]_(Contract!contract)
<1> USE DEF Contract!CNext
<1>1. CASE UNCHANGED vars \/ Stopped
  BY <1>1, ContractStutters DEF Stopped, vars, outside, owner, marks
<1>2. CASE Tick \/ \E r \in Requests : CtxDone(r)
  BY <1>2, ContractStutters DEF Tick, CtxDone, owner, marks
<1>3. ASSUME NEW r \in Requests, Acquire(r) PROVE Contract!CNext
  BY <1>3, AcquireAsks
<1>4. CASE (\E c \in Commands : Receive(c)) \/ TimerFires
  BY <1>4, ContractStutters DEF Receive, TimerFires, WakeUp, outside, marks
<1>5. CASE Handle
  <2>0. UNCHANGED admission
    BY <1>5 DEF Handle, outside
  <2>1. CASE NothingToHandle \/ DrainDone \/ ForceCancelInflight \/ Stop
    BY <2>0, <2>1, ContractStutters
       DEF NothingToHandle, DrainDone, ForceCancelInflight, Stop, marks
  <2>2. CASE BeginDrain
    <3>1. UNCHANGED <<phase, terminal, result>> /\ accepting' = FALSE
      BY <2>2 DEF BeginDrain, marks
    <3>2. CASE accepting
      <4>1. \A o \in Requests : statusOf(o)' = statusOf(o)
        BY <3>1 DEF statusOf
      <4> QED
        BY <2>0, <3>1, <3>2, <4>1 DEF Contract!Shut
    <3>3. CASE ~accepting
      <4>1. accepting' = accepting
        BY <3>1, <3>3, Zenon DEF IInv, LoopInv, TypeLoop
      <4> QED
        BY <2>0, <3>1, <4>1, ContractStutters
    <3> QED
      BY <3>2, <3>3
  <2>3. ASSUME NEW r \in Requests, ExpireReady(r) PROVE Contract!CNext
    BY <2>0, <2>3, DropTurnsAway DEF ExpireReady, isLate, isTop
  <2>4. ASSUME NEW r \in Requests, CancelQueued(r) PROVE Contract!CNext
    <3>1. r \in expiry /\ Drop(r, Canceled) /\ UNCHANGED accepting
      BY <2>4 DEF CancelQueued, IInv, DataInv, BooksAgree
    <3> QED
      BY <2>0, <3>1, DropTurnsAway
  <2>5. ASSUME NEW r \in Requests, DrainNext(r) PROVE Contract!CNext
    <3>1. PICK t \in Tenants : queue[t] # <<>> /\ Head(queue[t]) = r
      BY <2>5 DEF DrainNext
    <3>2. r \in expiry
      BY <3>1, HeadQueued DEF IInv, DataInv, TypeData, BooksAgree
    <3> QED
      BY <2>0, <2>5, <3>2, DropTurnsAway DEF DrainNext
  <2>6. ASSUME NEW r \in Requests, Refuse(r) PROVE Contract!CNext
    BY <2>0, <2>6, RefuseTurnsAway
  <2>7. ASSUME NEW r \in Requests, Enqueue(r) PROVE Contract!CNext
    BY <2>0, <2>7, EnqueueJoins
  <2>8. ASSUME NEW r \in Requests, CancelOther(r) PROVE UNCHANGED Contract!contract
    BY <2>0, <2>8, ContractStutters DEF CancelOther
  <2>9. ASSUME NEW r \in Requests, FinishEntry(r) PROVE Contract!CNext
    BY <2>0, <2>9, FinishFinishes
  <2> QED
    BY <1>5, <2>1, <2>2, <2>3, <2>4, <2>5, <2>6, <2>7, <2>8, <2>9 DEF Handle
<1>6. CASE Pump
  <2>0. UNCHANGED <<admission, accepting>>
    BY <1>6 DEF Pump, outside
  <2>1. CASE EnterPump \/ SkipEmpty \/ OpenVisit \/ LeaveTenant \/ NotFunded \/ Barrier \/ EndSweep
    BY <2>0, <2>1, ContractStutters
       DEF EnterPump, SkipEmpty, OpenVisit, LeaveTenant, NotFunded, Barrier, EndSweep, marks
  <2>2. CASE DropHead
    <3>1. head \in expiry /\ head \in Requests
      BY <2>2, CursorHead DEF DropHead
    <3> QED
      BY <2>0, <2>2, <3>1, DropTurnsAway DEF DropHead
  <2>3. CASE Serve
    BY <2>0, <2>3, ServeStarts
  <2> QED
    BY <1>6, <2>1, <2>2, <2>3 DEF Pump
<1>7. CASE Notify
  BY <1>7, ContractStutters DEF Notify, outside, marks
<1> QED
  BY <1>1, <1>2, <1>3, <1>4, <1>5, <1>6, <1>7 DEF Next, Run, Outside

(* The owner goroutine implements AdmissionContract for every configuration *)
(* and number of requests: what clients of the scheduler may rely on follows*)
(* from the requests alone, not from the owner's counters and queues.       *)
THEOREM OwnerKeepsContract == Spec => ImplementsContract
<1>1. Init => Contract!CInit
  <2> SUFFICES ASSUME Init PROVE Contract!CInit
    OBVIOUS
  <2>1. admission \in [Requests -> Admission]
    BY InitInv DEF IInv, DataInv, TypeData
  <2>2. \A r \in Requests : statusOf(r) = "outside"
    BY DEF Init, statusOf
  <2>3. accepting = TRUE
    BY DEF Init
  <2> QED
    BY <2>1, <2>2, <2>3 DEF Contract!CInit, Contract!Admission, Admission, Contract!Tenants, Tenants
<1>2. IInv /\ [Next]_vars => [Contract!CNext]_(Contract!contract)
  BY ContractStep
<1> QED
  BY <1>1, <1>2, Invariance, PTL DEF Spec, ImplementsContract, Contract!CSpec
=============================================================================
