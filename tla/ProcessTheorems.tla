-------------------------- MODULE ProcessTheorems ---------------------------
(***************************************************************************)
(* Proofs about the process and its listener, for every policy, every      *)
(* width of machine words and every number of tenants, connections, slots, *)
(* closing goroutines and secrets:                                         *)
(*   - the policy that is parsed comes from a file that was private at the *)
(*     path (ReadInv), and the validators accept exactly the policies the  *)
(*     gateway can live with, although they compute in words that wrap;    *)
(*   - a process that ends by itself has forgotten nothing it opened and   *)
(*     no secret it could unset, and its exit code is right (ProcessInv,   *)
(*     place by place);                                                    *)
(*   - connection slots are conserved (SlotsInv: SlotsExact, and who has a *)
(*     connection in hand).                                                *)
(***************************************************************************)
EXTENDS Process, FiniteSetTheorems, WellFoundedInduction, TLAPS

-----------------------------------------------------------------------------
(* The listener *)

(* The connections that hold a slot *)
Occupied == {c \in Connections : conn[c] \in {"loop", "open", "closing"}}

LoopHolds ==
  /\ loop = "check" <=> current # None
  /\ \A c \in Connections : conn[c] = "loop" <=> c = current

CloserHolds ==
  /\ \A k \in Closers : closing[k] # None => conn[closing[k]] = "closing"
  /\ \A k, l \in Closers : closing[k] # None /\ closing[k] = closing[l] => k = l

SlotsInv == TypeOK /\ SlotsExact /\ LoopHolds /\ CloserHolds

(* The connections that hold a slot are finitely many; one more or one less *)
(* changes their number by one.                                             *)
LEMMA OccupiedCounts ==
  /\ Cardinality(Occupied) \in Nat
  /\ \A c \in Occupied : Cardinality(Occupied \ {c}) = Cardinality(Occupied) - 1
  /\ \A c : c \notin Occupied => Cardinality(Occupied \cup {c}) = Cardinality(Occupied) + 1
  /\ Occupied # {} => Cardinality(Occupied) > 0
<1>1. IsFiniteSet(Occupied)
  BY ListenerAssumption, FS_Subset DEF Occupied
<1>2. Cardinality(Occupied) \in Nat
  BY <1>1, FS_CardinalityType
<1>3. \A c \in Occupied : Cardinality(Occupied \ {c}) = Cardinality(Occupied) - 1
  BY <1>1, FS_RemoveElement
<1>4. \A c : c \notin Occupied => Cardinality(Occupied \cup {c}) = Cardinality(Occupied) + 1
  BY <1>1, FS_AddElement
<1>5. Occupied # {} => Cardinality(Occupied) > 0
  BY <1>1, <1>2, FS_EmptySet
<1> QED
  BY <1>2, <1>3, <1>4, <1>5

(* How the set of slot holders changes when one connection changes state. *)
LEMMA ConnMoves ==
  ASSUME TypeOK, NEW c \in Connections,
         NEW s \in {"loop", "open", "closing", "closed"},
         conn' = [conn EXCEPT ![c] = s]
  PROVE  /\ Occupied' = IF s = "closed" THEN Occupied \ {c} ELSE Occupied \cup {c}
         /\ conn' \in [Connections -> {"away", "loop", "open", "closing", "closed"}]
BY DEF TypeOK, Occupied

(* SlotsExact in terms of Occupied. *)
LEMMA SlotsExactOccupied ==
  SlotsExact <=> /\ slots = Cardinality(Occupied) + (IF loop = "accept" THEN 1 ELSE 0)
                 /\ slots <= Maximum /\ ~panicked
BY DEF SlotsExact, Occupied

(* release gives a slot back and does not panic if there is one. *)
LEMMA ReleaseOne ==
  ASSUME TypeOK, slots > 0, release
  PROVE  slots' = slots - 1 /\ slots' \in Nat /\ UNCHANGED panicked
BY DEF TypeOK, release

(* A new listener holds no slot and no connection. *)
LEMMA SlotsInit == Init => SlotsInv
<1> SUFFICES ASSUME Init PROVE SlotsInv
  OBVIOUS
<1>1. Occupied = {}
  BY DEF Init, Occupied
<1>2. SlotsExact
  BY <1>1, FS_EmptySet, ListenerAssumption, SlotsExactOccupied DEF Init
<1>3. TypeOK
  BY DEF Init, TypeOK
<1>4. LoopHolds /\ CloserHolds
  BY ListenerAssumption DEF Init, LoopHolds, CloserHolds
<1> QED
  BY <1>2, <1>3, <1>4 DEF SlotsInv

(* Accept, the Close of the listener and the Close of connections, in any   *)
(* order, keep the slots exact.                                             *)
LEMMA SlotsStep == SlotsInv /\ [Next]_vars => SlotsInv'
<1> SUFFICES ASSUME SlotsInv, [Next]_vars PROVE SlotsInv'
  OBVIOUS
<1>0. /\ slots = Cardinality(Occupied) + (IF loop = "accept" THEN 1 ELSE 0)
      /\ slots <= Maximum /\ ~panicked /\ slots \in Nat /\ Cardinality(Occupied) \in Nat
      /\ Maximum \in Nat /\ None \notin Connections
  BY SlotsExactOccupied, OccupiedCounts, ListenerAssumption DEF SlotsInv, TypeOK
<1>t. TypeOK /\ LoopHolds /\ CloserHolds
  BY DEF SlotsInv
<1>1. CASE UNCHANGED vars
  BY <1>1 DEF vars, SlotsInv, TypeOK, SlotsExact, LoopHolds, CloserHolds
<1>2. CASE TakeSlot
  <2>1. Occupied' = Occupied /\ LoopHolds' /\ CloserHolds'
    BY <1>2, <1>t DEF TakeSlot, Occupied, LoopHolds, CloserHolds
  <2>2. TypeOK'
    BY <1>2, <1>t DEF TakeSlot, TypeOK
  <2>3. SlotsExact'
    BY <1>0, <1>2, <2>1 DEF TakeSlot, SlotsExact, Occupied
  <2> QED
    BY <2>1, <2>2, <2>3 DEF SlotsInv
<1>3. ASSUME NEW c \in Connections, Connect(c) PROVE SlotsInv'
  <2>1. Occupied' = Occupied \cup {c} /\ TypeOK' /\ c \notin Occupied
    BY <1>3, <1>t, ConnMoves DEF Connect, TypeOK, Occupied
  <2>2. LoopHolds'
    BY <1>0, <1>3, <1>t DEF Connect, LoopHolds, TypeOK
  <2>3. CloserHolds'
    BY <1>3, <1>t DEF Connect, CloserHolds, TypeOK
  <2>4. Cardinality(Occupied') = Cardinality(Occupied) + 1
    BY <2>1, OccupiedCounts
  <2>5. SlotsExact'
    BY <1>0, <1>3, <2>4 DEF Connect, SlotsExact, Occupied
  <2> QED
    BY <2>1, <2>2, <2>3, <2>5 DEF SlotsInv
<1>4. CASE AcceptFails
  <2>1. slots' = slots - 1 /\ slots' \in Nat /\ UNCHANGED panicked
    BY <1>0, <1>4, <1>t, ReleaseOne DEF AcceptFails
  <2>2. /\ loop = "accept" /\ loop' \in {"slot", "returned"}
        /\ UNCHANGED <<closed, innerClosed, current, conn, closing>>
    BY <1>4 DEF AcceptFails
  <2>3. TypeOK' /\ LoopHolds' /\ CloserHolds' /\ Occupied' = Occupied
    BY <2>1, <2>2, <1>t DEF TypeOK, LoopHolds, CloserHolds, Occupied
  <2>4. SlotsExact'
    BY <1>0, <2>1, <2>2, <2>3 DEF SlotsExact, Occupied
  <2> QED
    BY <2>3, <2>4 DEF SlotsInv
<1>5. CASE CheckClosed
  <2>1. current \in Connections /\ conn[current] = "loop" /\ current \in Occupied
    BY <1>5, <1>t DEF CheckClosed, LoopHolds, TypeOK, Occupied
  <2>2. loop = "check" /\ current' = None /\ loop' \in {"returned", "slot"}
        /\ UNCHANGED <<closed, innerClosed, closing>>
    BY <1>5 DEF CheckClosed
  <2>3. PICK s \in {"open", "closed"} : conn' = [conn EXCEPT ![current] = s]
    BY <1>5 DEF CheckClosed
  <2>4. LoopHolds'
    BY <1>0, <1>t, <2>1, <2>2, <2>3 DEF LoopHolds, TypeOK
  <2>5. CloserHolds'
    BY <1>t, <2>1, <2>2, <2>3 DEF CloserHolds, TypeOK
  <2>6. CASE closed
    <3>1. conn' = [conn EXCEPT ![current] = "closed"] /\ release
      BY <1>5, <2>6 DEF CheckClosed
    <3>2. Occupied' = Occupied \ {current}
      BY <3>1, <2>1, <1>t, ConnMoves
    <3>3. Cardinality(Occupied') = Cardinality(Occupied) - 1 /\ slots > 0
      BY <1>0, <3>2, <2>1, <2>2, OccupiedCounts
    <3>4. slots' = slots - 1 /\ slots' \in Nat /\ UNCHANGED panicked
      BY <3>1, <3>3, <1>t, ReleaseOne
    <3>5. TypeOK'
      BY <3>4, <2>1, <2>2, <3>1, <1>t DEF TypeOK
    <3>6. SlotsExact'
      BY <1>0, <2>2, <3>3, <3>4 DEF SlotsExact, Occupied
    <3> QED
      BY <2>4, <2>5, <3>5, <3>6 DEF SlotsInv
  <2>7. CASE ~closed
    <3>1. conn' = [conn EXCEPT ![current] = "open"] /\ UNCHANGED <<slots, panicked>>
      BY <1>5, <2>7 DEF CheckClosed
    <3>2. Occupied' = Occupied
      <4>1. Occupied' = Occupied \cup {current}
        BY <3>1, <2>1, <1>t, ConnMoves
      <4> QED
        BY <4>1, <2>1
    <3>3. TypeOK'
      BY <2>1, <2>2, <3>1, <1>t DEF TypeOK
    <3>4. SlotsExact'
      BY <1>0, <2>2, <3>1, <3>2 DEF SlotsExact, Occupied
    <3> QED
      BY <2>4, <2>5, <3>3, <3>4 DEF SlotsInv
  <2> QED
    BY <2>6, <2>7
<1>6. CASE CloseListener \/ CloseInner
  <2>1. UNCHANGED <<slots, loop, current, conn, closing, panicked>>
    BY <1>6 DEF CloseListener, CloseInner
  <2>2. closed' \in BOOLEAN /\ innerClosed' \in BOOLEAN
    BY <1>6, <1>t, Zenon DEF CloseListener, CloseInner, TypeOK
  <2> QED
    BY <2>1, <2>2, Zenon DEF SlotsInv, TypeOK, SlotsExact, LoopHolds, CloserHolds
<1>7. ASSUME NEW k \in Closers, NEW c \in Connections, StartClose(k, c) PROVE SlotsInv'
  <2>1. /\ closing[k] = None /\ conn[c] = "open" /\ c # None
        /\ closing' = [closing EXCEPT ![k] = c] /\ conn' = [conn EXCEPT ![c] = "closing"]
        /\ UNCHANGED <<slots, closed, innerClosed, loop, current, panicked>>
    BY <1>0, <1>7 DEF StartClose, FirstCloser
  <2>2. Occupied' = Occupied
    BY <2>1, <1>t, ConnMoves DEF Occupied
  <2>3. TypeOK'
    BY <2>1, <1>t DEF TypeOK
  <2>4. LoopHolds'
    BY <2>1, <1>t DEF LoopHolds, TypeOK
  <2>5. CloserHolds'
    BY <2>1, <1>t DEF CloserHolds, TypeOK
  <2>6. SlotsExact'
    BY <1>0, <2>1, <2>2 DEF SlotsExact, Occupied
  <2> QED
    BY <2>3, <2>4, <2>5, <2>6 DEF SlotsInv
<1>8. ASSUME NEW k \in Closers, EndClose(k) PROVE SlotsInv'
  <2> DEFINE c == closing[k]
  <2>1. c \in Connections /\ conn[c] = "closing" /\ c \in Occupied
    BY <1>8, <1>t DEF EndClose, CloserHolds, TypeOK, Occupied
  <2>2. /\ release /\ closing' = [closing EXCEPT ![k] = None]
        /\ conn' = [conn EXCEPT ![c] = "closed"]
        /\ UNCHANGED <<closed, innerClosed, loop, current>>
    BY <1>8 DEF EndClose
  <2>3. Occupied' = Occupied \ {c}
    BY <2>1, <2>2, <1>t, ConnMoves
  <2>4. Cardinality(Occupied') = Cardinality(Occupied) - 1 /\ slots > 0
    BY <1>0, <2>1, <2>3, OccupiedCounts
  <2>5. slots' = slots - 1 /\ slots' \in Nat /\ UNCHANGED panicked
    BY <2>2, <2>4, <1>t, ReleaseOne
  <2>6. TypeOK'
    BY <2>1, <2>2, <2>5, <1>t DEF TypeOK
  <2>7. LoopHolds'
    BY <2>1, <2>2, <1>t DEF LoopHolds, TypeOK
  <2>8. CloserHolds'
    BY <2>1, <2>2, <1>t DEF CloserHolds, TypeOK
  <2>9. SlotsExact'
    BY <1>0, <2>2, <2>4, <2>5 DEF SlotsExact, Occupied
  <2> QED
    BY <2>6, <2>7, <2>8, <2>9 DEF SlotsInv
<1> QED
  BY <1>1, <1>2, <1>3, <1>4, <1>5, <1>6, <1>7, <1>8 DEF Next, Accepting, Done

(* The bounded listener never has more connections than slots, loses no     *)
(* slot on any of the four ways a connection ends, and release never        *)
(* panics.                                                                  *)
THEOREM ListenerSlotsExact == Spec => []SlotsExact
<1>1. SlotsInv => SlotsExact
  BY DEF SlotsInv
<1> QED
  BY <1>1, SlotsInit, SlotsStep, PTL DEF Spec

-----------------------------------------------------------------------------
(* The policy *)

(* Sets of naturals have a least element, bounded ones a greatest. *)
LEMMA NatLeast ==
  ASSUME NEW T \in SUBSET Nat, T # {}
  PROVE  \E x \in T : \A y \in T : x <= y
<1> DEFINE R == OpToRel(<, Nat)
<1>1. IsWellFoundedOn(R, Nat)
  BY NatLessThanWellFounded
<1>2. \A x, y \in Nat : y < x => <<y, x>> \in R
  BY DEF OpToRel
<1> HIDE DEF R
<1>3. PICK x \in T : \A y \in T : ~(<<y, x>> \in R)
  BY <1>1, WFMin
<1>4. \A y \in T : ~(y < x)
  BY <1>2, <1>3, Zenon
<1> QED
  BY <1>4

LEMMA NatGreatest ==
  ASSUME NEW b \in Nat, NEW T \in SUBSET (0..b), T # {}
  PROVE  \E x \in T : \A y \in T : y <= x
<1> DEFINE U == {b - y : y \in T}
<1>0. \A y \in T : y \in 0..b
  OBVIOUS
<1>1. U \in SUBSET Nat /\ U # {}
  <2>1. \A u \in U : u \in Nat
    BY <1>0
  <2>2. PICK y \in T : TRUE
    OBVIOUS
  <2>3. b - y \in U
    BY <2>2
  <2> QED
    BY <2>1, <2>3
<1>2. PICK u \in U : \A w \in U : u <= w
  BY <1>1, NatLeast
<1>3. PICK x \in T : u = b - x
  BY <1>2
<1>4. \A y \in T : b - x <= b - y
  BY <1>2, <1>3
<1> QED
  BY <1>4

(* A word and what does not fit in it *)
LEMMA WordSplit ==
  ASSUME NEW w \in Nat \ {0}, NEW x \in Nat
  PROVE  /\ x \div w \in Nat /\ x % w \in 0..w - 1
         /\ x \div w = 0 <=> x < w
         /\ x < w => x % w = x
OBVIOUS

(* Products and quotients *)
LEMMA Product ==
  ASSUME NEW a \in Nat, NEW b \in Nat
  PROVE  a * b \in Nat /\ (b > 0 => a <= a * b)
OBVIOUS

LEMMA ProductPositive ==
  ASSUME NEW a \in Nat \ {0}, NEW b \in Nat \ {0}
  PROVE  a * b \in Nat /\ a * b > 0
OBVIOUS

LEMMA ProductMonotone ==
  ASSUME NEW a \in Nat, NEW b \in Nat, NEW c \in Nat, a <= b
  PROVE  a * c <= b * c
OBVIOUS

LEMMA Quotient ==
  ASSUME NEW a \in Nat, NEW b \in Nat \ {0}, NEW c \in Nat
  PROVE  a <= c \div b <=> a * b <= c
OBVIOUS

LEMMA QuotientMonotone ==
  ASSUME NEW a \in Nat, NEW b \in Nat \ {0}, NEW c \in Nat \ {0}, b <= c
  PROVE  a \div b \in Nat /\ a \div c \in Nat /\ a \div c <= a \div b
OBVIOUS

(* Every number of a policy is a word. *)
LEMMA DocumentWords ==
  ASSUME NEW p \in PolicyDocuments
  PROVE  /\ \A f \in GatewayValues : p.g[f] \in 0..Word - 1
         /\ \A s \in PolicyScopes, f \in ScopeValues : p.s[s][f] \in 0..Word - 1
         /\ Word \in Nat \ {0, 1} /\ NT \in Nat \ {0} /\ 0 \in PolicyScopes
         /\ TenantScopes \subseteq PolicyScopes /\ 1 \in TenantScopes
<1>1. Word \in Nat \ {0, 1} /\ NT \in Nat \ {0}
  BY PolicyAssumption
<1> QED
  BY <1>1 DEF PolicyDocuments, PolicyScopes, TenantScopes

(* A machine product within a word is the product. *)
LEMMA MulExact ==
  ASSUME NEW a \in Nat, NEW b \in Nat
  PROVE  /\ a * b \in Nat
         /\ overflows(Mul64(a, b)) <=> a * b >= Word
         /\ a * b < Word => Mul64(a, b).low = a * b
         /\ Mul64(a, b).low \in 0..Word - 1
<1> DEFINE x == a * b
<1>1. x \in Nat
  BY Product
<1>2. Word \in Nat \ {0}
  BY PolicyAssumption
<1> HIDE DEF x
<1>3. /\ x \div Word \in Nat /\ x % Word \in 0..Word - 1
      /\ x \div Word = 0 <=> x < Word
      /\ x < Word => x % Word = x
  BY <1>1, <1>2, WordSplit
<1>4. Mul64(a, b).hi = x \div Word /\ Mul64(a, b).low = x % Word
  BY DEF Mul64, x
<1>5. overflows(Mul64(a, b)) <=> x >= Word
  BY <1>1, <1>2, <1>3, <1>4 DEF overflows
<1> QED
  BY <1>1, <1>3, <1>4, <1>5 DEF x

(* Comparing a machine product with a word compares the product. *)
LEMMA MulWithin ==
  ASSUME NEW a \in Nat, NEW b \in Nat, NEW m \in 0..Word - 1
  PROVE  ~overflows(Mul64(a, b)) /\ Mul64(a, b).low <= m <=> a * b <= m
<1>1. Word \in Nat
  BY PolicyAssumption
<1> DEFINE x == a * b
<1>2. /\ x \in Nat /\ (overflows(Mul64(a, b)) <=> x >= Word)
      /\ x < Word => Mul64(a, b).low = x
  BY MulExact
<1> HIDE DEF x
<1>3. ~overflows(Mul64(a, b)) /\ Mul64(a, b).low <= m <=> x <= m
  BY <1>1, <1>2
<1> QED
  BY <1>3 DEF x

(* A product of three, overflowing or not on the way *)
LEMMA MulThree ==
  ASSUME NEW a \in Nat, NEW b \in Nat, NEW c \in Nat \ {0}, NEW m \in 0..Word - 1
  PROVE  LET v == checkedMultiply(Mul64(a, b), c)
         IN  ~overflows(v) /\ v.low <= m <=> a * b * c <= m
<1> DEFINE x == a * b
           v == checkedMultiply(Mul64(a, b), c)
<1>1. Word \in Nat
  BY PolicyAssumption
<1>2. /\ x \in Nat /\ (overflows(Mul64(a, b)) <=> x >= Word)
      /\ x < Word => Mul64(a, b).low = x
  BY MulExact
<1> HIDE DEF x
<1>3. x * c \in Nat /\ x <= x * c
  BY <1>2, Product
<1>4. CASE x >= Word
  <2>1. overflows(v)
    BY <1>2, <1>4 DEF checkedMultiply
  <2>2. ~(x * c <= m)
    BY <1>1, <1>2, <1>3, <1>4
  <2> QED
    BY <2>1, <2>2 DEF x
<1>5. CASE x < Word
  <2>1. v = Mul64(x, c)
    BY <1>1, <1>2, <1>5 DEF checkedMultiply
  <2>2. ~overflows(v) /\ v.low <= m <=> x * c <= m
    BY <1>2, <2>1, MulWithin
  <2> QED
    BY <2>2 DEF x
<1> QED
  BY <1>1, <1>2, <1>4, <1>5

(* The slots of a scope, times what each may bring, fit its queue. *)
LEMMA EnvelopeSound ==
  ASSUME NEW p \in PolicyDocuments, NEW s \in PolicyScopes
  PROVE  validatePreDispatchEnvelope(p, s) <=>
           /\ p.s[s].slots <= p.s[s].count
           /\ p.s[s].slots * p.g.body <= p.s[s].bytes
           /\ p.s[s].slots * p.g.units <= p.s[s].work
<1>1. /\ p.s[s].slots \in Nat /\ p.g.body \in Nat /\ p.g.units \in Nat
      /\ p.s[s].bytes \in 0..Word - 1 /\ p.s[s].work \in 0..Word - 1
  BY DocumentWords DEF GatewayValues, ContractValues, ScopeValues
<1>2. /\ LET m == Mul64(p.s[s].slots, p.g.body)
         IN  ~overflows(m) /\ m.low <= p.s[s].bytes <=> p.s[s].slots * p.g.body <= p.s[s].bytes
      /\ LET m == Mul64(p.s[s].slots, p.g.units)
         IN  ~overflows(m) /\ m.low <= p.s[s].work <=> p.s[s].slots * p.g.units <= p.s[s].work
  BY <1>1, MulWithin
<1> QED
  BY <1>2 DEF validatePreDispatchEnvelope
(* The quanta of a policy none of whose products overflows *)
LEMMA QuantaExact ==
  ASSUME NEW p \in PolicyDocuments,
         \A t \in TenantScopes : ~overflows(quantum(p, t)) /\ quantum(p, t).low > 0
  PROVE  /\ \A t \in TenantScopes : /\ p.g.base * p.s[t].weight \in 1..Word - 1
                                    /\ minimumQuantum(p) <= p.g.base * p.s[t].weight
                                    /\ p.g.base * p.s[t].weight <= maximumQuantum(p)
         /\ \E t \in TenantScopes : minimumQuantum(p) = p.g.base * p.s[t].weight
         /\ \E t \in TenantScopes : maximumQuantum(p) = p.g.base * p.s[t].weight
<1> DEFINE q(t) == p.g.base * p.s[t].weight
<1>1. ASSUME NEW t \in TenantScopes PROVE q(t) \in 1..Word - 1 /\ quantum(p, t).low = q(t)
  <2>1. p.g.base \in Nat /\ p.s[t].weight \in Nat /\ Word \in Nat
    BY DocumentWords DEF GatewayValues, ContractValues, ScopeValues
  <2>2. /\ q(t) \in Nat /\ (overflows(quantum(p, t)) <=> q(t) >= Word)
        /\ q(t) < Word => quantum(p, t).low = q(t)
    BY <2>1, MulExact DEF quantum
  <2> HIDE DEF q
  <2> QED
    BY <1>1, <2>1, <2>2
<1>2. Quanta(p) = {q(t) : t \in TenantScopes}
  BY <1>1 DEF Quanta
<1> DEFINE Q == {q(t) : t \in TenantScopes}
<1> HIDE DEF q
<1>3. Q # {} /\ Q \in SUBSET Nat /\ Q \in SUBSET (0..Word - 1) /\ Word - 1 \in Nat
  <2>1. Word \in Nat \ {0}
    BY PolicyAssumption
  <2>2. \A x \in Q : x \in 1..Word - 1
    BY <1>1
  <2>3. q(1) \in Q
    BY DocumentWords
  <2> QED
    BY <2>1, <2>2, <2>3
<1>4. (\E x \in Q : \A y \in Q : x <= y) /\ (\E x \in Q : \A y \in Q : y <= x)
  <2> HIDE DEF Q
  <2> QED
    BY <1>3, NatLeast, NatGreatest
<1>5. minimumQuantum(p) \in Q /\ \A y \in Q : y >= minimumQuantum(p)
  <2> HIDE DEF Q
  <2>1. Quanta(p) = Q
    BY <1>2 DEF Q
  <2>2. \E x \in Q : \A y \in Q : y >= x
    BY <1>3, <1>4
  <2> QED
    BY <2>1, <2>2 DEF minimumQuantum
<1>6. maximumQuantum(p) \in Q /\ \A y \in Q : y <= maximumQuantum(p)
  <2> HIDE DEF Q
  <2>1. Quanta(p) = Q
    BY <1>2 DEF Q
  <2> QED
    BY <1>4, <2>1 DEF maximumQuantum
<1>7. /\ \A t \in TenantScopes : /\ q(t) \in 1..Word - 1
                                 /\ minimumQuantum(p) <= q(t) /\ q(t) <= maximumQuantum(p)
      /\ \E t \in TenantScopes : minimumQuantum(p) = q(t)
      /\ \E t \in TenantScopes : maximumQuantum(p) = q(t)
  BY <1>1, <1>3, <1>5, <1>6
<1> QED
  BY <1>7 DEF q

(* The sum boundedAdd needs, as a word *)
LEMMA AddWithin ==
  ASSUME NEW a \in Nat, NEW b \in Nat, NEW m \in 0..Word - 1
  PROVE  Add64(a, b).carry = 0 /\ m >= Add64(a, b).low <=> a + b <= m
<1>1. Word \in Nat \ {0} /\ a + b \in Nat
  BY PolicyAssumption
<1>2. /\ (a + b) \div Word = 0 <=> a + b < Word
      /\ a + b < Word => (a + b) % Word = a + b
  BY <1>1, WordSplit
<1>3. Add64(a, b).carry = (a + b) \div Word /\ Add64(a, b).low = (a + b) % Word
  BY DEF Add64
<1> QED
  BY <1>1, <1>2, <1>3

(* Fewer quanta are needed of larger ones. *)
LEMMA VisitsMonotone ==
  ASSUME NEW u \in Nat, NEW a \in Nat \ {0}, NEW b \in Nat \ {0}, a <= b,
         NEW n \in Nat, NEW c \in Nat
  PROVE  /\ (1 + u \div b) \in Nat /\ (1 + u \div a) \in Nat
         /\ (1 + u \div a) * n * c \in Nat /\ (1 + u \div b) * n * c \in Nat
         /\ (1 + u \div b) * n * c <= (1 + u \div a) * n * c
<1>1. u \div b \in Nat /\ u \div a \in Nat /\ u \div b <= u \div a
  BY QuotientMonotone
<1> DEFINE x == 1 + u \div b
           y == 1 + u \div a
<1>2. x \in Nat /\ y \in Nat /\ x <= y
  BY <1>1
<1> HIDE DEF x, y
<1>3. x * n \in Nat /\ y * n \in Nat /\ x * n <= y * n
  BY <1>2, Product, ProductMonotone
<1>4. (x * n) * c \in Nat /\ (y * n) * c \in Nat /\ (x * n) * c <= (y * n) * c
  <2> DEFINE v == x * n
             w == y * n
  <2> HIDE DEF v, w
  <2>1. v \in Nat /\ w \in Nat /\ v <= w
    BY <1>3 DEF v, w
  <2>2. v * c \in Nat /\ w * c \in Nat /\ v * c <= w * c
    BY <2>1, Product, ProductMonotone
  <2> QED
    BY <2>2 DEF v, w
<1> QED
  BY <1>2, <1>4 DEF x, y

(* What the funding check means for each tenant *)
FundingFits(p, t) ==
  /\ p.g.cap >= p.g.units - 1 + p.g.base * p.s[t].weight
  /\ (1 + (p.g.units - 1) \div (p.g.base * p.s[t].weight)) * NT * p.s[0].icount <= maxFundingVisits

(* The funding check looks at the largest and the smallest quantum only. *)
LEMMA FundingSound ==
  ASSUME NEW p \in PolicyDocuments, p.g.units > 0, p.s[0].icount > 0,
         \A t \in TenantScopes : ~overflows(quantum(p, t)) /\ quantum(p, t).low > 0
  PROVE  validateFunding(p) <=> \A t \in TenantScopes : FundingFits(p, t)
<1> DEFINE q(t) == p.g.base * p.s[t].weight
           u == p.g.units - 1
           mn == minimumQuantum(p)
           mx == maximumQuantum(p)
           c == p.s[0].icount
           cost(n) == (1 + u \div n) * NT * c
<1>1. /\ u \in Nat /\ c \in Nat \ {0} /\ NT \in Nat /\ p.g.cap \in 0..Word - 1 /\ p.g.cap \in Nat
      /\ maxFundingVisits \in 0..Word - 1 /\ maxFundingVisits \in Nat
  BY DocumentWords, PolicyAssumption DEF GatewayValues, ContractValues, ScopeValues
<1>2. /\ \A t \in TenantScopes : q(t) \in Nat \ {0} /\ mn <= q(t) /\ q(t) <= mx
      /\ \E t \in TenantScopes : mn = q(t)
      /\ \E t \in TenantScopes : mx = q(t)
  BY QuantaExact, PolicyAssumption
<1>3. mn \in Nat \ {0} /\ mx \in Nat \ {0}
  BY <1>2
<1>4. validateFunding(p) <=> u + mx <= p.g.cap /\ cost(mn) <= maxFundingVisits
  <2>1. Add64(u, mx).carry = 0 /\ p.g.cap >= Add64(u, mx).low <=> u + mx <= p.g.cap
    BY <1>1, <1>3, AddWithin
  <2>2. divideRoundUp(p.g.units, mn) = 1 + u \div mn /\ 1 + u \div mn \in Nat
    <3>1. u \div mn \in Nat
      BY <1>1, <1>3, QuotientMonotone
    <3> QED
      BY <3>1 DEF divideRoundUp
  <2>3. LET v == checkedMultiply(Mul64(1 + u \div mn, NT), c)
        IN  ~overflows(v) /\ v.low <= maxFundingVisits <=> cost(mn) <= maxFundingVisits
    BY <1>1, <2>2, MulThree
  <2> QED
    BY <2>1, <2>2, <2>3 DEF validateFunding
<1>5. \A t \in TenantScopes : FundingFits(p, t) <=> u + q(t) <= p.g.cap /\ cost(q(t)) <= maxFundingVisits
  BY <1>1, <1>2 DEF FundingFits
<1>6. \A t \in TenantScopes : cost(mn) \in Nat /\ cost(q(t)) \in Nat /\ cost(q(t)) <= cost(mn)
  BY <1>1, <1>2, <1>3, VisitsMonotone
<1> HIDE DEF q, u, mn, mx, c, cost
<1>7. ASSUME u + mx <= p.g.cap, cost(mn) <= maxFundingVisits, NEW t \in TenantScopes
      PROVE  u + q(t) <= p.g.cap /\ cost(q(t)) <= maxFundingVisits
  BY <1>1, <1>2, <1>3, <1>6, <1>7
<1>8. ASSUME \A t \in TenantScopes : u + q(t) <= p.g.cap /\ cost(q(t)) <= maxFundingVisits
      PROVE  u + mx <= p.g.cap /\ cost(mn) <= maxFundingVisits
  BY <1>2, <1>8
<1> QED
  BY <1>4, <1>5, <1>7, <1>8
(* Conversions: a word as a signed number *)
LEMMA Int64Exact ==
  ASSUME NEW a \in Nat, a < Word
  PROVE  /\ MaxInt \in Nat /\ MaxInt < Word
         /\ (a <= MaxInt => Int64(a) = a)
         /\ (a > MaxInt => Int64(a) < 0)
<1>1. Word \in Nat \ {0, 1}
  BY PolicyAssumption
<1>2. MaxInt \in Nat /\ MaxInt < Word
  BY <1>1 DEF MaxInt
<1>3. a % Word = a
  BY <1>1, WordSplit
<1> QED
  BY <1>1, <1>2, <1>3 DEF Int64

(* Milliseconds and durations are ordered alike. *)
LEMMA TimeOrder ==
  ASSUME NEW a \in Nat, NEW b \in Nat
  PROVE  /\ a * Millisecond \in Nat
         /\ (a * Millisecond <= b * Millisecond <=> a <= b)
         /\ (a * Millisecond > 0 <=> a > 0)
<1>1. Millisecond \in Nat \ {0}
  BY PolicyAssumption
<1> DEFINE m == Millisecond
<1> HIDE DEF m
<1>2. m \in Nat \ {0}
  BY <1>1 DEF m
<1>3. a * m \in Nat /\ b * m \in Nat /\ (a > 0 => a * m > 0) /\ (a = 0 => a * m = 0)
  BY <1>2, Product, ProductPositive
<1>4. ASSUME a <= b PROVE a * m <= b * m
  BY <1>2, <1>4, ProductMonotone
<1>5. ASSUME ~(a <= b) PROVE ~(a * m <= b * m)
  <2>1. b + 1 \in Nat /\ b + 1 <= a
    BY <1>5
  <2>2. (b + 1) * m <= a * m
    BY <1>2, <2>1, ProductMonotone
  <2>3. (b + 1) * m = b * m + m
    BY <1>2
  <2> QED
    BY <1>2, <1>3, <2>2, <2>3
<1> QED
  BY <1>3, <1>4, <1>5 DEF m

(* policyDuration admits what becomes a duration up to its maximum, and     *)
(* then the conversion is exact and passes the later checks.                *)
LEMMA TimeExact ==
  ASSUME NEW ms \in Nat, NEW max \in Nat, max * Millisecond <= MaxInt
  PROVE  /\ policyDuration(ms, max) <=> ms * Millisecond \in 1..max * Millisecond
         /\ ms * Millisecond \in 1..max * Millisecond =>
              /\ Duration(ms) = ms * Millisecond
              /\ validateTimeout(Duration(ms), max * Millisecond)
<1> DEFINE d == ms * Millisecond
           top == max * Millisecond
<1>1. d \in Nat /\ top \in Nat /\ (d <= top <=> ms <= max) /\ (d > 0 <=> ms > 0)
  BY TimeOrder
<1>2. policyDuration(ms, max) <=> ms > 0 /\ ms <= max
  BY DEF policyDuration
<1>3. ASSUME d <= MaxInt PROVE Duration(ms) = d
  <2>1. MaxInt \in Nat /\ MaxInt < Word /\ Word \in Nat
    BY Int64Exact, PolicyAssumption
  <2> HIDE DEF d
  <2>2. d < Word
    BY <1>1, <1>3, <2>1
  <2>3. Int64(d) = d
    BY <1>1, <1>3, <2>2, Int64Exact
  <2> QED
    BY <2>3 DEF Duration, d
<1>4. MaxInt \in Nat /\ top <= MaxInt
  BY Int64Exact, PolicyAssumption
<1> HIDE DEF d, top
<1>5. /\ policyDuration(ms, max) <=> d \in 1..top
      /\ d \in 1..top => Duration(ms) = d /\ validateTimeout(Duration(ms), top)
  BY <1>1, <1>2, <1>3, <1>4 DEF validateTimeout
<1> QED
  BY <1>5 DEF d, top

(* The timeouts of a policy *)
LEMMA TimesExact ==
  ASSUME NEW p \in PolicyDocuments
  PROVE  /\ \A f \in HTTPTimes \cup TransportTimes \cup ServerTimes :
              /\ policyDuration(p.g[f], maximumPolicyTimeoutMS) <=> time(p, f) \in 1..Hour
              /\ time(p, f) \in 1..Hour =>
                   duration(p, f) = time(p, f) /\ validateTimeout(duration(p, f), Hour)
         /\ policyDuration(p.g.force, maximumForceTimeoutMS) <=> time(p, "force") \in 1..Minute
         /\ time(p, "force") \in 1..Minute =>
              duration(p, "force") = time(p, "force") /\ validateTimeout(duration(p, "force"), Minute)
<1>1. \A f \in GatewayValues : p.g[f] \in Nat
  BY DocumentWords
<1>2. /\ maximumPolicyTimeoutMS \in Nat /\ maximumPolicyTimeoutMS * Millisecond = Hour
      /\ maximumForceTimeoutMS \in Nat /\ maximumForceTimeoutMS * Millisecond = Minute
      /\ Hour <= MaxInt /\ Minute <= MaxInt
  BY PolicyAssumption
<1>3. HTTPTimes \cup TransportTimes \cup ServerTimes \cup {"force"} \subseteq GatewayValues
  BY DEF GatewayValues, HTTPValues, UpstreamValues, ServerValues
<1>4. ASSUME NEW f \in HTTPTimes \cup TransportTimes \cup ServerTimes
      PROVE  /\ policyDuration(p.g[f], maximumPolicyTimeoutMS) <=> time(p, f) \in 1..Hour
             /\ time(p, f) \in 1..Hour =>
                  duration(p, f) = time(p, f) /\ validateTimeout(duration(p, f), Hour)
  <2>1. p.g[f] \in Nat
    BY <1>1, <1>3
  <2> QED
    BY <1>2, <2>1, TimeExact, Zenon DEF time, duration
<1>5. p.g.force \in Nat
  BY <1>1, <1>3
<1>6. /\ policyDuration(p.g.force, maximumForceTimeoutMS) <=> time(p, "force") \in 1..Minute
      /\ time(p, "force") \in 1..Minute =>
           duration(p, "force") = time(p, "force") /\ validateTimeout(duration(p, "force"), Minute)
  BY <1>2, <1>5, TimeExact, Zenon DEF time, duration
<1> QED
  BY <1>4, <1>6

(* What contract.NewParser accepts *)
LEMMA ParserSound ==
  ASSUME NEW p \in PolicyDocuments
  PROVE  NewParser(p) <=> RequestsFit(p)
<1> DEFINE c == p.g.cweight * p.g.tokens
           w == p.g.cweight
           least == reservationUnits(minimumBodyBytes, 1, w)
<1>1. /\ p.g.body \in 0..Word - 1 /\ p.g.messages \in Nat /\ p.g.text \in Nat /\ p.g.tokens \in Nat
      /\ w \in 0..Word - 1 /\ w \in Nat /\ p.g.units \in 0..Word - 1
      /\ Word \in Nat \ {0, 1} /\ minimumBodyBytes \in 1..Word - 1 /\ AbsoluteMaxBodyBytes \in Nat
      /\ MaxInt \in Nat
  BY DocumentWords, PolicyAssumption, Int64Exact DEF GatewayValues, ContractValues
<1>2. /\ c \in Nat /\ (overflows(Mul64(w, p.g.tokens)) <=> c >= Word)
      /\ c < Word => Mul64(w, p.g.tokens).low = c
  BY <1>1, MulExact
<1>3. Mul64(w, 1).low = w /\ ~overflows(Mul64(w, 1))
  <2>1. w * 1 = w
    BY <1>1
  <2>2. /\ overflows(Mul64(w, 1)) <=> w >= Word
        /\ w < Word => Mul64(w, 1).low = w
    BY <1>1, <2>1, MulExact
  <2> QED
    BY <1>1, <2>2
<1> HIDE DEF c, w
<1>4. ~overflows(Mul64(w, p.g.tokens)) /\ Add64(p.g.body, Mul64(w, p.g.tokens).low).carry = 0
        <=> p.g.body + c < Word
  <2>1. CASE c >= Word
    BY <1>1, <1>2, <2>1
  <2>2. CASE c < Word
    <3>1. Add64(p.g.body, c).carry = (p.g.body + c) \div Word
      BY DEF Add64
    <3>2. p.g.body + c \in Nat
      BY <1>1, <1>2
    <3>3. (p.g.body + c) \div Word = 0 <=> p.g.body + c < Word
      BY <1>1, <3>2, WordSplit
    <3>4. ~overflows(Mul64(w, p.g.tokens)) /\ Mul64(w, p.g.tokens).low = c
      BY <1>1, <1>2, <2>2
    <3> QED
      BY <3>1, <3>3, <3>4
  <2> QED
    BY <1>1, <1>2, <2>1, <2>2
<1>5. least.ok /\ least.units <= p.g.units <=> minimumBodyBytes + w <= p.g.units
  <2> DEFINE x == minimumBodyBytes + w
  <2>1. x \in Nat \ {0}
    BY <1>1
  <2>2. least.ok <=> x \div Word = 0 /\ x % Word # 0
    BY <1>3 DEF reservationUnits, Add64
  <2>3. least.units = x % Word
    BY <1>3 DEF reservationUnits, Add64
  <2> HIDE DEF x, least
  <2>4. (x \div Word = 0 <=> x < Word) /\ (x < Word => x % Word = x)
    BY <1>1, <2>1, WordSplit
  <2>5. least.ok /\ least.units <= p.g.units <=> x <= p.g.units
    BY <1>1, <2>1, <2>2, <2>3, <2>4
  <2> QED
    BY <2>5 DEF x
<1>6. NewParser(p) <=>
        /\ p.g.body # 0 /\ p.g.body <= AbsoluteMaxBodyBytes /\ p.g.body < MaxInt
        /\ p.g.messages # 0 /\ p.g.messages <= MaxInt
        /\ p.g.text # 0 /\ p.g.tokens # 0 /\ w # 0 /\ p.g.units # 0
        /\ p.g.body + c < Word
        /\ minimumBodyBytes <= p.g.body
        /\ minimumBodyBytes + w <= p.g.units
  BY <1>4, <1>5 DEF NewParser, w
<1>7. RequestsFit(p) <=>
        /\ p.g.body \in minimumBodyBytes..AbsoluteMaxBodyBytes /\ p.g.body < MaxInt
        /\ p.g.messages \in 1..MaxInt /\ p.g.text > 0 /\ p.g.tokens > 0 /\ w > 0
        /\ p.g.body + c < Word
        /\ minimumBodyBytes + w <= p.g.units
  BY DEF RequestsFit, c, w
<1> QED
  BY <1>1, <1>2, <1>6, <1>7

(* What the response validators and the transport accept of sizes *)
LEMMA ResponsesSound ==
  ASSUME NEW p \in PolicyDocuments
  PROVE  /\ NewResponseValidator(p) /\ ValidateSSELimits(p)
         /\ p.g.headerBytes <= MaxInt
         /\ Int64(p.g.headerBytes) > 0 /\ Int64(p.g.headerBytes) <= absoluteMaxResponseHeaderBytes
         /\ p.g.upConns # 0 /\ p.g.upConns <= absoluteMaxUpstreamConnections
         <=> ResponsesFit(p)
<1>1. /\ p.g.respBody \in Nat /\ p.g.event \in Nat /\ p.g.events \in Nat
      /\ p.g.headerBytes \in 0..Word - 1 /\ p.g.upConns \in Nat
  BY DocumentWords DEF GatewayValues, HTTPValues, UpstreamValues
<1>2. /\ {AbsoluteMaxResponseBodyBytes, AbsoluteMaxSSETotalBytes, AbsoluteMaxSSEEventBytes,
          AbsoluteMaxSSEEvents, chunkBytes, doneBytes, absoluteMaxUpstreamConnections,
          absoluteMaxResponseHeaderBytes, MaxInt} \subseteq Nat
      /\ absoluteMaxResponseHeaderBytes <= MaxInt
  BY PolicyAssumption, Int64Exact
<1>3. NewResponseValidator(p) /\ ValidateSSELimits(p) <=>
        /\ p.g.respBody <= AbsoluteMaxResponseBodyBytes /\ p.g.respBody <= AbsoluteMaxSSETotalBytes
        /\ p.g.respBody > 0 /\ p.g.respBody < MaxInt /\ p.g.respBody >= chunkBytes + doneBytes
        /\ p.g.event > 0 /\ p.g.event <= AbsoluteMaxSSEEventBytes
        /\ p.g.event <= p.g.respBody /\ p.g.event >= chunkBytes /\ p.g.event >= doneBytes
        /\ p.g.events \in 2..AbsoluteMaxSSEEvents /\ p.g.events <= MaxInt
  BY <1>1, <1>2 DEF NewResponseValidator, ValidateSSELimits
<1>4. p.g.headerBytes <= MaxInt => Int64(p.g.headerBytes) = p.g.headerBytes
  BY <1>1, PolicyAssumption, Int64Exact
<1>5. /\ p.g.headerBytes <= MaxInt
      /\ Int64(p.g.headerBytes) > 0 /\ Int64(p.g.headerBytes) <= absoluteMaxResponseHeaderBytes
      <=> p.g.headerBytes \in 1..absoluteMaxResponseHeaderBytes
  BY <1>1, <1>2, <1>4
<1>6. p.g.upConns # 0 /\ p.g.upConns <= absoluteMaxUpstreamConnections
        <=> p.g.upConns \in 1..absoluteMaxUpstreamConnections
  BY <1>1, <1>2
<1> QED
  BY <1>3, <1>5, <1>6 DEF ResponsesFit

(* What server.validateConfig accepts of headers and connections *)
LEMMA HeadersSound ==
  ASSUME NEW p \in PolicyDocuments
  PROVE  /\ p.g.envelope >= absoluteMinEnvelope /\ p.g.envelope <= absoluteMaxEnvelope
         /\ p.g.conns # 0 /\ p.g.conns <= absoluteMaxConnections
         /\ p.g.envelope <= absoluteMaxReservation \div p.g.conns
         /\ (p.g.envelope - netHTTPHeaderReadSlopBytes) % Word <= MaxInt
         <=> HeadersFit(p)
<1> DEFINE left == p.g.envelope - netHTTPHeaderReadSlopBytes
<1>1. /\ p.g.envelope \in 0..Word - 1 /\ p.g.envelope \in Nat /\ p.g.conns \in Nat /\ Word \in Nat \ {0}
      /\ {absoluteMinEnvelope, absoluteMaxEnvelope, absoluteMaxConnections, absoluteMaxReservation,
          netHTTPHeaderReadSlopBytes, MaxInt} \subseteq Nat
      /\ netHTTPHeaderReadSlopBytes <= absoluteMinEnvelope
  BY DocumentWords, PolicyAssumption, Int64Exact DEF GatewayValues, ServerValues
<1>2. ASSUME p.g.envelope >= absoluteMinEnvelope
      PROVE  left \in Nat /\ (left % Word <= MaxInt <=> left \in 0..MaxInt)
  <2>1. left \in Nat /\ left < Word
    BY <1>1, <1>2
  <2> HIDE DEF left
  <2>2. left % Word = left
    BY <1>1, <2>1, WordSplit
  <2> QED
    BY <1>1, <2>1, <2>2
<1>3. ASSUME p.g.conns # 0
      PROVE  p.g.envelope <= absoluteMaxReservation \div p.g.conns
               <=> p.g.envelope * p.g.conns <= absoluteMaxReservation
  BY <1>1, <1>3, Quotient
<1> HIDE DEF left
<1>4. /\ p.g.envelope >= absoluteMinEnvelope /\ p.g.envelope <= absoluteMaxEnvelope
         <=> p.g.envelope \in absoluteMinEnvelope..absoluteMaxEnvelope
      /\ p.g.conns # 0 /\ p.g.conns <= absoluteMaxConnections
         <=> p.g.conns \in 1..absoluteMaxConnections
  BY <1>1
<1>5. p.g.conns \in 1..absoluteMaxConnections => p.g.conns # 0
  BY <1>1
<1>6. p.g.envelope \in absoluteMinEnvelope..absoluteMaxEnvelope => p.g.envelope >= absoluteMinEnvelope
  BY <1>1
<1> QED
  BY <1>2, <1>3, <1>4, <1>5, <1>6, Zenon DEF HeadersFit, left

(* Sums of durations *)
LEMMA SumsFit ==
  ASSUME NEW p \in PolicyDocuments,
         \A f \in {"header", "bodyT", "queueT", "upT", "write", "grace"} :
           time(p, f) \in 1..Hour /\ duration(p, f) = time(p, f),
         time(p, "force") \in 1..Minute, duration(p, "force") = time(p, "force")
  PROVE  /\ readTimeout(p) >= 0 <=> time(p, "header") + time(p, "bodyT") <= MaxInt
         /\ writeTimeout(p) >= 0 <=>
              time(p, "bodyT") + time(p, "queueT") + time(p, "upT") + time(p, "write") <= MaxInt
         /\ shutdownWait(p) > 0 /\ shutdownWait(p) <= maximumShutdownWait <=>
              time(p, "grace") + 2 * time(p, "force") + shutdownSchedulingMargin <= maximumShutdownWait
<1>1. /\ Hour \in Nat /\ Minute \in Nat /\ MaxInt \in Nat /\ maximumShutdownWait \in 0..MaxInt
      /\ shutdownSchedulingMargin \in Nat /\ Hour + 2 * Minute + shutdownSchedulingMargin < Word
      /\ Word \in Nat
  BY PolicyAssumption, Int64Exact
<1>2. /\ time(p, "header") \in Nat \ {0} /\ time(p, "bodyT") \in Nat \ {0}
      /\ time(p, "queueT") \in Nat \ {0} /\ time(p, "upT") \in Nat \ {0}
      /\ time(p, "write") \in Nat \ {0}
  BY <1>1
<1>3. /\ readTimeout(p) >= 0 <=> time(p, "header") + time(p, "bodyT") <= MaxInt
      /\ writeTimeout(p) >= 0 <=>
           time(p, "bodyT") + time(p, "queueT") + time(p, "upT") + time(p, "write") <= MaxInt
  BY <1>1, <1>2 DEF readTimeout, writeTimeout, addDurations
<1> DEFINE x == time(p, "grace") + 2 * time(p, "force") + shutdownSchedulingMargin
<1>4. x \in Nat /\ x > 0 /\ x < Word
  BY <1>1
<1>5. shutdownWait(p) = Int64(x)
  BY DEF shutdownWait
<1> HIDE DEF x
<1>6. (x <= MaxInt => Int64(x) = x) /\ (x > MaxInt => Int64(x) < 0) /\ Int64(x) \in Int
  BY <1>4, Int64Exact, PolicyAssumption DEF Int64
<1>7. shutdownWait(p) > 0 /\ shutdownWait(p) <= maximumShutdownWait <=> x <= maximumShutdownWait
  BY <1>1, <1>4, <1>5, <1>6
<1> QED
  BY <1>3, <1>7 DEF x

(* What httpapi.validateHandlerConfig accepts *)
LEMMA HandlerSound ==
  ASSUME NEW p \in PolicyDocuments
  PROVE  validateHandlerConfig(p) <=>
           /\ \A f \in HTTPTimes : time(p, f) \in 1..Hour
           /\ p.g.streamRead <= p.g.streamEvent /\ p.g.streamEvent <= p.g.upT
           /\ NewResponseValidator(p) /\ ValidateSSELimits(p)
           /\ p.s[0].slots <= absoluteMaxPreDispatchCount
           /\ \A t \in TenantScopes : p.s[t].slots <= p.s[0].slots
           /\ \A s \in PolicyScopes : p.s[s].slots > 0
           /\ \A s \in PolicyScopes : /\ p.s[s].slots <= p.s[s].count
                                      /\ p.s[s].slots * p.g.body <= p.s[s].bytes
                                      /\ p.s[s].slots * p.g.units <= p.s[s].work
<1>1. absoluteMaxPreDispatchCount \in Nat
  BY PolicyAssumption
<1>2. /\ (\A f \in HTTPTimes : policyDuration(p.g[f], maximumPolicyTimeoutMS))
            <=> \A f \in HTTPTimes : time(p, f) \in 1..Hour
      /\ (\A f \in HTTPTimes : time(p, f) \in 1..Hour) =>
            \A f \in HTTPTimes : duration(p, f) = time(p, f) /\ validateTimeout(duration(p, f), Hour)
  BY TimesExact, Zenon
<1>3. /\ time(p, "streamRead") <= time(p, "streamEvent") <=> p.g.streamRead <= p.g.streamEvent
      /\ time(p, "streamEvent") <= time(p, "upT") <=> p.g.streamEvent <= p.g.upT
  <2>1. p.g.streamRead \in Nat /\ p.g.streamEvent \in Nat /\ p.g.upT \in Nat
    BY DocumentWords DEF GatewayValues, HTTPValues, HTTPTimes
  <2> QED
    BY <2>1, TimeOrder DEF time
<1>4. PolicyScopes = {0} \cup TenantScopes /\ \A s \in PolicyScopes : p.s[s].slots \in Nat
  BY DocumentWords DEF PolicyScopes, TenantScopes, ScopeValues
<1>5. p.s[0].slots \in 1..absoluteMaxPreDispatchCount
        <=> p.s[0].slots > 0 /\ p.s[0].slots <= absoluteMaxPreDispatchCount
  BY <1>1, <1>4
<1>6. {"streamRead", "streamEvent", "upT"} \subseteq HTTPTimes
  BY DEF HTTPTimes
<1>7. ASSUME \A f \in HTTPTimes : time(p, f) \in 1..Hour
      PROVE  /\ duration(p, "streamRead") <= duration(p, "streamEvent") <=> p.g.streamRead <= p.g.streamEvent
             /\ duration(p, "streamEvent") <= duration(p, "upT") <=> p.g.streamEvent <= p.g.upT
  BY <1>2, <1>3, <1>6, <1>7
<1>8. ASSUME p.s[0].slots <= absoluteMaxPreDispatchCount, NEW t \in TenantScopes
      PROVE  p.s[t].slots <= p.s[0].slots => p.s[t].slots <= absoluteMaxPreDispatchCount
  <2>1. 0 \in PolicyScopes /\ t \in PolicyScopes
    BY DocumentWords
  <2>2. p.s[0].slots \in Nat /\ p.s[t].slots \in Nat
    BY <1>4, <2>1
  <2> QED
    BY <1>1, <1>8, <2>2
<1> DEFINE Times == \A f \in HTTPTimes : time(p, f) \in 1..Hour
           Tenants == \A t \in TenantScopes : p.s[t].slots > 0 /\ p.s[t].slots <= p.s[0].slots
           Envelopes == \A s \in PolicyScopes : /\ p.s[s].slots <= p.s[s].count
                                                /\ p.s[s].slots * p.g.body <= p.s[s].bytes
                                                /\ p.s[s].slots * p.g.units <= p.s[s].work
<1>9. (\A s \in PolicyScopes : validatePreDispatchEnvelope(p, s)) <=> Envelopes
  BY EnvelopeSound, Zenon
<1> HIDE DEF Envelopes
<1>10. validateHandlerConfig(p) <=>
         /\ Times /\ p.g.streamRead <= p.g.streamEvent /\ p.g.streamEvent <= p.g.upT
         /\ NewResponseValidator(p) /\ ValidateSSELimits(p)
         /\ p.s[0].slots \in 1..absoluteMaxPreDispatchCount
         /\ \A t \in TenantScopes :
              p.s[t].slots > 0 /\ p.s[t].slots <= p.s[0].slots /\ p.s[t].slots <= absoluteMaxPreDispatchCount
         /\ Envelopes
  BY <1>2, <1>7, <1>9, Zenon DEF validateHandlerConfig
<1> QED
  BY <1>4, <1>5, <1>8, <1>10, Zenon DEF Envelopes

(* What validateUpstreamPolicy and validateServerPolicy accept, once the     *)
(* times of requests are known to be right *)
LEMMA ServerSound ==
  ASSUME NEW p \in PolicyDocuments, \A f \in HTTPTimes : time(p, f) \in 1..Hour
  PROVE  /\ validateUpstreamPolicy(p) <=>
              /\ \A f \in TransportTimes : time(p, f) \in 1..Hour
              /\ p.g.headerBytes <= MaxInt
              /\ Int64(p.g.headerBytes) > 0 /\ Int64(p.g.headerBytes) <= absoluteMaxResponseHeaderBytes
              /\ p.g.upConns # 0 /\ p.g.upConns <= absoluteMaxUpstreamConnections
         /\ validateServerPolicy(p) <=>
              /\ \A f \in ServerTimes : time(p, f) \in 1..Hour
              /\ time(p, "force") \in 1..Minute
              /\ HeadersFit(p)
              /\ time(p, "header") + time(p, "bodyT") <= MaxInt
              /\ time(p, "bodyT") + time(p, "queueT") + time(p, "upT") + time(p, "write") <= MaxInt
              /\ time(p, "grace") + 2 * time(p, "force") + shutdownSchedulingMargin <= maximumShutdownWait
<1>1. validateUpstreamPolicy(p) <=>
        /\ \A f \in TransportTimes : time(p, f) \in 1..Hour
        /\ p.g.headerBytes <= MaxInt
        /\ Int64(p.g.headerBytes) > 0 /\ Int64(p.g.headerBytes) <= absoluteMaxResponseHeaderBytes
        /\ p.g.upConns # 0 /\ p.g.upConns <= absoluteMaxUpstreamConnections
  BY TimesExact, Zenon DEF validateUpstreamPolicy
<1> DEFINE Right == (\A f \in ServerTimes : time(p, f) \in 1..Hour) /\ time(p, "force") \in 1..Minute
           Later == \A f \in ServerTimes \cup {"queueT", "bodyT", "upT"} : validateTimeout(duration(p, f), Hour)
           Sums == /\ readTimeout(p) >= 0 /\ writeTimeout(p) >= 0
                   /\ shutdownWait(p) > 0 /\ shutdownWait(p) <= maximumShutdownWait
           Forced == validateTimeout(duration(p, "force"), Minute)
<1>2. {"queueT", "bodyT", "upT"} \subseteq HTTPTimes /\ {"header", "write", "grace"} \subseteq ServerTimes
  BY DEF HTTPTimes, ServerTimes
<1>3. /\ (\A f \in ServerTimes : policyDuration(p.g[f], maximumPolicyTimeoutMS))
            <=> \A f \in ServerTimes : time(p, f) \in 1..Hour
      /\ policyDuration(p.g.force, maximumForceTimeoutMS) <=> time(p, "force") \in 1..Minute
  BY TimesExact, Zenon
<1>4. ASSUME Right PROVE Later /\ Forced
  BY <1>2, <1>4, TimesExact, Zenon
<1>5. ASSUME Right
      PROVE  Sums <=>
        /\ time(p, "header") + time(p, "bodyT") <= MaxInt
        /\ time(p, "bodyT") + time(p, "queueT") + time(p, "upT") + time(p, "write") <= MaxInt
        /\ time(p, "grace") + 2 * time(p, "force") + shutdownSchedulingMargin <= maximumShutdownWait
  <2>1. \A f \in {"header", "bodyT", "queueT", "upT", "write", "grace"} :
          time(p, f) \in 1..Hour /\ duration(p, f) = time(p, f)
    BY <1>2, <1>5, TimesExact, Zenon
  <2>2. time(p, "force") \in 1..Minute /\ duration(p, "force") = time(p, "force")
    BY <1>5, TimesExact, Zenon
  <2> QED
    BY <2>1, <2>2, SumsFit, Zenon
<1>6. validateServerPolicy(p) <=> Right /\ Later /\ Forced /\ HeadersFit(p) /\ Sums
  BY <1>3, HeadersSound, Zenon DEF validateServerPolicy, validateServerConfig
<1> HIDE DEF Right, Later, Forced, Sums
<1>7. validateServerPolicy(p) <=>
        /\ Right /\ HeadersFit(p)
        /\ time(p, "header") + time(p, "bodyT") <= MaxInt
        /\ time(p, "bodyT") + time(p, "queueT") + time(p, "upT") + time(p, "write") <= MaxInt
        /\ time(p, "grace") + 2 * time(p, "force") + shutdownSchedulingMargin <= maximumShutdownWait
  BY <1>4, <1>5, <1>6, Zenon
<1> QED
  BY <1>1, <1>7, Zenon DEF Right

(* What admission.validateConfig accepts *)
LEMMA AdmissionSound ==
  ASSUME NEW p \in PolicyDocuments
  PROVE  validateAdmissionConfig(p) <=>
           /\ p.g.body > 0 /\ p.g.units > 0 /\ p.g.base > 0
           /\ p.s[0].count <= absoluteMaxQueuedRequests
           /\ p.s[0].icount <= absoluteMaxInflightRequests
           /\ \A s \in PolicyScopes :
                /\ p.s[s].count > 0 /\ p.s[s].icount > 0
                /\ p.s[s].bytes >= p.g.body /\ p.s[s].work >= p.g.units /\ p.s[s].iwork >= p.g.units
           /\ \A t \in TenantScopes :
                /\ p.s[t].weight > 0 /\ FundingFits(p, t)
                /\ \A f \in {"count", "bytes", "work", "icount", "iwork"} : p.s[t][f] <= p.s[0][f]
<1>1. PolicyScopes = {0} \cup TenantScopes
  BY DocumentWords DEF PolicyScopes, TenantScopes
<1> DEFINE Limits(t) == \A f \in {"count", "bytes", "work", "icount", "iwork"} : p.s[t][f] <= p.s[0][f]
           Exact(t) == ~overflows(quantum(p, t)) /\ quantum(p, t).low > 0
           Needs(s) == /\ p.s[s].count > 0 /\ p.s[s].icount > 0
                       /\ p.s[s].bytes >= p.g.body /\ p.s[s].work >= p.g.units
                       /\ p.s[s].iwork >= p.g.units
<1>2. \A t \in TenantScopes :
        validateTenant(p, t) <=> p.s[t].weight > 0 /\ Exact(t) /\ Needs(t) /\ Limits(t)
  BY DEF validateTenant, validateQueueLimits, validateInflightLimits
<1>3. validateAdmissionConfig(p) <=>
        /\ p.g.body > 0 /\ p.g.units > 0 /\ p.g.base > 0
        /\ p.s[0].count <= absoluteMaxQueuedRequests
        /\ p.s[0].icount <= absoluteMaxInflightRequests
        /\ \A s \in PolicyScopes : Needs(s)
        /\ \A t \in TenantScopes : p.s[t].weight > 0 /\ Exact(t) /\ Limits(t)
        /\ validateFunding(p)
  BY <1>1, <1>2 DEF validateAdmissionConfig, validateQueueLimits, validateInflightLimits
<1>4. ASSUME p.g.base > 0, p.g.units > 0, NEW t \in TenantScopes, p.s[t].weight > 0, FundingFits(p, t)
      PROVE  Exact(t)
  <2>1. /\ p.g.base \in Nat \ {0} /\ p.s[t].weight \in Nat \ {0} /\ Word \in Nat
        /\ p.g.cap \in 0..Word - 1 /\ p.g.units - 1 \in Nat
    BY <1>4, DocumentWords DEF GatewayValues, ContractValues, ScopeValues
  <2> DEFINE q == p.g.base * p.s[t].weight
  <2>2. /\ q \in Nat /\ (overflows(quantum(p, t)) <=> q >= Word)
        /\ q < Word => quantum(p, t).low = q
    BY <2>1, MulExact DEF quantum
  <2>3. q > 0
    BY <2>1, ProductPositive, Zenon
  <2>4. p.g.cap >= p.g.units - 1 + q
    BY <1>4 DEF FundingFits
  <2> HIDE DEF q
  <2> QED
    BY <2>1, <2>2, <2>3, <2>4
<1>5. ASSUME p.g.units > 0, p.s[0].icount > 0, \A t \in TenantScopes : Exact(t)
      PROVE  validateFunding(p) <=> \A t \in TenantScopes : FundingFits(p, t)
  BY <1>5, FundingSound
<1> HIDE DEF Exact, Limits
<1>6. 0 \in PolicyScopes
  BY DocumentWords
<1>7. validateAdmissionConfig(p) =>
        \A t \in TenantScopes : p.s[t].weight > 0 /\ FundingFits(p, t) /\ Limits(t)
  BY <1>3, <1>5, <1>6
<1>8. ASSUME /\ p.g.body > 0 /\ p.g.units > 0 /\ p.g.base > 0
             /\ p.s[0].count <= absoluteMaxQueuedRequests
             /\ p.s[0].icount <= absoluteMaxInflightRequests
             /\ \A s \in PolicyScopes : Needs(s)
             /\ \A t \in TenantScopes : p.s[t].weight > 0 /\ FundingFits(p, t) /\ Limits(t)
      PROVE  validateAdmissionConfig(p)
  <2>1. \A t \in TenantScopes : Exact(t)
    BY <1>4, <1>8
  <2>2. validateFunding(p)
    BY <1>5, <1>6, <1>8, <2>1
  <2> QED
    BY <1>3, <1>8, <2>1, <2>2
<1> QED
  BY <1>3, <1>7, <1>8 DEF Limits

(* The validators together accept exactly the sound policies. *)
LEMMA PolicyExact ==
  ASSUME NEW p \in PolicyDocuments
  PROVE  validatePolicy(p) <=> Sound(p)
<1> DEFINE SlotsFit ==
             /\ p.s[0].slots <= absoluteMaxPreDispatchCount
             /\ \A t \in TenantScopes : p.s[t].slots <= p.s[0].slots
             /\ \A s \in PolicyScopes : p.s[s].slots > 0
             /\ \A s \in PolicyScopes : /\ p.s[s].slots <= p.s[s].count
                                        /\ p.s[s].slots * p.g.body <= p.s[s].bytes
                                        /\ p.s[s].slots * p.g.units <= p.s[s].work
<1>1. validateHandlerConfig(p) /\ validateUpstreamPolicy(p) /\ validateServerPolicy(p)
        <=> TimesFit(p) /\ ResponsesFit(p) /\ HeadersFit(p) /\ SlotsFit
  <2>1. CASE \A f \in HTTPTimes : time(p, f) \in 1..Hour
    BY <2>1, HandlerSound, ServerSound, ResponsesSound, Zenon DEF TimesFit
  <2>2. CASE ~(\A f \in HTTPTimes : time(p, f) \in 1..Hour)
    BY <2>2, HandlerSound, Zenon DEF TimesFit
  <2> QED
    BY <2>1, <2>2
<1>2. NewParser(p) <=> RequestsFit(p)
  BY ParserSound
<1>3. RequestsFit(p) => p.g.body > 0 /\ p.g.units > 0
  <2>1. /\ p.g.cweight \in Nat /\ p.g.body \in Nat /\ p.g.units \in Nat /\ minimumBodyBytes \in Nat \ {0}
        /\ AbsoluteMaxBodyBytes \in Nat
    BY DocumentWords, PolicyAssumption DEF GatewayValues, ContractValues
  <2> QED
    BY <2>1 DEF RequestsFit
<1>4. validatePolicy(p) <=>
        /\ RequestsFit(p) /\ validateAdmissionConfig(p)
        /\ TimesFit(p) /\ ResponsesFit(p) /\ HeadersFit(p) /\ SlotsFit
  BY <1>1, <1>2, Zenon DEF validatePolicy
<1> QED
  BY <1>3, <1>4, AdmissionSound DEF Sound, NeedsOf, Fits, FundingFits
-----------------------------------------------------------------------------
(* Places before the secrets are looked at *)
Early == {"path", "read", "open", "fstat", "contents", "restat", "parse", "decoded", "validate",
          "accepted"}
Holds(u, s, l) == res["upstream"] = u /\ res["scheduler"] = s /\ res["listener"] = l

(* The types the other parts need *)
ProcessTypes ==
  /\ res \in [Parts -> {"none", "ready", "closed", "late", "server"}]
  /\ DOMAIN env = Names /\ DOMAIN secrets = Names /\ looked \subseteq Names
  /\ clean \in BOOLEAN /\ subscribed \in BOOLEAN /\ failed \in BOOLEAN

(* What the process has opened and taken, place by place *)
OwnedInv ==
  /\ pc \in Early \cup {"secrets", "newUpstream"} => Holds("none", "none", "none")
  /\ pc = "newScheduler" => Holds("ready", "none", "none")
  /\ pc \in {"newHandler", "prepared", "listen"} => Holds("ready", "ready", "none")
  /\ pc = "newServer" => Holds("ready", "ready", "ready")
  /\ Running => Holds("server", "server", "server")
  /\ subscribed => pc \in {"listen", "newServer", "supervise"}

(* Which secrets are where: what was looked up is gone unless Unsetenv      *)
(* failed, and then resolveSecrets has failed.                              *)
SecretInv ==
  /\ pc \in Early => policy # Used /\ looked = {} /\ stuck = {}
  /\ \A n \in looked : env[n] # "unset" => n \in stuck
  /\ stuck # {} => failed
  /\ pc \notin Early \cup {"secrets", "exited"} => looked = Names /\ ~failed
  /\ pc \in {"prepared", "listen", "newServer"} \/ Running => \A n \in Names : secrets[n] = "unset"

(* What supervise knows of the shutdown *)
ShutInv ==
  /\ pc = "await" => shut # "none"
  /\ shut # "none" => pc \in {"await", "exited"}
  /\ exit = "none" <=> pc # "exited"

(* What is known of the policy *)
PolicyInv ==
  /\ pc = "decoded" => \E P \in Policies : policy = [kind |-> P]
  /\ pc = "validate" => policy \in PolicyDocuments
  /\ pc = "accepted" => Sound(policy)
  /\ exit = "policy" => ~Sound(policy)

(* The inductive invariant *)
ProcessInv ==
  ProcessTypes /\ OwnedInv /\ SecretInv /\ ShutInv /\ PolicyInv /\ NothingLeaked /\ VerdictExact

(* The stages of a policy are told apart. *)
LEMMA StagesDiffer ==
  /\ NoPolicy # Used
  /\ \A P : [kind |-> P] # Used
  /\ \A p \in PolicyDocuments : p # Used
<1>1. NoPolicy # Used
  BY DEF NoPolicy, Used
<1>2. DOMAIN Used = {"stage"}
  BY DEF Used
<1>3. ASSUME NEW P PROVE [kind |-> P] # Used
  BY <1>2
<1>4. ASSUME NEW p \in PolicyDocuments PROVE p # Used
  BY <1>2 DEF PolicyDocuments
<1> QED
  BY <1>1, <1>3, <1>4

(* A new process *)
LEMMA ProcessInit == PInit => ProcessInv
BY StagesDiffer DEF PInit, ProcessInv, ProcessTypes, OwnedInv, SecretInv, ShutInv, PolicyInv,
    NothingLeaked, SecretsTaken, VerdictExact, Holds, Early, Running, Parts

(* Steps outside the process and of the accept loop *)
LEMMA ProcessSame ==
  ASSUME ProcessInv, UNCHANGED <<pc, policy, keys, res, super, exit>>
  PROVE  ProcessInv'
BY DEF keys, super, ProcessInv, ProcessTypes, OwnedInv, SecretInv, ShutInv, PolicyInv,
    NothingLeaked, SecretsTaken, VerdictExact, Holds, Early, Running, Parts

(* A failed start closes what is ready; the listener may never have been    *)
(* opened.                                                                  *)
Undone ==
  \E inTime \in BOOLEAN :
    \/ res' = Cleaned(inTime)
    \/ \E bound \in {"none", "closed"} : res' = [Cleaned(inTime) EXCEPT !["listener"] = bound]

LEMMA UndoneParts ==
  ASSUME ProcessTypes, Undone, \A x \in Parts : res[x] # "server"
  PROVE  /\ res' \in [Parts -> {"none", "ready", "closed", "late", "server"}]
         /\ \A x \in Parts : res'[x] \notin {"ready", "server"}
BY DEF ProcessTypes, Undone, Cleaned, Parts

(* One step per action of the process *)
LEMMA ProcessStep ==
  ASSUME ProcessInv, [PNext]_pvars
  PROVE  ProcessInv'
<1>1. CASE UNCHANGED pvars \/ Exited \/ DiskChanges \/ ServerRuns \/ ConnectionsClose \/ ShutdownCloses
  BY <1>1, ProcessSame DEF pvars, Exited, DiskChanges, ServerRuns, ConnectionsClose, ShutdownCloses
<1>2. CASE ReadFails
  BY <1>2 DEF ReadFails, Reading, Exit, keys, super, ProcessInv, ProcessTypes, OwnedInv,
      SecretInv, ShutInv, PolicyInv, NothingLeaked, SecretsTaken, VerdictExact, Holds, Early,
      Running, Parts
<1>3. CASE PathIsSafe
  BY <1>3 DEF PathIsSafe, Goto, keys, super, ProcessInv, ProcessTypes, OwnedInv,
      SecretInv, ShutInv, PolicyInv, NothingLeaked, SecretsTaken, VerdictExact, Holds, Early,
      Running, Parts
<1>4. CASE LstatPolicy
  BY <1>4 DEF LstatPolicy, Usage, Goto, Exit, keys, super, ProcessInv, ProcessTypes, OwnedInv,
      SecretInv, ShutInv, PolicyInv, NothingLeaked, SecretsTaken, VerdictExact, Holds, Early,
      Running, Parts
<1>5. CASE OpenPolicy
  BY <1>5 DEF OpenPolicy, Goto, keys, super, ProcessInv, ProcessTypes, OwnedInv,
      SecretInv, ShutInv, PolicyInv, NothingLeaked, SecretsTaken, VerdictExact, Holds, Early,
      Running, Parts
<1>6. CASE FstatPolicy
  BY <1>6 DEF FstatPolicy, Usage, Goto, Exit, keys, super, ProcessInv, ProcessTypes, OwnedInv,
      SecretInv, ShutInv, PolicyInv, NothingLeaked, SecretsTaken, VerdictExact, Holds, Early,
      Running, Parts
<1>7. CASE ReadContents
  BY <1>7 DEF ReadContents, Goto, keys, super, ProcessInv, ProcessTypes, OwnedInv,
      SecretInv, ShutInv, PolicyInv, NothingLeaked, SecretsTaken, VerdictExact, Holds, Early,
      Running, Parts
<1>8. CASE RestatPolicy
  BY <1>8 DEF RestatPolicy, Goto, Exit, Parse, keys, super, ProcessInv, ProcessTypes, OwnedInv,
      SecretInv, ShutInv, PolicyInv, NothingLeaked, SecretsTaken, VerdictExact, Holds, Early,
      Running, Parts
<1>9. CASE DecodePolicy
  BY <1>9, StagesDiffer DEF DecodePolicy, Goto, Exit, keys, super, ProcessInv, ProcessTypes, OwnedInv,
      SecretInv, ShutInv, PolicyInv, NothingLeaked, SecretsTaken, VerdictExact, Holds, Early,
      Running, Parts
<1>10. CASE ParsePolicy
  BY <1>10, StagesDiffer, DecodedAssumption DEF ParsePolicy, Goto, keys, super, ProcessInv, ProcessTypes, OwnedInv,
      SecretInv, ShutInv, PolicyInv, NothingLeaked, SecretsTaken, VerdictExact, Holds, Early,
      Running, Parts
<1>11. CASE ValidatePolicy
  BY <1>11, PolicyExact DEF ValidatePolicy, Goto, Exit, keys, super, ProcessInv, ProcessTypes, OwnedInv,
      SecretInv, ShutInv, PolicyInv, NothingLeaked, SecretsTaken, VerdictExact, Holds, Early,
      Running, Parts
<1>12. CASE Prepare
  BY <1>12 DEF Prepare, Goto, keys, super, ProcessInv, ProcessTypes, OwnedInv,
      SecretInv, ShutInv, PolicyInv, NothingLeaked, SecretsTaken, VerdictExact, Holds, Early,
      Running, Parts
<1>13. CASE SecretsResolved
  BY <1>13 DEF SecretsResolved, Goto, Exit, ClearSecrets, Taken, keys, super, ProcessInv, ProcessTypes, OwnedInv,
      SecretInv, ShutInv, PolicyInv, NothingLeaked, SecretsTaken, VerdictExact, Holds, Early,
      Running, Parts
<1>14. CASE NewUpstream
  BY <1>14 DEF NewUpstream, Goto, Exit, ClearSecrets, Taken, keys, super, ProcessInv, ProcessTypes, OwnedInv,
      SecretInv, ShutInv, PolicyInv, NothingLeaked, SecretsTaken, VerdictExact, Holds, Early,
      Running, Parts
<1>15. CASE NewScheduler
  BY <1>15 DEF NewScheduler, Goto, Exit, ClearSecrets, Taken, CleanUp, Cleaned, keys, super, ProcessInv, ProcessTypes, OwnedInv,
      SecretInv, ShutInv, PolicyInv, NothingLeaked, SecretsTaken, VerdictExact, Holds, Early,
      Running, Parts
<1>16. CASE NewHandler
  BY <1>16 DEF NewHandler, Goto, Exit, ClearSecrets, Taken, CleanUp, Cleaned, keys, super, ProcessInv, ProcessTypes, OwnedInv,
      SecretInv, ShutInv, PolicyInv, NothingLeaked, SecretsTaken, VerdictExact, Holds, Early,
      Running, Parts
<1>17. CASE CloseValidated
  BY <1>17 DEF CloseValidated, Exit, Cleaned, keys, super, ProcessInv, ProcessTypes, OwnedInv,
      SecretInv, ShutInv, PolicyInv, NothingLeaked, SecretsTaken, VerdictExact, Holds, Early,
      Running, Parts
<1>18. CASE Subscribe
  <2>1. /\ pc = "prepared" /\ UNCHANGED <<policy, keys, clean, served, shut>>
        /\ \/ pc' = "listen" /\ exit' = exit /\ res' = res
           \/ pc' = "exited" /\ exit' = "runtime" /\ Undone
    BY <1>18, Zenon DEF Subscribe, Goto, Exit, CleanUp, Undone
  <2>2. subscribed' \in BOOLEAN /\ (subscribed' => pc' = "listen")
    <3>1. subscribed \in BOOLEAN /\ (subscribed => pc # "prepared")
      BY <1>18 DEF ProcessInv, ProcessTypes, OwnedInv
    <3>2. CASE subscribed' = TRUE /\ pc' = "listen"
      BY <3>2
    <3>3. CASE subscribed' = subscribed
      BY <2>1, <3>1, <3>3
    <3> QED
      BY <1>18, <2>1, <3>1, <3>2, <3>3, Zenon DEF Subscribe, Goto
  <2>3. /\ res' \in [Parts -> {"none", "ready", "closed", "late", "server"}]
        /\ pc' = "listen" => Holds("ready", "ready", "none")'
        /\ pc' = "exited" => \A x \in Parts : res'[x] \notin {"ready", "server"}
    BY <2>1, UndoneParts DEF Holds, Parts, ProcessInv, ProcessTypes, OwnedInv
  <2>4. /\ pc = "prepared" /\ pc' \in {"listen", "exited"}
        /\ IF pc' = "exited" THEN exit' = "runtime" ELSE exit' = exit
        /\ UNCHANGED <<policy, keys, clean, served, shut>>
    BY <2>1
  <2> QED
    BY <2>2, <2>3, <2>4 DEF keys, ProcessInv, ProcessTypes, OwnedInv, SecretInv, ShutInv, PolicyInv,
        NothingLeaked, SecretsTaken, VerdictExact, Holds, Early, Running, Parts
<1>19. CASE Listen
  <2>1. /\ pc = "listen" /\ UNCHANGED <<policy, keys, clean, served, shut>>
        /\ \/ pc' = "newServer" /\ exit' = exit /\ res' = [res EXCEPT !["listener"] = "ready"]
           \/ pc' = "exited" /\ exit' = "runtime" /\ Undone
    BY <1>19, Zenon DEF Listen, Goto, Exit, CleanUp, Undone
  <2>2. subscribed' \in BOOLEAN /\ (subscribed' => pc' = "newServer")
    <3>1. subscribed \in BOOLEAN /\ (subscribed => pc # "prepared")
      BY <1>19 DEF ProcessInv, ProcessTypes, OwnedInv
    <3> QED
      BY <1>19, <3>1, Zenon DEF Listen, Goto, Exit
  <2>3. /\ res' \in [Parts -> {"none", "ready", "closed", "late", "server"}]
        /\ pc' = "newServer" => Holds("ready", "ready", "ready")'
        /\ pc' = "exited" => \A x \in Parts : res'[x] \notin {"ready", "server"}
    BY <2>1, UndoneParts DEF Holds, Parts, ProcessInv, ProcessTypes, OwnedInv
  <2>4. /\ pc = "listen" /\ pc' \in {"newServer", "exited"}
        /\ IF pc' = "exited" THEN exit' = "runtime" ELSE exit' = exit
        /\ UNCHANGED <<policy, keys, clean, served, shut>>
    BY <2>1
  <2> QED
    BY <2>2, <2>3, <2>4 DEF keys, ProcessInv, ProcessTypes, OwnedInv, SecretInv, ShutInv, PolicyInv,
        NothingLeaked, SecretsTaken, VerdictExact, Holds, Early, Running, Parts
<1>20. CASE NewServer
  <2>1. /\ pc = "newServer" /\ UNCHANGED <<policy, keys, clean, served, shut>>
        /\ \/ pc' = "supervise" /\ exit' = exit /\ res' = [x \in Parts |-> "server"]
           \/ pc' = "exited" /\ exit' = "runtime" /\ Undone
    BY <1>20, Zenon DEF NewServer, Goto, Exit, CleanUp, Undone
  <2>2. subscribed' \in BOOLEAN /\ (subscribed' => pc' = "supervise")
    <3>1. subscribed \in BOOLEAN /\ (subscribed => pc # "prepared")
      BY <1>20 DEF ProcessInv, ProcessTypes, OwnedInv
    <3> QED
      BY <1>20, <3>1, Zenon DEF NewServer, Goto, Exit
  <2>3. /\ res' \in [Parts -> {"none", "ready", "closed", "late", "server"}]
        /\ pc' = "supervise" => Holds("server", "server", "server")'
        /\ pc' = "exited" => \A x \in Parts : res'[x] \notin {"ready", "server"}
    BY <2>1, UndoneParts DEF Holds, Parts, ProcessInv, ProcessTypes, OwnedInv
  <2>4. /\ pc = "newServer" /\ pc' \in {"supervise", "exited"}
        /\ IF pc' = "exited" THEN exit' = "runtime" ELSE exit' = exit
        /\ UNCHANGED <<policy, keys, clean, served, shut>>
    BY <2>1
  <2> QED
    BY <2>2, <2>3, <2>4 DEF keys, ProcessInv, ProcessTypes, OwnedInv, SecretInv, ShutInv, PolicyInv,
        NothingLeaked, SecretsTaken, VerdictExact, Holds, Early, Running, Parts
<1>21. CASE Signal
  BY <1>21 DEF Signal, Exit, keys, super, ProcessInv, ProcessTypes, OwnedInv,
      SecretInv, ShutInv, PolicyInv, NothingLeaked, SecretsTaken, VerdictExact, Holds, Early,
      Running, Parts
<1>22. CASE ServeReturns
  BY <1>22 DEF ServeReturns, keys, super, ProcessInv, ProcessTypes, OwnedInv,
      SecretInv, ShutInv, PolicyInv, NothingLeaked, SecretsTaken, VerdictExact, Holds, Early,
      Running, Parts
<1>23. CASE Triggered
  BY <1>23 DEF Triggered, Goto, keys, super, ProcessInv, ProcessTypes, OwnedInv,
      SecretInv, ShutInv, PolicyInv, NothingLeaked, SecretsTaken, VerdictExact, Holds, Early,
      Running, Parts
<1>24. CASE DeadlinePasses
  BY <1>24 DEF DeadlinePasses, keys, super, ProcessInv, ProcessTypes, OwnedInv,
      SecretInv, ShutInv, PolicyInv, NothingLeaked, SecretsTaken, VerdictExact, Holds, Early,
      Running, Parts
<1>25. CASE ShutdownReturns
  BY <1>25 DEF ShutdownReturns, Goto, keys, super, ProcessInv, ProcessTypes, OwnedInv,
      SecretInv, ShutInv, PolicyInv, NothingLeaked, SecretsTaken, VerdictExact, Holds, Early,
      Running, Parts
<1>26. CASE Verdict
  BY <1>26 DEF Verdict, Exit, keys, super, ProcessInv, ProcessTypes, OwnedInv,
      SecretInv, ShutInv, PolicyInv, NothingLeaked, SecretsTaken, VerdictExact, Holds, Early,
      Running, Parts
<1>27. ASSUME NEW n \in Names, ConsumeSecret(n) PROVE ProcessInv'
  <2>1. /\ pc = "secrets" /\ pc' = "secrets" /\ looked' = looked \cup {n}
        /\ UNCHANGED <<exit, policy, res, subscribed, clean, served, shut>>
        /\ \E v : secrets' = [secrets EXCEPT ![n] = v]
    BY <1>27 DEF ConsumeSecret, Goto, super
  <2>2. /\ \/ env' = [env EXCEPT ![n] = "unset"] /\ stuck' = stuck
           \/ env' = env /\ stuck' = stuck \cup {n}
        /\ failed' \in BOOLEAN /\ (failed \/ stuck' # stuck => failed')
    BY <1>27, Zenon DEF ConsumeSecret
  <2>3. DOMAIN env' = Names /\ DOMAIN secrets' = Names /\ looked' \subseteq Names
    BY <2>1, <2>2 DEF ProcessInv, ProcessTypes
  <2>4. (\A m \in looked' : env'[m] # "unset" => m \in stuck') /\ (stuck' # {} => failed')
    <3>1. /\ DOMAIN env = Names /\ looked \subseteq Names /\ (stuck # {} => failed)
          /\ \A m \in looked : env[m] # "unset" => m \in stuck
      BY DEF ProcessInv, ProcessTypes, SecretInv
    <3>2. \A m \in looked' : env'[m] # "unset" => m \in stuck'
      BY <2>1, <2>2, <3>1
    <3>3. stuck' # {} => failed'
      BY <2>2, <3>1, Zenon
    <3> QED
      BY <3>2, <3>3
  <2> QED
    BY <2>1, <2>2, <2>3, <2>4 DEF ProcessInv, ProcessTypes, OwnedInv, SecretInv, ShutInv, PolicyInv,
        NothingLeaked, SecretsTaken, VerdictExact, Holds, Early, Running, Parts
<1> QED
  BY <1>1, <1>2, <1>3, <1>4, <1>5, <1>6, <1>7, <1>8, <1>9, <1>10, <1>11, <1>12, <1>13, <1>14,
      <1>15, <1>16, <1>17, <1>18, <1>19, <1>20, <1>21, <1>22, <1>23, <1>24, <1>25, <1>26, <1>27
      DEF PNext, Preparing, Supervising
-----------------------------------------------------------------------------
(* The listener inside the process takes its own steps only. *)
LEMMA ListenerInside == [PNext]_pvars => [Next]_vars
<1> SUFFICES ASSUME [PNext]_pvars PROVE [Next]_vars
  OBVIOUS
<1>1. CASE UNCHANGED pvars \/ Exited
  BY <1>1 DEF pvars, Exited
<1>2. CASE ServerRuns \/ ConnectionsClose \/ ShutdownCloses
  BY <1>2 DEF ServerRuns, ConnectionsClose, ShutdownCloses, Next
<1>3. CASE DiskChanges \/ Signal \/ ServeReturns \/ DeadlinePasses \/ Supervising
  BY <1>3 DEF DiskChanges, Signal, ServeReturns, DeadlinePasses, Supervising, Triggered,
              ShutdownReturns, Verdict
<1>4. CASE Preparing
  BY <1>4 DEF Preparing, PathIsSafe, ReadFails, LstatPolicy, OpenPolicy, FstatPolicy, ReadContents, RestatPolicy, DecodePolicy,
              ParsePolicy, ValidatePolicy, Prepare, ConsumeSecret, SecretsResolved, NewUpstream,
              NewScheduler, NewHandler, CloseValidated, Subscribe, Listen, NewServer
<1> QED
  BY <1>1, <1>2, <1>3, <1>4 DEF PNext

(* In a running gateway, through every shutdown: one slot per connection    *)
(* that is not closed, never more than maxConnections, and release never    *)
(* panics (internal/app/listener.go).                                       *)
THEOREM ProcessSlotsExact == PSpec => []SlotsExact
<1>1. PInit => SlotsInv
  BY SlotsInit DEF PInit
<1>2. SlotsInv /\ [PNext]_pvars => SlotsInv'
  BY SlotsStep, ListenerInside
<1>3. SlotsInv => SlotsExact
  BY DEF SlotsInv
<1> QED
  BY <1>1, <1>2, <1>3, PTL DEF PSpec

(* The inductive invariant of the process *)
THEOREM ProcessInvariant == PSpec => []ProcessInv
<1>1. PInit => ProcessInv
  BY ProcessInit
<1>2. ProcessInv /\ [PNext]_pvars => ProcessInv'
  BY ProcessStep
<1> QED
  BY <1>1, <1>2, PTL DEF PSpec

(* A process that ends by itself, at whatever step of prepareGateway,       *)
(* start or supervise something fails, has closed the client, the           *)
(* scheduler and the listener or handed them to a server it has shut down   *)
(* (a scheduler that did not close in time costs the success), has given    *)
(* signals back, and leaves no secret behind but in variables that the      *)
(* system refused to unset, and then it has started nothing.                *)
THEOREM NothingIsLeaked == PSpec => []NothingLeaked
<1>1. ProcessInv => NothingLeaked
  BY DEF ProcessInv
<1> QED
  BY <1>1, ProcessInvariant, PTL

(* supervise (supervise.go) reports success exactly when a signal asked for *)
(* the end and both Serve and Shutdown returned nil.                        *)
THEOREM VerdictIsExact == PSpec => []VerdictExact
<1>1. ProcessInv => VerdictExact
  BY DEF ProcessInv
<1> QED
  BY <1>1, ProcessInvariant, PTL

(* The reading of the policy: what Lstat admitted was a private file at the *)
(* path, and what is read is that file.                                     *)
ReadInv ==
  /\ DOMAIN seen = {"inode", "size", "fd", "bytes"}
  /\ Reading => (files[path].private => path \in vetted)
  /\ pc \in {"open", "fstat", "contents", "restat"} => seen.inode \in vetted
  /\ pc \in {"contents", "restat"} => seen.fd = seen.inode

LEMMA ReadInit == PInit => ReadInv
BY DEF PInit, ReadInv, Nowhere, Reading

LEMMA ReadStep ==
  ASSUME ReadInv, [PNext]_pvars
  PROVE  ReadInv'
<1>1. CASE UNCHANGED <<pc, file>>
  BY <1>1 DEF file, disk, ReadInv, Reading
<1>2. CASE DiskChanges
  <2>1. UNCHANGED <<pc, seen>> /\ vetted' = vetted \cup {i \in {path'} : files'[i].private}
    BY <1>2 DEF DiskChanges
  <2> QED
    BY <2>1 DEF ReadInv, Reading
<1>3. CASE LstatPolicy
  BY <1>3 DEF LstatPolicy, Usage, Goto, Exit, disk, ReadInv, Reading
<1>4. CASE OpenPolicy
  BY <1>4 DEF OpenPolicy, Goto, disk, ReadInv, Reading
<1>5. CASE FstatPolicy
  BY <1>5 DEF FstatPolicy, Usage, Goto, Exit, file, disk, ReadInv, Reading
<1>6. CASE ReadContents
  BY <1>6 DEF ReadContents, Goto, disk, ReadInv, Reading
<1>7. CASE RestatPolicy
  BY <1>7 DEF RestatPolicy, Parse, Goto, Exit, Nowhere, file, disk, ReadInv, Reading
<1>8. CASE PathIsSafe
  BY <1>8 DEF PathIsSafe, Goto, file, disk, ReadInv, Reading
<1>9. CASE UNCHANGED file /\ pc' \notin {"path", "read", "open", "fstat", "contents", "restat"}
  BY <1>9 DEF file, disk, ReadInv, Reading
<1>10. ASSUME ServerRuns \/ ConnectionsClose \/ ServeReturns \/ ShutdownCloses \/ DeadlinePasses
              \/ Exited \/ UNCHANGED pvars
       PROVE  UNCHANGED <<pc, file>>
  BY <1>10 DEF ServerRuns, ConnectionsClose, ServeReturns, ShutdownCloses, DeadlinePasses, Exited, pvars
<1>11. ASSUME Signal \/ Supervising \/ ReadFails \/ DecodePolicy \/ ParsePolicy \/ ValidatePolicy
              \/ Prepare \/ (\E n \in Names : ConsumeSecret(n)) \/ SecretsResolved \/ NewUpstream
              \/ NewScheduler \/ NewHandler \/ CloseValidated \/ Subscribe \/ Listen \/ NewServer
       PROVE  /\ UNCHANGED file
              /\ UNCHANGED pc \/ pc' \notin {"path", "read", "open", "fstat", "contents", "restat"}
  BY <1>11 DEF Signal, Supervising, Triggered, ShutdownReturns, Verdict, ReadFails, DecodePolicy,
      ParsePolicy, ValidatePolicy, Prepare, ConsumeSecret, SecretsResolved, NewUpstream,
      NewScheduler, NewHandler, CloseValidated, Subscribe, Listen, NewServer, Goto, Exit
<1> QED
  BY <1>1, <1>2, <1>3, <1>4, <1>5, <1>6, <1>7, <1>8, <1>9, <1>10, <1>11 DEF PNext, Preparing

(* Whatever others do to files meanwhile, the file that is parsed was       *)
(* private while it was the one at the path (policy_file.go).  And          *)
(* validatePolicy (policy.go) with the validators it calls, with every      *)
(* product, sum and conversion computed in words that wrap, accepts a       *)
(* policy if and only if the integers satisfy what the gateway assumes of   *)
(* its configuration.                                                       *)
THEOREM PolicyIsDecided == PSpec => PolicyDecided
<1> DEFINE Decided ==
      /\ pc' = "parse" => seen.fd \in vetted
      /\ pc' = "accepted" => Sound(policy')
      /\ exit' = "policy" => ~Sound(policy')
<1>1. ReadInv /\ ProcessInv /\ ProcessInv' /\ [PNext]_pvars => [Decided]_pvars
  <2> SUFFICES ASSUME ReadInv, ProcessInv, ProcessInv', PNext, ~UNCHANGED pvars PROVE Decided
    OBVIOUS
  <2>1. (pc' = "accepted" => Sound(policy')) /\ (exit' = "policy" => ~Sound(policy'))
    BY DEF ProcessInv, PolicyInv
  <2>2. ASSUME pc' = "parse" PROVE RestatPolicy
    <3>1. ~(DiskChanges \/ ServerRuns \/ ConnectionsClose \/ ServeReturns \/ ShutdownCloses
            \/ DeadlinePasses \/ Exited \/ Supervising)
      BY <2>2 DEF DiskChanges, Reading, ServerRuns, ConnectionsClose, ServeReturns,
                  ShutdownCloses, DeadlinePasses, Exited, Running, Supervising, Triggered,
                  ShutdownReturns, Verdict, Goto, Exit
    <3>2. ~Signal
      BY <2>2 DEF Signal, Exit, ProcessInv, OwnedInv
    <3>3. Preparing
      BY <3>1, <3>2 DEF PNext
    <3> QED
      BY <2>2, <3>3 DEF Preparing, PathIsSafe, LstatPolicy, OpenPolicy, FstatPolicy, ReadContents,
           ReadFails, DecodePolicy, ParsePolicy, ValidatePolicy, Prepare, ConsumeSecret,
           SecretsResolved, NewUpstream, NewScheduler, NewHandler, CloseValidated, Subscribe,
           Listen, NewServer, Usage, Goto, Exit
  <2>3. ASSUME RestatPolicy PROVE seen.fd \in vetted
    BY <2>3 DEF RestatPolicy, ReadInv
  <2> QED
    BY <2>1, <2>2, <2>3
<1>2. PSpec => []ReadInv
  <2>1. ReadInv /\ [PNext]_pvars => ReadInv'
    BY ReadStep
  <2> QED
    BY <2>1, ReadInit, PTL DEF PSpec
<1> QED
  BY <1>1, <1>2, ProcessInvariant, PTL DEF PSpec, PolicyDecided
=============================================================================
