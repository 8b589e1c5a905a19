------------------------- MODULE PreDispatchTheorems -------------------------
(***************************************************************************)
(* For every number of requests and tenants and every envelope of limits   *)
(* that the configuration accepts: the pre-dispatch slots are conserved,   *)
(* the queue behind them never lacks room, and a client who stays is       *)
(* answered.                                                               *)
(***************************************************************************)
EXTENDS PreDispatch, FiniteSetTheorems, TLAPS

Releasing == {"release", "release to serve", "release to refuse", "release to recover"}

(* The channels hold the slots the leases stand for. *)
CountsInv ==
  /\ globalSlots = Cardinality(Holders(Global))
  /\ \A t \in Tenants : tenantSlots[t] = Cardinality(Holders(t))

(* Which slots a handler has is told by where it is. *)
LeaseInv(r) ==
  /\ pc[r] \in {"arrived", "tenant", "serve", "refuse", "recover", "returned"} => lease[r] = {}
  /\ pc[r] \in {"global", "rollback"} => lease[r] = {tenantOf(r)}
  /\ pc[r] \in {"body", "acquire"} => lease[r] = {Global, tenantOf(r)}
  /\ pc[r] \in Releasing => lease[r] \in {{tenantOf(r)}, {Global, tenantOf(r)}}

(* A request is in the scheduler's queue only during Acquire, and has a     *)
(* permit only from there to its Finish.                                    *)
StatusInv(r) ==
  /\ pc[r] \in {"arrived", "tenant", "global", "rollback", "body"} => status[r] = "outside"
  /\ pc[r] \in {"release to serve", "serve"} => status[r] = "serving"
  /\ status[r] = "waiting" => pc[r] = "acquire"
  /\ status[r] = "serving" => pc[r] \in {"acquire", "release to serve", "serve"}

(* The two places at which a handler may end without another answer *)
AnswerInv(r) == pc[r] \in {"release", "returned"} => responded[r] \/ gone[r]

PathInv == \A r \in Requests : LeaseInv(r) /\ StatusInv(r) /\ AnswerInv(r)

PDInv == TypeOK /\ CountsInv /\ PathInv

-----------------------------------------------------------------------------
(* Tenants are numbered from one, so that no tenant is the whole gateway. *)
LEMMA ScopeFacts ==
  /\ Tenants \subseteq Scopes /\ Global \in Scopes /\ Global \notin Tenants
  /\ \A s \in Scopes : s = Global \/ s \in Tenants
<1>1. N \in Nat \ {0}
  BY ConfigAssumption
<1> QED
  BY <1>1 DEF Tenants, Scopes, Global

(* The demand of a request names a tenant. *)
LEMMA TenantOfType ==
  ASSUME TypeOK, NEW r \in Requests
  PROVE  tenantOf(r) \in Tenants
BY DEF TypeOK, Admission, tenantOf

(* The holders of a slot are finitely many. *)
LEMMA HoldersFinite ==
  ASSUME NEW s
  PROVE  IsFiniteSet(Holders(s)) /\ Cardinality(Holders(s)) \in Nat
BY EnvelopeAssumption, FS_Subset, FS_CardinalityType DEF Holders

(* Taking a slot adds one holder of its channel and of no other. *)
LEMMA SlotTaken ==
  ASSUME TypeOK, NEW r \in Requests, NEW s \in Scopes, s \notin lease[r],
         lease' = [lease EXCEPT ![r] = lease[r] \cup {s}]
  PROVE  /\ Cardinality(Holders(s)') = Cardinality(Holders(s)) + 1
         /\ \A x \in Scopes \ {s} : Holders(x)' = Holders(x)
<1>1. \A q \in Requests : lease'[q] = IF q = r THEN lease[r] \cup {s} ELSE lease[q]
  BY DEF TypeOK
<1>2. Holders(s)' = Holders(s) \cup {r} /\ r \notin Holders(s)
  BY <1>1 DEF Holders
<1>3. \A x \in Scopes \ {s} : Holders(x)' = Holders(x)
  BY <1>1 DEF Holders
<1>4. Cardinality(Holders(s) \cup {r}) = Cardinality(Holders(s)) + 1
  BY <1>2, HoldersFinite, FS_AddElement
<1> QED
  BY <1>2, <1>3, <1>4

(* Giving a slot back removes one holder of its channel and of no other. *)
LEMMA SlotGivenBack ==
  ASSUME TypeOK, NEW r \in Requests, NEW s \in Scopes, s \in lease[r],
         lease' = [lease EXCEPT ![r] = lease[r] \ {s}]
  PROVE  /\ Cardinality(Holders(s)') = Cardinality(Holders(s)) - 1
         /\ Cardinality(Holders(s)) > 0
         /\ \A x \in Scopes \ {s} : Holders(x)' = Holders(x)
<1>1. \A q \in Requests : lease'[q] = IF q = r THEN lease[r] \ {s} ELSE lease[q]
  BY DEF TypeOK
<1>2. Holders(s)' = Holders(s) \ {r} /\ r \in Holders(s)
  BY <1>1 DEF Holders
<1>3. \A x \in Scopes \ {s} : Holders(x)' = Holders(x)
  BY <1>1 DEF Holders
<1>4. Cardinality(Holders(s) \ {r}) = Cardinality(Holders(s)) - 1
  BY <1>2, HoldersFinite, FS_RemoveElement
<1>5. Cardinality(Holders(s)) # 0
  BY <1>2, HoldersFinite, FS_EmptySet
<1> QED
  BY <1>2, <1>3, <1>4, <1>5, HoldersFinite

-----------------------------------------------------------------------------
(* A step that moves no slot leaves the channels exact. *)
LEMMA SlotsStill ==
  ASSUME CountsInv, UNCHANGED Slots
  PROVE  CountsInv'
BY DEF CountsInv, Slots, Holders

(* A step of one request leaves the others where they were. *)
LEMMA OthersStill ==
  ASSUME PathInv, NEW r \in Requests,
         \A q \in Requests \ {r} :
           /\ lease'[q] = lease[q] /\ pc'[q] = pc[q] /\ status'[q] = status[q]
           /\ gone'[q] = gone[q] /\ responded'[q] = responded[q],
         demand' = demand,
         LeaseInv(r)' /\ StatusInv(r)' /\ AnswerInv(r)'
  PROVE  PathInv'
<1> SUFFICES ASSUME NEW q \in Requests
             PROVE  LeaseInv(q)' /\ StatusInv(q)' /\ AnswerInv(q)'
  BY Zenon DEF PathInv
<1>1. CASE q = r
  BY <1>1
<1>2. CASE q # r
  BY <1>2 DEF PathInv, LeaseInv, StatusInv, AnswerInv, tenantOf
<1> QED
  BY <1>1, <1>2

(* The invariant holds at the start. *)
LEMMA PDInit == Init => PDInv
<1> SUFFICES ASSUME Init PROVE PDInv
  OBVIOUS
<1>1. TypeOK
  BY EnvelopeAssumption DEF Init, CInit, TypeOK, NextPlace, Scopes
<1>2. CountsInv
  <2>1. \A s : Holders(s) = {}
    BY DEF Init, Holders
  <2> QED
    BY <2>1, FS_EmptySet DEF Init, CountsInv
<1>3. PathInv
  BY DEF Init, CInit, PathInv, LeaseInv, StatusInv, AnswerInv, Releasing
<1> QED
  BY <1>1, <1>2, <1>3 DEF PDInv
-----------------------------------------------------------------------------
(* The steps that move no slot: the examination, the body, the scheduler's  *)
(* own steps, the answers, and a client who leaves.                         *)
LEMMA StillStep ==
  ASSUME PDInv, NEW r \in Requests,
         \/ ClientLeaves(r) \/ Examine(r) \/ parseRequest(r)
         \/ AbandonsPermit(r) \/ AcquireReturns(r) \/ writeAdmissionDecision(r)
         \/ ServeRequest(r) \/ Recover(r) \/ Joins(r) \/ Starts(r) \/ Refused(r)
  PROVE  PDInv'
<1> USE DEF PDInv
<1>1. UNCHANGED <<Slots, demand, open>>
  BY Zenon DEF ClientLeaves, Examine, parseRequest, AbandonsPermit, AcquireReturns,
       writeAdmissionDecision, ServeRequest, Recover, Joins, Starts, Refused,
       InAcquire, Join, Start, TurnAway, Finish, Becomes, Slots, contract, handlers
<1>2. CountsInv'
  BY <1>1, SlotsStill
<1> DEFINE Inv(q) == LeaseInv(q) /\ StatusInv(q) /\ AnswerInv(q)
<1>3. /\ tenantOf(r)' = tenantOf(r) /\ lease'[r] = lease[r]
      /\ LeaseInv(r) /\ StatusInv(r) /\ AnswerInv(r)
  BY <1>1 DEF tenantOf, Slots, PathInv
<1>4. CASE ClientLeaves(r)
  <2>1. TypeOK'
    BY <1>1, <1>4 DEF ClientLeaves, TypeOK, Slots, contract
  <2>2. Inv(r)'
    BY <1>3, <1>4 DEF ClientLeaves, TypeOK, LeaseInv, StatusInv, AnswerInv, contract
  <2>3. PathInv'
    BY <1>1, <1>4, <2>2, OthersStill DEF ClientLeaves, TypeOK, Slots, contract
  <2> QED
    BY <1>2, <2>1, <2>3
<1>5. CASE Examine(r)
  <2>1. TypeOK'
    BY <1>1, <1>5 DEF Examine, Goto, Respond, TypeOK, NextPlace, Slots, contract
  <2>2. Inv(r)'
    BY <1>3, <1>5 DEF Examine, Goto, Respond, TypeOK, NextPlace, LeaseInv, StatusInv, AnswerInv, Releasing, contract
  <2>3. PathInv'
    BY <1>1, <1>5, <2>2, OthersStill DEF Examine, Goto, Respond, TypeOK, Slots, contract
  <2> QED
    BY <1>2, <2>1, <2>3
<1>6. CASE parseRequest(r)
  <2>1. TypeOK'
    BY <1>1, <1>6 DEF parseRequest, Goto, Respond, TypeOK, NextPlace, Slots, contract
  <2>2. Inv(r)'
    BY <1>3, <1>6 DEF parseRequest, Goto, Respond, TypeOK, NextPlace, LeaseInv, StatusInv, AnswerInv, Releasing, contract
  <2>3. PathInv'
    BY <1>1, <1>6, <2>2, OthersStill DEF parseRequest, Goto, Respond, TypeOK, Slots, contract
  <2> QED
    BY <1>2, <2>1, <2>3
<1>7. CASE AbandonsPermit(r)
  <2>1. TypeOK'
    BY <1>1, <1>7 DEF AbandonsPermit, Finish, Becomes, Goto, Respond, TypeOK, NextPlace, Slots, contract
  <2>2. Inv(r)'
    BY <1>3, <1>7 DEF AbandonsPermit, Finish, Becomes, Goto, Respond, TypeOK, NextPlace, LeaseInv, StatusInv, AnswerInv, Releasing, contract
  <2>3. PathInv'
    BY <1>1, <1>7, <2>2, OthersStill DEF AbandonsPermit, Finish, Becomes, Goto, Respond, TypeOK, Slots, contract
  <2> QED
    BY <1>2, <2>1, <2>3
<1>8. CASE AcquireReturns(r)
  <2>1. TypeOK'
    BY <1>1, <1>8 DEF AcquireReturns, Goto, Respond, TypeOK, NextPlace, Slots, contract
  <2>2. Inv(r)'
    BY <1>3, <1>8 DEF AcquireReturns, Goto, Respond, TypeOK, NextPlace, LeaseInv, StatusInv, AnswerInv, Releasing, contract
  <2>3. PathInv'
    BY <1>1, <1>8, <2>2, OthersStill DEF AcquireReturns, Goto, Respond, TypeOK, Slots, contract
  <2> QED
    BY <1>2, <2>1, <2>3
<1>9. CASE writeAdmissionDecision(r)
  <2>1. TypeOK'
    BY <1>1, <1>9 DEF writeAdmissionDecision, Goto, Respond, TypeOK, NextPlace, Slots, contract
  <2>2. Inv(r)'
    BY <1>3, <1>9 DEF writeAdmissionDecision, Goto, Respond, TypeOK, NextPlace, LeaseInv, StatusInv, AnswerInv, Releasing, contract
  <2>3. PathInv'
    BY <1>1, <1>9, <2>2, OthersStill DEF writeAdmissionDecision, Goto, Respond, TypeOK, Slots, contract
  <2> QED
    BY <1>2, <2>1, <2>3
<1>10. CASE ServeRequest(r)
  <2>1. TypeOK'
    BY <1>1, <1>10 DEF ServeRequest, Finish, Becomes, Goto, Respond, TypeOK, NextPlace, Slots, contract
  <2>2. Inv(r)'
    BY <1>3, <1>10 DEF ServeRequest, Finish, Becomes, Goto, Respond, TypeOK, NextPlace, LeaseInv, StatusInv, AnswerInv, Releasing, contract
  <2>3. PathInv'
    BY <1>1, <1>10, <2>2, OthersStill DEF ServeRequest, Finish, Becomes, Goto, Respond, TypeOK, Slots, contract
  <2> QED
    BY <1>2, <2>1, <2>3
<1>11. CASE Recover(r)
  <2>1. TypeOK'
    BY <1>1, <1>11 DEF Recover, Goto, Respond, TypeOK, NextPlace, Slots, contract
  <2>2. Inv(r)'
    BY <1>3, <1>11 DEF Recover, Goto, Respond, TypeOK, NextPlace, LeaseInv, StatusInv, AnswerInv, Releasing, contract
  <2>3. PathInv'
    BY <1>1, <1>11, <2>2, OthersStill DEF Recover, Goto, Respond, TypeOK, Slots, contract
  <2> QED
    BY <1>2, <2>1, <2>3
<1>12. CASE Joins(r)
  <2>1. TypeOK'
    BY <1>1, <1>12 DEF Joins, InAcquire, Join, Becomes, handlers, Goto, Respond, TypeOK, NextPlace, Slots, contract
  <2>2. Inv(r)'
    BY <1>3, <1>12 DEF Joins, InAcquire, Join, Becomes, handlers, Goto, Respond, TypeOK, NextPlace, LeaseInv, StatusInv, AnswerInv, Releasing, contract
  <2>3. PathInv'
    BY <1>1, <1>12, <2>2, OthersStill DEF Joins, InAcquire, Join, Becomes, handlers, Goto, Respond, TypeOK, Slots, contract
  <2> QED
    BY <1>2, <2>1, <2>3
<1>13. CASE Starts(r)
  <2>1. TypeOK'
    BY <1>1, <1>13 DEF Starts, InAcquire, Start, Becomes, handlers, Goto, Respond, TypeOK, NextPlace, Slots, contract
  <2>2. Inv(r)'
    BY <1>3, <1>13 DEF Starts, InAcquire, Start, Becomes, handlers, Goto, Respond, TypeOK, NextPlace, LeaseInv, StatusInv, AnswerInv, Releasing, contract
  <2>3. PathInv'
    BY <1>1, <1>13, <2>2, OthersStill DEF Starts, InAcquire, Start, Becomes, handlers, Goto, Respond, TypeOK, Slots, contract
  <2> QED
    BY <1>2, <2>1, <2>3
<1>14. CASE Refused(r)
  <2>1. TypeOK'
    BY <1>1, <1>14 DEF Refused, InAcquire, TurnAway, Becomes, handlers, Goto, Respond, TypeOK, NextPlace, Slots, contract
  <2>2. Inv(r)'
    BY <1>3, <1>14 DEF Refused, InAcquire, TurnAway, Becomes, handlers, Goto, Respond, TypeOK, NextPlace, LeaseInv, StatusInv, AnswerInv, Releasing, contract
  <2>3. PathInv'
    BY <1>1, <1>14, <2>2, OthersStill DEF Refused, InAcquire, TurnAway, Becomes, handlers, Goto, Respond, TypeOK, Slots, contract
  <2> QED
    BY <1>2, <2>1, <2>3
<1> QED
  BY <1>4, <1>5, <1>6, <1>7, <1>8, <1>9, <1>10, <1>11, <1>12, <1>13, <1>14

-----------------------------------------------------------------------------
(* The counts after one slot of channel s was taken or given back *)
LEMMA CountsMoved ==
  ASSUME CountsInv, TypeOK, NEW s \in Scopes, NEW d \in {1, -1},
         Cardinality(Holders(s)') = Cardinality(Holders(s)) + d,
         \A x \in Scopes \ {s} : Holders(x)' = Holders(x),
         \/ /\ s = Global /\ globalSlots' = globalSlots + d
            /\ UNCHANGED tenantSlots
         \/ /\ s \in Tenants /\ tenantSlots' = [tenantSlots EXCEPT ![s] = @ + d]
            /\ UNCHANGED globalSlots
  PROVE  CountsInv'
<1>1. /\ globalSlots \in Int /\ tenantSlots \in [Tenants -> Nat]
  BY EnvelopeAssumption DEF TypeOK
<1>2. \A x \in Scopes : Cardinality(Holders(x)') =
                          IF x = s THEN Cardinality(Holders(s)) + d ELSE Cardinality(Holders(x))
  BY Zenon
<1>3. globalSlots' = Cardinality(Holders(Global)')
  BY <1>1, <1>2, ScopeFacts DEF CountsInv
<1>4. ASSUME NEW t \in Tenants PROVE tenantSlots'[t] = Cardinality(Holders(t)')
  BY <1>1, <1>2, ScopeFacts DEF CountsInv
<1> QED
  BY <1>3, <1>4 DEF CountsInv

(* takeTenantSlot takes one of the tenant's slots below its capacity, or    *)
(* answers.                                                                 *)
LEMMA TakeTenantStep ==
  ASSUME PDInv, NEW r \in Requests, takeTenantSlot(r)
  PROVE  PDInv'
<1> USE DEF PDInv
<1> DEFINE t == tenantOf(r)
           Inv(q) == LeaseInv(q) /\ StatusInv(q) /\ AnswerInv(q)
<1>1. t \in Tenants /\ t \in Scopes
  BY TenantOfType, ScopeFacts
<1>2. /\ t' = t /\ UNCHANGED <<demand, status, open, globalSlots, gone>>
      /\ pc[r] = "tenant" /\ lease[r] = {} /\ status[r] = "outside"
  BY DEF takeTenantSlot, PathInv, LeaseInv, StatusInv, contract, tenantOf
<1>3. CASE tenantSlots[t] < TenantLimit[t] /\ lease' = [lease EXCEPT ![r] = @ \cup {t}]
  <2>1. /\ tenantSlots' = [tenantSlots EXCEPT ![t] = @ + 1]
        /\ Goto(r, "global") /\ UNCHANGED responded
    BY <1>1, <1>3, EnvelopeAssumption DEF takeTenantSlot, TypeOK
  <2>2. CountsInv'
    <3>1. /\ Cardinality(Holders(t)') = Cardinality(Holders(t)) + 1
          /\ \A x \in Scopes \ {t} : Holders(x)' = Holders(x)
      BY <1>1, <1>2, <1>3, SlotTaken
    <3> QED
      BY <1>1, <1>2, <2>1, <3>1, CountsMoved
  <2>3. TypeOK'
    <3>1. /\ tenantSlots' \in [Tenants -> Nat]
          /\ \A u \in Tenants : tenantSlots'[u] <= TenantLimit[u]
      <4>1. TenantLimit \in [Tenants -> Nat] /\ tenantSlots \in [Tenants -> Nat]
        BY EnvelopeAssumption DEF TypeOK
      <4>2. \A u \in Tenants : tenantSlots'[u] = IF u = t THEN tenantSlots[t] + 1 ELSE tenantSlots[u]
        BY <2>1, <4>1
      <4> HIDE DEF t
      <4> QED
        BY <1>1, <1>3, <2>1, <4>1, <4>2 DEF TypeOK
    <3>2. lease' \in [Requests -> SUBSET Scopes]
      BY <1>1, <1>3 DEF TypeOK
    <3> QED
      BY <1>2, <2>1, <3>1, <3>2 DEF TypeOK, Goto
  <2>4. Inv(r)'
    BY <1>2, <1>3, <2>1 DEF TypeOK, Goto, LeaseInv, StatusInv, AnswerInv, Releasing
  <2>5. PathInv'
    BY <1>2, <1>3, <2>1, <2>4, OthersStill DEF TypeOK, Goto
  <2> QED
    BY <2>2, <2>3, <2>5
<1>4. CASE Goto(r, "returned") /\ Respond(r) /\ UNCHANGED <<tenantSlots, lease>>
  <2>1. CountsInv'
    BY <1>2, <1>4, SlotsStill DEF Slots
  <2>2. TypeOK'
    BY <1>2, <1>4 DEF TypeOK, Goto, Respond
  <2>3. Inv(r)'
    BY <1>2, <1>4 DEF TypeOK, Goto, Respond, LeaseInv, StatusInv, AnswerInv, Releasing
  <2>4. PathInv'
    BY <1>2, <1>4, <2>3, OthersStill DEF TypeOK, Goto, Respond
  <2> QED
    BY <2>1, <2>2, <2>4
<1> QED
  BY <1>3, <1>4 DEF takeTenantSlot

(* takeGlobalSlot takes one of the gateway's slots below its capacity, or   *)
(* turns to the roll-back.                                                  *)
LEMMA TakeGlobalStep ==
  ASSUME PDInv, NEW r \in Requests, takeGlobalSlot(r)
  PROVE  PDInv'
<1> USE DEF PDInv
<1> DEFINE Inv(q) == LeaseInv(q) /\ StatusInv(q) /\ AnswerInv(q)
<1>1. tenantOf(r) \in Tenants /\ Global \in Scopes /\ Global # tenantOf(r)
  BY TenantOfType, ScopeFacts
<1>2. /\ tenantOf(r)' = tenantOf(r)
      /\ UNCHANGED <<demand, status, open, tenantSlots, gone, responded>>
      /\ pc[r] = "global" /\ lease[r] = {tenantOf(r)} /\ status[r] = "outside"
  BY DEF takeGlobalSlot, PathInv, LeaseInv, StatusInv, contract, tenantOf
<1>3. CASE /\ globalSlots < GlobalLimit /\ globalSlots' = globalSlots + 1
           /\ lease' = [lease EXCEPT ![r] = @ \cup {Global}] /\ Goto(r, "body")
  <2>1. CountsInv'
    <3>1. /\ Cardinality(Holders(Global)') = Cardinality(Holders(Global)) + 1
          /\ \A x \in Scopes \ {Global} : Holders(x)' = Holders(x)
      BY <1>1, <1>2, <1>3, SlotTaken
    <3> QED
      BY <1>1, <1>2, <1>3, <3>1, CountsMoved
  <2>2. TypeOK'
    <3>1. globalSlots' \in 0..GlobalLimit
      BY <1>3, EnvelopeAssumption DEF TypeOK
    <3>2. lease' \in [Requests -> SUBSET Scopes]
      BY <1>1, <1>3 DEF TypeOK
    <3> QED
      BY <1>2, <1>3, <3>1, <3>2 DEF TypeOK, Goto
  <2>3. Inv(r)'
    BY <1>2, <1>3 DEF TypeOK, Goto, LeaseInv, StatusInv, AnswerInv, Releasing
  <2>4. PathInv'
    BY <1>2, <1>3, <2>3, OthersStill DEF TypeOK, Goto
  <2> QED
    BY <2>1, <2>2, <2>4
<1>4. CASE Goto(r, "rollback") /\ UNCHANGED <<globalSlots, lease>>
  <2>1. CountsInv'
    BY <1>2, <1>4, SlotsStill DEF Slots
  <2>2. TypeOK'
    BY <1>2, <1>4 DEF TypeOK, Goto
  <2>3. Inv(r)'
    BY <1>2, <1>4 DEF TypeOK, Goto, LeaseInv, StatusInv, AnswerInv, Releasing
  <2>4. PathInv'
    BY <1>2, <1>4, <2>3, OthersStill DEF TypeOK, Goto
  <2> QED
    BY <2>1, <2>2, <2>4
<1> QED
  BY <1>3, <1>4 DEF takeGlobalSlot

(* A handler whose lease is the tenant's slot alone gives it back, in the   *)
(* roll-back and as the last part of a release.                             *)
LEMMA TenantSlotBack ==
  ASSUME PDInv, NEW r \in Requests, lease[r] = {tenantOf(r)},
         tenantSlots' = [tenantSlots EXCEPT ![tenantOf(r)] = @ - 1],
         lease' = [lease EXCEPT ![r] = {}],
         UNCHANGED <<globalSlots, demand>>
  PROVE  /\ CountsInv'
         /\ tenantSlots' \in [Tenants -> Nat]
         /\ \A u \in Tenants : tenantSlots'[u] <= TenantLimit[u]
         /\ lease' \in [Requests -> SUBSET Scopes]
<1> USE DEF PDInv
<1>1. PICK t \in Tenants : t = tenantOf(r) /\ t \in Scopes
  BY TenantOfType, ScopeFacts
<1>2. lease' = [lease EXCEPT ![r] = lease[r] \ {t}]
  BY <1>1 DEF TypeOK
<1>3. /\ Cardinality(Holders(t)') = Cardinality(Holders(t)) - 1
      /\ Cardinality(Holders(t)) > 0
      /\ \A x \in Scopes \ {t} : Holders(x)' = Holders(x)
  BY <1>1, <1>2, SlotGivenBack
<1>4. tenantSlots[t] > 0 /\ tenantSlots \in [Tenants -> Nat]
  BY <1>1, <1>3 DEF CountsInv, TypeOK
<1>5. tenantSlots' = [tenantSlots EXCEPT ![t] = @ + (-1)]
  BY <1>1, <1>4
<1>6. Cardinality(Holders(t)') = Cardinality(Holders(t)) + (-1)
  BY <1>3, HoldersFinite
<1>7. CountsInv'
  BY <1>1, <1>3, <1>5, <1>6, CountsMoved
<1>8. /\ tenantSlots' \in [Tenants -> Nat]
      /\ \A u \in Tenants : tenantSlots'[u] <= TenantLimit[u]
  BY <1>1, <1>4, EnvelopeAssumption DEF TypeOK
<1>9. lease' \in [Requests -> SUBSET Scopes]
  BY DEF TypeOK
<1> QED
  BY <1>7, <1>8, <1>9

(* The roll-back returns the tenant's slot and answers. *)
LEMMA RollBackStep ==
  ASSUME PDInv, NEW r \in Requests, rollBack(r)
  PROVE  PDInv'
<1> USE DEF PDInv
<1> DEFINE Inv(q) == LeaseInv(q) /\ StatusInv(q) /\ AnswerInv(q)
<1>1. /\ UNCHANGED <<demand, status, open, globalSlots, gone>>
      /\ pc[r] = "rollback" /\ lease[r] = {tenantOf(r)} /\ status[r] = "outside"
      /\ tenantOf(r)' = tenantOf(r)
  BY DEF rollBack, PathInv, LeaseInv, StatusInv, contract, tenantOf
<1>2. /\ CountsInv'
      /\ tenantSlots' \in [Tenants -> Nat]
      /\ \A u \in Tenants : tenantSlots'[u] <= TenantLimit[u]
      /\ lease' \in [Requests -> SUBSET Scopes]
  BY <1>1, TenantSlotBack DEF rollBack
<1>3. TypeOK'
  BY <1>1, <1>2 DEF rollBack, TypeOK, Goto, Respond
<1>4. Inv(r)'
  BY <1>1 DEF rollBack, TypeOK, Goto, Respond, LeaseInv, StatusInv, AnswerInv, Releasing
<1>5. PathInv'
  BY <1>1, <1>4, OthersStill DEF rollBack, TypeOK, Goto, Respond
<1> QED
  BY <1>2, <1>3, <1>5

(* The first part of a release: the gateway's slot. *)
LEMMA ReleaseGlobalStep ==
  ASSUME PDInv, NEW r \in Requests, releaseGlobal(r)
  PROVE  PDInv'
<1> USE DEF PDInv
<1> DEFINE Inv(q) == LeaseInv(q) /\ StatusInv(q) /\ AnswerInv(q)
<1>1. tenantOf(r) \in Tenants /\ Global \in Scopes /\ Global # tenantOf(r)
  BY TenantOfType, ScopeFacts
<1>2. /\ UNCHANGED <<demand, status, open, tenantSlots, pc, gone, responded>>
      /\ pc[r] \in Releasing /\ lease[r] = {Global, tenantOf(r)}
      /\ tenantOf(r)' = tenantOf(r)
      /\ globalSlots' = globalSlots - 1 /\ lease' = [lease EXCEPT ![r] = @ \ {Global}]
  BY <1>1 DEF releaseGlobal, NextPlace, Releasing, PathInv, LeaseInv, contract, tenantOf
<1>3. /\ Cardinality(Holders(Global)') = Cardinality(Holders(Global)) - 1
      /\ Cardinality(Holders(Global)) > 0
      /\ \A x \in Scopes \ {Global} : Holders(x)' = Holders(x)
  BY <1>1, <1>2, SlotGivenBack
<1>4. globalSlots > 0 /\ globalSlots' \in 0..GlobalLimit /\ globalSlots' = globalSlots + (-1)
  BY <1>2, <1>3, EnvelopeAssumption DEF CountsInv, TypeOK
<1>5. Cardinality(Holders(Global)') = Cardinality(Holders(Global)) + (-1)
  BY <1>3, HoldersFinite
<1>6. CountsInv'
  BY <1>1, <1>2, <1>3, <1>4, <1>5, CountsMoved
<1>7. lease' \in [Requests -> SUBSET Scopes]
  BY <1>2 DEF TypeOK
<1>8. TypeOK'
  BY <1>2, <1>4, <1>7 DEF TypeOK
<1>9. Inv(r)'
  <2>1. lease'[r] = {tenantOf(r)}
    BY <1>1, <1>2 DEF TypeOK
  <2>2. StatusInv(r) /\ AnswerInv(r)
    BY DEF PathInv
  <2> QED
    BY <1>2, <2>1, <2>2 DEF LeaseInv, StatusInv, AnswerInv, Releasing
<1>10. PathInv'
  BY <1>2, <1>9, OthersStill DEF TypeOK
<1> QED
  BY <1>6, <1>8, <1>10

(* The second part of a release: the tenant's slot, and on to what the      *)
(* release was for.                                                         *)
LEMMA ReleaseTenantStep ==
  ASSUME PDInv, NEW r \in Requests, releaseTenant(r)
  PROVE  PDInv'
<1> USE DEF PDInv
<1> DEFINE Inv(q) == LeaseInv(q) /\ StatusInv(q) /\ AnswerInv(q)
<1>1. /\ UNCHANGED <<demand, status, open, globalSlots, gone, responded>>
      /\ pc[r] \in Releasing /\ lease[r] = {tenantOf(r)}
      /\ tenantOf(r)' = tenantOf(r)
      /\ Goto(r, NextPlace[pc[r]])
  BY DEF releaseTenant, NextPlace, Releasing, PathInv, LeaseInv, contract, tenantOf
<1>2. /\ CountsInv'
      /\ tenantSlots' \in [Tenants -> Nat]
      /\ \A u \in Tenants : tenantSlots'[u] <= TenantLimit[u]
      /\ lease' \in [Requests -> SUBSET Scopes]
  BY <1>1, TenantSlotBack DEF releaseTenant
<1>3. NextPlace[pc[r]] = IF pc[r] = "release" THEN "returned"
                         ELSE IF pc[r] = "release to serve" THEN "serve"
                         ELSE IF pc[r] = "release to refuse" THEN "refuse" ELSE "recover"
  BY <1>1 DEF NextPlace, Releasing
<1>4. TypeOK'
  BY <1>1, <1>2, <1>3 DEF TypeOK, Goto
<1>5. Inv(r)'
  <2>1. StatusInv(r) /\ AnswerInv(r) /\ lease'[r] = {}
    BY DEF PathInv, releaseTenant, TypeOK
  <2> QED
    BY <1>1, <1>3, <2>1 DEF TypeOK, Goto, LeaseInv, StatusInv, AnswerInv, Releasing
<1>6. PathInv'
  BY <1>1, <1>5, OthersStill DEF releaseTenant, TypeOK, Goto
<1> QED
  BY <1>2, <1>4, <1>6

-----------------------------------------------------------------------------
(* Every step of a handler, of the owner, of a client or of Close keeps the *)
(* invariant.                                                               *)
LEMMA PDStep == PDInv /\ [Next]_vars => PDInv'
<1> SUFFICES ASSUME PDInv, [Next]_vars PROVE PDInv'
  OBVIOUS
<1>1. CASE UNCHANGED vars
  BY <1>1 DEF vars, contract, handlers, PDInv, TypeOK, CountsInv, Holders, PathInv, LeaseInv,
       StatusInv, AnswerInv, tenantOf
<1>2. CASE Shut /\ UNCHANGED handlers
  BY <1>2 DEF Shut, handlers, PDInv, TypeOK, CountsInv, Holders, PathInv, LeaseInv,
       StatusInv, AnswerInv, tenantOf
<1>3. ASSUME NEW r \in Requests, ClientLeaves(r) \/ Handle(r) \/ Owner(r) PROVE PDInv'
  BY <1>3, StillStep, TakeTenantStep, TakeGlobalStep, RollBackStep, ReleaseGlobalStep,
     ReleaseTenantStep, Zenon DEF Handle, Owner
<1> QED
  BY <1>1, <1>2, <1>3 DEF Next, Done

(* The inductive invariant, hence that the slot channels never overflow. *)
THEOREM PreDispatchInv == Spec => []PDInv
<1>1. Init => PDInv
  BY PDInit
<1>2. PDInv /\ [Next]_vars => PDInv'
  BY PDStep
<1> QED
  BY <1>1, <1>2, PTL DEF Spec

(* Slots are neither lost nor given back twice on any path of any handler,  *)
(* and a handler that has returned has left nothing behind.                 *)
THEOREM SlotsAreConserved == Spec => []SlotsConserved
<1>1. PDInv => SlotsConserved
  <2> SUFFICES ASSUME PDInv PROVE SlotsConserved
    OBVIOUS
  <2>1. TypeOK /\ CountsInv
    BY DEF PDInv
  <2>2. ASSUME NEW r \in Requests, pc[r] = "returned"
        PROVE  lease[r] = {} /\ status[r] \notin {"waiting", "serving"}
    BY <2>2 DEF PDInv, PathInv, LeaseInv, StatusInv
  <2> QED
    BY <2>1, <2>2 DEF SlotsConserved, CountsInv
<1> QED
  BY <1>1, PreDispatchInv, PTL

(* No path ends the handler of a client who stays without an answer. *)
THEOREM ClientsAreAnswered == Spec => []AnsweredUnlessGone
<1>1. PDInv => AnsweredUnlessGone
  BY DEF PDInv, PathInv, AnswerInv, AnsweredUnlessGone
<1> QED
  BY <1>1, PreDispatchInv, PTL

-----------------------------------------------------------------------------
(* A request that has reached the owner and those that wait hold a slot     *)
(* each, so they are no more than the channel has.                          *)
LEMMA WaitersHoldSlots ==
  ASSUME PDInv, NEW r \in Requests, pc[r] = "acquire",
         NEW s \in Scopes, Charges(demand[r], s)
  PROVE  LET S == With("waiting", s) \cup {r} IN
         /\ S \subseteq Requests /\ IsFiniteSet(S)
         /\ Cardinality(S) \in Nat /\ Cardinality(S) <= Limit(s)
<1> DEFINE S == With("waiting", s) \cup {r}
<1>1. \A q \in Requests : pc[q] = "acquire" => lease[q] = {Global, tenantOf(q)}
  BY DEF PDInv, PathInv, LeaseInv
<1>2. \A q \in Requests : status[q] = "waiting" => pc[q] = "acquire"
  BY DEF PDInv, PathInv, StatusInv
<1>3. S \subseteq Holders(s)
  BY <1>1, <1>2 DEF With, Holders, Charges, tenantOf
<1>4. IsFiniteSet(S) /\ Cardinality(S) \in Nat /\ Cardinality(S) <= Cardinality(Holders(s))
  BY <1>3, HoldersFinite, FS_Subset, FS_CardinalityType
<1>5. Cardinality(Holders(s)) <= Limit(s)
  <2>1. CASE s = Global
    BY <2>1, EnvelopeAssumption DEF PDInv, TypeOK, CountsInv, Limit
  <2>2. CASE s # Global
    BY <2>2, ScopeFacts, EnvelopeAssumption DEF PDInv, TypeOK, CountsInv, Limit
  <2> QED
    BY <2>1, <2>2
<1>6. Limit(s) \in Nat
  BY ScopeFacts, EnvelopeAssumption DEF Limit
<1>7. S \subseteq Requests
  BY DEF With
<1> QED
  BY <1>4, <1>5, <1>6, <1>7, HoldersFinite

(* Products of sizes and counts are monotone. *)
LEMMA TimesMonotone ==
  ASSUME NEW a \in Nat, NEW b \in Nat, NEW m \in Nat, a <= b
  PROVE  a * m \in Nat /\ b * m \in Nat /\ a * m <= b * m
OBVIOUS

(* Requests of bounded size weigh at most the bound times their number. *)
LEMMA WeighBound ==
  ASSUME NEW S, IsFiniteSet(S), NEW m \in Nat,
         NEW size, \A x \in S : size[x] \in 0..m
  PROVE  Weigh(S, size) \in Nat /\ Weigh(S, size) <= Cardinality(S) * m
<1> DEFINE tokens == UNION {{x} \X (1..size[x]) : x \in S}
<1>1. IsFiniteSet(1..m) /\ Cardinality(1..m) = m
  BY FS_Interval
<1>2. /\ IsFiniteSet(S \X (1..m))
      /\ Cardinality(S \X (1..m)) = Cardinality(S) * m
  BY <1>1, FS_Product
<1>3. tokens \subseteq S \X (1..m)
  <2> SUFFICES ASSUME NEW x \in S, NEW u \in {x} \X (1..size[x])
               PROVE  u \in S \X (1..m)
    OBVIOUS
  <2>1. 1..size[x] \subseteq 1..m
    OBVIOUS
  <2> QED
    BY <2>1
<1>4. IsFiniteSet(tokens) /\ Cardinality(tokens) <= Cardinality(S \X (1..m))
  BY <1>2, <1>3, FS_Subset
<1>5. Weigh(S, size) = Cardinality(tokens)
  BY Zenon DEF Weigh
<1>6. Cardinality(tokens) \in Nat
  BY <1>4, FS_CardinalityType
<1> QED
  BY <1>2, <1>4, <1>5, <1>6

(* The queue has room for every request that can reach the owner: behind    *)
(* the pre-dispatch slots, whose envelope the configuration checks, a queue *)
(* limit is never the reason of a refusal.                                  *)
THEOREM QueueHasRoom == Spec => []QueueNeverFull
<1>1. PDInv => QueueNeverFull
  <2> SUFFICES ASSUME PDInv, NEW r \in Requests, pc[r] = "acquire",
                      NEW s \in {Global, tenantOf(r)}
               PROVE  MayWait(With("waiting", s) \cup {r}, s)
    BY Zenon DEF QueueNeverFull
  <2> DEFINE S == With("waiting", s) \cup {r}
             c == Cardinality(S)
  <2>1. s \in Scopes /\ Charges(demand[r], s)
    BY TenantOfType, ScopeFacts DEF PDInv, Charges, tenantOf
  <2>2. S \subseteq Requests /\ IsFiniteSet(S) /\ c \in Nat /\ c <= Limit(s)
    BY <2>1, WaitersHoldSlots
  <2>3. /\ MaxBodyBytes \in Nat /\ MaxRequestUnits \in Nat
        /\ QueueLimits[s] \in [count : Nat, bytes : Nat, work : Nat]
    BY <2>1, ConfigAssumption
  <2>4. Limit(s) \in Nat /\ envelope(s)
    BY <2>1, ScopeFacts, EnvelopeAssumption DEF Limit
  <2>5. \A q \in S : Bytes[q] \in 0..MaxBodyBytes /\ Work[q] \in 0..MaxRequestUnits
    BY <2>2, <2>3 DEF PDInv, TypeOK, Admission, Bytes, Work
  <2>6. Weigh(S, Bytes) \in Nat /\ Weigh(S, Bytes) <= c * MaxBodyBytes
    BY <2>2, <2>3, <2>5, WeighBound
  <2>7. Weigh(S, Work) \in Nat /\ Weigh(S, Work) <= c * MaxRequestUnits
    BY <2>2, <2>3, <2>5, WeighBound
  <2>8. \A m \in Nat : c * m \in Nat /\ Limit(s) * m \in Nat /\ c * m <= Limit(s) * m
    <3> HIDE DEF c
    <3> QED
      BY <2>2, <2>4, TimesMonotone
  <2> HIDE DEF S, c
  <2>9. c <= QueueLimits[s].count
    BY <2>2, <2>3, <2>4 DEF envelope
  <2>10. Weigh(S, Bytes) <= QueueLimits[s].bytes
    <3>1. Limit(s) * MaxBodyBytes <= QueueLimits[s].bytes
      BY <2>4 DEF envelope
    <3>2. c * MaxBodyBytes \in Nat /\ Limit(s) * MaxBodyBytes \in Nat /\ c * MaxBodyBytes <= Limit(s) * MaxBodyBytes
      BY <2>3, <2>8
    <3>3. QueueLimits[s].bytes \in Nat
      BY <2>3
    <3> QED
      BY <2>6, <3>1, <3>2, <3>3
  <2>11. Weigh(S, Work) <= QueueLimits[s].work
    <3>1. Limit(s) * MaxRequestUnits <= QueueLimits[s].work
      BY <2>4 DEF envelope
    <3>2. c * MaxRequestUnits \in Nat /\ Limit(s) * MaxRequestUnits \in Nat /\ c * MaxRequestUnits <= Limit(s) * MaxRequestUnits
      BY <2>3, <2>8
    <3>3. QueueLimits[s].work \in Nat
      BY <2>3
    <3> QED
      BY <2>7, <3>1, <3>2, <3>3
  <2> QED
    BY <2>9, <2>10, <2>11 DEF MayWait, S, c
<1> QED
  BY <1>1, PreDispatchInv, PTL
=============================================================================
