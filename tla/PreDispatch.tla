----------------------------- MODULE PreDispatch -----------------------------
(***************************************************************************)
(* A request from its arrival at Handler.serve to the return of the        *)
(* handler (internal/httpapi/handler.go).  A pre-dispatch slot of its      *)
(* tenant and one of the gateway are taken, in this order and without a    *)
(* lock, before the body is read, and are given back when                  *)
(* Scheduler.Acquire has returned.  The scheduler is AdmissionContract,    *)
(* which OwnerRefinement shows the owner to implement; what happens        *)
(* between a permit and its Finish is the module Relay and one step here.  *)
(***************************************************************************)
EXTENDS AdmissionContract

CONSTANTS
  TenantLimit,    \* per tenant: capacity of its slots channel
  GlobalLimit     \* capacity of globalSlots

Limit(s) == IF s = Global THEN GlobalLimit ELSE TenantLimit[s]

(* validatePreDispatchEnvelope: as many maximal requests as there are slots *)
(* fit the queue.                                                           *)
envelope(s) ==
  /\ Limit(s) <= QueueLimits[s].count
  /\ Limit(s) * MaxBodyBytes <= QueueLimits[s].bytes
  /\ Limit(s) * MaxRequestUnits <= QueueLimits[s].work

ASSUME EnvelopeAssumption ==
  /\ IsFiniteSet(Requests)
  /\ GlobalLimit \in Nat /\ TenantLimit \in [Tenants -> Nat]
  /\ \A s \in Scopes : Limit(s) >= 1 /\ envelope(s)
  /\ \A t \in Tenants : TenantLimit[t] <= GlobalLimit

VARIABLES
  globalSlots, tenantSlots,   \* lengths of the slots channels
  lease,        \* per request: the slots its preDispatchLease stands for
  pc,           \* where the handler of a request is
  gone,         \* the request's context has ended
  responded     \* a response was committed

handlers == <<globalSlots, tenantSlots, lease, pc, gone, responded>>
vars == <<contract, handlers>>

tenantOf(r) == demand[r].tenant

Init ==
  /\ CInit
  /\ globalSlots = 0 /\ tenantSlots = [t \in Tenants |-> 0]
  /\ lease = [r \in Requests |-> {}]
  /\ pc = [r \in Requests |-> "arrived"]
  /\ gone = [r \in Requests |-> FALSE]
  /\ responded = [r \in Requests |-> FALSE]

Goto(r, place) == pc' = [pc EXCEPT ![r] = place]
Respond(r) == responded' = [responded EXCEPT ![r] = TRUE]
Slots == <<globalSlots, tenantSlots, lease>>

ClientLeaves(r) ==
  /\ ~gone[r] /\ gone' = [gone EXCEPT ![r] = TRUE]
  /\ UNCHANGED <<contract, Slots, pc, responded>>

-----------------------------------------------------------------------------
(* Path, method, credential, media type, timeout and length are examined    *)
(* before any slot: a request that fails one of them is answered.           *)
Examine(r) ==
  /\ pc[r] = "arrived"
  /\ \/ gone[r] /\ Goto(r, "returned") /\ UNCHANGED responded
     \/ ~gone[r] /\ Goto(r, "tenant") /\ UNCHANGED responded
     \/ ~gone[r] /\ Goto(r, "returned") /\ Respond(r)
  /\ UNCHANGED <<contract, Slots, gone>>

takeTenantSlot(r) ==
  /\ pc[r] = "tenant"
  /\ LET t == tenantOf(r) IN
     \/ /\ tenantSlots[t] < TenantLimit[t]
        /\ tenantSlots' = [tenantSlots EXCEPT ![t] = @ + 1]
        /\ lease' = [lease EXCEPT ![r] = @ \cup {t}]
        /\ Goto(r, "global") /\ UNCHANGED responded
     \/ /\ tenantSlots[t] >= TenantLimit[t]
        /\ Goto(r, "returned") /\ Respond(r) /\ UNCHANGED <<tenantSlots, lease>>
  /\ UNCHANGED <<contract, globalSlots, gone>>

(* Fault: the tenant's slot stays behind when the global channel is full. *)
takeGlobalSlotNoRollback(r) ==
  /\ pc[r] = "global"
  /\ \/ /\ globalSlots < GlobalLimit
        /\ globalSlots' = globalSlots + 1
        /\ lease' = [lease EXCEPT ![r] = @ \cup {Global}]
        /\ Goto(r, "body") /\ UNCHANGED responded
     \/ /\ globalSlots >= GlobalLimit
        /\ lease' = [lease EXCEPT ![r] = {}]
        /\ Goto(r, "returned") /\ Respond(r) /\ UNCHANGED globalSlots
  /\ UNCHANGED <<contract, tenantSlots, gone>>

takeGlobalSlot(r) ==
  /\ pc[r] = "global"
  /\ \/ /\ globalSlots < GlobalLimit
        /\ globalSlots' = globalSlots + 1
        /\ lease' = [lease EXCEPT ![r] = @ \cup {Global}]
        /\ Goto(r, "body")
     \/ globalSlots >= GlobalLimit /\ Goto(r, "rollback") /\ UNCHANGED <<globalSlots, lease>>
  /\ UNCHANGED <<contract, tenantSlots, gone, responded>>

rollBack(r) ==
  /\ pc[r] = "rollback"
  /\ tenantSlots' = [tenantSlots EXCEPT ![tenantOf(r)] = @ - 1]
  /\ lease' = [lease EXCEPT ![r] = {}]
  /\ Goto(r, "returned") /\ Respond(r)
  /\ UNCHANGED <<contract, globalSlots, gone>>

(* Fault: the slots are given back before Acquire. *)
parseRequestReleases(r) ==
  /\ pc[r] = "body" /\ Goto(r, "acquire")
  /\ globalSlots' = globalSlots - 1
  /\ tenantSlots' = [tenantSlots EXCEPT ![tenantOf(r)] = @ - 1]
  /\ lease' = [lease EXCEPT ![r] = {}]
  /\ UNCHANGED <<contract, gone, responded>>

(* The body is read until its deadline and parsed.  A failure is answered   *)
(* unless the client has gone; a panic of the body reader is answered by    *)
(* the recovery, after the deferred release.                                *)
parseRequest(r) ==
  /\ pc[r] = "body"
  /\ \/ Goto(r, "acquire") /\ UNCHANGED responded
     \/ ~gone[r] /\ Goto(r, "release") /\ Respond(r)
     \/ gone[r] /\ Goto(r, "release") /\ UNCHANGED responded
     \/ Goto(r, "release to recover") /\ UNCHANGED responded
  /\ UNCHANGED <<contract, Slots, gone>>

-----------------------------------------------------------------------------
(* Scheduler.Acquire, seen from outside *)

InAcquire(r) == pc[r] = "acquire" /\ UNCHANGED handlers

Joins(r) == InAcquire(r) /\ Join(r)
Starts(r) == InAcquire(r) /\ Start(r)
Refused(r) == InAcquire(r) /\ TurnAway(r)

(* A permit granted to a client who has gone is finished inside Acquire. *)
AbandonsPermit(r) ==
  /\ pc[r] = "acquire" /\ status[r] = "serving" /\ gone[r]
  /\ Finish(r) /\ Goto(r, "release")
  /\ UNCHANGED <<Slots, gone, responded>>

AcquireReturns(r) ==
  /\ pc[r] = "acquire"
  /\ \/ status[r] = "serving" /\ Goto(r, "release to serve")
     \/ status[r] = "turnedAway" /\ Goto(r, "release to refuse")
  /\ UNCHANGED <<contract, Slots, gone, responded>>

-----------------------------------------------------------------------------
(* preDispatchLease.release: the global slot first; once makes the deferred *)
(* second call a no-op.                                                     *)

NextPlace ==
  [p \in {"release", "release to serve", "release to refuse", "release to recover"} |->
     CASE p = "release" -> "returned"
       [] p = "release to serve" -> "serve"
       [] p = "release to refuse" -> "refuse"
       [] p = "release to recover" -> "recover"]

releaseGlobal(r) ==
  /\ pc[r] \in DOMAIN NextPlace /\ Global \in lease[r]
  /\ globalSlots' = globalSlots - 1
  /\ lease' = [lease EXCEPT ![r] = @ \ {Global}]
  /\ UNCHANGED <<contract, tenantSlots, pc, gone, responded>>

releaseTenant(r) ==
  /\ pc[r] \in DOMAIN NextPlace /\ Global \notin lease[r]
  /\ tenantSlots' = [tenantSlots EXCEPT ![tenantOf(r)] = @ - 1]
  /\ lease' = [lease EXCEPT ![r] = {}]
  /\ Goto(r, NextPlace[pc[r]])
  /\ UNCHANGED <<contract, globalSlots, gone, responded>>

(* writeAdmissionDecision.  A decision without an answer (canceled) is only *)
(* taken for a client who has gone.                                         *)
writeAdmissionDecision(r) ==
  /\ pc[r] = "refuse" /\ Goto(r, "returned")
  /\ \/ gone[r] /\ UNCHANGED responded
     \/ ~gone[r] /\ Respond(r)
  /\ UNCHANGED <<contract, Slots, gone>>

(* From the permit to its deferred Finish: a response, none for a client    *)
(* who has gone, or a panic.                                                *)
ServeRequest(r) ==
  /\ pc[r] = "serve" /\ Finish(r)
  /\ \/ Goto(r, "returned") /\ Respond(r)
     \/ gone[r] /\ Goto(r, "returned") /\ UNCHANGED responded
     \/ Goto(r, "recover") /\ UNCHANGED responded
  /\ UNCHANGED <<Slots, gone>>

(* Fault: a panic leaves the handler unanswered. *)
RecoverSilently(r) ==
  /\ pc[r] = "recover" /\ Goto(r, "returned")
  /\ UNCHANGED <<contract, Slots, gone, responded>>

Recover(r) ==
  /\ pc[r] = "recover" /\ Goto(r, "returned")
  /\ \/ gone[r] /\ UNCHANGED responded
     \/ ~gone[r] /\ Respond(r)
  /\ UNCHANGED <<contract, Slots, gone>>

-----------------------------------------------------------------------------
Handle(r) ==
  \/ Examine(r) \/ takeTenantSlot(r) \/ takeGlobalSlot(r) \/ rollBack(r)
  \/ parseRequest(r) \/ AbandonsPermit(r) \/ AcquireReturns(r)
  \/ releaseGlobal(r) \/ releaseTenant(r)
  \/ writeAdmissionDecision(r) \/ ServeRequest(r) \/ Recover(r)

Owner(r) == Joins(r) \/ Starts(r) \/ Refused(r)

Done == (\A r \in Requests : pc[r] = "returned") /\ UNCHANGED vars

Next ==
  \/ Shut /\ UNCHANGED handlers
  \/ \E r \in Requests : ClientLeaves(r) \/ Handle(r) \/ Owner(r)
  \/ Done

Spec == Init /\ [][Next]_vars

-----------------------------------------------------------------------------
(* Type invariant: the channels never hold more than their capacity. *)
TypeOK ==
  /\ globalSlots \in 0..GlobalLimit
  /\ tenantSlots \in [Tenants -> Nat]
  /\ \A t \in Tenants : tenantSlots[t] <= TenantLimit[t]
  /\ lease \in [Requests -> SUBSET Scopes]
  /\ pc \in [Requests -> {"arrived", "tenant", "global", "rollback", "body", "acquire",
                          "serve", "refuse", "recover", "returned"} \cup DOMAIN NextPlace]
  /\ gone \in [Requests -> BOOLEAN] /\ responded \in [Requests -> BOOLEAN]
  /\ demand \in [Requests -> Admission]
  /\ status \in [Requests -> {"outside", "waiting", "serving", "finished", "turnedAway"}]
  /\ open \in BOOLEAN

(* Slots are neither lost nor given back twice by the roll-back, the early  *)
(* release after Acquire, the deferred release or a panic: each channel     *)
(* holds exactly the slots of the handlers between taking and releasing     *)
(* one.  A handler that has returned has left nothing behind, neither a     *)
(* slot nor a place in the queue nor a permit, on whichever path.           *)
Holders(s) == {r \in Requests : s \in lease[r]}
SlotsConserved ==
  /\ TypeOK
  /\ globalSlots = Cardinality(Holders(Global))
  /\ \A t \in Tenants : tenantSlots[t] = Cardinality(Holders(t))
  /\ \A r \in Requests : pc[r] = "returned" =>
       lease[r] = {} /\ status[r] \notin {"waiting", "serving"}

(* A request holds its slots for as long as it can be in the queue, and     *)
(* there are never more slots than the queue has room for: an authenticated *)
(* request that reaches the owner is never refused for want of queue        *)
(* capacity, only by a pre-dispatch limit.                                  *)
QueueNeverFull ==
  \A r \in Requests : pc[r] = "acquire" /\ status[r] = "outside" =>
    \A s \in {Global, tenantOf(r)} : MayWait(With("waiting", s) \cup {r}, s)

(* A client who stays is answered: no path ends the handler silently, which *)
(* net/http would turn into an empty success.                               *)
AnsweredUnlessGone ==
  \A r \in Requests : pc[r] = "returned" => responded[r] \/ gone[r]
=============================================================================
