------------------------- MODULE SaturationTheorems -------------------------
(***************************************************************************)
(* What the saturation harness says of the gateway is so: VerdictTrue, for  *)
(* every workload, every number of jobs and all weights and limits of the   *)
(* four tenants it configures.                                              *)
(*                                                                          *)
(* The harness drives the owner of OwnerState, so the owner's IInv holds.   *)
(* On top of it SatInv ties together four places that share no variable:    *)
(*   the driver      PosInv, LaunchInv, SettledInv, ConsumedInv, ExpectInv, *)
(*                   CountInv: its position tells which jobs are launched,  *)
(*                   settled and consumed, and what was counted for them    *)
(*   the gateway     EntryInv, ServedInv, AnswerInv, HoldInv, CmdInv: where *)
(*                   a request is, what was decided, what was written       *)
(*   outside         CallInv, UpstreamInv, ControlInv, PlanInv: what        *)
(*                   clients and upstream have seen of it                   *)
(*   the oracle      OrderInv, SimInv: once the control request is          *)
(*                   finished, the owner's pump is where the oracle is      *)
(*                   after some number of passes                            *)
(* First the oracle by itself: its plan is complete.  Then every step of    *)
(* the owner, of the gateway and of the driver is taken through SatInv.     *)
(***************************************************************************)
EXTENDS Saturation, OwnerTheorems, FunctionTheorems

(* How far the driver has come *)
rank == [control |-> 1, initial |-> 2, cancel |-> 3, deadline |-> 4, expire |-> 5,
         canceling |-> 6, late |-> 7, reject |-> 8, global |-> 9, release |-> 10,
         measure |-> 11, final |-> 12, shutdown |-> 13, reported |-> 14]

(* The stage in which the results of a kind of job are awaited, and the     *)
(* kinds of job a stage is about                                            *)
awaits == [control |-> "release", initial |-> "measure", late |-> "measure",
           cancel |-> "canceling", deadline |-> "expire", reject |-> "reject", global |-> "global"]
about == [control |-> {"control"}, initial |-> {"initial"}, cancel |-> {"cancel"},
          deadline |-> {"deadline"}, expire |-> {"deadline"}, canceling |-> {"cancel"},
          late |-> {"late"}, reject |-> {"reject"}, global |-> {"global"}, release |-> {"control"},
          measure |-> {"initial", "late"}, final |-> {"global"}, shutdown |-> {"global"},
          reported |-> {"global"}]

stepsOf == [control |-> {"launch", "dispatch", "barrier", "snapshot"},
            initial |-> {"launch", "barrier", "snapshot"}, cancel |-> {"launch", "barrier", "snapshot"},
            deadline |-> {"launch", "barrier", "snapshot"}, late |-> {"launch", "barrier", "snapshot"},
            expire |-> {"result", "barrier", "snapshot"},
            canceling |-> {"cancel", "result", "barrier", "snapshot"},
            reject |-> {"launch", "result", "barrier", "snapshot"},
            global |-> {"launch", "result", "barrier", "snapshot"},
            release |-> {"release", "result"}, measure |-> {"dispatch", "event", "result"},
            final |-> {"final", "barrier", "snapshot"}, shutdown |-> {"shutdown"}, reported |-> {"shutdown"}]

AtBarrier == step \in {"barrier", "snapshot"}

(* The jobs whose barrier is behind the driver, those it has launched,      *)
(* those whose result it has taken, and those it has nothing more to do for *)
settled == {r \in Requests : rank[stage] > rank[kind[r]] \/ (stage = kind[r] /\ r \notin ToSet(todo))}
launched == settled \cup {r \in Requests : stage = kind[r] /\ r = job /\ step # "launch"}
passed == {r \in Requests : \/ rank[stage] > rank[awaits[kind[r]]]
                            \/ stage = awaits[kind[r]] /\ r \notin ToSet(todo)}
consumed == passed \cup {r \in Requests : stage = awaits[kind[r]] /\ r = job /\ AtBarrier}

(* What the scheduler decided *)
served == {r \in Requests : result[r] = <<Dispatched>>}
expired == {r \in Requests : result[r] = <<Expired>>}
canceled == {r \in Requests : result[r] = <<Canceled>>}
answered == {r \in Requests : result[r] # <<>>}

Asked(r) == [tenant |-> tenant[r], bytes |-> 1, work |-> workload.work[r]]

(* What the variables hold; no answer is ever that of a broken upstream *)
TypeS ==
  /\ workload \in Workloads
  /\ handler \in [Requests -> {"none", "sent", "slots", "waiting", "upstream", "held", "streaming", "written", "done"}]
  /\ answer \in [Requests -> {"none", "tenant_capacity", "overloaded", "queue_deadline", "ok"}]
  /\ call \in [Requests -> {"none", "running", "event", "canceling", "canceled", "failure", "deadline",
                            "rejected", "globalRejected", "completed"}]
  /\ released \in [Requests -> {"no", "first", "done"}]
  /\ seenUpstream \subseteq Requests
  /\ order \in [Tenants -> Seq(Requests)]
  /\ plan \in Seq(Requests) /\ observed \in Seq(Requests)
  /\ counts \in [Tenants -> [Outcome -> Nat]]

(* Where the driver can be, and the jobs it has before it there *)
PosInv ==
  /\ stage \in DOMAIN rank /\ step \in stepsOf[stage]
  /\ todo \in Seq(Requests) /\ todo # <<>> /\ IsInjective(todo)
  /\ \A r \in ToSet(todo) : kind[r] \in about[stage]
  /\ stage = "expire" /\ AtBarrier => Len(todo) = 1
  /\ stage \in {"release", "global", "control", "final", "shutdown", "reported"} => Len(todo) = 1
  /\ step = "event" => job \in Streams

(* Only launched jobs are anywhere in the gateway. *)
LaunchInv == launched = {r \in Requests : handler[r] # "none"}

(* What a request asked for, and when it may have been submitted *)
EntryInv ==
  \A r \in Requests :
    /\ handler[r] \in {"none", "sent", "slots"} => deadline[r] = 0
    /\ handler[r] \in {"waiting", "upstream", "held", "streaming", "written"} => deadline[r] # 0
    /\ deadline[r] # 0 => /\ admission[r] = Asked(r) /\ source[r] = "queue"
                          /\ kind[r] # "deadline" => deadline[r] = MaxTime
                          /\ kind[r] \notin {"reject", "global"}

(* What the scheduler decided of a request, and where its handler may be *)
ServedInv ==
  \A r \in Requests :
    /\ r \in served => kind[r] \in {"control", "initial", "late"}
    /\ handler[r] \in {"upstream", "held", "streaming", "written"} => r \in served
    /\ terminal[r] # "none" => terminal[r] = "Completed" /\ handler[r] = "done"
    /\ handler[r] = "done" /\ r \in inflight =>
         pc = "busy" /\ cmd = [op |-> "finish", id |-> r, outcome |-> "Completed"]
    /\ cause[r] = "none"
    /\ ctxDone[r] => kind[r] = "cancel" /\ call[r] = "canceled"
    /\ r \in served /\ r # control => terminal[control] # "none"

(* What has been written to a client *)
AnswerInv ==
  \A r \in Requests :
    /\ answer[r] # "none" => handler[r] \in {"written", "done"}
    /\ handler[r] = "written" => answer[r] = "ok"
    /\ handler[r] = "done" =>
         \/ deadline[r] = 0 /\ answer[r] \in {"tenant_capacity", "overloaded"}
         \/ r \in served /\ answer[r] = "ok"
         \/ r \in answered \ served /\ answer[r] # "ok"
    /\ r \in canceled => answer[r] = "none"
    /\ r \in expired /\ handler[r] = "done" /\ kind[r] # "cancel" => answer[r] = "queue_deadline"
    /\ kind[r] = "reject" => handler[r] \in {"none", "sent", "done"} /\ answer[r] \in {"none", "tenant_capacity"}
    /\ kind[r] = "global" => handler[r] \in {"none", "sent", "done"} /\ answer[r] \in {"none", "overloaded"}

(* What a client makes of it *)
CallInv ==
  \A r \in Requests :
    /\ call[r] = "none" <=> handler[r] = "none"
    /\ call[r] = "event" => r \in Streams
    /\ call[r] \in {"canceling", "canceled"} => kind[r] = "cancel"
    /\ call[r] \in {"failure", "deadline", "rejected", "globalRejected", "completed"} =>
         answer[r] # "none" /\ call[r] = classify(kind[r], answer[r])

(* What the owner is doing, and for whom *)
CmdInv ==
  /\ pc \in {"select", "busy", "drain", "pump", "visit", "serve", "notify"}
  /\ wake <= now
  /\ pc = "busy" =>
       /\ cmd.op \in {"timer", "admit", "cancel", "finish", "snapshot", "drain"}
       /\ cmd.op = "cancel" => ctxDone[cmd.id]
       /\ cmd.op = "finish" => cmd.outcome = "Completed" /\ handler[cmd.id] = "done"
       /\ cmd.op = "drain" => stage \in {"shutdown", "reported"}
  /\ step = "snapshot" <=> pc = "busy" /\ cmd.op = "snapshot"
  /\ pc = "drain" => cmd.op = "drain"
  /\ ~accepting \/ pc = "drain" => stage \in {"shutdown", "reported"}
  /\ stage \in {"shutdown", "reported"} => entries = {}
  /\ pc \in {"visit", "serve"} => inflight = {} /\ expiry # {}

(* The upstream and the driver at it *)
UpstreamInv ==
  /\ arrivals # <<>> => \E r \in Requests : arrivals = <<r>> /\ handler[r] = "held" /\ released[r] = "no"
  /\ issue = FALSE
  /\ \A r \in Requests :
       /\ r \in seenUpstream <=> r \in served /\ handler[r] \in {"held", "streaming", "written", "done"}
       /\ r \in seenUpstream /\ handler[r] # "held" => released[r] # "no"
       /\ released[r] # "no" => r \in seenUpstream
  /\ \A r \in Service : released[r] # "no" <=> r \in ToSet(observed)
  /\ ToSet(observed) \subseteq Service

(* The held request: while it is in flight no credit is granted, and it is  *)
(* at the upstream until the driver releases it.                            *)
ControlInv ==
  /\ released[control] = "no" <=> rank[stage] < 10 \/ step = "release"
  /\ control \in inflight => /\ cursor = 2 /\ \A t \in Tenants : deficit[t] = 0 /\ ~visitOpen[t]
                             /\ pc \notin {"visit", "serve"}
  /\ (rank[stage] > 1 \/ AtBarrier) /\ released[control] = "no" => handler[control] = "held" /\ arrivals = <<>>

(* A barrier that was passed has seen its job in the queue. *)
SettledInv ==
  \A r \in settled :
    /\ r \in Service => r \in expiry \cup served
    /\ kind[r] = "cancel" => r \in expiry \/ (r \in canceled /\ ctxDone[r])
    /\ kind[r] = "deadline" => r \in expiry \cup expired
    /\ kind[r] = "control" => r \in served

(* A result that was taken says what the scheduler decided. *)
ConsumedInv ==
  \A r \in Requests :
    /\ r \in consumed =>
         /\ r \in Service \cup {control} => call[r] = "completed"
         /\ kind[r] = "deadline" => r \in expired
         /\ kind[r] = "cancel" => call[r] = "canceled"
         /\ kind[r] = "reject" => call[r] = "rejected"
         /\ kind[r] = "global" => call[r] = "globalRejected"
    /\ r \in passed /\ kind[r] = "cancel" => r \in canceled
    /\ call[r] \in {"canceling", "canceled"} => r \in consumed \/ (stage = "canceling" /\ r = job /\ step = "result")
    /\ stage = "canceling" /\ step = "result" /\ r = job => call[r] \in {"canceling", "canceled"}

(* queueExpectation counts the jobs between their launch and their result. *)
ExpectInv == expectation = {r \in launched \ consumed : kind[r] \in Enqueued}

(* No more slots are held than there are. *)
HoldInv ==
  /\ \A t \in Tenants : Cardinality(Holding(OfTenant(t))) <= QueueLimits[t].count
  /\ Cardinality(Holding(Requests)) <= QueueLimits[Global].count

(* serviceQueues has the order in which the scheduler queued the jobs, for  *)
(* a job is launched after the barrier of the one before it.                *)
OrderInv ==
  \A t \in Tenants :
    /\ IsInjective(order[t]) /\ ToSet(order[t]) = {r \in Service \cap launched : tenant[r] = t}
    /\ \A i \in 1..Len(order[t]) - 1 : order[t][i] \in settled
    /\ \A i, j \in 1..Len(order[t]) :
         i < j /\ order[t][j] \in expiry => seq[order[t][i]] < seq[order[t][j]]

(* The accumulators count sets of jobs. *)
Of(t, S) == Cardinality({r \in S : tenant[r] = t})
tally == [submitted |-> {r \in launched : kind[r] \in Enqueued \cup {"reject"}},
          admitted |-> {r \in settled : kind[r] \in Enqueued},
          completed |-> {r \in consumed : r \in Service},
          rejected |-> {r \in consumed : kind[r] = "reject"},
          canceled |-> {r \in passed : kind[r] = "cancel"},
          deadlineExceeded |-> {r \in consumed : kind[r] = "deadline"}]
CountInv == \A t \in ToSet(ServiceTenants) : counts[t] = [o \in Outcome |-> Of(t, tally[o])]

(* What has been observed is the beginning of the plan, and what is to be   *)
(* done the rest of it.                                                     *)
PlanInv ==
  /\ rank[stage] >= 11 => /\ plan = expectedDispatchPlan /\ IsInjective(plan) /\ ToSet(plan) = Service
  /\ rank[stage] < 11 => observed = <<>>
  /\ stage = "measure" =>
       /\ Len(todo) <= Len(plan)
       /\ \A i \in 1..Len(todo) : todo[i] = plan[Len(plan) - Len(todo) + i]
       /\ Len(observed) = Len(plan) - Len(todo) + (IF step = "dispatch" THEN 0 ELSE 1)
       /\ \A i \in 1..Len(observed) : observed[i] = plan[i]
  /\ rank[stage] >= 12 => observed = plan

(* The pump and the oracle.  Credit is what a visit starts with; Pending    *)
(* was dispatched and has yet to be observed.  The pump opens a visit and   *)
(* serves in two steps, the oracle in one.  When nobody waits any more, the *)
(* pump leaves its credit alone and the oracle has no pass to do.           *)
Credit(o, c) == IF o.open[c] THEN o.deficit[c] ELSE boundedOracleAdd(o.deficit[c], Quantum[ServiceTenants[c]], DeficitCap)
Pending == (Service \cap served) \ ToSet(observed)
Matches(o) ==
  /\ o.queue[1] = queue[2] /\ o.queue[2] = queue[3]
  /\ \/ Pending = {} /\ o.trace = observed
     \/ \E x \in Service : Pending = {x} /\ o.trace = Append(observed, x)
  /\ pc = "serve" =>
       /\ cursor = o.cursor + 1 /\ queue[cursor] # <<>> /\ visitOpen[cursor]
       /\ deficit[cursor] = Credit(o, o.cursor)
       /\ \A i \in 1..2 : i # o.cursor => deficit[i + 1] = o.deficit[i] /\ visitOpen[i + 1] = o.open[i]
  /\ pc # "serve" /\ expiry # {} =>
       /\ o.cursor = IF cursor = 3 THEN 2 ELSE 1
       /\ \A i \in 1..2 : deficit[i + 1] = o.deficit[i] /\ visitOpen[i + 1] = o.open[i]
SimInv == terminal[control] # "none" => \E k \in 0..maximumVisits : Matches(oracleAfter[k])

Inv ==
  /\ TypeS /\ PosInv /\ LaunchInv /\ EntryInv /\ ServedInv /\ AnswerInv /\ CallInv /\ CmdInv
  /\ UpstreamInv /\ ControlInv /\ SettledInv /\ ConsumedInv /\ ExpectInv /\ HoldInv /\ OrderInv
  /\ CountInv /\ PlanInv /\ SimInv

(* The inductive invariant.  A run that has failed is over. *)
SatInv ==
  /\ stage = "failed" => now = MaxTime
  /\ stage # "failed" => Inv

-----------------------------------------------------------------------------
(* Constants and stages *)

(* What the assumptions say of the jobs *)
LEMMA Setup ==
  /\ N = 4 /\ Tenants = {1, 2, 3, 4} /\ Scopes = {0, 1, 2, 3, 4} /\ Global = 0
  /\ ServiceTenants = <<2, 3>> /\ ToSet(ServiceTenants) = {2, 3}
  /\ DOMAIN ServiceTenants = {1, 2} /\ Len(ServiceTenants) = 2
  /\ kind \in [Requests -> Stages] /\ tenant \in [Requests -> Tenants]
  /\ control \in Requests /\ kind[control] = "control" /\ tenant[control] = 1
  /\ \A r \in Requests : kind[r] = "control" => r = control
  /\ \A r, o \in Requests : kind[r] = "global" /\ kind[o] = "global" => r = o
  /\ \A r \in Requests : kind[r] = "global" => tenant[r] = 4
  /\ \A r \in Requests : kind[r] \notin {"control", "global"} => tenant[r] \in {2, 3}
  /\ Service = {r \in Requests : kind[r] \in {"initial", "late"}}
  /\ Cancelable = {r \in Requests : kind[r] = "cancel"}
  /\ Streams \subseteq {r \in Requests : kind[r] = "late"}
  /\ InflightLimits[0].count = 1 /\ Sources = {"queue"}
  /\ {"Completed", "UpstreamFailed"} \subseteq Outcomes
  /\ IsFiniteSet(Requests) /\ MaxTime \in Nat
<1>1. N = 4 /\ Tenants = {1, 2, 3, 4} /\ Scopes = {0, 1, 2, 3, 4} /\ Global = 0
  BY SetupAssumption DEF saturationAdmissionConfig, Tenants, Scopes, Global
<1>2. /\ ServiceTenants = <<2, 3>> /\ ToSet(ServiceTenants) = {2, 3}
      /\ DOMAIN ServiceTenants = {1, 2} /\ Len(ServiceTenants) = 2
  BY SetupAssumption DEF saturationAdmissionConfig, ToSet
<1>3. kind \in [Requests -> Stages] /\ tenant \in [Requests -> Tenants]
  BY WorkloadAssumption DEF validateSeededWorkload
<1>4. \A k : Jobs(k) = {r \in Requests : kind[r] = k} /\ IsFiniteSet(Jobs(k))
  BY ClientAssumption, FS_Subset DEF Jobs
<1>5. /\ \E x : Jobs("control") = {x}
      /\ \E x : Jobs("global") = {x}
  <2>1. Cardinality(Jobs("control")) = 1 /\ Cardinality(Jobs("global")) = 1
    BY WorkloadAssumption DEF validateSeededWorkload
  <2> QED
    BY <1>4, <2>1, FS_Singleton
<1>6. control \in Jobs("control")
  BY <1>5 DEF control
<1>7. \A r \in Requests : /\ kind[r] = "control" => tenant[r] = 1
                          /\ kind[r] = "global" => tenant[r] = 4
                          /\ kind[r] \notin {"control", "global"} => tenant[r] \in {2, 3}
  BY <1>1, <1>2, WorkloadAssumption DEF validateSeededWorkload
<1>8. /\ Service = {r \in Requests : kind[r] \in {"initial", "late"}}
      /\ Cancelable = {r \in Requests : kind[r] = "cancel"}
      /\ Streams \subseteq {r \in Requests : kind[r] = "late"}
  BY <1>4, WorkloadAssumption DEF validateSeededWorkload, Service
<1>9. /\ InflightLimits[0].count = 1 /\ Sources = {"queue"}
      /\ {"Completed", "UpstreamFailed"} \subseteq Outcomes
      /\ IsFiniteSet(Requests) /\ MaxTime \in Nat
  BY <1>1, SetupAssumption, ClientAssumption DEF saturationAdmissionConfig
<1> QED
  BY <1>1, <1>2, <1>3, <1>4, <1>5, <1>6, <1>7, <1>8, <1>9

(* What the assumptions say of a workload *)
LEMMA SetupWorkload ==
  ASSUME NEW w \in Workloads
  PROVE  /\ w.work \in [Requests -> 1..MaxRequestUnits]
         /\ \A k \in Stages : /\ w[k] \in Seq(Requests) /\ IsInjective(w[k])
                              /\ ToSet(w[k]) = {r \in Requests : kind[r] = k}
         /\ w.control = w["control"] /\ w.deadline = w["deadline"] /\ w.cancel = w["cancel"]
         /\ w.global = w["global"]
BY WorkloadAssumption DEF validateSeededWorkload, Jobs

(* What the harness does to the scheduler, the scheduler's specification    *)
(* allows.                                                                  *)
LEMMA HarnessStep == ASSUME [SNext]_svars PROVE [Next]_vars
<1>1. \A op \in {"snapshot", "drain"} : [op |-> op] \in Commands
  BY DEF Commands
<1>2. \A r \in Requests : /\ [op |-> "admit", id |-> r] \in Commands
                          /\ [op |-> "cancel", id |-> r] \in Commands
                          /\ [op |-> "finish", id |-> r, outcome |-> servingOutcome(r)] \in Commands
  BY Setup DEF Commands, servingOutcome
<1>3. CASE UNCHANGED svars
  BY <1>3 DEF svars
<1>4. CASE Driver
  <2>1. CASE UNCHANGED vars
    BY <2>1
  <2>2. CASE AskSnapshot
    BY <1>1, <2>2 DEF AskSnapshot, Next
  <2>3. CASE TakeSnapshot
    BY <2>3 DEF TakeSnapshot, Next, Run, Handle
  <2>4. CASE Shutdown
    BY <1>1, <2>4 DEF Shutdown, Next
  <2> QED
    BY <1>4, <2>1, <2>2, <2>3, <2>4
    DEF Driver, Launch, AwaitDispatch, AwaitFirstEvent, ReleaseControl, CancelCall, AwaitResult, Finalize
<1>5. CASE Owner
  BY <1>5 DEF Owner, Next
<1>6. CASE Mailbox
  BY <1>2, <1>6 DEF Mailbox, Next, FinishPermit
<1>7. ASSUME NEW r \in Requests, Request(r) PROVE [Next]_vars
  <2>1. CASE Submit(r)
    BY <2>1 DEF Submit, Next, Outside
  <2>2. CASE GatewaySeesClientGone(r)
    BY <2>2 DEF GatewaySeesClientGone, Next, Outside
  <2> QED
    BY <1>7, <2>1, <2>2
    DEF Request, acquirePreDispatch, AcquireReturns, Arrives, Answers, ClientSeesEvent,
        ClientReturns, ClientGivesUp
<1>8. CASE TimePasses
  BY <1>8 DEF TimePasses, Next, Outside
<1>9. CASE RunTimesOut
  BY <1>9 DEF RunTimesOut
<1> QED
  BY <1>3, <1>4, <1>5, <1>6, <1>7, <1>8, <1>9 DEF SNext, Requested, svars

(* Every behaviour of the harness is one of the owner, so that all that is  *)
(* proved of the owner holds here.                                          *)
THEOREM HarnessDrivesOwner == SSpec => Spec
<1>1. SInit => Init
  BY DEF SInit
<1>2. [SNext]_svars => [Next]_vars
  BY HarnessStep
<1> QED
  BY <1>1, <1>2, PTL DEF SSpec, Spec

-----------------------------------------------------------------------------
(* Sequences without duplicates *)

(* What the head and the tail of one are *)
LEMMA TailFacts ==
  ASSUME NEW R, NEW s \in Seq(R), IsInjective(s), s # <<>>
  PROVE  /\ Head(s) \in R /\ Head(s) \in ToSet(s) /\ Head(s) = s[1]
         /\ Tail(s) \in Seq(R) /\ Len(Tail(s)) = Len(s) - 1 /\ Len(s) >= 1
         /\ \A i \in 1..(Len(s) - 1) : Tail(s)[i] = s[i + 1]
         /\ IsInjective(Tail(s)) /\ ToSet(Tail(s)) = ToSet(s) \ {Head(s)}
<1>1. /\ Head(s) \in R /\ Head(s) = s[1] /\ Len(s) \in Nat /\ Len(s) >= 1
      /\ Tail(s) \in Seq(R) /\ Len(Tail(s)) = Len(s) - 1
      /\ \A i \in 1..(Len(s) - 1) : Tail(s)[i] = s[i + 1]
  OBVIOUS
<1>2. DOMAIN s = 1..Len(s) /\ DOMAIN Tail(s) = 1..(Len(s) - 1)
  BY <1>1
<1>3. Head(s) \in ToSet(s)
  BY <1>1, <1>2 DEF ToSet
<1> DEFINE tail == Tail(s)
<1>4. /\ DOMAIN tail = 1..(Len(s) - 1)
      /\ \A i \in 1..(Len(s) - 1) : tail[i] = s[i + 1]
  BY <1>1, <1>2
<1> HIDE DEF tail
<1>5. \A i, j \in 1..Len(s) : s[i] = s[j] => i = j
  BY <1>2 DEF IsInjective
<1>6. IsInjective(tail)
  BY <1>1, <1>4, <1>5 DEF IsInjective
<1>7. ToSet(tail) = ToSet(s) \ {Head(s)}
  <2>1. ASSUME NEW x \in ToSet(tail) PROVE x \in ToSet(s) \ {Head(s)}
    <3>1. PICK i \in 1..(Len(s) - 1) : x = tail[i]
      BY <1>4 DEF ToSet
    <3>2. i + 1 \in 1..Len(s) /\ 1 \in 1..Len(s) /\ i + 1 # 1 /\ x = s[i + 1]
      BY <1>1, <1>4, <3>1
    <3> QED
      BY <1>1, <1>2, <1>5, <3>2 DEF ToSet
  <2>2. ASSUME NEW x \in ToSet(s), x # Head(s) PROVE x \in ToSet(tail)
    <3>1. PICK i \in 1..Len(s) : x = s[i]
      BY <1>2 DEF ToSet
    <3>2. i - 1 \in 1..(Len(s) - 1) /\ (i - 1) + 1 = i
      BY <1>1, <2>2, <3>1
    <3>3. x = tail[i - 1]
      BY <1>4, <3>1, <3>2
    <3> QED
      BY <1>4, <3>2, <3>3 DEF ToSet
  <2> QED
    BY <2>1, <2>2
<1> QED
  BY <1>1, <1>3, <1>6, <1>7 DEF tail

(* Something new may be put behind one. *)
LEMMA AppendFacts ==
  ASSUME NEW R, NEW s \in Seq(R), NEW x \in R
  PROVE  /\ Append(s, x) \in Seq(R) /\ Len(Append(s, x)) = Len(s) + 1
         /\ Append(s, x)[Len(s) + 1] = x
         /\ \A i \in 1..Len(s) : Append(s, x)[i] = s[i]
         /\ ToSet(Append(s, x)) = ToSet(s) \cup {x}
         /\ IsInjective(s) /\ x \notin ToSet(s) => IsInjective(Append(s, x))
<1> DEFINE a == Append(s, x)
<1>1. /\ a \in Seq(R) /\ Len(a) = Len(s) + 1 /\ Len(s) \in Nat
      /\ a[Len(s) + 1] = x /\ \A i \in 1..Len(s) : a[i] = s[i]
  OBVIOUS
<1>2. DOMAIN s = 1..Len(s) /\ DOMAIN a = 1..(Len(s) + 1)
  BY <1>1
<1> HIDE DEF a
<1>3. ToSet(a) = ToSet(s) \cup {x}
  <2>1. \A y \in ToSet(a) : y \in ToSet(s) \cup {x}
    BY <1>1, <1>2 DEF ToSet
  <2>2. \A y \in ToSet(s) \cup {x} : y \in ToSet(a)
    <3>1. Len(s) + 1 \in DOMAIN a /\ \A i \in DOMAIN s : i \in DOMAIN a
      BY <1>1, <1>2
    <3> QED
      BY <1>1, <1>2, <3>1 DEF ToSet
  <2> QED
    BY <2>1, <2>2
<1>4. ASSUME IsInjective(s), x \notin ToSet(s) PROVE IsInjective(a)
  <2> SUFFICES ASSUME NEW i \in 1..(Len(s) + 1), NEW j \in 1..(Len(s) + 1), a[i] = a[j] PROVE i = j
    BY <1>2 DEF IsInjective
  <2>1. \A k \in 1..Len(s) : s[k] # x
    BY <1>2, <1>4 DEF ToSet
  <2>2. \A k, l \in 1..Len(s) : s[k] = s[l] => k = l
    BY <1>2, <1>4 DEF IsInjective
  <2>3. \A k \in 1..(Len(s) + 1) : k \in 1..Len(s) \/ k = Len(s) + 1
    BY <1>1
  <2> QED
    BY <1>1, <2>1, <2>2, <2>3
<1> QED
  BY <1>1, <1>3, <1>4 DEF a

(* It has as many places as members. *)
LEMMA InjectiveLength ==
  ASSUME NEW R, NEW s \in Seq(R), IsInjective(s)
  PROVE  /\ IsFiniteSet(ToSet(s)) /\ Cardinality(ToSet(s)) = Len(s)
         /\ ToSet(s) \subseteq R /\ Len(s) \in Nat
         /\ s = <<>> <=> ToSet(s) = {}
<1>1. Len(s) \in Nat /\ DOMAIN s = 1..Len(s) /\ \A i \in 1..Len(s) : s[i] \in R
  OBVIOUS
<1>2. s \in Bijection(1..Len(s), ToSet(s))
  <2>1. s \in [1..Len(s) -> ToSet(s)]
    BY <1>1 DEF ToSet
  <2>2. \A a, b \in 1..Len(s) : s[a] = s[b] => a = b
    BY <1>1 DEF IsInjective
  <2>3. \A t \in ToSet(s) : \E a \in 1..Len(s) : s[a] = t
    BY <1>1 DEF ToSet
  <2> QED
    BY <1>1, <2>1, <2>2, <2>3 DEF Bijection, Injection, Surjection, IsInjective
<1>3. IsFiniteSet(1..Len(s)) /\ Cardinality(1..Len(s)) = Len(s)
  <2>1. \A n \in Nat : IsFiniteSet(1..n) /\ Cardinality(1..n) = n
    BY FS_Interval
  <2> QED
    BY <1>1, <2>1
<1>4. IsFiniteSet(ToSet(s)) /\ Cardinality(ToSet(s)) = Len(s)
  <2>1. ExistsBijection(1..Len(s), ToSet(s))
    BY <1>2, Zenon DEF ExistsBijection
  <2> QED
    BY <1>3, <2>1, FS_Bijection
<1>5. ToSet(s) \subseteq R
  BY <1>1 DEF ToSet
<1>6. s = <<>> <=> ToSet(s) = {}
  BY <1>1 DEF ToSet
<1> QED
  BY <1>1, <1>4, <1>5, <1>6

(* Two sequences in the same strict order of the same members are equal. *)
LEMMA SameOrder ==
  ASSUME NEW R, NEW p \in Seq(R), NEW q \in Seq(R), NEW f \in [R -> Nat],
         ToSet(p) = ToSet(q),
         \A i, j \in 1..Len(p) : i < j => f[p[i]] < f[p[j]],
         \A i, j \in 1..Len(q) : i < j => f[q[i]] < f[q[j]]
  PROVE  p = q
<1>1. /\ Len(p) \in Nat /\ DOMAIN p = 1..Len(p) /\ \A i \in 1..Len(p) : p[i] \in R
      /\ Len(q) \in Nat /\ DOMAIN q = 1..Len(q) /\ \A i \in 1..Len(q) : q[i] \in R
  OBVIOUS
<1>2. /\ \A i \in 1..Len(p) : f[p[i]] \in Nat
      /\ \A i \in 1..Len(q) : f[q[i]] \in Nat
  BY <1>1
<1>3. /\ \A i, j \in 1..Len(p) : p[i] = p[j] => i = j
      /\ \A i, j \in 1..Len(q) : q[i] = q[j] => i = j
  <2>1. \A i, j \in Nat : i < j \/ j < i \/ i = j
    OBVIOUS
  <2>2. \A n \in Nat : ~(n < n)
    OBVIOUS
  <2>3. ASSUME NEW i \in 1..Len(p), NEW j \in 1..Len(p), p[i] = p[j] PROVE i = j
    BY <1>1, <1>2, <2>1, <2>2, <2>3
  <2>4. ASSUME NEW i \in 1..Len(q), NEW j \in 1..Len(q), q[i] = q[j] PROVE i = j
    BY <1>1, <1>2, <2>1, <2>2, <2>4
  <2> QED
    BY <2>3, <2>4
<1>4. Len(p) = Len(q)
  <2>1. IsInjective(p) /\ IsInjective(q)
    BY <1>1, <1>3 DEF IsInjective
  <2> QED
    BY <2>1, InjectiveLength
<1> DEFINE T == {n \in 1..Len(p) : p[n] # q[n]}
<1>5. ASSUME T # {} PROVE FALSE
  <2>1. T \in SUBSET Nat
    BY <1>1
  <2>2. PICK n \in T : \A y \in T : n <= y
    BY <1>5, <2>1, NatLeast
  <2>3. n \in 1..Len(p) /\ n \in 1..Len(q) /\ p[n] # q[n] /\ \A i \in 1..Len(p) : i < n => p[i] = q[i]
    BY <1>1, <1>4, <2>2
  <2>4. PICK j \in 1..Len(q) : p[n] = q[j]
    BY <1>1, <2>3 DEF ToSet
  <2>5. PICK k \in 1..Len(p) : q[n] = p[k]
    BY <1>1, <2>3 DEF ToSet
  <2>6. ~(j < n) /\ ~(k < n) /\ j # n /\ k # n
    BY <1>1, <1>3, <1>4, <2>3, <2>4, <2>5
  <2>7. n < j /\ n < k
    BY <2>3, <2>4, <2>5, <2>6
  <2>8. f[q[n]] < f[q[j]] /\ f[p[n]] < f[p[k]]
    BY <2>3, <2>7
  <2> QED
    BY <1>2, <2>3, <2>4, <2>5, <2>8
<1> QED
  BY <1>1, <1>4, <1>5, SMTT(30)

(* Of one with a single member there is not much to say. *)
LEMMA OneMember ==
  ASSUME NEW R, NEW s \in Seq(R), IsInjective(s), NEW x, ToSet(s) = {x}
  PROVE  Len(s) = 1 /\ s # <<>> /\ Head(s) = x
<1>1. Cardinality({x}) = 1
  BY FS_Singleton
<1>2. Len(s) = 1 /\ s # <<>>
  BY <1>1, InjectiveLength
<1> QED
  BY <1>2, TailFacts

-----------------------------------------------------------------------------
(* The oracle *)

OracleStates ==
  [queue : [{1, 2} -> Seq(Requests)], deficit : [{1, 2} -> Nat], open : [{1, 2} -> BOOLEAN],
   cursor : {1, 2}, trace : Seq(Requests)]

Short(o) == workload.work[Head(o.queue[o.cursor])] > Credit(o, o.cursor)

(* Credit is bounded, and a head that the credit does not cover has been    *)
(* granted a whole quantum when its visit was opened just now.              *)
LEMMA CreditFacts ==
  ASSUME NEW o \in OracleStates, NEW c \in {1, 2}
  PROVE  /\ Credit(o, c) \in Nat
         /\ o.deficit[c] <= DeficitCap => Credit(o, c) <= DeficitCap
         /\ ~o.open[c] /\ Credit(o, c) < MaxRequestUnits => Credit(o, c) = o.deficit[c] + Quantum[c + 1]
         /\ Quantum[c + 1] \in Nat /\ BaseQuantum \in Nat \ {0} /\ BaseQuantum <= Quantum[c + 1]
         /\ DeficitCap \in Nat /\ MaxRequestUnits <= DeficitCap
<1>1. o.deficit[c] \in Nat
  BY DEF OracleStates
<1>2. ServiceTenants[c] = c + 1 /\ c + 1 \in Tenants /\ 1 \in Tenants
  BY Setup
<1>3. /\ Quantum[c + 1] \in Nat \ {0} /\ Quantum[1] \in Nat \ {0} /\ DeficitCap \in Nat /\ MaxRequestUnits \in Nat
      /\ DeficitCap >= MaxRequestUnits - 1 + Quantum[c + 1]
  BY <1>2, ConfigAssumption
<1>4. BaseQuantum = Quantum[1] /\ Quantum[1] <= Quantum[c + 1]
  BY <1>2, Setup, SetupAssumption, SMTT(30) DEF BaseQuantum, saturationAdmissionConfig
<1> QED
  BY <1>1, <1>2, <1>3, <1>4 DEF Credit, boundedOracleAdd

(* What a pass of its loop does *)
LEMMA VisitCases ==
  ASSUME NEW o \in OracleStates, workload \in Workloads
  PROVE  LET c == o.cursor
             p == oracleVisit(o)
             q == o.queue[c]
             left == Credit(o, c) - workload.work[Head(q)]
         IN  /\ p \in OracleStates
             /\ q = <<>> =>
                  /\ p.queue = o.queue /\ p.trace = o.trace /\ p.cursor = 3 - c
                  /\ p.deficit = [o.deficit EXCEPT ![c] = 0] /\ p.open = [o.open EXCEPT ![c] = FALSE]
             /\ q # <<>> /\ Short(o) =>
                  /\ p.queue = o.queue /\ p.trace = o.trace /\ p.cursor = 3 - c
                  /\ p.deficit = [o.deficit EXCEPT ![c] = Credit(o, c)]
                  /\ p.open = [o.open EXCEPT ![c] = FALSE]
             /\ q # <<>> /\ ~Short(o) =>
                  /\ p.queue = [o.queue EXCEPT ![c] = Tail(q)] /\ p.trace = Append(o.trace, Head(q))
                  /\ Tail(q) = <<>> =>
                       /\ p.cursor = 3 - c
                       /\ p.deficit = [o.deficit EXCEPT ![c] = 0] /\ p.open = [o.open EXCEPT ![c] = FALSE]
                  /\ Tail(q) # <<>> =>
                       /\ p.cursor = c
                       /\ p.deficit = [o.deficit EXCEPT ![c] = left] /\ p.open = [o.open EXCEPT ![c] = TRUE]
             /\ q # <<>> => Head(q) \in Requests /\ workload.work[Head(q)] \in 1..MaxRequestUnits
<1> DEFINE c == o.cursor
           q == o.queue[c]
           credit == Credit(o, c)
           work == workload.work[Head(q)]
<1>1. /\ c \in {1, 2} /\ q \in Seq(Requests) /\ o.queue \in [{1, 2} -> Seq(Requests)]
      /\ o.deficit \in [{1, 2} -> Nat] /\ o.open \in [{1, 2} -> BOOLEAN] /\ o.trace \in Seq(Requests)
      /\ o = [queue |-> o.queue, deficit |-> o.deficit, open |-> o.open, cursor |-> o.cursor, trace |-> o.trace]
  BY DEF OracleStates
<1>2. 1 + (c % Len(ServiceTenants)) = 3 - c /\ 3 - c \in {1, 2}
  BY <1>1, Setup
<1>3. credit \in Nat
  BY <1>1, CreditFacts
<1>4. q # <<>> => Head(q) \in Requests /\ Tail(q) \in Seq(Requests) /\ work \in 1..MaxRequestUnits
  BY <1>1, SetupWorkload
<1>5. CASE q = <<>>
  <2>1. oracleVisit(o) = [queue |-> o.queue, deficit |-> [o.deficit EXCEPT ![c] = 0],
                          open |-> [o.open EXCEPT ![c] = FALSE], cursor |-> 3 - c, trace |-> o.trace]
    BY <1>1, <1>2, <1>5 DEF oracleVisit
  <2> QED
    BY <1>1, <1>2, <1>5, <2>1 DEF OracleStates
<1>6. CASE q # <<>> /\ Short(o)
  <2>1. oracleVisit(o) = [queue |-> o.queue, deficit |-> [o.deficit EXCEPT ![c] = credit],
                          open |-> [o.open EXCEPT ![c] = FALSE], cursor |-> 3 - c, trace |-> o.trace]
    BY <1>1, <1>2, <1>6 DEF oracleVisit, Short, Credit
  <2> QED
    BY <1>1, <1>2, <1>3, <1>4, <1>6, <2>1 DEF OracleStates
<1>7. CASE q # <<>> /\ ~Short(o) /\ Tail(q) = <<>>
  <2>1. oracleVisit(o) = [queue |-> [o.queue EXCEPT ![c] = Tail(q)], deficit |-> [o.deficit EXCEPT ![c] = 0],
                          open |-> [o.open EXCEPT ![c] = FALSE], cursor |-> 3 - c, trace |-> Append(o.trace, Head(q))]
    BY <1>1, <1>2, <1>7 DEF oracleVisit, Short, Credit
  <2>2. Append(o.trace, Head(q)) \in Seq(Requests)
    BY <1>1, <1>4, <1>7
  <2>3. /\ [o.queue EXCEPT ![c] = Tail(q)] \in [{1, 2} -> Seq(Requests)]
        /\ [o.deficit EXCEPT ![c] = 0] \in [{1, 2} -> Nat]
        /\ [o.open EXCEPT ![c] = FALSE] \in [{1, 2} -> BOOLEAN]
    BY <1>1, <1>4, <1>7
  <2>4. oracleVisit(o) \in OracleStates
    BY <1>2, <2>1, <2>2, <2>3, SMTT(30) DEF OracleStates
  <2> QED
    BY <1>4, <1>7, <2>1, <2>4
<1>8. CASE q # <<>> /\ ~Short(o) /\ Tail(q) # <<>>
  <2>1. oracleVisit(o) = [queue |-> [o.queue EXCEPT ![c] = Tail(q)], deficit |-> [o.deficit EXCEPT ![c] = credit - work],
                          open |-> [o.open EXCEPT ![c] = TRUE], cursor |-> c, trace |-> Append(o.trace, Head(q))]
    BY <1>1, <1>2, <1>8 DEF oracleVisit, Short, Credit, oracleServes
  <2>2. credit - work \in Nat
    BY <1>3, <1>4, <1>8 DEF Short
  <2>3. Append(o.trace, Head(q)) \in Seq(Requests)
    BY <1>1, <1>4, <1>8
  <2>4. /\ [o.queue EXCEPT ![c] = Tail(q)] \in [{1, 2} -> Seq(Requests)]
        /\ [o.deficit EXCEPT ![c] = credit - work] \in [{1, 2} -> Nat]
        /\ [o.open EXCEPT ![c] = TRUE] \in [{1, 2} -> BOOLEAN]
    BY <1>1, <1>4, <1>8, <2>2
  <2>5. oracleVisit(o) \in OracleStates
    BY <1>1, <2>1, <2>3, <2>4 DEF OracleStates
  <2> QED
    BY <1>4, <1>8, <2>1, <2>5
<1> QED
  BY <1>5, <1>6, <1>7, <1>8

(* Its loop as a function of the queues and the work it starts with *)
begins == [queue |-> [i \in DOMAIN ServiceTenants |-> order[ServiceTenants[i]]],
           deficit |-> [i \in DOMAIN ServiceTenants |-> 0],
           open |-> [i \in DOMAIN ServiceTenants |-> FALSE], cursor |-> 1, trace |-> <<>>]
passes(o) == IF \A i \in DOMAIN ServiceTenants : o.queue[i] = <<>> THEN o ELSE oracleVisit(o)
Loop(n, f) == f = [i \in 0..n |-> IF i = 0 THEN begins ELSE passes(f[i - 1])]

VisitOf(o, work) ==
  LET c == o.cursor
      moveOn(p) == [p EXCEPT !.open[c] = FALSE, !.cursor = 1 + (c % Len(ServiceTenants))]
      credit == IF o.open[c] THEN o.deficit[c]
                ELSE boundedOracleAdd(o.deficit[c], Quantum[ServiceTenants[c]], DeficitCap)
      cost == work[Head(o.queue[c])]
      rest == Tail(o.queue[c])
  IN  IF o.queue[c] = <<>> THEN moveOn([o EXCEPT !.deficit[c] = 0])
      ELSE IF cost > credit THEN moveOn([o EXCEPT !.deficit[c] = credit])
      ELSE LET served0 == [o EXCEPT !.queue[c] = rest, !.trace = Append(@, Head(o.queue[c])),
                                   !.open[c] = TRUE, !.deficit[c] = credit - cost]
           IN  IF rest = <<>> THEN moveOn([served0 EXCEPT !.deficit[c] = 0]) ELSE oracleServes(served0)
LoopOf(ord, work) ==
  CHOOSE f : f = [i \in 0..maximumVisits |->
    IF i = 0
    THEN [queue |-> [j \in DOMAIN ServiceTenants |-> ord[ServiceTenants[j]]],
          deficit |-> [j \in DOMAIN ServiceTenants |-> 0],
          open |-> [j \in DOMAIN ServiceTenants |-> FALSE], cursor |-> 1, trace |-> <<>>]
    ELSE LET o == f[i - 1]
         IN  IF \A j \in DOMAIN ServiceTenants : o.queue[j] = <<>> THEN o ELSE VisitOf(o, work)]

(* The oracle's plan depends on the launched jobs and their work only. *)
LEMMA OracleSame ==
  ASSUME order' = order, workload' = workload
  PROVE  oracleAfter' = oracleAfter /\ expectedDispatchPlan' = expectedDispatchPlan
<1>1. oracleAfter = LoopOf(order, workload.work)
  BY DEF oracleAfter, LoopOf, oracleVisit, VisitOf
<1>2. oracleAfter' = LoopOf(order', workload'.work)
  BY DEF oracleAfter, LoopOf, oracleVisit, VisitOf
<1>3. workload'.work = workload.work
  OBVIOUS
<1>4. oracleAfter' = oracleAfter
  BY <1>1, <1>2, <1>3
<1> QED
  BY <1>4 DEF expectedDispatchPlan

(* The loop is defined by a recursive function: such a function exists. *)
LEMMA LoopExists == \A n \in Nat : \E f : Loop(n, f)
<1> DEFINE T == {n \in Nat : ~ \E f : Loop(n, f)}
<1> SUFFICES ASSUME T # {} PROVE FALSE
  OBVIOUS
<1>1. PICK n \in T : \A y \in T : n <= y
  BY NatLeast
<1>2. n # 0
  <2>1. Loop(0, [i \in 0..0 |-> begins])
    BY DEF Loop
  <2> QED
    BY <1>1, <2>1
<1>3. n - 1 \in Nat /\ n \in Nat /\ n - 1 \notin T
  BY <1>1, <1>2
<1>4. PICK f : Loop(n - 1, f)
  BY <1>3
<1> DEFINE g == [i \in 0..n |-> IF i < n THEN f[i] ELSE passes(f[i - 1])]
<1>5. Loop(n, g)
  <2>1. \A i \in 0..n : g[i] = IF i = 0 THEN begins ELSE passes(g[i - 1])
    <3> SUFFICES ASSUME NEW i \in 0..n PROVE g[i] = IF i = 0 THEN begins ELSE passes(g[i - 1])
      OBVIOUS
    <3>1. CASE i = n
      <4>1. g[i] = passes(f[i - 1]) /\ g[i - 1] = f[i - 1] /\ i # 0
        BY <1>2, <1>3, <3>1
      <4> QED
        BY <4>1
    <3>2. CASE i # n
      <4>1. i \in 0..n - 1 /\ (i # 0 => i - 1 \in 0..n - 1)
        BY <1>3, <3>2
      <4>2. g[i] = f[i] /\ (i # 0 => g[i - 1] = f[i - 1])
        BY <1>3, <4>1
      <4>3. f[i] = IF i = 0 THEN begins ELSE passes(f[i - 1])
        BY <1>4, <4>1 DEF Loop
      <4> QED
        BY <4>2, <4>3
    <3> QED
      BY <3>1, <3>2
  <2>2. g = [i \in 0..n |-> g[i]]
    OBVIOUS
  <2> HIDE DEF g
  <2> QED
    BY <2>1, <2>2 DEF Loop
<1> QED
  BY <1>1, <1>5

(* The numbers of the bound *)
LEMMA VisitsNumber ==
  /\ maximumVisits \in Nat /\ Cardinality(Service) \in Nat /\ IsFiniteSet(Service)
  /\ DeficitCap \div BaseQuantum \in Nat
  /\ maximumVisits = Cardinality(Service) * (2 * (DeficitCap \div BaseQuantum) + 4)
<1>1. Service \subseteq Requests /\ IsFiniteSet(Requests)
  BY Setup
<1>2. IsFiniteSet(Service) /\ Cardinality(Service) \in Nat
  BY <1>1, FS_Subset, FS_CardinalityType
<1>3. BaseQuantum \in Nat \ {0} /\ DeficitCap \in Nat
  <2>1. 1 \in Tenants /\ tenant[control] = 1
    BY Setup
  <2> QED
    BY <2>1, ConfigAssumption DEF BaseQuantum
<1>4. DeficitCap \div BaseQuantum \in Nat
  BY <1>3, DivMonotone
<1>5. \A n, d \in Nat : n * (d + 2) * 2 = n * (2 * d + 4) /\ n * (2 * d + 4) \in Nat
  OBVIOUS
<1> QED
  BY <1>2, <1>4, <1>5, Setup DEF maximumVisits

(* It starts from the queues, and goes from pass to pass. *)
LEMMA OracleUnfolds ==
  /\ oracleAfter[0] = begins
  /\ \A k \in 1..maximumVisits : oracleAfter[k] = passes(oracleAfter[k - 1])
<1>1. \E f : Loop(maximumVisits, f)
  BY LoopExists, VisitsNumber
<1>2. Loop(maximumVisits, oracleAfter)
  BY <1>1, Zenon DEF oracleAfter, Loop, begins, passes
<1>3. \A k \in 0..maximumVisits : oracleAfter[k] = IF k = 0 THEN begins ELSE passes(oracleAfter[k - 1])
  BY <1>2 DEF Loop
<1> QED
  BY <1>3, VisitsNumber

(* All service jobs have been launched, in the order the oracle looks at.   *)
Filled ==
  /\ order \in [Tenants -> Seq(Requests)] /\ workload \in Workloads
  /\ \A t \in {2, 3} : IsInjective(order[t]) /\ ToSet(order[t]) = {r \in Service : tenant[r] = t}

(* Between passes a job is in its tenant's queue or in the trace. *)
Shares(o) ==
  /\ o \in OracleStates
  /\ IsInjective(o.trace) /\ ToSet(o.trace) \subseteq Service
  /\ \A i \in {1, 2} :
       /\ IsInjective(o.queue[i])
       /\ ToSet(o.queue[i]) = {r \in Service : tenant[r] = i + 1} \ ToSet(o.trace)
       /\ o.deficit[i] <= DeficitCap
       /\ o.open[i] => i = o.cursor /\ o.queue[i] # <<>>

Finished(o) == o.queue[1] = <<>> /\ o.queue[2] = <<>>

(* w passes in a row have opened a visit and served nobody: every other one *)
(* of them granted a tenant that waits a quantum.                           *)
Base == BaseQuantum
MostRounds == DeficitCap \div Base
Waited(o, w) ==
  /\ o.open[o.cursor] => w = 0
  /\ \A i \in {1, 2} : o.queue[i] # <<>> => w <= 2 * (o.deficit[i] \div Base) + (IF o.cursor = i THEN 1 ELSE 0)
Progress(k, o) ==
  \E w \in Nat : /\ k + (IF o.open[o.cursor] THEN 1 ELSE 0) <= Len(o.trace) * (2 * MostRounds + 3) + w
                 /\ Waited(o, w)

(* A pass keeps the jobs together. *)
LEMMA PassShares ==
  ASSUME NEW o, Shares(o), workload \in Workloads
  PROVE  Shares(oracleVisit(o))
<1> DEFINE c == o.cursor
           p == oracleVisit(o)
           q == o.queue[c]
<1>1. /\ o \in OracleStates /\ c \in {1, 2} /\ o.queue \in [{1, 2} -> Seq(Requests)]
      /\ o.deficit \in [{1, 2} -> Nat] /\ o.open \in [{1, 2} -> BOOLEAN] /\ o.trace \in Seq(Requests)
  BY DEF Shares, OracleStates
<1>2. p \in OracleStates
  BY <1>1, VisitCases, Zenon
<1>3. DeficitCap \in Nat /\ Credit(o, c) \in Nat /\ Credit(o, c) <= DeficitCap /\ 3 - c \in {1, 2} /\ 3 - c # c
  BY <1>1, CreditFacts DEF Shares
<1>4. CASE q = <<>>
  <2>1. /\ p.queue = o.queue /\ p.trace = o.trace /\ p.cursor = 3 - c
        /\ p.deficit = [o.deficit EXCEPT ![c] = 0] /\ p.open = [o.open EXCEPT ![c] = FALSE]
    BY <1>1, <1>4, VisitCases, Zenon
  <2>2. /\ IsInjective(o.trace) /\ ToSet(o.trace) \subseteq Service
        /\ \A i \in {1, 2} : /\ IsInjective(o.queue[i])
                             /\ ToSet(o.queue[i]) = {r \in Service : tenant[r] = i + 1} \ ToSet(o.trace)
    BY DEF Shares
  <2>3. \A i \in {1, 2} : o.deficit[i] <= DeficitCap /\ o.deficit[i] \in Nat /\ (o.open[i] => i = c /\ o.queue[i] # <<>>)
    BY <1>1 DEF Shares
  <2>4. \A i \in {1, 2} : p.deficit[i] <= DeficitCap /\ ~p.open[i]
    BY <1>1, <1>3, <2>1, <2>3
  <2> QED
    BY <1>2, <2>1, <2>2, <2>4 DEF Shares
<1>5. CASE q # <<>> /\ Short(o)
  <2>1. /\ p.queue = o.queue /\ p.trace = o.trace /\ p.cursor = 3 - c
        /\ p.deficit = [o.deficit EXCEPT ![c] = Credit(o, c)] /\ p.open = [o.open EXCEPT ![c] = FALSE]
    BY <1>1, <1>5, VisitCases, Zenon
  <2>2. /\ IsInjective(o.trace) /\ ToSet(o.trace) \subseteq Service
        /\ \A i \in {1, 2} : /\ IsInjective(o.queue[i])
                             /\ ToSet(o.queue[i]) = {r \in Service : tenant[r] = i + 1} \ ToSet(o.trace)
    BY DEF Shares
  <2>3. \A i \in {1, 2} : o.deficit[i] <= DeficitCap /\ o.deficit[i] \in Nat /\ (o.open[i] => i = c /\ o.queue[i] # <<>>)
    BY <1>1 DEF Shares
  <2>4. \A i \in {1, 2} : p.deficit[i] <= DeficitCap /\ ~p.open[i]
    BY <1>1, <1>3, <2>1, <2>3
  <2> QED
    BY <1>2, <2>1, <2>2, <2>4 DEF Shares
<1>6. CASE q # <<>> /\ ~Short(o)
  <2>1. /\ p.queue = [o.queue EXCEPT ![c] = Tail(q)] /\ p.trace = Append(o.trace, Head(q))
        /\ workload.work[Head(q)] \in 1..MaxRequestUnits
    BY <1>1, <1>6, VisitCases, Zenon
  <2>2. \/ /\ p.cursor = 3 - c /\ Tail(q) = <<>>
           /\ p.deficit = [o.deficit EXCEPT ![c] = 0] /\ p.open = [o.open EXCEPT ![c] = FALSE]
        \/ /\ p.cursor = c /\ Tail(q) # <<>>
           /\ p.deficit = [o.deficit EXCEPT ![c] = Credit(o, c) - workload.work[Head(q)]]
           /\ p.open = [o.open EXCEPT ![c] = TRUE]
    BY <1>1, <1>6, VisitCases, Zenon
  <2>3. /\ Head(q) \in Requests /\ Head(q) \in ToSet(q) /\ Tail(q) \in Seq(Requests)
        /\ IsInjective(Tail(q)) /\ ToSet(Tail(q)) = ToSet(q) \ {Head(q)}
    BY <1>1, <1>6, TailFacts DEF Shares
  <2>4. /\ ToSet(q) = {r \in Service : tenant[r] = c + 1} \ ToSet(o.trace)
        /\ IsInjective(o.trace) /\ ToSet(o.trace) \subseteq Service
    BY <1>1 DEF Shares
  <2>5. Head(q) \in Service /\ tenant[Head(q)] = c + 1 /\ Head(q) \notin ToSet(o.trace)
    BY <2>3, <2>4
  <2>6. /\ IsInjective(p.trace) /\ ToSet(p.trace) = ToSet(o.trace) \cup {Head(q)}
    BY <1>1, <2>1, <2>3, <2>4, <2>5, AppendFacts
  <2>7. /\ IsInjective(p.queue[c]) /\ p.queue[3 - c] = o.queue[3 - c]
        /\ ToSet(p.queue[c]) = {r \in Service : tenant[r] = c + 1} \ ToSet(p.trace)
    BY <1>1, <1>3, <2>1, <2>3, <2>4, <2>6
  <2>8. /\ IsInjective(o.queue[3 - c])
        /\ ToSet(o.queue[3 - c]) = {r \in Service : tenant[r] = (3 - c) + 1} \ ToSet(o.trace)
    BY <1>3 DEF Shares
  <2>9. ToSet(o.queue[3 - c]) = {r \in Service : tenant[r] = (3 - c) + 1} \ ToSet(p.trace)
    <3>1. tenant[Head(q)] # (3 - c) + 1
      BY <1>1, <2>5
    <3> QED
      BY <2>6, <2>8, <3>1
  <2>10. \A i \in {1, 2} : /\ IsInjective(p.queue[i])
                           /\ ToSet(p.queue[i]) = {r \in Service : tenant[r] = i + 1} \ ToSet(p.trace)
    <3>1. \A i \in {1, 2} : i = c \/ i = 3 - c
      BY <1>1
    <3> QED
      BY <2>7, <2>8, <2>9, <3>1
  <2>11. \A i \in {1, 2} : /\ p.deficit[i] <= DeficitCap
                           /\ p.open[i] => i = p.cursor /\ p.queue[i] # <<>>
    <3>1. \A i \in {1, 2} : o.deficit[i] <= DeficitCap /\ o.deficit[i] \in Nat /\ (o.open[i] => i = c /\ o.queue[i] # <<>>)
      BY <1>1 DEF Shares
    <3>2. \A i \in {1, 2} : p.deficit[i] <= DeficitCap
      <4>1. Credit(o, c) - workload.work[Head(q)] <= DeficitCap /\ 0 <= DeficitCap
        BY <1>3, <2>1, ConfigAssumption
      <4> QED
        BY <1>1, <2>2, <3>1, <4>1
    <3>3. \A i \in {1, 2} : p.open[i] => i = p.cursor /\ p.queue[i] # <<>>
      <4>1. \A i \in {1, 2} : i # c => ~p.open[i]
        BY <1>1, <2>2, <3>1
      <4>2. p.open[c] => c = p.cursor /\ p.queue[c] # <<>>
        BY <1>1, <2>1, <2>2
      <4> QED
        BY <4>1, <4>2
    <3> QED
      BY <3>2, <3>3
  <2> QED
    BY <1>2, <2>4, <2>5, <2>6, <2>10, <2>11 DEF Shares
<1> QED
  BY <1>4, <1>5, <1>6

(* A pass that serves nobody uses up the time that granted quanta leave it, *)
(* and one that serves starts it anew.                                      *)
LEMMA PassProgress ==
  ASSUME NEW o, Shares(o), workload \in Workloads, ~Finished(o), NEW k \in Nat, Progress(k, o)
  PROVE  Progress(k + 1, oracleVisit(o))
<1> DEFINE c == o.cursor
           d == 3 - c
           p == oracleVisit(o)
           q == o.queue[c]
           E == 2 * MostRounds + 3
           L == Len(o.trace)
           x(i) == o.deficit[i] \div Base
<1>1. /\ o \in OracleStates /\ c \in {1, 2} /\ o.queue \in [{1, 2} -> Seq(Requests)]
      /\ o.deficit \in [{1, 2} -> Nat] /\ o.open \in [{1, 2} -> BOOLEAN] /\ o.trace \in Seq(Requests)
      /\ L \in Nat /\ d \in {1, 2} /\ d # c
  BY DEF Shares, OracleStates
<1>2. /\ Base \in Nat \ {0} /\ DeficitCap \in Nat /\ MostRounds \in Nat /\ E \in Nat
      /\ Credit(o, c) \in Nat /\ Credit(o, c) <= DeficitCap
  <2>1. /\ Base \in Nat \ {0} /\ DeficitCap \in Nat /\ MostRounds \in Nat
    BY <1>1, CreditFacts, VisitsNumber DEF Base, MostRounds
  <2>2. Credit(o, c) \in Nat /\ Credit(o, c) <= DeficitCap
    BY <1>1, CreditFacts DEF Shares
  <2>3. \A n \in Nat : 2 * n + 3 \in Nat
    OBVIOUS
  <2> QED
    BY <2>1, <2>2, <2>3, Zenon
<1>3. \A i \in {1, 2} : x(i) \in Nat /\ x(i) <= MostRounds
  <2> SUFFICES ASSUME NEW i \in {1, 2} PROVE x(i) \in Nat /\ x(i) <= MostRounds
    OBVIOUS
  <2>1. o.deficit[i] \in Nat /\ o.deficit[i] <= DeficitCap
    BY <1>1 DEF Shares
  <2> QED
    BY <1>2, <2>1, DivMonotone DEF MostRounds
<1>4. ~o.open[d] /\ (o.open[c] => q # <<>>)
  BY <1>1 DEF Shares
<1>5. PICK w \in Nat : k + (IF o.open[c] THEN 1 ELSE 0) <= L * E + w /\ Waited(o, w)
  BY DEF Progress
<1>6. /\ o.open[c] => w = 0
      /\ q # <<>> => w <= 2 * x(c) + 1
      /\ o.queue[d] # <<>> => w <= 2 * x(d)
  <2>1. \A i \in {1, 2} : o.queue[i] # <<>> => w <= 2 * x(i) + (IF o.cursor = i THEN 1 ELSE 0)
    BY <1>5 DEF Waited
  <2>2. o.open[c] => w = 0
    BY <1>5 DEF Waited
  <2>3. \A n \in Nat : 2 * n + 0 = 2 * n
    OBVIOUS
  <2> QED
    BY <1>1, <1>3, <2>1, <2>2, <2>3
<1>7. L * E \in Nat
  <2>1. \A m, n \in Nat : m * n \in Nat
    OBVIOUS
  <2> QED
    BY <1>1, <1>2, <2>1, Zenon
<1> DEFINE M == L * E
<1> HIDE DEF E
<1>8. CASE q = <<>>
  <2>1. /\ p.queue = o.queue /\ p.trace = o.trace /\ p.cursor = d
        /\ p.deficit = [o.deficit EXCEPT ![c] = 0] /\ p.open = [o.open EXCEPT ![c] = FALSE]
    BY <1>1, <1>8, VisitCases, Zenon
  <2>2. o.queue[d] # <<>> /\ p.deficit[d] = o.deficit[d] /\ ~p.open[d] /\ ~o.open[c]
    BY <1>1, <1>4, <1>8, <2>1 DEF Finished
  <2>3. k + 1 + 0 <= L * E + (w + 1)
    BY <1>5, <1>7, <2>2
  <2>4. w + 1 <= 2 * (p.deficit[d] \div Base) + 1
    BY <1>1, <1>3, <1>6, <2>2, SMTT(30)
  <2>5. Waited(p, w + 1)
    <3>1. \A i \in {1, 2} : i = c \/ i = d
      BY <1>1
    <3> QED
      BY <1>8, <2>1, <2>2, <2>4, <3>1 DEF Waited
  <2> QED
    BY <1>5, <2>1, <2>2, <2>3, <2>5 DEF Progress, E
<1>9. CASE q # <<>> /\ Short(o)
  <2>1. /\ p.queue = o.queue /\ p.trace = o.trace /\ p.cursor = d
        /\ p.deficit = [o.deficit EXCEPT ![c] = Credit(o, c)] /\ p.open = [o.open EXCEPT ![c] = FALSE]
    BY <1>1, <1>9, VisitCases, Zenon
  <2>2. p.deficit[c] = Credit(o, c) /\ p.deficit[d] = o.deficit[d] /\ ~p.open[d]
    BY <1>1, <1>4, <2>1
  <2>3. \A i \in {1, 2} : i = c \/ i = d
    BY <1>1
  <2>4. CASE o.open[c]
    <3>1. k + 1 + 0 <= L * E + 0
      BY <1>5, <1>6, <1>7, <2>4
    <3>2. \A i \in {1, 2} : p.deficit[i] \div Base \in Nat
      <4>1. \A i \in {1, 2} : p.deficit[i] \in Nat
        BY <1>1, <1>2, <2>1
      <4> QED
        BY <1>2, <4>1, DivMonotone
    <3>3. \A n \in Nat : 0 <= 2 * n + 0 /\ 0 <= 2 * n + 1
      OBVIOUS
    <3>4. Waited(p, 0)
      BY <3>2, <3>3 DEF Waited
    <3> QED
      BY <2>1, <2>2, <3>1, <3>4 DEF Progress, E
  <2>5. CASE ~o.open[c]
    <3>1. k + 1 + 0 <= L * E + (w + 1)
      BY <1>5, <1>7, <2>5
    <3>2. Credit(o, c) = o.deficit[c] + Quantum[c + 1] /\ Base <= Quantum[c + 1] /\ Quantum[c + 1] \in Nat
      <4>1. Credit(o, c) < MaxRequestUnits
        <5>1. workload.work[Head(q)] \in 1..MaxRequestUnits /\ MaxRequestUnits \in Nat
          BY <1>1, <1>9, VisitCases, ConfigAssumption, Zenon
        <5>2. workload.work[Head(q)] > Credit(o, c)
          BY <1>9 DEF Short
        <5> QED
          BY <1>2, <5>1, <5>2
      <4> QED
        BY <1>1, <2>5, <4>1, CreditFacts DEF Base
    <3>3. x(c) + 1 <= p.deficit[c] \div Base /\ p.deficit[c] \div Base \in Nat
      <4>1. o.deficit[c] \in Nat /\ p.deficit[c] \in Nat /\ o.deficit[c] + Base <= p.deficit[c]
        BY <1>1, <1>2, <2>2, <3>2
      <4> QED
        BY <1>2, <4>1, DivStep, DivMonotone, SMTT(30)
    <3>4. w + 1 <= 2 * (p.deficit[c] \div Base) + 0
      <4>1. w <= 2 * x(c) + 1 /\ x(c) \in Nat
        BY <1>1, <1>3, <1>6, <1>9
      <4>2. \A a, b \in Nat : w <= 2 * a + 1 /\ a + 1 <= b => w + 1 <= 2 * b + 0
        OBVIOUS
      <4> QED
        BY <3>3, <4>1, <4>2
    <3>5. p.queue[d] # <<>> => w + 1 <= 2 * (p.deficit[d] \div Base) + 1
      <4>1. p.queue[d] # <<>> => w <= 2 * x(d) /\ x(d) \in Nat
        BY <1>1, <1>3, <1>6, <2>1
      <4>2. \A a \in Nat : w <= 2 * a => w + 1 <= 2 * a + 1
        OBVIOUS
      <4> QED
        BY <2>2, <4>1, <4>2
    <3>6. Waited(p, w + 1)
      BY <1>1, <2>1, <2>2, <2>3, <3>4, <3>5 DEF Waited
    <3> QED
      BY <1>5, <2>1, <2>2, <3>1, <3>6 DEF Progress, E
  <2> QED
    BY <2>4, <2>5
<1>10. CASE q # <<>> /\ ~Short(o)
  <2>1. p.trace = Append(o.trace, Head(q)) /\ p \in OracleStates
    BY <1>1, <1>10, VisitCases, Zenon
  <2>2. Len(p.trace) = L + 1
    <3>1. Head(q) \in Requests
      BY <1>1, <1>10
    <3> QED
      BY <1>1, <2>1, <3>1, AppendFacts
  <2>3. (L + 1) * E = L * E + E
    <3>1. \A m, n \in Nat : (m + 1) * n = m * n + n
      OBVIOUS
    <3> QED
      BY <1>1, <1>2, <3>1
  <2>4. w <= 2 * MostRounds + 1
    <3>1. w <= 2 * x(c) + 1 /\ x(c) \in Nat /\ x(c) <= MostRounds
      BY <1>1, <1>3, <1>6, <1>10
    <3>2. \A a, b \in Nat : w <= 2 * a + 1 /\ a <= b => w <= 2 * b + 1
      OBVIOUS
    <3> QED
      BY <1>2, <3>1, <3>2
  <2>5. k + 1 + 1 <= (L + 1) * E + 0
    <3>1. \A m \in Nat : k <= m + w => k + 2 <= m + (2 * MostRounds + 3)
      BY <1>2, <2>4
    <3>2. k <= L * E + w
      BY <1>5, <1>7
    <3>3. k + 2 <= L * E + E
      BY <1>7, <3>1, <3>2 DEF E
    <3> QED
      BY <1>2, <1>7, <2>3, <3>3
  <2>6. k + 1 + (IF p.open[p.cursor] THEN 1 ELSE 0) <= (L + 1) * E + 0
    BY <1>2, <1>7, <2>3, <2>5
  <2>7. Waited(p, 0)
    <3>1. \A i \in {1, 2} : p.deficit[i] \in Nat
      BY <2>1 DEF OracleStates
    <3>2. \A i \in {1, 2} : p.deficit[i] \div Base \in Nat
      BY <1>2, <3>1, DivMonotone
    <3>3. \A n \in Nat : 0 <= 2 * n + 0 /\ 0 <= 2 * n + 1
      OBVIOUS
    <3> QED
      BY <3>2, <3>3 DEF Waited
  <2> QED
    BY <2>2, <2>6, <2>7 DEF Progress, E
<1> QED
  BY <1>8, <1>9, <1>10

(* Once the queues are empty a pass changes nothing. *)
LEMMA PassesCases ==
  ASSUME NEW o
  PROVE  /\ Finished(o) => passes(o) = o
         /\ ~Finished(o) => passes(o) = oracleVisit(o)
<1>1. DOMAIN ServiceTenants = {1, 2}
  BY Setup
<1> QED
  BY <1>1 DEF passes, Finished

(* So it is after every number of passes. *)
LEMMA OracleFacts ==
  ASSUME Filled
  PROVE  \A k \in 0..maximumVisits :
           Shares(oracleAfter[k]) /\ (Finished(oracleAfter[k]) \/ Progress(k, oracleAfter[k]))
<1> DEFINE P(k) == Shares(oracleAfter[k]) /\ (Finished(oracleAfter[k]) \/ Progress(k, oracleAfter[k]))
           T == {k \in 0..maximumVisits : ~P(k)}
<1> SUFFICES ASSUME T # {} PROVE FALSE
  OBVIOUS
<1>1. T \in SUBSET Nat /\ maximumVisits \in Nat
  BY VisitsNumber
<1>2. PICK n \in T : \A y \in T : n <= y
  BY <1>1, NatLeast
<1>3. CASE n = 0
  <2> DEFINE o == begins
  <2>1. /\ o.queue = [i \in {1, 2} |-> order[i + 1]] /\ o.deficit = [i \in {1, 2} |-> 0]
        /\ o.open = [i \in {1, 2} |-> FALSE] /\ o.cursor = 1 /\ o.trace = <<>>
    <3>1. DOMAIN ServiceTenants = {1, 2} /\ \A i \in {1, 2} : ServiceTenants[i] = i + 1
      BY Setup
    <3> QED
      BY <3>1 DEF begins
  <2>2. o = [queue |-> o.queue, deficit |-> o.deficit, open |-> o.open, cursor |-> o.cursor, trace |-> o.trace]
    BY DEF begins
  <2>3. \A i \in {1, 2} : i + 1 \in {2, 3} /\ i + 1 \in Tenants
    BY Setup
  <2>4. o.queue \in [{1, 2} -> Seq(Requests)]
    BY <2>1, <2>3 DEF Filled
  <2>5. o \in OracleStates
    <3>1. o.trace \in Seq(Requests) /\ o.deficit \in [{1, 2} -> Nat] /\ o.open \in [{1, 2} -> BOOLEAN]
      BY <2>1
    <3> HIDE DEF o
    <3> QED
      BY <2>1, <2>2, <2>4, <3>1 DEF OracleStates
  <2>6. ToSet(<<>>) = {} /\ IsInjective(<<>>)
    BY DEF ToSet, IsInjective
  <2>7. Shares(o)
    <3>1. DeficitCap \in Nat
      BY ConfigAssumption
    <3> HIDE DEF o
    <3>2. \A i \in {1, 2} : o.queue[i] = order[i + 1] /\ o.deficit[i] = 0 /\ ~o.open[i]
      BY <2>1
    <3>3. \A i \in {1, 2} : /\ IsInjective(o.queue[i])
                            /\ ToSet(o.queue[i]) = {r \in Service : tenant[r] = i + 1} \ ToSet(o.trace)
      BY <2>1, <2>3, <2>6, <3>2 DEF Filled
    <3> QED
      BY <2>1, <2>5, <2>6, <3>1, <3>2, <3>3 DEF Shares
  <2>8. Progress(0, o)
    <3>1. ~o.open[o.cursor] /\ Len(o.trace) = 0
      BY <2>1
    <3>2. \A i \in {1, 2} : o.deficit[i] = 0
      BY <2>1
    <3>3. Base \in Nat \ {0} /\ MostRounds \in Nat
      BY <2>5, CreditFacts, VisitsNumber DEF Base, MostRounds
    <3>4. 0 \div Base = 0
      BY <3>3, Z3
    <3>5. Waited(o, 0)
      BY <3>1, <3>2, <3>4 DEF Waited
    <3>6. 0 + 0 <= 0 * (2 * MostRounds + 3) + 0
      BY <3>3
    <3> QED
      BY <3>1, <3>5, <3>6 DEF Progress
  <2> QED
    BY <1>2, <1>3, <2>7, <2>8, OracleUnfolds
<1>4. CASE n # 0
  <2>1. n \in 1..maximumVisits /\ n - 1 \in Nat /\ n - 1 \in 0..maximumVisits /\ n = (n - 1) + 1
    BY <1>1, <1>2, <1>4
  <2>2. P(n - 1)
    <3>1. n - 1 \notin T
      BY <1>1, <1>2, <2>1
    <3> QED
      BY <2>1, <3>1
  <2>3. oracleAfter[n] = passes(oracleAfter[n - 1])
    BY <2>1, OracleUnfolds
  <2>4. CASE Finished(oracleAfter[n - 1])
    BY <1>2, <2>2, <2>3, <2>4, PassesCases
  <2>5. CASE ~Finished(oracleAfter[n - 1])
    <3>1. oracleAfter[n] = oracleVisit(oracleAfter[n - 1])
      BY <2>3, <2>5, PassesCases
    <3>2. Shares(oracleAfter[n])
      BY <2>2, <3>1, PassShares DEF Filled
    <3>3. Progress((n - 1) + 1, oracleVisit(oracleAfter[n - 1]))
      BY <2>1, <2>2, <2>5, PassProgress DEF Filled
    <3>4. Progress(n, oracleAfter[n])
      BY <2>1, <3>1, <3>3
    <3> QED
      BY <1>2, <3>2, <3>4
  <2> QED
    BY <2>4, <2>5
<1> QED
  BY <1>3, <1>4

(* maximumVisits passes are enough to serve every job. *)
LEMMA OracleFinishes ==
  ASSUME Filled
  PROVE  Finished(oracleAfter[maximumVisits])
<1> DEFINE o == oracleAfter[maximumVisits]
           E == 2 * MostRounds + 3
           n == Cardinality(Service)
<1>1. /\ maximumVisits \in Nat /\ n \in Nat /\ IsFiniteSet(Service) /\ MostRounds \in Nat
      /\ maximumVisits = n * (2 * MostRounds + 4)
  BY VisitsNumber DEF MostRounds, Base
<1>2. maximumVisits \in 0..maximumVisits
  BY <1>1
<1>3. Shares(o) /\ (Finished(o) \/ Progress(maximumVisits, o))
  BY <1>2, OracleFacts
<1> HIDE DEF o
<1> SUFFICES ASSUME ~Finished(o) PROVE FALSE
  BY DEF o
<1>4. PICK i \in {1, 2} : o.queue[i] # <<>>
  BY DEF Finished
<1>5. /\ o \in OracleStates /\ o.trace \in Seq(Requests) /\ o.queue[i] \in Seq(Requests)
      /\ IsInjective(o.trace) /\ IsInjective(o.queue[i]) /\ ToSet(o.trace) \subseteq Service
      /\ ToSet(o.queue[i]) = {r \in Service : tenant[r] = i + 1} \ ToSet(o.trace)
      /\ o.deficit[i] \in Nat /\ o.deficit[i] <= DeficitCap
  BY <1>3 DEF Shares, OracleStates
<1>6. ToSet(o.trace) # Service
  BY <1>4, <1>5, InjectiveLength
<1>7. Len(o.trace) \in Nat /\ Len(o.trace) < n
  <2>1. Len(o.trace) \in Nat /\ Len(o.trace) = Cardinality(ToSet(o.trace))
    BY <1>5, InjectiveLength
  <2>2. Cardinality(ToSet(o.trace)) <= n /\ (Cardinality(ToSet(o.trace)) = n => ToSet(o.trace) = Service)
    BY <1>1, <1>5, FS_Subset
  <2> QED
    BY <1>1, <1>6, <2>1, <2>2
<1>8. PICK w \in Nat : /\ maximumVisits + (IF o.open[o.cursor] THEN 1 ELSE 0) <= Len(o.trace) * E + w
                       /\ Waited(o, w)
  BY <1>3 DEF Progress
<1>9. w <= 2 * MostRounds + 1
  <2>1. Base \in Nat \ {0} /\ DeficitCap \in Nat
    BY <1>5, CreditFacts DEF Base
  <2>2. o.deficit[i] \div Base \in Nat /\ o.deficit[i] \div Base <= MostRounds
    BY <1>5, <2>1, DivMonotone DEF MostRounds
  <2>3. w <= 2 * (o.deficit[i] \div Base) + 1
    <3>1. w <= 2 * (o.deficit[i] \div Base) + (IF o.cursor = i THEN 1 ELSE 0)
      BY <1>4, <1>8 DEF Waited
    <3>2. \A a \in Nat : w <= 2 * a + 0 => w <= 2 * a + 1
      OBVIOUS
    <3> QED
      BY <2>2, <3>1, <3>2
  <2>4. \A a, b \in Nat : w <= 2 * a + 1 /\ a <= b => w <= 2 * b + 1
    OBVIOUS
  <2> QED
    BY <1>1, <2>2, <2>3, <2>4
<1>10. maximumVisits <= Len(o.trace) * E + w
  <2>1. \A m \in Nat : maximumVisits + 1 <= m + w => maximumVisits <= m + w
    BY <1>1
  <2>2. Len(o.trace) * E \in Nat
    <3>1. \A a, b \in Nat : a * (2 * b + 3) \in Nat
      OBVIOUS
    <3> QED
      BY <1>1, <1>7, <3>1, Zenon
  <2>3. maximumVisits + 1 <= Len(o.trace) * E + w \/ maximumVisits + 0 <= Len(o.trace) * E + w
    BY <1>8, Zenon
  <2>4. \A m \in Nat : maximumVisits + 0 <= m + w => maximumVisits <= m + w
    BY <1>1
  <2> QED
    BY <2>1, <2>2, <2>3, <2>4, Zenon
<1>11. \A L, m, e \in Nat : L < m => L * (2 * e + 3) + (2 * e + 1) < m * (2 * e + 4)
  <2> SUFFICES ASSUME NEW L \in Nat, NEW m \in Nat, NEW e \in Nat, L < m
               PROVE  L * (2 * e + 3) + (2 * e + 1) < m * (2 * e + 4)
    OBVIOUS
  <2>1. PICK j \in Nat : m = L + 1 + j
    <3>1. m - L - 1 \in Nat /\ m = L + 1 + (m - L - 1)
      OBVIOUS
    <3> QED
      BY <3>1
  <2>2. m * (2 * e + 4) = L * (2 * e + 3) + L + (2 * e + 4) + j * (2 * e + 4)
    <3>1. (L + 1 + j) * (2 * e + 4) = L * (2 * e + 3) + L + (2 * e + 4) + j * (2 * e + 4)
      OBVIOUS
    <3> QED
      BY <2>1, <3>1, Zenon
  <2>3. j * (2 * e + 4) \in Nat /\ L * (2 * e + 3) \in Nat
    OBVIOUS
  <2> DEFINE A == L * (2 * e + 3)
             B == j * (2 * e + 4)
             C == m * (2 * e + 4)
  <2>4. A \in Nat /\ B \in Nat /\ C = A + L + (2 * e + 4) + B
    BY <2>2, <2>3
  <2> HIDE DEF A, B, C
  <2>5. A + (2 * e + 1) < C
    BY <2>4
  <2> QED
    BY <2>5 DEF A, C
<1>12. Len(o.trace) * E + (2 * MostRounds + 1) < maximumVisits
  BY <1>1, <1>7, <1>11
<1>13. Len(o.trace) * E \in Nat
  <2>1. \A a, b \in Nat : a * (2 * b + 3) \in Nat
    OBVIOUS
  <2> QED
    BY <1>1, <1>7, <2>1, Zenon
<1> HIDE DEF E
<1> QED
  BY <1>1, <1>9, <1>10, <1>12, <1>13

(* The one sequence is the beginning of the other. *)
Begins(s, t) == Len(s) <= Len(t) /\ \A i \in 1..Len(s) : t[i] = s[i]

(* What is in the trace after k passes stays in its place. *)
LEMMA OraclePrefix ==
  ASSUME Filled, NEW k \in 0..maximumVisits
  PROVE  Begins(oracleAfter[k].trace, expectedDispatchPlan)
<1> DEFINE tr(m) == oracleAfter[m].trace
           T == {m \in k..maximumVisits : ~Begins(tr(k), tr(m))}
<1>1. T \in SUBSET Nat /\ maximumVisits \in Nat /\ k \in Nat /\ k <= maximumVisits
  BY VisitsNumber
<1>2. \A m \in 0..maximumVisits : tr(m) \in Seq(Requests) /\ Len(tr(m)) \in Nat
  BY OracleFacts DEF Shares, OracleStates
<1>3. ASSUME T # {} PROVE FALSE
  <2>1. PICK n \in T : \A y \in T : n <= y
    BY <1>1, <1>3, NatLeast
  <2>2. n # k
    BY <1>1, <1>2, <2>1 DEF Begins
  <2>3. n \in 1..maximumVisits /\ n - 1 \in k..maximumVisits /\ n - 1 \in 0..maximumVisits /\ n - 1 < n /\ n \in 0..maximumVisits
    BY <1>1, <2>1, <2>2
  <2>4. Begins(tr(k), tr(n - 1))
    BY <1>1, <2>1, <2>3
  <2>5. oracleAfter[n] = passes(oracleAfter[n - 1]) /\ Shares(oracleAfter[n - 1])
    BY <2>3, OracleUnfolds, OracleFacts
  <2>6. tr(n) = tr(n - 1) \/ \E x \in Requests : tr(n) = Append(tr(n - 1), x)
    <3> DEFINE o == oracleAfter[n - 1]
    <3>1. CASE Finished(o)
      BY <2>5, <3>1, PassesCases
    <3>2. CASE ~Finished(o)
      <4>1. oracleAfter[n] = oracleVisit(o) /\ o \in OracleStates /\ workload \in Workloads
        BY <2>5, <3>2, PassesCases DEF Shares, Filled
      <4> HIDE DEF o
      <4>2. \/ oracleVisit(o).trace = o.trace
            \/ Head(o.queue[o.cursor]) \in Requests /\ oracleVisit(o).trace = Append(o.trace, Head(o.queue[o.cursor]))
        BY <4>1, VisitCases, Zenon
      <4> QED
        BY <4>1, <4>2 DEF o
    <3> QED
      BY <3>1, <3>2
  <2>7. Begins(tr(n - 1), tr(n))
    <3> DEFINE s == tr(n - 1)
               t == tr(n)
    <3>1. s \in Seq(Requests) /\ Len(s) \in Nat
      BY <1>2, <2>3
    <3>2. t = s \/ \E x \in Requests : t = Append(s, x)
      BY <2>6
    <3> HIDE DEF s, t
    <3>3. Begins(s, t)
      <4>1. CASE t = s
        BY <3>1, <4>1 DEF Begins
      <4>2. ASSUME NEW x \in Requests, t = Append(s, x) PROVE Begins(s, t)
        BY <3>1, <4>2, AppendFacts DEF Begins
      <4> QED
        BY <3>2, <4>1, <4>2
    <3> QED
      BY <3>3 DEF s, t
  <2>8. Begins(tr(k), tr(n))
    <3>1. Len(tr(k)) \in Nat /\ Len(tr(n - 1)) \in Nat /\ Len(tr(n)) \in Nat
      BY <1>2, <2>3
    <3> HIDE DEF tr
    <3> QED
      BY <2>4, <2>7, <3>1 DEF Begins
  <2> QED
    BY <2>1, <2>8
<1>4. maximumVisits \in k..maximumVisits
  BY <1>1
<1> QED
  BY <1>3, <1>4 DEF expectedDispatchPlan

(* The plan is made of all service jobs, each once. *)
LEMMA PlanFacts ==
  ASSUME Filled
  PROVE  /\ expectedDispatchPlan \in Seq(Requests) /\ IsInjective(expectedDispatchPlan)
         /\ ToSet(expectedDispatchPlan) = Service
         /\ Len(expectedDispatchPlan) = Cardinality(Service)
<1> DEFINE o == oracleAfter[maximumVisits]
<1>1. maximumVisits \in 0..maximumVisits
  BY VisitsNumber
<1>2. Shares(o) /\ Finished(o)
  BY <1>1, OracleFacts, OracleFinishes
<1> HIDE DEF o
<1>3. o.trace \in Seq(Requests) /\ IsInjective(o.trace) /\ ToSet(o.trace) \subseteq Service
  BY <1>2 DEF Shares, OracleStates
<1>4. \A r \in Service : tenant[r] \in {2, 3}
  BY Setup
<1>5. ToSet(<<>>) = {}
  BY DEF ToSet
<1>6. \A i \in {1, 2} : {r \in Service : tenant[r] = i + 1} \ ToSet(o.trace) = {}
  BY <1>2, <1>5 DEF Shares, Finished
<1>7. ToSet(o.trace) = Service
  <2> SUFFICES ASSUME NEW r \in Service PROVE r \in ToSet(o.trace)
    BY <1>3
  <2>1. tenant[r] = 1 + 1 \/ tenant[r] = 2 + 1
    BY <1>4
  <2> QED
    BY <1>6, <2>1
<1>8. Len(o.trace) = Cardinality(Service)
  BY <1>3, <1>7, InjectiveLength
<1> QED
  BY <1>3, <1>7, <1>8 DEF expectedDispatchPlan, o

-----------------------------------------------------------------------------
(* Where the driver is *)

(* The stages that await the results of the jobs they are about *)
Awaiting == {"release", "measure", "canceling", "expire", "reject", "global"}

(* What the tables of stages say, row by row *)
LEMMA Tables ==
  /\ DOMAIN rank = {"control", "initial", "cancel", "deadline", "expire", "canceling", "late", "reject",
                    "global", "release", "measure", "final", "shutdown", "reported"}
  /\ \A s \in DOMAIN rank : rank[s] \in 1..14
  /\ \A s, u \in DOMAIN rank : rank[s] = rank[u] => s = u
  /\ Stages \subseteq DOMAIN rank /\ Awaiting \subseteq DOMAIN rank
  /\ DOMAIN following = DOMAIN rank \ {"shutdown", "reported"}
  /\ \A s \in DOMAIN following : following[s] \in DOMAIN rank \ {"reported", "control"} /\ rank[following[s]] = rank[s] + 1
  /\ \A k \in Stages : awaits[k] \in Awaiting /\ about[k] = {k} /\ rank[k] <= rank[awaits[k]]
  /\ \A s \in Awaiting, k \in Stages : s = awaits[k] <=> k \in about[s]
<1> USE DEF rank, Stages, Enqueued, Awaiting, following, awaits, about
<1>1. DOMAIN rank = {"control", "initial", "cancel", "deadline", "expire", "canceling", "late", "reject",
                    "global", "release", "measure", "final", "shutdown", "reported"}
  OBVIOUS
<1>2. \A s \in DOMAIN rank : rank[s] \in 1..14
  OBVIOUS
<1>3. \A s, u \in DOMAIN rank : rank[s] = rank[u] => s = u
  OBVIOUS
<1>4. Stages \subseteq DOMAIN rank /\ Awaiting \subseteq DOMAIN rank /\ DOMAIN following = DOMAIN rank \ {"shutdown", "reported"}
  OBVIOUS
<1>5. \A s \in DOMAIN following : following[s] \in DOMAIN rank \ {"reported", "control"} /\ rank[following[s]] = rank[s] + 1
  OBVIOUS
<1>6. \A k \in Stages : awaits[k] \in Awaiting /\ about[k] = {k} /\ rank[k] <= rank[awaits[k]]
  OBVIOUS
<1>7. \A s \in Awaiting, k \in Stages : s = awaits[k] <=> k \in about[s]
  OBVIOUS
<1> QED
  BY <1>1, <1>2, <1>3, <1>4, <1>5, <1>6, <1>7

(* Every kind of job there is has one. *)
LEMMA KindsExist == \A k \in Stages : \E r \in Requests : kind[r] = k
<1>1. \A t, S : S = {} => Cardinality({r \in S : tenant[r] = t}) = 0
  <2> SUFFICES ASSUME NEW t, NEW S, S = {} PROVE Cardinality({r \in S : tenant[r] = t}) = 0
    OBVIOUS
  <2>1. {r \in S : tenant[r] = t} = {}
    OBVIOUS
  <2> QED
    BY <2>1, FS_EmptySet
<1>2. 2 \in ToSet(ServiceTenants)
  BY Setup
<1>3. \A k \in {"cancel", "deadline", "reject"} : Cardinality({r \in Jobs(k) : tenant[r] = 2}) = 1
  BY <1>2, WorkloadAssumption DEF validateSeededWorkload
<1>4. Cardinality({r \in Streams : tenant[r] = 2}) = 1 /\ Cardinality({r \in Jobs("initial") : tenant[r] = 2}) >= 1
  BY <1>2, WorkloadAssumption DEF validateSeededWorkload
<1>5. \A k \in {"cancel", "deadline", "reject", "initial"} : Jobs(k) # {}
  BY <1>1, <1>3, <1>4
<1>6. Streams # {}
  BY <1>1, <1>4
<1>7. Jobs("late") # {} /\ Jobs("control") # {} /\ Jobs("global") # {}
  <2>1. Jobs("global") # {}
    <3>1. Cardinality(Jobs("global")) = 1
      BY WorkloadAssumption DEF validateSeededWorkload
    <3> QED
      BY <3>1, FS_EmptySet
  <2> QED
    BY <1>6, <2>1, Setup DEF Jobs
<1> QED
  BY <1>5, <1>7 DEF Jobs, Stages, Enqueued

(* What a stage is to see to: all jobs of the kinds it is about *)
LEMMA JobsOfStage ==
  ASSUME workload \in Workloads, NEW s \in DOMAIN rank \ {"reported"}, s = "measure" => Filled
  PROVE  /\ jobsOf(s) \in Seq(Requests) /\ IsInjective(jobsOf(s)) /\ jobsOf(s) # <<>>
         /\ ToSet(jobsOf(s)) = {r \in Requests : kind[r] \in about[s]}
         /\ s \in {"release", "global", "control", "final", "shutdown"} => Len(jobsOf(s)) = 1
<1>1. \A k \in Stages : /\ workload[k] \in Seq(Requests) /\ IsInjective(workload[k])
                        /\ ToSet(workload[k]) = {r \in Requests : kind[r] = k}
  BY SetupWorkload
<1>2. /\ jobsOf(s) \in Seq(Requests) /\ IsInjective(jobsOf(s))
      /\ ToSet(jobsOf(s)) = {r \in Requests : kind[r] \in about[s]}
  <2>1. CASE s = "measure"
    <3>1. about[s] = {"initial", "late"} /\ jobsOf(s) = expectedDispatchPlan
      BY <2>1 DEF about, jobsOf
    <3>2. Service = {r \in Requests : kind[r] \in about[s]}
      BY <3>1, Setup
    <3> QED
      BY <2>1, <3>1, <3>2, PlanFacts
  <2>2. CASE s # "measure"
    <3>1. PICK k \in Stages : jobsOf(s) = workload[k] /\ about[s] = {k}
      <4>1. s \in Stages \/ s \in {"expire", "canceling", "release", "final", "shutdown"}
        BY <2>2, Tables DEF Stages, Enqueued
      <4>2. CASE s \in Stages
        BY <4>2, Tables DEF jobsOf, Stages, Enqueued
      <4>3. CASE s = "expire"
        BY <4>3, SetupWorkload DEF jobsOf, about, Stages, Enqueued
      <4>4. CASE s = "canceling"
        BY <4>4, SetupWorkload DEF jobsOf, about, Stages, Enqueued
      <4>5. CASE s = "release"
        BY <4>5, SetupWorkload DEF jobsOf, about, Stages, Enqueued
      <4>6. CASE s \in {"final", "shutdown"}
        BY <4>6, SetupWorkload DEF jobsOf, about, Stages, Enqueued
      <4> QED
        BY <4>1, <4>2, <4>3, <4>4, <4>5, <4>6
    <3> QED
      BY <1>1, <3>1
  <2> QED
    BY <2>1, <2>2
<1>3. \E r \in Requests : kind[r] \in about[s]
  <2>1. \E k \in Stages : k \in about[s]
    BY Tables DEF about, Stages, Enqueued
  <2> QED
    BY <2>1, KindsExist
<1>4. jobsOf(s) # <<>>
  BY <1>2, <1>3, InjectiveLength
<1>5. ASSUME s \in {"release", "global", "control", "final", "shutdown"} PROVE Len(jobsOf(s)) = 1
  <2>1. about[s] = {"control"} \/ about[s] = {"global"}
    BY <1>5 DEF about
  <2>2. \E x : {r \in Requests : kind[r] \in about[s]} = {x}
    BY <1>3, <2>1, Setup
  <2> QED
    BY <1>2, <2>2, OneMember
<1> QED
  BY <1>2, <1>4, <1>5

(* The current job *)
LEMMA JobFacts ==
  ASSUME PosInv
  PROVE  /\ stage \in DOMAIN rank /\ todo \in Seq(Requests) /\ IsInjective(todo) /\ todo # <<>>
         /\ job \in Requests /\ job \in ToSet(todo) /\ kind[job] \in about[stage] /\ kind[job] \in Stages
         /\ stage \in Stages => kind[job] = stage
         /\ stage \in Awaiting <=> stage = awaits[kind[job]]
<1>1. /\ stage \in DOMAIN rank /\ todo \in Seq(Requests) /\ IsInjective(todo) /\ todo # <<>>
      /\ \A r \in ToSet(todo) : kind[r] \in about[stage]
  BY DEF PosInv
<1>2. job \in Requests /\ job \in ToSet(todo)
  BY <1>1, TailFacts DEF job
<1>3. kind[job] \in about[stage] /\ kind[job] \in Stages
  BY <1>1, <1>2, Setup
<1> QED
  BY <1>1, <1>2, <1>3, Tables

(* What a step within a stage does to the sets of jobs *)
LEMMA GotoMoves ==
  ASSUME PosInv, NEW s, Goto(s)
  PROVE  /\ settled' = settled /\ passed' = passed /\ job' = job
         /\ launched' = settled \cup (IF stage \in Stages /\ s # "launch" THEN {job} ELSE {})
         /\ consumed' = passed \cup (IF stage \in Awaiting /\ s \in {"barrier", "snapshot"} THEN {job} ELSE {})
<1>1. stage' = stage /\ todo' = todo /\ step' = s
  BY DEF Goto
<1>2. settled' = settled /\ passed' = passed /\ job' = job
  BY <1>1 DEF settled, passed, job
<1>3. {r \in Requests : stage = kind[r] /\ r = job /\ s # "launch"} = IF stage \in Stages /\ s # "launch" THEN {job} ELSE {}
  BY JobFacts
<1>4. {r \in Requests : stage = awaits[kind[r]] /\ r = job /\ s \in {"barrier", "snapshot"}}
        = IF stage \in Awaiting /\ s \in {"barrier", "snapshot"} THEN {job} ELSE {}
  BY JobFacts
<1>5. launched' = settled' \cup {r \in Requests : stage = kind[r] /\ r = job /\ s # "launch"}
  BY <1>1, <1>2 DEF launched
<1>6. consumed' = passed' \cup {r \in Requests : stage = awaits[kind[r]] /\ r = job /\ s \in {"barrier", "snapshot"}}
  BY <1>1, <1>2 DEF consumed, AtBarrier
<1> QED
  BY <1>2, <1>3, <1>4, <1>5, <1>6

(* Where they are before it *)
LEMMA Positions ==
  ASSUME PosInv
  PROVE  /\ launched = settled \cup (IF stage \in Stages /\ step # "launch" THEN {job} ELSE {})
         /\ consumed = passed \cup (IF stage \in Awaiting /\ AtBarrier THEN {job} ELSE {})
         /\ stage \in Stages => job \notin settled
         /\ stage \in Awaiting => job \notin passed
         /\ settled \subseteq Requests /\ passed \subseteq Requests
         /\ launched \subseteq Requests /\ consumed \subseteq Requests
<1>1. {r \in Requests : stage = kind[r] /\ r = job /\ step # "launch"} = IF stage \in Stages /\ step # "launch" THEN {job} ELSE {}
  BY JobFacts
<1>2. {r \in Requests : stage = awaits[kind[r]] /\ r = job /\ AtBarrier} = IF stage \in Awaiting /\ AtBarrier THEN {job} ELSE {}
  BY JobFacts
<1>3. rank[stage] \in 1..14 /\ ~(rank[stage] > rank[stage])
  BY JobFacts, Tables
<1>4. stage \in Stages => job \notin settled
  BY <1>3, JobFacts DEF settled
<1>5. stage \in Awaiting => job \notin passed
  BY <1>3, JobFacts DEF passed
<1> QED
  BY <1>1, <1>2, <1>4, <1>5 DEF launched, consumed, settled, passed

(* A stage begins with a step of its own, and none at a barrier. *)
LEMMA FirstSteps ==
  \A s \in DOMAIN rank \ {"reported"} :
    /\ firstStep(s) \in stepsOf[s] /\ firstStep(s) \notin {"barrier", "snapshot", "event"}
    /\ s \in Stages => firstStep(s) = "launch"
<1> SUFFICES ASSUME NEW s \in DOMAIN rank \ {"reported"}
             PROVE  /\ firstStep(s) \in stepsOf[s] /\ firstStep(s) \notin {"barrier", "snapshot", "event"}
                    /\ s \in Stages => firstStep(s) = "launch"
  OBVIOUS
<1>1. s \in Stages \/ s \in {"expire", "canceling", "release", "measure", "final", "shutdown"}
  BY Tables DEF Stages, Enqueued
<1>2. CASE s \in Stages
  BY <1>2 DEF firstStep, stepsOf, Stages, Enqueued
<1>3. CASE s \in {"expire", "canceling"}
  BY <1>3 DEF firstStep, stepsOf, Stages, Enqueued
<1>4. CASE s \in {"release", "final", "shutdown"}
  BY <1>4 DEF firstStep, stepsOf, Stages, Enqueued
<1>5. CASE s = "measure"
  BY <1>5 DEF firstStep, stepsOf, Stages, Enqueued
<1> QED
  BY <1>1, <1>2, <1>3, <1>4, <1>5

(* ... and what going on to the next job or the next stage does to them *)
LEMMA ProceedMoves ==
  ASSUME PosInv, workload \in Workloads, Proceed, stage \in DOMAIN following, stage = "release" => Filled
  PROVE  /\ settled' = settled \cup (IF stage \in Stages THEN {job} ELSE {})
         /\ launched' = settled'
         /\ passed' = passed \cup (IF stage \in Awaiting THEN {job} ELSE {})
         /\ consumed' = passed'
         /\ PosInv'
         /\ stage' # stage => /\ stage' = following[stage] /\ ToSet(todo) = {job} /\ todo' = jobsOf(stage')
                              /\ ToSet(todo') = {r \in Requests : kind[r] \in about[stage']}
         /\ stage' = stage => todo' = Tail(todo) /\ Len(todo) > 1 /\ ToSet(todo') = ToSet(todo) \ {job}
         /\ step' = firstStep(stage') /\ job' \in ToSet(todo')
<1>1. /\ stage \in DOMAIN rank /\ todo \in Seq(Requests) /\ IsInjective(todo) /\ todo # <<>>
      /\ job \in Requests /\ job \in ToSet(todo) /\ kind[job] \in about[stage] /\ kind[job] \in Stages
      /\ stage \in Stages => kind[job] = stage
      /\ stage \in Awaiting <=> stage = awaits[kind[job]]
  BY JobFacts
<1>2. rank[stage] \in 1..14 /\ \A k \in Stages : rank[k] \in 1..14 /\ rank[awaits[k]] \in 1..14
  BY <1>1, Tables
<1>3. following[stage] # stage /\ following[stage] \in DOMAIN rank \ {"reported", "control"} /\ rank[following[stage]] = rank[stage] + 1
  BY <1>1, <1>2, Tables
<1>4. stage' \in DOMAIN rank \ {"reported"} /\ step' = firstStep(stage')
  BY <1>1, <1>3, Tables DEF Proceed
<1>5. /\ step' \in stepsOf[stage'] /\ step' \notin {"barrier", "snapshot", "event"}
      /\ stage' \in Stages => step' = "launch"
  BY <1>4, FirstSteps
<1>6. Len(todo) \in Nat /\ Len(todo) >= 1
  BY <1>1
<1>7. CASE Len(todo) = 1
  <2>1. stage' = following[stage] /\ todo' = jobsOf(stage')
    BY <1>7 DEF Proceed
  <2>2. stage' = "measure" => Filled
    <3>1. \A s \in DOMAIN following : following[s] = "measure" => s = "release"
      BY Tables DEF following
    <3> QED
      BY <2>1, <3>1
  <2>3. /\ todo' \in Seq(Requests) /\ IsInjective(todo') /\ todo' # <<>>
        /\ ToSet(todo') = {r \in Requests : kind[r] \in about[stage']}
        /\ stage' \in {"release", "global", "control", "final", "shutdown"} => Len(todo') = 1
    BY <1>3, <2>1, <2>2, JobsOfStage
  <2>4. ToSet(todo) = {job}
    <3>1. Cardinality(ToSet(todo)) = 1 /\ IsFiniteSet(ToSet(todo))
      BY <1>1, <1>7, InjectiveLength
    <3> QED
      BY <1>1, <3>1, FS_Singleton
  <2>5. \A r \in Requests : stage' = kind[r] => r \in ToSet(todo')
    BY <2>3, Tables, Setup
  <2>6. \A r \in Requests : stage' = awaits[kind[r]] => r \in ToSet(todo')
    <3> SUFFICES ASSUME NEW r \in Requests, stage' = awaits[kind[r]] PROVE kind[r] \in about[stage']
      BY <2>3
    <3>1. kind[r] \in Stages
      BY Setup
    <3> QED
      BY <3>1, Tables
  <2>7. \A m \in 1..14 : rank[stage] + 1 > m <=> rank[stage] > m \/ m = rank[stage]
    BY <1>2
  <2>8. settled' = {r \in Requests : rank[stage] > rank[kind[r]] \/ rank[kind[r]] = rank[stage]}
    <3>1. settled' = {r \in Requests : rank[stage'] > rank[kind[r]] \/ (stage' = kind[r] /\ r \notin ToSet(todo'))}
      BY DEF settled
    <3>2. \A r \in Requests : rank[kind[r]] \in 1..14
      BY <1>2, Setup
    <3> QED
      BY <1>3, <2>1, <2>5, <2>7, <3>1, <3>2
  <2>9. \A r \in Requests : rank[kind[r]] = rank[stage] <=> kind[r] = stage
    BY <1>1, Setup, Tables
  <2>10. settled' = settled \cup (IF stage \in Stages THEN {job} ELSE {})
    <3>1. \A r \in Requests : kind[r] = stage => stage \in Stages
      BY Setup
    <3> QED
      BY <1>1, <2>4, <2>8, <2>9, <3>1 DEF settled
  <2>11. passed' = {r \in Requests : rank[stage] > rank[awaits[kind[r]]] \/ rank[awaits[kind[r]]] = rank[stage]}
    <3>1. passed' = {r \in Requests : rank[stage'] > rank[awaits[kind[r]]] \/ (stage' = awaits[kind[r]] /\ r \notin ToSet(todo'))}
      BY DEF passed
    <3>2. \A r \in Requests : rank[awaits[kind[r]]] \in 1..14
      BY <1>2, Setup
    <3> QED
      BY <1>3, <2>1, <2>6, <2>7, <3>1, <3>2
  <2>12. \A r \in Requests : rank[awaits[kind[r]]] = rank[stage] <=> awaits[kind[r]] = stage
    BY <1>1, Setup, Tables
  <2>13. passed' = passed \cup (IF stage \in Awaiting THEN {job} ELSE {})
    <3>1. \A r \in Requests : awaits[kind[r]] = stage => stage \in Awaiting
      BY Setup, Tables
    <3> QED
      BY <1>1, <2>4, <2>11, <2>12, <3>1 DEF passed
  <2>14. PosInv'
    BY <1>4, <1>5, <2>3, <1>3, <2>1 DEF PosInv, AtBarrier
  <2>15. launched' = settled' /\ consumed' = passed'
    <3>1. \A r \in Requests : stage' = kind[r] => step' = "launch"
      BY <1>5, Setup
    <3> QED
      BY <1>5, <3>1 DEF launched, consumed, AtBarrier
  <2> QED
    BY <1>3, <1>4, <2>1, <2>3, <2>4, <2>10, <2>13, <2>14, <2>15, TailFacts DEF job
<1>8. CASE Len(todo) # 1
  <2>1. stage' = stage /\ todo' = Tail(todo)
    BY <1>8 DEF Proceed
  <2>2. /\ todo' \in Seq(Requests) /\ IsInjective(todo') /\ ToSet(todo') = ToSet(todo) \ {job}
        /\ Len(todo') = Len(todo) - 1
    BY <1>1, <2>1, TailFacts DEF job
  <2>3. todo' # <<>> /\ Len(todo) > 1
    BY <1>6, <1>8, <2>2
  <2>4. settled' = settled \cup (IF stage \in Stages THEN {job} ELSE {})
    <3>1. \A r \in Requests : kind[r] = stage => stage \in Stages
      BY Setup
    <3>2. settled' = {r \in Requests : rank[stage] > rank[kind[r]] \/ (stage = kind[r] /\ r \notin ToSet(todo'))}
      BY <2>1 DEF settled
    <3> QED
      BY <1>1, <2>2, <3>1, <3>2 DEF settled
  <2>5. passed' = passed \cup (IF stage \in Awaiting THEN {job} ELSE {})
    <3>1. \A r \in Requests : awaits[kind[r]] = stage => stage \in Awaiting
      BY Setup, Tables
    <3>2. passed' = {r \in Requests : rank[stage] > rank[awaits[kind[r]]] \/ (stage = awaits[kind[r]] /\ r \notin ToSet(todo'))}
      BY <2>1 DEF passed
    <3> QED
      BY <1>1, <2>2, <3>1, <3>2 DEF passed
  <2>6. launched' = settled' /\ consumed' = passed'
    <3>1. \A r \in Requests : stage' = kind[r] => step' = "launch"
      BY <1>5, Setup
    <3> QED
      BY <1>5, <3>1 DEF launched, consumed, AtBarrier
  <2>7. PosInv'
    <3>1. stage \notin {"release", "global", "control", "final", "shutdown", "reported"}
      BY <1>8 DEF PosInv
    <3>2. \A r \in ToSet(todo') : kind[r] \in about[stage']
      BY <2>1, <2>2 DEF PosInv
    <3> QED
      BY <1>4, <1>5, <2>1, <2>2, <2>3, <3>1, <3>2 DEF PosInv, AtBarrier
  <2> QED
    BY <1>1, <1>4, <2>1, <2>2, <2>3, <2>4, <2>5, <2>6, <2>7, TailFacts DEF job
<1> QED
  BY <1>7, <1>8

-----------------------------------------------------------------------------
(* What a conjunct of the invariant is about *)

(* The driver's sets depend on its position only. *)
LEMMA SamePosition ==
  ASSUME UNCHANGED <<stage, step, todo>>
  PROVE  /\ settled' = settled /\ launched' = launched /\ passed' = passed /\ consumed' = consumed
         /\ job' = job /\ AtBarrier' = AtBarrier
<1>1. settled' = settled /\ passed' = passed /\ job' = job /\ AtBarrier' = AtBarrier
  BY DEF settled, passed, job, AtBarrier
<1> QED
  BY <1>1 DEF launched, consumed

(* What the scheduler decided is told by the results. *)
LEMMA SameResults ==
  ASSUME UNCHANGED result
  PROVE  served' = served /\ expired' = expired /\ canceled' = canceled /\ answered' = answered
BY DEF served, expired, canceled, answered

(* The variables each conjunct depends on: it holds as long as they stay. *)
LEMMA Frames ==
  /\ TypeS /\ UNCHANGED <<workload, handler, answer, call, released, seenUpstream, order, plan, observed, counts>> => TypeS'
  /\ PosInv /\ UNCHANGED <<stage, step, todo>> => PosInv'
  /\ LaunchInv /\ UNCHANGED <<stage, step, todo, handler>> => LaunchInv'
  /\ EntryInv /\ UNCHANGED <<handler, deadline, admission, source, workload>> => EntryInv'
  /\ ServedInv /\ UNCHANGED <<handler, result, terminal, inflight, cause, ctxDone, call, pc, cmd>> => ServedInv'
  /\ AnswerInv /\ UNCHANGED <<handler, answer, deadline, result>> => AnswerInv'
  /\ CallInv /\ UNCHANGED <<handler, answer, call>> => CallInv'
  /\ CmdInv /\ UNCHANGED <<handler, ctxDone, stage, step, pc, cmd, wake, now, accepting, entries, inflight, expiry>> => CmdInv'
  /\ UpstreamInv /\ UNCHANGED <<handler, released, arrivals, seenUpstream, issue, observed, result>> => UpstreamInv'
  /\ ControlInv /\ UNCHANGED <<handler, released, arrivals, stage, step, inflight, cursor, deficit, visitOpen, pc>> => ControlInv'
  /\ SettledInv /\ UNCHANGED <<stage, step, todo, expiry, result, ctxDone>> => SettledInv'
  /\ ConsumedInv /\ UNCHANGED <<stage, step, todo, call, result>> => ConsumedInv'
  /\ ExpectInv /\ UNCHANGED <<stage, step, todo, expectation>> => ExpectInv'
  /\ HoldInv /\ UNCHANGED handler => HoldInv'
  /\ OrderInv /\ UNCHANGED <<stage, step, todo, order, expiry, seq>> => OrderInv'
  /\ CountInv /\ UNCHANGED <<stage, step, todo, counts>> => CountInv'
  /\ PlanInv /\ UNCHANGED <<stage, step, todo, plan, observed, order, workload>> => PlanInv'
<1>1. TypeS /\ UNCHANGED <<workload, handler, answer, call, released, seenUpstream, order, plan, observed, counts>> => TypeS'
  BY DEF TypeS
<1>2. PosInv /\ UNCHANGED <<stage, step, todo>> => PosInv'
  BY SamePosition DEF PosInv
<1>3. LaunchInv /\ UNCHANGED <<stage, step, todo, handler>> => LaunchInv'
  BY SamePosition DEF LaunchInv
<1>4. EntryInv /\ UNCHANGED <<handler, deadline, admission, source, workload>> => EntryInv'
  BY DEF EntryInv, Asked
<1>5. ServedInv /\ UNCHANGED <<handler, result, terminal, inflight, cause, ctxDone, call, pc, cmd>> => ServedInv'
  BY SameResults DEF ServedInv
<1>6. AnswerInv /\ UNCHANGED <<handler, answer, deadline, result>> => AnswerInv'
  BY SameResults DEF AnswerInv
<1>7. CallInv /\ UNCHANGED <<handler, answer, call>> => CallInv'
  BY DEF CallInv
<1>8. CmdInv /\ UNCHANGED <<handler, ctxDone, stage, step, pc, cmd, wake, now, accepting, entries, inflight, expiry>> => CmdInv'
  BY DEF CmdInv
<1>9. UpstreamInv /\ UNCHANGED <<handler, released, arrivals, seenUpstream, issue, observed, result>> => UpstreamInv'
  BY SameResults DEF UpstreamInv
<1>10. ControlInv /\ UNCHANGED <<handler, released, arrivals, stage, step, inflight, cursor, deficit, visitOpen, pc>> => ControlInv'
  BY DEF ControlInv, AtBarrier
<1>11. SettledInv /\ UNCHANGED <<stage, step, todo, expiry, result, ctxDone>> => SettledInv'
  BY SamePosition, SameResults DEF SettledInv
<1>12. ConsumedInv /\ UNCHANGED <<stage, step, todo, call, result>> => ConsumedInv'
  BY SamePosition, SameResults DEF ConsumedInv
<1>13. ExpectInv /\ UNCHANGED <<stage, step, todo, expectation>> => ExpectInv'
  BY SamePosition DEF ExpectInv
<1>14. HoldInv /\ UNCHANGED handler => HoldInv'
  BY DEF HoldInv, Holding
<1>15. OrderInv /\ UNCHANGED <<stage, step, todo, order, expiry, seq>> => OrderInv'
  BY SamePosition DEF OrderInv
<1>16. CountInv /\ UNCHANGED <<stage, step, todo, counts>> => CountInv'
  BY SamePosition DEF CountInv, tally, Of
<1>17. PlanInv /\ UNCHANGED <<stage, step, todo, plan, observed, order, workload>> => PlanInv'
  BY OracleSame DEF PlanInv
<1> QED
  BY <1>1, <1>2, <1>3, <1>4, <1>5, <1>6, <1>7, <1>8, <1>9, <1>10, <1>11, <1>12, <1>13, <1>14, <1>15,
     <1>16, <1>17

(* The state of the pump that the simulation relates, and that it relates   *)
(* nothing before the held request is finished                              *)
LEMMA SimFrames ==
  /\ terminal'[control] = "none" => SimInv'
  /\ /\ SimInv /\ UNCHANGED <<order, workload, queue, result, observed, cursor, deficit, visitOpen, expiry>>
     /\ terminal'[control] # "none" => terminal[control] # "none"
     /\ pc' = "serve" <=> pc = "serve"
     => SimInv'
<1>1. terminal'[control] = "none" => SimInv'
  BY DEF SimInv
<1>2. ASSUME SimInv, UNCHANGED <<order, workload, queue, result, observed, cursor, deficit, visitOpen, expiry>>,
             terminal'[control] # "none" => terminal[control] # "none", pc' = "serve" <=> pc = "serve"
      PROVE  SimInv'
  <2> SUFFICES ASSUME terminal[control] # "none" PROVE \E k \in 0..maximumVisits : Matches(oracleAfter[k])'
    BY <1>2 DEF SimInv
  <2>1. PICK k \in 0..maximumVisits : Matches(oracleAfter[k])
    BY <1>2 DEF SimInv
  <2>2. oracleAfter' = oracleAfter /\ Pending' = Pending
    BY <1>2, OracleSame, SameResults DEF Pending
  <2>3. Matches(oracleAfter[k])'
    BY <1>2, <2>1, <2>2 DEF Matches, Credit
  <2> QED
    BY <2>3
<1> QED
  BY <1>1, <1>2

-----------------------------------------------------------------------------
(* What the invariants of the owner and of the harness say together *)

(* The scheduler's books, told by the results: who waits, who is in flight  *)
(* (one at most), who has been answered                                     *)
LEMMA ResultFacts ==
  ASSUME IInv
  PROVE  /\ expiry \subseteq Requests /\ inflight \subseteq Requests /\ entries = expiry \cup inflight
         /\ served \subseteq answered /\ expired \subseteq answered /\ canceled \subseteq answered
         /\ served \cap expired = {} /\ served \cap canceled = {} /\ expired \cap canceled = {}
         /\ expiry \cap answered = {}
         /\ served = inflight \cup {r \in Requests : terminal[r] # "none"}
         /\ \A r \in inflight : terminal[r] = "none"
         /\ \A r, o \in inflight : r = o
         /\ \A r \in Requests : received(r) <=> r \in expiry \cup answered
         /\ \A r \in expiry \cup answered : deadline[r] # 0
<1>1. expiry \subseteq Requests /\ inflight \subseteq Requests /\ entries = expiry \cup inflight
  BY DEF IInv, DataInv, BooksAgree
<1>2. Dispatched # Expired /\ Dispatched # Canceled /\ Expired # Canceled
  BY DEF Dispatched, Expired, Canceled, Decision
<1>3. served \subseteq answered /\ expired \subseteq answered /\ canceled \subseteq answered
  <2>1. \A d : <<d>> # <<>>
    OBVIOUS
  <2> QED
    BY <2>1 DEF served, expired, canceled, answered
<1>4. served \cap expired = {} /\ served \cap canceled = {} /\ expired \cap canceled = {}
  BY <1>2 DEF served, expired, canceled
<1>5. \A r \in Requests : /\ r \in expiry => result[r] = <<>>
                          /\ result[r] = <<Dispatched>> <=> (r \in inflight \/ terminal[r] # "none")
                          /\ terminal[r] # "none" => r \notin inflight
  BY DEF IInv, DataInv, AnsweredOnce
<1>6. expiry \cap answered = {}
  BY <1>5 DEF answered
<1>7. served = inflight \cup {r \in Requests : terminal[r] # "none"}
  BY <1>1, <1>5 DEF served
<1>8. \A r \in inflight : terminal[r] = "none"
  BY <1>1, <1>5
<1>9. \A r, o \in inflight : r = o
  <2>1. Global \in Scopes /\ Charged(Global, inflight) = inflight
    BY Setup DEF Charged, Charges
  <2>2. counters[Global].inflightCount = Cardinality(inflight)
    BY <2>1 DEF IInv, DataInv, AccountingExact
  <2>3. Cardinality(inflight) <= 1
    BY <2>1, <2>2, Setup DEF IInv, DataInv, LimitsHold
  <2>4. IsFiniteSet(inflight) /\ Cardinality(inflight) \in Nat
    BY <1>1, Setup, FS_Subset, FS_CardinalityType
  <2>5. Cardinality(inflight) = 0 \/ Cardinality(inflight) = 1
    BY <2>3, <2>4
  <2>6. inflight = {} \/ \E x : inflight = {x}
    BY <2>4, <2>5, FS_EmptySet, FS_Singleton
  <2> QED
    BY <2>6
<1>10. \A r \in Requests : received(r) <=> r \in expiry \cup answered
  BY <1>1, <1>3, <1>7 DEF received, answered
<1>11. \A r \in expiry \cup answered : deadline[r] # 0
  <2>1. \A r \in Requests : received(r) => deadline[r] # 0
    BY DEF IInv, LoopInv, Control
  <2>2. answered \subseteq Requests
    BY DEF answered
  <2> QED
    BY <1>1, <1>10, <2>1, <2>2
<1> QED
  BY <1>1, <1>3, <1>4, <1>6, <1>7, <1>8, <1>9, <1>10, <1>11

(* Where the jobs of a kind are launched and settled *)
LEMMA Ranks ==
  ASSUME PosInv
  PROVE  /\ passed \subseteq settled
         /\ rank[stage] \in 1..14 /\ stage \in DOMAIN rank
         /\ stage \in Stages => rank[stage] <= 9
         /\ \A r \in Requests : rank[stage] > rank[kind[r]] => r \in settled
         /\ \A r \in Requests : rank[stage] > rank[awaits[kind[r]]] => r \in passed
         /\ \A r \in settled : rank[stage] >= rank[kind[r]]
         /\ \A r \in launched : r \in settled \/ (r = job /\ stage = kind[r])
         /\ \A r \in consumed : rank[stage] >= rank[awaits[kind[r]]]
         /\ \A r \in Requests : kind[r] \in Enqueued => rank[kind[r]] <= 7 /\ rank[awaits[kind[r]]] <= 11
         /\ \A r \in Requests : kind[r] \in {"cancel", "deadline"} => rank[awaits[kind[r]]] <= 6
<1>1. rank[stage] \in 1..14 /\ stage \in DOMAIN rank
  BY JobFacts, Tables
<1>2. \A r \in Requests : /\ kind[r] \in Stages /\ rank[kind[r]] \in 1..14 /\ rank[awaits[kind[r]]] \in 1..14
                          /\ rank[kind[r]] <= rank[awaits[kind[r]]]
                          /\ awaits[kind[r]] \in DOMAIN rank /\ kind[r] \in DOMAIN rank
  BY Setup, Tables
<1>3. \A r \in Requests : kind[r] \in Enqueued => rank[kind[r]] <= 7 /\ rank[awaits[kind[r]]] <= 11
  BY DEF Enqueued, rank, awaits
<1>4. \A r \in Requests : kind[r] \in {"cancel", "deadline"} => rank[awaits[kind[r]]] <= 6
  BY DEF rank, awaits
<1>5. stage \in Stages => rank[stage] <= 9
  BY DEF Stages, Enqueued, rank
<1>6. passed \subseteq settled
  <2> SUFFICES ASSUME NEW r \in Requests, r \in passed PROVE r \in settled
    BY DEF passed
  <2>1. CASE rank[stage] > rank[awaits[kind[r]]]
    BY <1>1, <1>2, <2>1 DEF settled
  <2>2. CASE stage = awaits[kind[r]] /\ r \notin ToSet(todo)
    <3>1. CASE stage = kind[r]
      BY <2>2, <3>1 DEF settled
    <3>2. CASE stage # kind[r]
      <4>1. rank[stage] # rank[kind[r]]
        BY <1>1, <1>2, <3>2, Tables
      <4> QED
        BY <1>1, <1>2, <2>2, <4>1 DEF settled
    <3> QED
      BY <3>1, <3>2
  <2> QED
    BY <2>1, <2>2 DEF passed
<1>7. \A r \in settled : rank[stage] >= rank[kind[r]]
  BY <1>1, <1>2 DEF settled
<1>8. \A r \in consumed : rank[stage] >= rank[awaits[kind[r]]]
  BY <1>1, <1>2 DEF consumed, passed
<1> QED
  BY <1>1, <1>3, <1>4, <1>5, <1>6, <1>7, <1>8 DEF settled, passed, launched

(* A request that waits in a queue, and one the scheduler has yet to hear of *)
LEMMA QueuedFacts ==
  ASSUME IInv, Inv, NEW r \in Requests, deadline[r] # 0, r \notin answered
  PROVE  /\ handler[r] = "waiting" /\ answer[r] = "none" /\ r \in launched
         /\ admission[r] = Asked(r) /\ tenantOf(r) = tenant[r] /\ source[r] = "queue"
         /\ kind[r] \in Enqueued \cup {"control"}
         /\ kind[r] # "deadline" => deadline[r] = MaxTime
         /\ terminal[r] = "none" /\ r \notin inflight /\ r \notin served
<1>1. /\ TypeS /\ LaunchInv /\ EntryInv /\ ServedInv /\ AnswerInv
  BY DEF Inv
<1>2. r \notin served /\ terminal[r] = "none" /\ r \notin inflight
  BY ResultFacts
<1>3. handler[r] = "waiting"
  <2>1. handler[r] \in {"none", "sent", "slots", "waiting", "upstream", "held", "streaming", "written", "done"}
    BY <1>1 DEF TypeS
  <2>2. handler[r] \notin {"none", "sent", "slots"}
    BY <1>1 DEF EntryInv
  <2>3. handler[r] \notin {"upstream", "held", "streaming", "written"}
    BY <1>1, <1>2 DEF ServedInv
  <2>4. handler[r] # "done"
    BY <1>1, <1>2 DEF AnswerInv
  <2> QED
    BY <2>1, <2>2, <2>3, <2>4
<1>4. answer[r] = "none" /\ r \in launched
  BY <1>1, <1>3 DEF AnswerInv, LaunchInv
<1>5. /\ admission[r] = Asked(r) /\ source[r] = "queue" /\ kind[r] \notin {"reject", "global"}
      /\ kind[r] # "deadline" => deadline[r] = MaxTime
  BY <1>1 DEF EntryInv
<1>6. tenantOf(r) = tenant[r]
  BY <1>5 DEF tenantOf, Asked
<1>7. kind[r] \in Enqueued \cup {"control"}
  BY <1>5, Setup DEF Stages
<1> QED
  BY <1>2, <1>3, <1>4, <1>5, <1>6, <1>7

(* A request the scheduler has yet to hear of is the one the driver has     *)
(* just launched.                                                           *)
LEMMA UnreceivedFacts ==
  ASSUME IInv, Inv, NEW r \in Requests, deadline[r] # 0, ~received(r)
  PROVE  r \notin settled /\ r = job /\ stage = kind[r] /\ rank[stage] <= 7
<1>1. r \notin expiry /\ r \notin answered
  BY ResultFacts
<1>2. r \in launched /\ kind[r] \in Enqueued \cup {"control"}
  BY <1>1, QueuedFacts
<1>3. r \notin settled
  <2> SUFFICES ASSUME r \in settled PROVE FALSE
    OBVIOUS
  <2>1. r \notin served /\ r \notin expired /\ r \notin canceled
    BY <1>1, ResultFacts
  <2>2. SettledInv
    BY DEF Inv
  <2> QED
    BY <1>1, <1>2, <2>1, <2>2, Setup DEF SettledInv, Enqueued
<1>4. r = job /\ stage = kind[r]
  BY <1>2, <1>3, Ranks DEF Inv
<1>5. rank[stage] <= 7
  BY <1>2, <1>4 DEF Enqueued, rank
<1> QED
  BY <1>3, <1>4, <1>5

(* While the control request is held nobody else is served. *)
LEMMA ControlHeld ==
  ASSUME IInv, Inv, released[control] = "no"
  PROVE  /\ terminal[control] = "none" /\ served \subseteq {control}
         /\ rank[stage] > 1 \/ AtBarrier => control \in inflight /\ served = {control}
<1>1. ServedInv /\ UpstreamInv /\ ControlInv /\ control \in Requests
  BY Setup DEF Inv
<1>2. terminal[control] = "none"
  <2> SUFFICES ASSUME terminal[control] # "none" PROVE FALSE
    OBVIOUS
  <2>1. handler[control] = "done" /\ control \in served
    BY <1>1, ResultFacts DEF ServedInv
  <2> QED
    BY <1>1, <2>1 DEF UpstreamInv
<1>3. served \subseteq {control}
  BY <1>1, <1>2 DEF ServedInv, served
<1>4. ASSUME rank[stage] > 1 \/ AtBarrier PROVE control \in inflight /\ served = {control}
  <2>1. handler[control] = "held"
    BY <1>1, <1>4 DEF ControlInv
  <2>2. control \in served
    BY <1>1, <2>1 DEF ServedInv
  <2> QED
    BY <1>2, <1>3, <2>2, ResultFacts
<1> QED
  BY <1>2, <1>3, <1>4

(* Once it is released, the queues hold service jobs only. *)
LEMMA Filling ==
  ASSUME IInv, Inv, rank[stage] >= 8
  PROVE  /\ expiry \subseteq Service /\ Service \subseteq expiry \cup served /\ Filled
         /\ \A r \in Requests : r \in settled \/ kind[r] \in {"reject", "global"}
<1>1. /\ PosInv /\ TypeS /\ SettledInv /\ ConsumedInv /\ CallInv /\ OrderInv
  BY DEF Inv
<1>2. rank[stage] \in 1..14 /\ passed \subseteq settled
  BY <1>1, Ranks
<1>3. \A r \in Requests : r \in settled \/ kind[r] \in {"reject", "global"}
  <2>1. \A r \in Requests : kind[r] \notin {"reject", "global"} => rank[kind[r]] \in 1..7
    BY Setup DEF Stages, Enqueued, rank
  <2> QED
    BY <1>1, <1>2, <2>1, Ranks
<1>4. Service \subseteq Requests /\ \A r \in Service : kind[r] \in {"initial", "late"}
  BY Setup
<1>5. Service \subseteq expiry \cup served
  BY <1>1, <1>3, <1>4 DEF SettledInv
<1>6. expiry \subseteq Service
  <2> SUFFICES ASSUME NEW r \in Requests, r \in expiry, r \notin Service PROVE FALSE
    BY ResultFacts
  <2>1. /\ deadline[r] # 0 /\ r \notin answered /\ r \notin served /\ r \notin expired /\ r \notin canceled
    BY ResultFacts
  <2>2. kind[r] \in Enqueued \cup {"control"} /\ r \in settled
    BY <1>3, <2>1, QueuedFacts DEF Enqueued
  <2>3. kind[r] # "control"
    BY <1>1, <2>1, <2>2 DEF SettledInv
  <2>4. kind[r] \in {"cancel", "deadline"}
    BY <2>2, <2>3, Setup DEF Enqueued
  <2>5. r \in passed /\ r \in consumed
    <3>1. rank[awaits[kind[r]]] <= 6 /\ rank[awaits[kind[r]]] \in 1..14
      BY <1>1, <2>4, Ranks, Tables, Setup
    <3> QED
      BY <1>1, <1>2, <3>1, Ranks DEF consumed
  <2> QED
    BY <1>1, <2>1, <2>4, <2>5 DEF ConsumedInv
<1>7. Filled
  <2>1. \A t \in Tenants : IsInjective(order[t]) /\ ToSet(order[t]) = {r \in Service \cap launched : tenant[r] = t}
    BY <1>1 DEF OrderInv
  <2>2. \A r \in Service : r \in launched
    BY <1>3, <1>4 DEF launched
  <2>3. \A t \in Tenants : {r \in Service \cap launched : tenant[r] = t} = {r \in Service : tenant[r] = t}
    BY <2>2
  <2>4. {2, 3} \subseteq Tenants /\ order \in [Tenants -> Seq(Requests)] /\ workload \in Workloads
    BY <1>1, Setup DEF TypeS
  <2> QED
    BY <2>1, <2>3, <2>4 DEF Filled
<1> QED
  BY <1>3, <1>5, <1>6, <1>7

(* The control request has been finished: the driver has released it. *)
LEMMA ControlGone ==
  ASSUME IInv, Inv, terminal[control] # "none"
  PROVE  rank[stage] >= 10 /\ step # "release" /\ released[control] # "no"
<1>1. released[control] # "no"
  BY ControlHeld
<1>2. ControlInv /\ rank[stage] \in 1..14
  BY Ranks DEF Inv
<1> QED
  BY <1>1, <1>2 DEF ControlInv

-----------------------------------------------------------------------------
(* The owner's steps *)

(* An answer *)
LEMMA Resolved ==
  ASSUME IInv, NEW r \in Requests, r \notin answered, NEW d, resolve(r, d)
  PROVE  /\ answered' = answered \cup {r}
         /\ served' = served \cup (IF d = Dispatched THEN {r} ELSE {})
         /\ expired' = expired \cup (IF d = Expired THEN {r} ELSE {})
         /\ canceled' = canceled \cup (IF d = Canceled THEN {r} ELSE {})
<1>1. result \in [Requests -> Seq(Decisions)] /\ result[r] = <<>>
  BY DEF IInv, DataInv, TypeData, answered
<1>2. result' = [result EXCEPT ![r] = <<d>>]
  BY <1>1 DEF resolve
<1>3. \A x \in Requests : result'[x] = IF x = r THEN <<d>> ELSE result[x]
  BY <1>1, <1>2
<1>4. \A e : <<d>> # <<>> /\ (<<d>> = <<e>> <=> d = e) /\ <<e>> # <<>>
  OBVIOUS
<1>5. answered' = answered \cup {r}
  BY <1>3, <1>4 DEF answered
<1>6. served' = served \cup (IF d = Dispatched THEN {r} ELSE {})
  BY <1>1, <1>3, <1>4 DEF served
<1>7. expired' = expired \cup (IF d = Expired THEN {r} ELSE {})
  BY <1>1, <1>3, <1>4 DEF expired
<1>8. canceled' = canceled \cup (IF d = Canceled THEN {r} ELSE {})
  BY <1>1, <1>3, <1>4 DEF canceled
<1> QED
  BY <1>5, <1>6, <1>7, <1>8

(* What the owner's steps leave alone *)
LEMMA OwnerFrame ==
  ASSUME Inv, UNCHANGED <<driver, wire>>, UNCHANGED <<admission, deadline, source>>,
         ServedInv', AnswerInv', CmdInv', UpstreamInv', ControlInv', SettledInv', ConsumedInv', OrderInv', SimInv'
  PROVE  Inv'
<1>1. UNCHANGED <<workload, stage, step, todo, expectation, order, plan, observed, counts>>
  BY DEF driver
<1>2. UNCHANGED <<handler, answer, call, released, arrivals, seenUpstream, issue>>
  BY DEF wire
<1>3. /\ TypeS /\ PosInv /\ LaunchInv /\ EntryInv /\ CallInv /\ ExpectInv /\ HoldInv /\ CountInv /\ PlanInv
  BY DEF Inv
<1>4. TypeS' /\ PosInv' /\ LaunchInv' /\ EntryInv'
  BY <1>1, <1>2, <1>3, Frames
<1>5. CallInv' /\ ExpectInv' /\ HoldInv' /\ CountInv' /\ PlanInv'
  BY <1>1, <1>2, <1>3, Frames
<1> QED
  BY <1>4, <1>5 DEF Inv

(* Nobody is between the end of its handler and the end of its permit,      *)
(* unless the owner is at it.                                               *)
LEMMA NoFinish ==
  ASSUME Inv, inflight \subseteq Requests, pc # "busy" \/ cmd.op # "finish"
  PROVE  \A x \in inflight : handler[x] # "done"
<1>1. ServedInv
  BY DEF Inv
<1>2. \A x \in Requests : [op |-> "finish", id |-> x, outcome |-> "Completed"].op = "finish"
  OBVIOUS
<1> QED
  BY <1>1, <1>2 DEF ServedInv

(* The owner has handled a command. *)
LEMMA HandledCmd ==
  ASSUME IInv, Inv, UNCHANGED <<driver, now, accepting>>, Handled,
         pc = "drain" \/ (pc = "busy" /\ cmd.op # "snapshot"),
         stage \in {"shutdown", "reported"} => entries' = {}
  PROVE  CmdInv'
<1>1. CmdInv /\ now \in Nat
  BY DEF Inv, IInv, LoopInv, TypeLoop
<1>2. stage' = stage /\ step' = step /\ pc' = "pump" /\ wake' = 0 /\ now' = now /\ accepting' = accepting
  BY DEF Handled, driver
<1>3. step # "snapshot"
  BY <1>1 DEF CmdInv
<1> QED
  BY <1>1, <1>2, <1>3 DEF CmdInv

(* Steps that change neither the books nor the credit *)
LEMMA Quiet ==
  ASSUME IInv, Inv, UNCHANGED <<driver, wire>>, UNCHANGED <<admission, deadline, source, ctxDone>>,
         UNCHANGED <<seq, cause, result, terminal, queue, expiry, inflight>>,
         CmdInv',
         \A x \in inflight : handler[x] = "done" => pc' = pc /\ cmd' = cmd,
         control \in inflight => pc' \notin {"visit", "serve"} /\ UNCHANGED <<cursor, deficit, visitOpen>>,
         SimInv'
  PROVE  Inv'
<1>1. /\ ServedInv /\ AnswerInv /\ UpstreamInv /\ ControlInv /\ SettledInv /\ ConsumedInv /\ OrderInv
  BY DEF Inv
<1>2. UNCHANGED <<workload, stage, step, todo, expectation, order, plan, observed, counts>>
  BY DEF driver
<1>3. UNCHANGED <<handler, answer, call, released, arrivals, seenUpstream, issue>>
  BY DEF wire
<1>4. AnswerInv' /\ UpstreamInv' /\ SettledInv' /\ ConsumedInv' /\ OrderInv'
  BY <1>1, <1>2, <1>3, Frames
<1>5. ServedInv'
  BY <1>1, <1>3, SameResults DEF ServedInv
<1>6. ControlInv'
  BY <1>1, <1>2, <1>3 DEF ControlInv, AtBarrier
<1> QED
  BY <1>4, <1>5, <1>6, OwnerFrame

(* A queued job leaves: a cancelled one whose client is gone, or one whose  *)
(* deadline has passed.                                                     *)
LEMMA DropKeeps ==
  ASSUME IInv, Inv, UNCHANGED <<driver, wire>>, UNCHANGED outside,
         NEW r \in expiry, NEW d, Drop(r, d), CmdInv', pc' \notin {"visit", "serve"},
         \/ d = Canceled /\ kind[r] = "cancel" /\ ctxDone[r]
         \/ d = Expired /\ kind[r] = "deadline",
         \A x \in inflight : handler[x] = "done" => pc' = pc /\ cmd' = cmd
  PROVE  Inv'
<1>1. /\ ServedInv /\ AnswerInv /\ UpstreamInv /\ ControlInv /\ SettledInv /\ ConsumedInv /\ OrderInv
  BY DEF Inv
<1>2. UNCHANGED <<workload, stage, step, todo, expectation, order, plan, observed, counts>>
  BY DEF driver
<1>3. UNCHANGED <<handler, answer, call, released, arrivals, seenUpstream, issue>>
  BY DEF wire
<1>4. UNCHANGED <<now, ctxDone, admission, deadline, source>>
  BY DEF outside
<1>5. /\ expiry' = expiry \ {r} /\ UNCHANGED <<seq, cause, terminal, inflight, cursor>> /\ resolve(r, d)
      /\ deficit' = [deficit EXCEPT ![tenantOf(r)] = creditAfter(r, deficit[tenantOf(r)])]
      /\ visitOpen' = [visitOpen EXCEPT ![tenantOf(r)] = @ /\ ~empties(r)]
  BY DEF Drop, removeQueued
<1>6. r \in Requests /\ r \notin answered /\ handler[r] = "waiting" /\ answer[r] = "none"
  BY ResultFacts, QueuedFacts
<1>7. Dispatched # Expired /\ Dispatched # Canceled /\ Expired # Canceled
  BY DEF Dispatched, Expired, Canceled, Decision
<1>8. /\ answered' = answered \cup {r} /\ served' = served
      /\ expired' = expired \cup (IF d = Expired THEN {r} ELSE {})
      /\ canceled' = canceled \cup (IF d = Canceled THEN {r} ELSE {})
  <2>1. d # Dispatched
    BY <1>7
  <2> QED
    BY <1>5, <1>6, <2>1, Resolved
<1>9. terminal[control] = "none"
  <2> SUFFICES ASSUME terminal[control] # "none" PROVE FALSE
    OBVIOUS
  <2>1. rank[stage] >= 10 /\ rank[stage] \in 1..14
    BY ControlGone, Ranks DEF Inv
  <2>2. r \in Service
    BY <2>1, Filling
  <2> QED
    BY <2>2, Setup
<1>10. settled' = settled /\ launched' = launched /\ passed' = passed /\ consumed' = consumed /\ job' = job
  BY <1>2, SamePosition
<1>11. ServedInv'
  BY <1>1, <1>3, <1>4, <1>5, <1>8 DEF ServedInv
<1>12. AnswerInv'
  BY <1>1, <1>3, <1>4, <1>6, <1>8 DEF AnswerInv
<1>13. UpstreamInv'
  BY <1>1, <1>2, <1>3, <1>8 DEF UpstreamInv
<1>14. ControlInv'
  <2>1. control \in inflight => \A t \in Tenants : deficit'[t] = 0 /\ ~visitOpen'[t]
    <3> SUFFICES ASSUME control \in inflight, NEW t \in Tenants PROVE deficit'[t] = 0 /\ ~visitOpen'[t]
      OBVIOUS
    <3>1. deficit[t] = 0 /\ ~visitOpen[t] /\ deficit \in [Tenants -> Nat] /\ visitOpen \in [Tenants -> BOOLEAN]
      BY <1>1 DEF ControlInv, IInv, DataInv, TypeData
    <3>2. tenantOf(r) = t => deficit'[t] = creditAfter(r, deficit[t])
      BY <1>5, <3>1
    <3>3. deficit'[t] = 0
      BY <1>5, <3>1, <3>2 DEF creditAfter
    <3>4. ~visitOpen'[t]
      <4>1. CASE tenantOf(r) = t
        BY <1>5, <3>1, <4>1
      <4>2. CASE tenantOf(r) # t
        BY <1>5, <3>1, <4>2
      <4> QED
        BY <4>1, <4>2
    <3> QED
      BY <3>3, <3>4
  <2> QED
    BY <1>1, <1>2, <1>3, <1>5, <2>1 DEF ControlInv, AtBarrier
<1>15. SettledInv'
  BY <1>1, <1>4, <1>5, <1>8, <1>10, Setup DEF SettledInv
<1>16. ConsumedInv'
  BY <1>1, <1>2, <1>3, <1>8, <1>10 DEF ConsumedInv
<1>17. OrderInv'
  BY <1>1, <1>2, <1>5, <1>10 DEF OrderInv
<1>18. SimInv'
  BY <1>5, <1>9, SimFrames
<1> QED
  BY <1>4, <1>11, <1>12, <1>13, <1>14, <1>15, <1>16, <1>17, <1>18, OwnerFrame

(* A request is turned away. *)
LEMMA RefuseKeeps ==
  ASSUME IInv, Inv, UNCHANGED <<driver, wire>>, UNCHANGED outside, NEW r \in Requests, Refuse(r)
  PROVE  Inv'
<1>1. /\ ServedInv /\ AnswerInv /\ UpstreamInv /\ ControlInv /\ SettledInv /\ ConsumedInv /\ OrderInv /\ SimInv
  BY DEF Inv
<1>2. UNCHANGED <<workload, stage, step, todo, expectation, order, plan, observed, counts>>
  BY DEF driver
<1>3. UNCHANGED <<handler, answer, call, released, arrivals, seenUpstream, issue>>
  BY DEF wire
<1>4. UNCHANGED <<now, ctxDone, admission, deadline, source>>
  BY DEF outside
<1>5. /\ UNCHANGED <<seq, cause, terminal, entries, queue, expiry, inflight, deficit, visitOpen, cursor, accepting>>
      /\ Handled /\ pc = "busy" /\ cmd.op = "admit" /\ cmd.id = r /\ pc' = "pump"
  BY DEF Refuse, books, drr, Handling, Handled
<1>6. PICK d : resolve(r, d) /\ d # Dispatched
  <2>1. resolve(r, refusal(r)[1]) /\ refusal(r) # <<>>
    BY DEF Refuse
  <2>2. refusal(r)[1] # Dispatched
    BY <2>1 DEF refusal, Dispatched, Draining, Canceled, deadlineDecision, Expired, Decision
  <2> QED
    BY <2>1, <2>2
<1>7. deadline[r] # 0 /\ ~received(r)
  BY <1>5 DEF IInv, LoopInv, Control
<1>8. r \notin answered /\ handler[r] = "waiting" /\ answer[r] = "none"
  BY <1>7, ResultFacts, QueuedFacts
<1>9. /\ answered' = answered \cup {r} /\ served' = served
      /\ expired' = expired \cup (IF d = Expired THEN {r} ELSE {})
      /\ canceled' = canceled \cup (IF d = Canceled THEN {r} ELSE {})
  <2>1. /\ answered' = answered \cup {r}
        /\ served' = served \cup (IF d = Dispatched THEN {r} ELSE {})
        /\ expired' = expired \cup (IF d = Expired THEN {r} ELSE {})
        /\ canceled' = canceled \cup (IF d = Canceled THEN {r} ELSE {})
    BY <1>6, <1>8, Resolved, Zenon
  <2> QED
    BY <1>6, <2>1
<1>10. settled' = settled /\ launched' = launched /\ passed' = passed /\ consumed' = consumed /\ job' = job
  BY <1>2, SamePosition
<1>11. \A x \in inflight : handler[x] # "done"
  BY <1>5, NoFinish, ResultFacts
<1>12. CmdInv'
  <2>1. stage \in {"shutdown", "reported"} => entries' = {}
    BY <1>5 DEF Inv, CmdInv
  <2> QED
    BY <1>4, <1>5, <2>1, HandledCmd
<1>13. ServedInv'
  BY <1>1, <1>3, <1>4, <1>5, <1>9, <1>11, ResultFacts DEF ServedInv
<1>14. AnswerInv'
  BY <1>1, <1>3, <1>4, <1>8, <1>9 DEF AnswerInv
<1>15. UpstreamInv'
  BY <1>1, <1>2, <1>3, <1>9 DEF UpstreamInv
<1>16. ControlInv'
  BY <1>1, <1>2, <1>3, <1>5 DEF ControlInv, AtBarrier
<1>17. SettledInv'
  BY <1>1, <1>4, <1>5, <1>9, <1>10 DEF SettledInv
<1>18. ConsumedInv'
  BY <1>1, <1>2, <1>3, <1>9, <1>10 DEF ConsumedInv
<1>19. OrderInv'
  BY <1>1, <1>2, <1>5, Frames
<1>20. SimInv'
  <2>1. terminal[control] = "none"
    <3> SUFFICES ASSUME terminal[control] # "none" PROVE FALSE
      OBVIOUS
    <3>1. rank[stage] >= 10 /\ rank[stage] \in 1..14
      BY ControlGone, Ranks DEF Inv
    <3> QED
      BY <1>7, <3>1, UnreceivedFacts
  <2> QED
    BY <1>5, <2>1, SimFrames
<1> QED
  BY <1>4, <1>12, <1>13, <1>14, <1>15, <1>16, <1>17, <1>18, <1>19, <1>20, OwnerFrame

(* A request joins its queue. *)
LEMMA EnqueueKeeps ==
  ASSUME IInv, Inv, UNCHANGED <<driver, wire>>, UNCHANGED outside, NEW r \in Requests, Enqueue(r)
  PROVE  Inv'
<1>1. /\ ServedInv /\ AnswerInv /\ UpstreamInv /\ ControlInv /\ SettledInv /\ ConsumedInv /\ OrderInv /\ TypeS
  BY DEF Inv
<1>2. UNCHANGED <<workload, stage, step, todo, expectation, order, plan, observed, counts>>
  BY DEF driver
<1>3. UNCHANGED <<handler, answer, call, released, arrivals, seenUpstream, issue>>
  BY DEF wire
<1>4. UNCHANGED <<now, ctxDone, admission, deadline, source>>
  BY DEF outside
<1>5. /\ UNCHANGED <<cause, terminal, result, inflight, deficit, visitOpen, cursor, accepting>>
      /\ Handled /\ pc = "busy" /\ cmd.op = "admit" /\ cmd.id = r /\ pc' = "pump"
      /\ expiry' = expiry \cup {r} /\ seq' = [seq EXCEPT ![r] = sequence + 1]
  BY DEF Enqueue, drr, Handling, Handled
<1>6. deadline[r] # 0 /\ ~received(r)
  BY <1>5 DEF IInv, LoopInv, Control
<1>7. r \notin settled /\ stage = kind[r] /\ rank[stage] <= 7 /\ rank[stage] \in 1..14
  BY <1>6, UnreceivedFacts, Ranks DEF Inv
<1>8. \A x \in inflight : handler[x] # "done"
  BY <1>5, NoFinish, ResultFacts
<1>9. settled' = settled /\ launched' = launched /\ passed' = passed /\ consumed' = consumed /\ job' = job
  BY <1>2, SamePosition
<1>10. served' = served /\ expired' = expired /\ canceled' = canceled /\ answered' = answered
  BY <1>5, SameResults
<1>11. CmdInv'
  <2>1. stage \notin {"shutdown", "reported"}
    BY <1>7, Setup DEF Stages, Enqueued
  <2> QED
    BY <1>4, <1>5, <2>1, HandledCmd
<1>12. ServedInv'
  BY <1>1, <1>3, <1>4, <1>5, <1>8, <1>10, ResultFacts DEF ServedInv
<1>13. AnswerInv' /\ UpstreamInv' /\ ConsumedInv'
  BY <1>1, <1>2, <1>3, <1>4, <1>5, Frames
<1>14. ControlInv'
  BY <1>1, <1>2, <1>3, <1>5 DEF ControlInv, AtBarrier
<1>15. SettledInv'
  BY <1>1, <1>4, <1>5, <1>9, <1>10 DEF SettledInv
<1>16. OrderInv'
  <2> SUFFICES ASSUME NEW t \in Tenants
               PROVE  \A i, j \in 1..Len(order[t]) :
                        i < j /\ order[t][j] \in expiry' => seq'[order[t][i]] < seq'[order[t][j]]
    BY <1>1, <1>2, <1>9 DEF OrderInv
  <2> SUFFICES ASSUME NEW i \in 1..Len(order[t]), NEW j \in 1..Len(order[t]), i < j, order[t][j] \in expiry'
               PROVE  seq'[order[t][i]] < seq'[order[t][j]]
    OBVIOUS
  <2>1. order[t] \in Seq(Requests) /\ Len(order[t]) \in Nat
    BY <1>1 DEF TypeS
  <2>2. i \in 1..Len(order[t]) - 1 /\ order[t][i] \in Requests /\ order[t][j] \in Requests
    BY <2>1
  <2>3. order[t][i] \in settled /\ order[t][i] # r
    BY <1>1, <1>7, <2>2 DEF OrderInv
  <2>4. seq \in [Requests -> Nat] /\ sequence \in Nat /\ \A x \in Requests : seq[x] <= sequence
    BY DEF IInv, DataInv, TypeData, QueueOrder
  <2>5. seq'[order[t][i]] = seq[order[t][i]]
    BY <1>5, <2>2, <2>3, <2>4
  <2>6. CASE order[t][j] = r
    BY <1>5, <2>2, <2>4, <2>5, <2>6
  <2>7. CASE order[t][j] # r
    <3>1. order[t][j] \in expiry /\ seq'[order[t][j]] = seq[order[t][j]]
      BY <1>5, <2>2, <2>4, <2>7
    <3> QED
      BY <1>1, <2>5, <3>1 DEF OrderInv
  <2> QED
    BY <2>6, <2>7
<1>17. SimInv'
  <2>1. terminal[control] = "none"
    BY <1>7, ControlGone
  <2> QED
    BY <1>5, <2>1, SimFrames
<1> QED
  BY <1>4, <1>11, <1>12, <1>13, <1>14, <1>15, <1>16, <1>17, OwnerFrame

(* When the control request is finished, the queues are what the oracle     *)
(* starts from.                                                             *)
LEMMA FinishStarts ==
  ASSUME IInv, Inv, control \in inflight, handler[control] = "done"
  PROVE  /\ \A t \in {2, 3} : queue[t] = order[t]
         /\ Pending = {} /\ observed = <<>>
         /\ cursor = 2 /\ \A t \in Tenants : deficit[t] = 0 /\ ~visitOpen[t]
<1>1. /\ ServedInv /\ UpstreamInv /\ ControlInv /\ OrderInv /\ TypeS
  BY DEF Inv
<1>2. control \in served /\ terminal[control] = "none" /\ control \in Requests
  BY ResultFacts, Setup
<1>3. released[control] # "no" /\ rank[stage] >= 10 /\ rank[stage] \in 1..14
  <2>1. released[control] # "no"
    BY <1>1, <1>2 DEF UpstreamInv
  <2> QED
    BY <1>1, <2>1, Ranks DEF ControlInv, Inv
<1>4. served \subseteq {control} /\ control \notin Service
  BY <1>1, <1>2, Setup DEF ServedInv, served
<1>5. expiry = Service /\ Filled
  BY <1>3, <1>4, Filling
<1>6. Pending = {}
  BY <1>4 DEF Pending
<1>7. observed = <<>>
  <2>1. ToSet(observed) = {}
    BY <1>1, <1>4, Setup DEF UpstreamInv
  <2>2. observed \in Seq(Requests)
    BY <1>1 DEF TypeS
  <2> QED
    <3>1. observed # <<>> => 1 \in DOMAIN observed
      BY <2>2
    <3> QED
      BY <2>1, <3>1 DEF ToSet
<1>8. \A t \in {2, 3} : queue[t] = order[t]
  <2> SUFFICES ASSUME NEW t \in {2, 3} PROVE queue[t] = order[t]
    OBVIOUS
  <2>1. t \in Tenants
    BY Setup
  <2>2. queue[t] \in Seq(Requests) /\ order[t] \in Seq(Requests) /\ seq \in [Requests -> Nat]
    BY <1>1, <2>1 DEF TypeS, IInv, DataInv, TypeData
  <2>3. ToSet(queue[t]) = {r \in expiry : tenantOf(r) = t}
    BY <2>1 DEF IInv, DataInv, BooksAgree
  <2>4. \A r \in expiry : tenantOf(r) = tenant[r]
    BY ResultFacts, QueuedFacts
  <2>5. ToSet(order[t]) = {r \in Service : tenant[r] = t}
    BY <1>5 DEF Filled
  <2>6. ToSet(queue[t]) = ToSet(order[t])
    BY <1>5, <2>3, <2>4, <2>5
  <2>7. \A i, j \in 1..Len(queue[t]) : i < j => seq[queue[t][i]] < seq[queue[t][j]]
    <3>1. DOMAIN queue[t] = 1..Len(queue[t])
      BY <2>2
    <3> QED
      BY <2>1, <3>1 DEF IInv, DataInv, QueueOrder
  <2>8. \A i, j \in 1..Len(order[t]) : i < j => seq[order[t][i]] < seq[order[t][j]]
    <3>1. \A j \in 1..Len(order[t]) : order[t][j] \in ToSet(order[t])
      BY <2>2 DEF ToSet
    <3>2. \A j \in 1..Len(order[t]) : order[t][j] \in expiry
      BY <1>5, <2>5, <3>1
    <3> QED
      BY <1>1, <2>1, <3>2 DEF OrderInv
  <2> QED
    BY <2>2, <2>6, <2>7, <2>8, SameOrder
<1> QED
  BY <1>1, <1>6, <1>7, <1>8 DEF ControlInv

(* A permit is given back. *)
LEMMA FinishKeeps ==
  ASSUME IInv, Inv, UNCHANGED <<driver, wire>>, UNCHANGED outside, NEW r \in Requests, FinishEntry(r)
  PROVE  Inv'
<1>1. /\ ServedInv /\ AnswerInv /\ UpstreamInv /\ ControlInv /\ SettledInv /\ ConsumedInv /\ OrderInv /\ CmdInv /\ SimInv
  BY DEF Inv
<1>2. UNCHANGED <<workload, stage, step, todo, expectation, order, plan, observed, counts>>
  BY DEF driver
<1>3. UNCHANGED <<handler, answer, call, released, arrivals, seenUpstream, issue>>
  BY DEF wire
<1>4. UNCHANGED <<now, ctxDone, admission, deadline, source>>
  BY DEF outside
<1>5. pc = "busy" /\ cmd.op = "finish" /\ cmd.id = r /\ cmd.outcome = "Completed" /\ handler[r] = "done"
  BY <1>1 DEF FinishEntry, Handling, CmdInv
<1>6. r \in inflight /\ r \in served /\ r \in entries /\ terminal[r] = "none"
  <2>1. result[r] = <<Dispatched>> /\ terminal[r] = "none"
    BY <1>5 DEF IInv, LoopInv, Control
  <2>2. r \in served
    BY <2>1 DEF served
  <2> QED
    BY <2>1, <2>2, ResultFacts
<1>7. state[r] = "inflight" /\ phase[r] = "inflight"
  BY <1>6 DEF IInv, DataInv, BooksAgree
<1>8. cause[r] = "none" /\ ~ctxDone[r]
  BY <1>1, <1>6 DEF ServedInv
<1>9. /\ cause' = [cause EXCEPT ![r] = "none"] /\ terminal' = [terminal EXCEPT ![r] = "Completed"]
      /\ inflight' = inflight \ {r} /\ entries' = entries \ {r}
      /\ UNCHANGED <<state, seq, result, queue, expiry, deficit, visitOpen, cursor, accepting>>
      /\ Handled /\ pc' = "pump"
  BY <1>5, <1>6, <1>7, <1>8 DEF FinishEntry, terminalOutcome, drr, Handled
<1>10. inflight' = {}
  BY <1>6, <1>9, ResultFacts
<1>11. /\ \A x \in Requests : cause'[x] = cause[x]
       /\ \A x \in Requests : terminal'[x] = IF x = r THEN "Completed" ELSE terminal[x]
  <2>1. cause \in [Requests -> {"none", "client", "shutdown"}] /\ DOMAIN terminal = Requests
    BY DEF IInv, DataInv, TypeData
  <2> QED
    BY <1>8, <1>9, <2>1
<1>12. settled' = settled /\ launched' = launched /\ passed' = passed /\ consumed' = consumed /\ job' = job
  BY <1>2, SamePosition
<1>13. served' = served /\ expired' = expired /\ canceled' = canceled /\ answered' = answered
  BY <1>9, SameResults
<1>14. CmdInv'
  <2>1. stage \in {"shutdown", "reported"} => entries' = {}
    BY <1>1, <1>9 DEF CmdInv
  <2> QED
    BY <1>4, <1>5, <1>9, <2>1, HandledCmd
<1>15. ServedInv'
  BY <1>1, <1>3, <1>4, <1>5, <1>10, <1>11, <1>13, Setup DEF ServedInv
<1>16. AnswerInv' /\ UpstreamInv' /\ SettledInv' /\ ConsumedInv' /\ OrderInv'
  BY <1>1, <1>2, <1>3, <1>4, <1>9, Frames
<1>17. ControlInv'
  BY <1>1, <1>2, <1>3, <1>10 DEF ControlInv, AtBarrier
<1>18. SimInv'
  <2>1. CASE r # control
    <3>1. terminal'[control] = terminal[control]
      BY <1>11, <2>1, Setup
    <3> QED
      BY <1>1, <1>2, <1>5, <1>9, <3>1, SimFrames
  <2>2. CASE r = control
    <3>1. /\ \A t \in {2, 3} : queue[t] = order[t]
          /\ Pending = {} /\ observed = <<>>
          /\ cursor = 2 /\ \A t \in Tenants : deficit[t] = 0 /\ ~visitOpen[t]
      BY <1>5, <1>6, <2>2, FinishStarts
    <3>2. oracleAfter' = oracleAfter /\ Pending' = Pending
      BY <1>2, <1>13, OracleSame DEF Pending
    <3>3. oracleAfter[0] = begins /\ maximumVisits \in Nat
      BY OracleUnfolds, VisitsNumber
    <3>4. /\ begins.queue[1] = order[2] /\ begins.queue[2] = order[3] /\ begins.cursor = 1
          /\ begins.trace = <<>> /\ \A i \in 1..2 : begins.deficit[i] = 0 /\ begins.open[i] = FALSE
      BY Setup DEF begins
    <3>5. Matches(oracleAfter[0])'
      <4>1. begins' = begins
        BY <1>2 DEF begins
      <4>2. \A i \in 1..2 : i + 1 \in Tenants
        BY Setup
      <4>3. cursor' = 2 /\ deficit' = deficit /\ visitOpen' = visitOpen /\ queue' = queue /\ pc' = "pump" /\ observed' = observed
        BY <1>2, <1>9, <3>1
      <4>4. begins'.queue[1] = queue'[2] /\ begins'.queue[2] = queue'[3]
        BY <3>1, <3>4, <4>1, <4>3
      <4>5. Pending' = {} /\ begins'.trace = observed'
        BY <3>1, <3>2, <3>4, <4>1, <4>3
      <4>6. begins'.cursor = IF cursor' = 3 THEN 2 ELSE 1
        BY <3>4, <4>1, <4>3
      <4>7. \A i \in 1..2 : deficit'[i + 1] = begins'.deficit[i] /\ visitOpen'[i + 1] = begins'.open[i]
        <5>1. visitOpen \in [Tenants -> BOOLEAN]
          BY DEF IInv, DataInv, TypeData
        <5> QED
          BY <3>1, <3>4, <4>1, <4>2, <4>3, <5>1
      <4>8. oracleAfter'[0] = begins'
        BY <3>2, <3>3, <4>1
      <4> HIDE DEF begins
      <4> QED
        BY <4>3, <4>4, <4>5, <4>6, <4>7, <4>8 DEF Matches
    <3> QED
      BY <3>2, <3>3, <3>5 DEF SimInv
  <2> QED
    BY <2>1, <2>2
<1> QED
  BY <1>4, <1>14, <1>15, <1>16, <1>17, <1>18, OwnerFrame

-----------------------------------------------------------------------------
(* The pump *)

(* A pump that visits tenants finds nobody in flight, and waiting either    *)
(* the control request alone or, once that is finished, service jobs.       *)
LEMMA PumpFacts ==
  ASSUME IInv, Inv, now < MaxTime, pc \in {"visit", "serve"}
  PROVE  /\ inflight = {} /\ expiry # {} /\ expiry \subseteq Requests
         /\ \A s \in Scopes : counters[s].inflightCount = 0 /\ counters[s].inflightWork = 0
         /\ counters[Global].queuedCount # 0
         /\ \A x \in expiry : kind[x] \in {"control", "initial", "late"} /\ ~ctxDone[x] /\ deadline[x] = MaxTime
         /\ terminal[control] = "none" => expiry = {control}
         /\ terminal[control] # "none" => expiry \subseteq Service /\ Filled /\ Pending = {}
<1>1. /\ ServedInv /\ UpstreamInv /\ SettledInv /\ PosInv
  BY DEF Inv
<1>2. inflight = {} /\ expiry # {} /\ expiry \subseteq Requests
  BY ResultFacts DEF Inv, CmdInv
<1>3. \A s \in Scopes : counters[s].inflightCount = 0 /\ counters[s].inflightWork = 0
  <2> SUFFICES ASSUME NEW s \in Scopes PROVE counters[s].inflightCount = 0 /\ counters[s].inflightWork = 0
    OBVIOUS
  <2>1. Charged(s, inflight) = {}
    BY <1>2 DEF Charged
  <2>2. Cardinality({}) = 0 /\ Weigh({}, workUnits) = 0
    BY FS_EmptySet, WeighEmpty
  <2> QED
    BY <2>1, <2>2 DEF IInv, DataInv, AccountingExact
<1>4. counters[Global].queuedCount # 0
  <2>1. Global \in Scopes /\ Charged(Global, expiry) = expiry
    BY Setup DEF Charged, Charges
  <2>2. IsFiniteSet(expiry)
    BY <1>2, Setup, FS_Subset
  <2> QED
    BY <1>2, <2>1, <2>2, FS_EmptySet DEF IInv, DataInv, AccountingExact
<1>5. ASSUME terminal[control] = "none" PROVE expiry = {control}
  <2>1. control \notin served /\ control \in Requests /\ kind[control] = "control"
    BY <1>2, <1>5, ResultFacts, Setup
  <2>2. rank[stage] = 1 /\ stage = "control"
    <3>1. control \notin settled
      BY <1>1, <2>1 DEF SettledInv
    <3>2. rank[stage] \in 1..14 /\ ~(rank[stage] > rank[kind[control]]) /\ rank["control"] = 1
      BY <1>1, <2>1, <3>1, Ranks DEF rank
    <3>3. rank[stage] = rank["control"] /\ stage \in DOMAIN rank /\ "control" \in DOMAIN rank
      BY <1>1, <2>1, <3>2, Ranks, Tables
    <3> QED
      BY <3>2, <3>3, Tables
  <2>3. \A x \in expiry : x \in launched
    BY <1>2, ResultFacts, QueuedFacts
  <2>4. ASSUME NEW x \in expiry PROVE x = control
    <3>1. x \in Requests /\ x \in launched /\ kind[x] \in Stages
      BY <1>2, <2>3, Setup
    <3>2. CASE x \in settled
      <4>1. rank[kind[x]] \in 1..14 /\ rank[kind[x]] <= 1
        BY <1>1, <2>2, <3>1, <3>2, Ranks, Tables
      <4>2. rank[kind[x]] = rank["control"] /\ kind[x] \in DOMAIN rank /\ "control" \in DOMAIN rank
        BY <3>1, <4>1, Tables DEF rank
      <4> QED
        BY <3>1, <4>2, Tables, Setup
    <3>3. CASE x \notin settled
      BY <1>1, <2>2, <3>1, <3>3, Ranks, Setup
    <3> QED
      BY <3>2, <3>3
  <2> QED
    BY <1>2, <2>4
<1>6. ASSUME terminal[control] # "none" PROVE expiry \subseteq Service /\ Filled /\ Pending = {}
  <2>1. rank[stage] >= 10 /\ rank[stage] \in 1..14
    BY <1>1, <1>6, ControlGone, Ranks
  <2>2. expiry \subseteq Service /\ Filled
    BY <2>1, Filling
  <2>3. ASSUME NEW x \in Pending PROVE FALSE
    <3>1. x \in Service /\ x \in served /\ x \notin ToSet(observed) /\ x \in Requests
      BY Setup DEF Pending
    <3>2. terminal[x] # "none"
      BY <1>2, <3>1, ResultFacts
    <3>3. handler[x] = "done"
      BY <1>1, <3>1, <3>2 DEF ServedInv
    <3> QED
      BY <1>1, <3>1, <3>3 DEF UpstreamInv
  <2> QED
    BY <2>2, <2>3
<1>7. ASSUME NEW x \in expiry PROVE kind[x] \in {"control", "initial", "late"} /\ ~ctxDone[x] /\ deadline[x] = MaxTime
  <2>1. x \in Requests /\ deadline[x] # 0 /\ x \notin answered
    BY <1>2, ResultFacts
  <2>2. kind[x] \in {"control", "initial", "late"}
    BY <1>5, <1>6, <2>1, Setup
  <2>3. ~ctxDone[x]
    BY <1>1, <2>1, <2>2 DEF ServedInv
  <2> QED
    BY <2>1, <2>2, <2>3, QueuedFacts
<1> QED
  BY <1>2, <1>3, <1>4, <1>5, <1>6, <1>7

(* The head it finds is alive and fits. *)
LEMMA HeadFacts ==
  ASSUME IInv, Inv, now < MaxTime, pc \in {"visit", "serve"}, current # <<>>
  PROVE  /\ tenantFits /\ globalFits /\ ~headIsDead
         /\ head \in expiry /\ head \in Requests /\ cursor \in Tenants /\ tenant[head] = cursor
         /\ admission[head].work = workload.work[head]
         /\ terminal[control] # "none" => cursor \in {2, 3} /\ head \in Service
         /\ terminal[control] = "none" => cursor = 1 /\ head = control
<1>1. /\ head \in expiry /\ head \in Requests /\ tenantOf(head) = cursor /\ cursor \in Tenants
      /\ admission[head].work \in Nat /\ admission[head].work <= MaxRequestUnits
  BY CursorHead
<1>2. /\ \A s \in Scopes : counters[s].inflightCount = 0 /\ counters[s].inflightWork = 0
      /\ ~ctxDone[head] /\ deadline[head] = MaxTime
      /\ terminal[control] = "none" => expiry = {control}
      /\ terminal[control] # "none" => expiry \subseteq Service
  BY <1>1, PumpFacts
<1>3. deadline[head] # 0 /\ head \notin answered
  BY <1>1, ResultFacts
<1>4. tenant[head] = cursor /\ admission[head] = Asked(head)
  BY <1>1, <1>3, QueuedFacts
<1>5. admission[head].work = workload.work[head]
  BY <1>4 DEF Asked
<1>6. \A s \in Scopes : inflightFits(counters[s], admission[head], InflightLimits[s])
  <2> SUFFICES ASSUME NEW s \in Scopes PROVE inflightFits(counters[s], admission[head], InflightLimits[s])
    OBVIOUS
  <2>1. /\ InflightLimits[s].count >= 1 /\ InflightLimits[s].work >= MaxRequestUnits
        /\ InflightLimits[s].count \in Nat /\ InflightLimits[s].work \in Nat /\ MaxRequestUnits \in Nat
    BY ConfigAssumption DEF holdsOneMaximumRequest
  <2> QED
    BY <1>1, <1>2, <2>1 DEF inflightFits, fits
<1>7. cursor \in Scopes /\ Global \in Scopes
  BY <1>1, Setup
<1>8. ~headIsDead
  <2>1. now \in Nat /\ MaxTime \in Nat
    BY Setup DEF IInv, LoopInv, TypeLoop
  <2> QED
    BY <1>2, <2>1 DEF headIsDead
<1> QED
  BY <1>1, <1>2, <1>4, <1>5, <1>6, <1>7, <1>8, Setup DEF tenantFits, globalFits

(* What to show of a state to see it simulated *)
LEMMA SimFrom ==
  ASSUME NEW j \in 0..maximumVisits, NEW p, p = oracleAfter[j], oracleAfter' = oracleAfter,
         p.queue[1] = queue'[2], p.queue[2] = queue'[3],
         \/ Pending' = {} /\ p.trace = observed'
         \/ \E x \in Service : Pending' = {x} /\ p.trace = Append(observed', x),
         pc' # "serve",
         p.cursor = IF cursor' = 3 THEN 2 ELSE 1,
         \A i \in 1..2 : deficit'[i + 1] = p.deficit[i] /\ visitOpen'[i + 1] = p.open[i]
  PROVE  SimInv'
<1>1. oracleAfter'[j] = p
  OBVIOUS
<1>2. Matches(oracleAfter[j])'
  BY <1>1 DEF Matches
<1> QED
  BY <1>2 DEF SimInv

(* While somebody waits the oracle has another pass to do. *)
LEMMA NextPass ==
  ASSUME Filled, NEW k \in 0..maximumVisits, ~Finished(oracleAfter[k])
  PROVE  /\ k + 1 \in 0..maximumVisits /\ oracleAfter[k + 1] = oracleVisit(oracleAfter[k])
         /\ oracleAfter[k] \in OracleStates
<1>1. maximumVisits \in Nat
  BY VisitsNumber
<1>2. k # maximumVisits
  BY OracleFinishes
<1>3. k + 1 \in 1..maximumVisits /\ (k + 1) - 1 = k
  BY <1>1, <1>2
<1>4. oracleAfter[k + 1] = passes(oracleAfter[k])
  <2>1. oracleAfter[k + 1] = passes(oracleAfter[(k + 1) - 1])
    BY <1>3, OracleUnfolds
  <2> QED
    BY <1>3, <2>1
<1>5. oracleAfter[k + 1] = oracleVisit(oracleAfter[k])
  BY <1>4, PassesCases
<1>6. Shares(oracleAfter[k])
  BY OracleFacts
<1> QED
  BY <1>1, <1>3, <1>5, <1>6 DEF Shares

(* The state of the oracle that the pump is in *)
LEMMA Simulated ==
  ASSUME IInv, Inv, now < MaxTime, pc \in {"visit", "serve"}, terminal[control] # "none"
  PROVE  \E k \in 0..maximumVisits :
           /\ Matches(oracleAfter[k]) /\ ~Finished(oracleAfter[k]) /\ oracleAfter[k] \in OracleStates
           /\ oracleAfter[k].trace = observed
           /\ k + 1 \in 0..maximumVisits /\ oracleAfter[k + 1] = oracleVisit(oracleAfter[k])
<1>1. PICK k \in 0..maximumVisits : Matches(oracleAfter[k])
  BY DEF Inv, SimInv
<1>2. expiry # {} /\ expiry \subseteq Service /\ Filled /\ Pending = {}
  BY PumpFacts
<1>3. oracleAfter[k].trace = observed
  BY <1>1, <1>2 DEF Matches
<1>4. ~Finished(oracleAfter[k])
  <2> SUFFICES ASSUME Finished(oracleAfter[k]) PROVE FALSE
    OBVIOUS
  <2>1. queue[2] = <<>> /\ queue[3] = <<>>
    BY <1>1 DEF Matches, Finished
  <2>2. PICK x \in expiry : TRUE
    BY <1>2
  <2>3. x \in Requests /\ deadline[x] # 0 /\ x \notin answered /\ tenant[x] \in {2, 3}
    BY <1>2, ResultFacts, Setup
  <2>4. tenantOf(x) = tenant[x] /\ tenant[x] \in Tenants
    BY <2>3, QueuedFacts, Setup
  <2>5. x \in ToSet(queue[tenant[x]])
    BY <2>4 DEF IInv, DataInv, BooksAgree
  <2>6. ToSet(<<>>) = {}
    BY DEF ToSet
  <2> QED
    BY <2>1, <2>3, <2>5, <2>6
<1> QED
  BY <1>1, <1>2, <1>3, <1>4, NextPass

(* Taking out the head leaves the tail. *)
LEMMA WithoutHead ==
  ASSUME NEW R, NEW q \in Seq(R), q # <<>>, IsInjective(q)
  PROVE  Without(q, Head(q)) = Tail(q)
<1>1. Head(q) \in ToSet(q) /\ Head(q) = q[1] /\ Len(q) \in Nat /\ Len(q) >= 1 /\ DOMAIN q = 1..Len(q)
  BY HeadQueued
<1>2. PICK k \in 1..Len(q) :
        /\ q[k] = Head(q)
        /\ Without(q, Head(q)) = [i \in 1..(Len(q) - 1) |-> IF i < k THEN q[i] ELSE q[i + 1]]
  BY <1>1, WithoutShape
<1>3. k = 1
  BY <1>1, <1>2 DEF IsInjective
<1>4. [i \in 1..(Len(q) - 1) |-> IF i < 1 THEN q[i] ELSE q[i + 1]] = [i \in 1..(Len(q) - 1) |-> q[i + 1]]
  BY <1>1
<1>5. Tail(q) = [i \in 1..(Len(q) - 1) |-> q[i + 1]]
  <2>1. /\ Tail(q) \in Seq(R) /\ Len(Tail(q)) = Len(q) - 1
        /\ \A i \in 1..(Len(q) - 1) : Tail(q)[i] = q[i + 1]
    BY TailFacts
  <2>2. \A s \in Seq(R) : s = [i \in 1..Len(s) |-> s[i]]
    OBVIOUS
  <2>3. Tail(q) = [i \in 1..(Len(q) - 1) |-> Tail(q)[i]]
    BY <2>1, <2>2
  <2>4. [i \in 1..(Len(q) - 1) |-> Tail(q)[i]] = [i \in 1..(Len(q) - 1) |-> q[i + 1]]
    BY <2>1
  <2> QED
    BY <2>3, <2>4
<1> QED
  BY <1>2, <1>3, <1>4, <1>5

(* A step of the pump is part of no command of the driver's. *)
LEMMA PumpCmd ==
  ASSUME IInv, Inv, pc \in {"pump", "visit", "serve"}, pc' \in {"visit", "serve", "notify"},
         UNCHANGED <<driver, now, accepting, cmd, wake, entries>>,
         pc' \in {"visit", "serve"} => inflight' = {} /\ expiry' # {}
  PROVE  CmdInv'
<1>1. CmdInv /\ UNCHANGED <<stage, step>>
  BY DEF Inv, driver
<1> QED
  BY <1>1 DEF CmdInv

(* The pump passes over a tenant. *)
LEMMA SimSkip ==
  ASSUME IInv, Inv, now < MaxTime, pc = "visit", pc' = "visit", current = <<>>, advance,
         UNCHANGED <<order, workload, queue, result, observed, deficit, visitOpen, expiry, terminal>>
  PROVE  SimInv'
<1>1. CASE terminal[control] = "none"
  BY <1>1, SimFrames
<1>2. CASE terminal[control] # "none"
  <2>1. PICK k \in 0..maximumVisits :
           /\ Matches(oracleAfter[k]) /\ ~Finished(oracleAfter[k]) /\ oracleAfter[k] \in OracleStates
           /\ oracleAfter[k].trace = observed
           /\ k + 1 \in 0..maximumVisits /\ oracleAfter[k + 1] = oracleVisit(oracleAfter[k])
    BY <1>2, Simulated
  <2> DEFINE o == oracleAfter[k]
             p == oracleAfter[k + 1]
  <2>2. oracleAfter' = oracleAfter /\ Pending' = Pending /\ Pending = {} /\ expiry # {}
    BY <1>2, OracleSame, SameResults, PumpFacts DEF Pending
  <2>3. cursor \in {1, 2, 3, 4} /\ cursor' = IF cursor = 4 THEN 1 ELSE cursor + 1
    BY Setup DEF IInv, LoopInv, TypeLoop, advance
  <2>4. /\ o.queue[1] = queue[2] /\ o.queue[2] = queue[3]
        /\ o.cursor = IF cursor = 3 THEN 2 ELSE 1
        /\ \A i \in 1..2 : deficit[i + 1] = o.deficit[i] /\ visitOpen[i + 1] = o.open[i]
    BY <2>1, <2>2 DEF Matches
  <2>5. CASE cursor \in {1, 4}
    <3>1. o.cursor = IF cursor' = 3 THEN 2 ELSE 1
      BY <2>3, <2>4, <2>5
    <3> HIDE DEF o
    <3>2. o = oracleAfter[k]
      BY DEF o
    <3> QED
      BY <2>1, <2>2, <2>4, <3>1, <3>2, SimFrom
  <2>6. CASE cursor \in {2, 3}
    <3> DEFINE c == o.cursor
    <3>1. c = cursor - 1 /\ c \in 1..2 /\ o.queue[c] = <<>>
      BY <2>4, <2>6 DEF current
    <3>2. deficit[cursor] = 0 /\ ~visitOpen[cursor]
      <4>1. cursor \in Tenants
        BY <2>6, Setup
      <4> QED
        BY <4>1 DEF current, IInv, DataInv, CreditBounded
    <3>3. o \in OracleStates /\ p = oracleVisit(o) /\ workload \in Workloads
      BY <2>1 DEF Inv, TypeS
    <3>4. /\ p.queue = o.queue /\ p.trace = o.trace /\ p.cursor = 3 - c
          /\ p.deficit = [o.deficit EXCEPT ![c] = 0] /\ p.open = [o.open EXCEPT ![c] = FALSE]
      <4> HIDE DEF o, p
      <4> QED
        BY <3>1, <3>3, VisitCases
    <3>5. o.deficit \in [{1, 2} -> Nat] /\ o.open \in [{1, 2} -> BOOLEAN]
      BY <3>3 DEF OracleStates
    <3>6. o.deficit[c] = 0 /\ o.open[c] = FALSE
      <4>1. deficit[c + 1] = o.deficit[c] /\ visitOpen[c + 1] = o.open[c] /\ c + 1 = cursor
        BY <2>4, <3>1, <2>6
      <4> HIDE DEF o, c
      <4> QED
        BY <3>1, <3>2, <3>5, <4>1
    <3>7. p.deficit = o.deficit /\ p.open = o.open
      <4>1. \A f \in [{1, 2} -> Nat], x \in 1..2 : f[x] = 0 => [f EXCEPT ![x] = 0] = f
        OBVIOUS
      <4>2. \A f \in [{1, 2} -> BOOLEAN], x \in 1..2 : f[x] = FALSE => [f EXCEPT ![x] = FALSE] = f
        OBVIOUS
      <4> HIDE DEF o, p, c
      <4> QED
        BY <3>1, <3>4, <3>5, <3>6, <4>1, <4>2, ZenonT(30)
    <3>8. p.cursor = IF cursor' = 3 THEN 2 ELSE 1
      <4> HIDE DEF o, p
      <4> QED
        BY <2>3, <2>6, <3>1, <3>4
    <3>9. /\ p.queue[1] = queue'[2] /\ p.queue[2] = queue'[3] /\ Pending' = {} /\ p.trace = observed'
          /\ \A i \in 1..2 : deficit'[i + 1] = p.deficit[i] /\ visitOpen'[i + 1] = p.open[i]
      <4>1. o.trace = observed
        BY <2>1
      <4> HIDE DEF o, p
      <4> QED
        BY <2>2, <2>4, <3>4, <3>7, <4>1
    <3>10. p = oracleAfter[k + 1] /\ k + 1 \in 0..maximumVisits
      BY <2>1
    <3> HIDE DEF o, p
    <3> QED
      BY <2>2, <3>8, <3>9, <3>10, SimFrom
  <2> QED
    BY <2>3, <2>5, <2>6
<1> QED
  BY <1>1, <1>2

(* It opens a visit: the tenant's credit is what the oracle would give it. *)
LEMMA SimOpen ==
  ASSUME IInv, Inv, now < MaxTime, OpenVisit,
         UNCHANGED <<order, workload, observed>>
  PROVE  SimInv'
<1>1. /\ UNCHANGED <<queue, result, expiry, terminal, cursor>> /\ pc = "visit" /\ pc' = "serve" /\ current # <<>>
  BY DEF OpenVisit, Visiting, marks, books
<1>2. CASE terminal[control] = "none"
  BY <1>1, <1>2, SimFrames
<1>3. CASE terminal[control] # "none"
  <2>1. PICK k \in 0..maximumVisits :
           /\ Matches(oracleAfter[k]) /\ oracleAfter[k] \in OracleStates /\ oracleAfter[k].trace = observed
    BY <1>1, <1>3, Simulated
  <2> DEFINE o == oracleAfter[k]
  <2>2. oracleAfter' = oracleAfter /\ Pending' = Pending /\ Pending = {} /\ expiry # {}
    BY <1>1, <1>3, OracleSame, SameResults, PumpFacts DEF Pending
  <2>3. cursor \in {2, 3} /\ cursor \in Tenants
    BY <1>1, <1>3, HeadFacts
  <2>4. /\ o.queue[1] = queue[2] /\ o.queue[2] = queue[3]
        /\ o.cursor = IF cursor = 3 THEN 2 ELSE 1
        /\ \A i \in 1..2 : deficit[i + 1] = o.deficit[i] /\ visitOpen[i + 1] = o.open[i]
    BY <1>1, <2>1, <2>2 DEF Matches
  <2>5. o.deficit \in [{1, 2} -> Nat] /\ o.open \in [{1, 2} -> BOOLEAN]
    BY <2>1 DEF OracleStates
  <2>6. deficit \in [Tenants -> Nat] /\ visitOpen \in [Tenants -> BOOLEAN] /\ Tenants = {1, 2, 3, 4}
    BY Setup DEF IInv, DataInv, TypeData
  <2>7. /\ visitOpen[cursor] => UNCHANGED <<deficit, visitOpen>>
        /\ ~visitOpen[cursor] =>
             /\ deficit' = [deficit EXCEPT ![cursor] = boundedAdd(@, Quantum[cursor], DeficitCap)]
             /\ visitOpen' = [visitOpen EXCEPT ![cursor] = TRUE]
    BY DEF OpenVisit
  <2>8. o.cursor \in 1..2 /\ cursor = o.cursor + 1 /\ ServiceTenants[o.cursor] = cursor
    <3> HIDE DEF o
    <3> QED
      BY <2>3, <2>4, Setup
  <2>9. /\ deficit'[cursor] = Credit(o, o.cursor) /\ visitOpen'[cursor]
        /\ \A i \in 1..2 : i # o.cursor => deficit'[i + 1] = o.deficit[i] /\ visitOpen'[i + 1] = o.open[i]
    <3> HIDE DEF o
    <3>1. deficit[cursor] = o.deficit[o.cursor] /\ visitOpen[cursor] = o.open[o.cursor]
      BY <2>4, <2>8
    <3>2. CASE visitOpen[cursor]
      BY <2>4, <2>7, <3>1, <3>2 DEF Credit
    <3>3. CASE ~visitOpen[cursor]
      <4>1. deficit'[cursor] = boundedAdd(deficit[cursor], Quantum[cursor], DeficitCap) /\ visitOpen'[cursor]
        BY <2>3, <2>6, <2>7, <3>3
      <4>2. \A t \in Tenants : t # cursor => deficit'[t] = deficit[t] /\ visitOpen'[t] = visitOpen[t]
        BY <2>3, <2>6, <2>7, <3>3
      <4>3. \A i \in 1..2 : i # o.cursor => i + 1 \in Tenants /\ i + 1 # cursor
        BY <2>6, <2>8
      <4>4. boundedAdd(deficit[cursor], Quantum[cursor], DeficitCap)
              = boundedOracleAdd(deficit[cursor], Quantum[cursor], DeficitCap)
        BY Zenon DEF boundedAdd, boundedOracleAdd
      <4> QED
        BY <2>4, <2>8, <3>1, <3>3, <4>1, <4>2, <4>3, <4>4 DEF Credit
    <3> QED
      BY <3>2, <3>3
  <2>10. Matches(oracleAfter[k])'
    <3>1. oracleAfter'[k] = o /\ o.trace = observed
      BY <2>1, <2>2
    <3>2. queue'[cursor'] # <<>> /\ cursor' = o.cursor + 1
      BY <1>1, <2>8 DEF current
    <3>3. Credit(o, o.cursor)' = Credit(o, o.cursor)
      BY <3>1 DEF Credit
    <3> HIDE DEF o
    <3> QED
      BY <1>1, <2>2, <2>4, <2>9, <3>1, <3>2 DEF Matches, Credit
  <2> QED
    BY <2>10 DEF SimInv
<1> QED
  BY <1>2, <1>3

(* The oracle's state while the pump is inside a visit *)
LEMMA InsideVisit ==
  ASSUME IInv, Inv, now < MaxTime, pc = "serve", terminal[control] # "none"
  PROVE  \E k \in 0..maximumVisits : \E o \in OracleStates :
           /\ o = oracleAfter[k] /\ k + 1 \in 0..maximumVisits /\ oracleAfter[k + 1] = oracleVisit(o)
           /\ o.queue[1] = queue[2] /\ o.queue[2] = queue[3] /\ o.trace = observed
           /\ o.cursor \in 1..2 /\ cursor = o.cursor + 1 /\ cursor \in {2, 3} /\ current # <<>> /\ visitOpen[cursor]
           /\ current = o.queue[o.cursor] /\ deficit[cursor] = Credit(o, o.cursor)
           /\ \A i \in 1..2 : i # o.cursor => deficit[i + 1] = o.deficit[i] /\ visitOpen[i + 1] = o.open[i]
           /\ admission[head].work = workload.work[Head(o.queue[o.cursor])]
           /\ o.deficit \in [{1, 2} -> Nat] /\ o.open \in [{1, 2} -> BOOLEAN]
           /\ o.queue \in [{1, 2} -> Seq(Requests)]
<1>1. PICK k \in 0..maximumVisits :
           /\ Matches(oracleAfter[k]) /\ oracleAfter[k] \in OracleStates /\ oracleAfter[k].trace = observed
           /\ k + 1 \in 0..maximumVisits /\ oracleAfter[k + 1] = oracleVisit(oracleAfter[k])
  BY Simulated
<1> DEFINE o == oracleAfter[k]
<1>2. o \in OracleStates /\ o = oracleAfter[k] /\ Matches(o) /\ oracleAfter[k + 1] = oracleVisit(o) /\ o.trace = observed
  BY <1>1
<1> HIDE DEF o
<1>3. /\ o.queue[1] = queue[2] /\ o.queue[2] = queue[3]
      /\ cursor = o.cursor + 1 /\ queue[cursor] # <<>> /\ visitOpen[cursor]
      /\ deficit[cursor] = Credit(o, o.cursor)
      /\ \A i \in 1..2 : i # o.cursor => deficit[i + 1] = o.deficit[i] /\ visitOpen[i + 1] = o.open[i]
  BY <1>2 DEF Matches
<1>4. /\ o.cursor \in {1, 2} /\ o.deficit \in [{1, 2} -> Nat] /\ o.open \in [{1, 2} -> BOOLEAN]
      /\ o.queue \in [{1, 2} -> Seq(Requests)]
  BY <1>2 DEF OracleStates
<1>5. current = o.queue[o.cursor] /\ current # <<>> /\ o.cursor \in 1..2 /\ cursor \in {2, 3}
  BY <1>3, <1>4 DEF current
<1>6. admission[head].work = workload.work[head] /\ head = Head(o.queue[o.cursor])
  BY <1>5, HeadFacts DEF head, current
<1> QED
  BY <1>1, <1>2, <1>3, <1>4, <1>5, <1>6, Zenon

(* The credit does not cover the head. *)
LEMMA SimShort ==
  ASSUME IInv, Inv, now < MaxTime, NotFunded, UNCHANGED <<order, workload, observed>>
  PROVE  SimInv'
<1>1. /\ UNCHANGED <<queue, result, expiry, terminal, deficit>> /\ pc = "serve" /\ pc' = "visit" /\ current # <<>>
      /\ ~funded /\ visitOpen' = [visitOpen EXCEPT ![cursor] = FALSE]
      /\ cursor' = IF cursor = N THEN 1 ELSE cursor + 1
  BY DEF NotFunded, marks, books, NextTenant, advance
<1>2. CASE terminal[control] = "none"
  BY <1>1, <1>2, SimFrames
<1>3. CASE terminal[control] # "none"
  <2>1. PICK k \in 0..maximumVisits, o \in OracleStates :
           /\ o = oracleAfter[k] /\ k + 1 \in 0..maximumVisits /\ oracleAfter[k + 1] = oracleVisit(o)
           /\ o.queue[1] = queue[2] /\ o.queue[2] = queue[3] /\ o.trace = observed
           /\ o.cursor \in 1..2 /\ cursor = o.cursor + 1 /\ cursor \in {2, 3} /\ current # <<>> /\ visitOpen[cursor]
           /\ current = o.queue[o.cursor] /\ deficit[cursor] = Credit(o, o.cursor)
           /\ \A i \in 1..2 : i # o.cursor => deficit[i + 1] = o.deficit[i] /\ visitOpen[i + 1] = o.open[i]
           /\ admission[head].work = workload.work[Head(o.queue[o.cursor])]
           /\ o.deficit \in [{1, 2} -> Nat] /\ o.open \in [{1, 2} -> BOOLEAN]
    BY <1>1, <1>3, InsideVisit
  <2>2. oracleAfter' = oracleAfter /\ Pending' = {}
    BY <1>1, <1>3, OracleSame, SameResults, PumpFacts DEF Pending
  <2>3. /\ visitOpen \in [Tenants -> BOOLEAN] /\ deficit \in [Tenants -> Nat] /\ Tenants = {1, 2, 3, 4} /\ N = 4
        /\ workload \in Workloads /\ cursor \in Tenants
    BY Setup DEF IInv, DataInv, TypeData, LoopInv, TypeLoop, Inv, TypeS
  <2>4. PICK p : p = oracleAfter[k + 1] /\ p = oracleVisit(o)
    BY <2>1
  <2>5. PICK c : c = o.cursor
    OBVIOUS
  <2>6. workload.work[Head(o.queue[c])] \in 1..MaxRequestUnits /\ MaxRequestUnits \in Nat
    BY <2>1, <2>3, <2>5, VisitCases, ConfigAssumption, Zenon
  <2>7. Short(o)
    <3>1. deficit[cursor] \in Nat /\ ~(admission[head].work <= deficit[cursor])
      BY <1>1, <2>3 DEF funded
    <3> QED
      BY <2>1, <2>5, <2>6, <3>1 DEF Short
  <2>8. /\ p.queue = o.queue /\ p.trace = o.trace /\ p.cursor = 3 - c
        /\ p.deficit = [o.deficit EXCEPT ![c] = Credit(o, c)]
        /\ p.open = [o.open EXCEPT ![c] = FALSE]
    <3>1. o \in OracleStates /\ workload \in Workloads /\ o.queue[o.cursor] # <<>> /\ Short(o)
      BY <2>1, <2>3, <2>7
    <3>2. LET v == oracleVisit(o) IN
          /\ v.queue = o.queue /\ v.trace = o.trace /\ v.cursor = 3 - o.cursor
          /\ v.deficit = [o.deficit EXCEPT ![o.cursor] = Credit(o, o.cursor)]
          /\ v.open = [o.open EXCEPT ![o.cursor] = FALSE]
      BY <3>1, VisitCases, Zenon
    <3> QED
      BY <2>4, <2>5, <3>2
  <2>9. p.cursor = IF cursor' = 3 THEN 2 ELSE 1
    BY <1>1, <2>1, <2>3, <2>5, <2>8
  <2>10. \A i \in 1..2 : deficit'[i + 1] = p.deficit[i] /\ visitOpen'[i + 1] = p.open[i]
    <3> SUFFICES ASSUME NEW i \in 1..2 PROVE deficit[i + 1] = p.deficit[i] /\ visitOpen'[i + 1] = p.open[i]
      BY <1>1
    <3>1. i + 1 \in Tenants /\ i \in {1, 2} /\ c \in {1, 2} /\ cursor = c + 1
      BY <2>1, <2>3, <2>5
    <3>2. CASE i = c
      <4>1. i + 1 = cursor
        BY <3>1, <3>2
      <4>2. p.deficit[i] = Credit(o, c) /\ p.open[i] = FALSE
        BY <2>1, <2>8, <3>1, <3>2
      <4>3. visitOpen'[i + 1] = FALSE
        BY <1>1, <2>3, <4>1
      <4> QED
        BY <2>1, <2>5, <4>1, <4>2, <4>3
    <3>3. CASE i # c
      <4>1. i + 1 # cursor
        BY <3>1, <3>3
      <4>2. p.deficit[i] = o.deficit[i] /\ p.open[i] = o.open[i]
        BY <2>1, <2>8, <3>1, <3>3
      <4>3. visitOpen'[i + 1] = visitOpen[i + 1]
        BY <1>1, <2>3, <3>1, <4>1
      <4> QED
        BY <2>1, <2>5, <3>3, <4>2, <4>3
    <3> QED
      BY <3>2, <3>3
  <2>11. p.queue[1] = queue'[2] /\ p.queue[2] = queue'[3] /\ p.trace = observed'
    BY <1>1, <2>1, <2>8
  <2>12. k + 1 \in 0..maximumVisits /\ p = oracleAfter[k + 1] /\ pc' # "serve"
    BY <1>1, <2>1, <2>4
  <2>13. \/ Pending' = {} /\ p.trace = observed'
         \/ \E x \in Service : Pending' = {x} /\ p.trace = Append(observed', x)
    BY <2>2, <2>11
  <2> QED
    BY <2>2, <2>9, <2>10, <2>11, <2>12, <2>13, SimFrom
<1> QED
  BY <1>2, <1>3

(* What a dispatch does: with one request in flight, the pump is done. *)
LEMMA ServeEffect ==
  ASSUME IInv, IInv', Inv, now < MaxTime, Serve
  PROVE  /\ pc = "serve" /\ current # <<>> /\ funded /\ pc' = "notify"
         /\ expiry' = expiry \ {head} /\ inflight' = {head} /\ inflight = {} /\ resolve(head, Dispatched)
         /\ UNCHANGED <<seq, cause, terminal, entries>>
         /\ queue' = [queue EXCEPT ![cursor] = Tail(@)]
         /\ deficit' = [deficit EXCEPT ![cursor] = IF Tail(queue[cursor]) = <<>> THEN 0 ELSE @ - admission[head].work]
         /\ visitOpen' = [visitOpen EXCEPT ![cursor] = @ /\ Tail(queue[cursor]) # <<>>]
         /\ cursor' = IF Tail(queue[cursor]) = <<>> THEN (IF cursor = N THEN 1 ELSE cursor + 1) ELSE cursor
<1>1. pc = "serve" /\ current # <<>> /\ funded /\ dispatch(head)
  BY DEF Serve, Servable
<1>2. head \in expiry /\ head \in Requests /\ tenantOf(head) = cursor /\ cursor \in Tenants
  BY <1>1, CursorHead
<1>3. inflight = {}
  BY <1>1, PumpFacts
<1>4. /\ expiry' = expiry \ {head} /\ inflight' = {head} /\ resolve(head, Dispatched)
      /\ UNCHANGED <<seq, cause, terminal, entries>>
      /\ queue' = [queue EXCEPT ![cursor] = Without(@, head)]
      /\ deficit' = [deficit EXCEPT ![cursor] = creditAfter(head, deficit[cursor] - admission[head].work)]
      /\ visitOpen' = [visitOpen EXCEPT ![cursor] = @ /\ ~empties(head)]
  BY <1>1, <1>2, <1>3 DEF dispatch, removeQueued
<1>5. saturated(counters')
  <2>1. Global \in Scopes /\ Charged(Global, inflight)' = inflight'
    BY Setup DEF Charged, Charges
  <2>2. counters'[Global].inflightCount = Cardinality(inflight')
    BY <2>1 DEF IInv, DataInv, AccountingExact
  <2>3. Cardinality({head}) = 1
    BY FS_Singleton
  <2> QED
    BY <1>4, <2>2, <2>3, Setup DEF saturated
<1>6. pc' = "notify" /\ cursor' = IF empties(head) THEN (IF cursor = N THEN 1 ELSE cursor + 1) ELSE cursor
  BY <1>5 DEF Serve, LeavePump, advance
<1>7. queue[cursor] \in Seq(Requests) /\ IsInjective(queue[cursor]) /\ queue[cursor] # <<>>
  BY <1>1, <1>2 DEF IInv, DataInv, TypeData, BooksAgree, current
<1>8. Without(queue[cursor], head) = Tail(queue[cursor])
  BY <1>7, WithoutHead DEF head
<1>9. empties(head) <=> Tail(queue[cursor]) = <<>>
  <2>1. /\ Len(Tail(queue[cursor])) = Len(queue[cursor]) - 1 /\ Tail(queue[cursor]) \in Seq(Requests)
        /\ Len(queue[cursor]) \in Nat
    BY <1>7, TailFacts
  <2>2. \A s \in Seq(Requests) : s = <<>> <=> Len(s) = 0
    OBVIOUS
  <2>3. empties(head) <=> Len(queue[cursor]) = 1
    BY <1>2 DEF empties
  <2>4. \A n \in Nat : n - 1 = 0 <=> n = 1
    OBVIOUS
  <2>5. Tail(queue[cursor]) = <<>> <=> Len(Tail(queue[cursor])) = 0
    BY <2>1, <2>2
  <2>6. Tail(queue[cursor]) = <<>> <=> Len(queue[cursor]) - 1 = 0
    BY <2>1, <2>5, Zenon
  <2>7. Tail(queue[cursor]) = <<>> <=> Len(queue[cursor]) = 1
    BY <2>1, <2>4, <2>6, Zenon
  <2> QED
    BY <2>3, <2>7, Zenon
<1>10. queue' = [queue EXCEPT ![cursor] = Tail(@)]
  BY <1>2, <1>4, <1>8
<1>11. deficit' = [deficit EXCEPT ![cursor] = IF Tail(queue[cursor]) = <<>> THEN 0 ELSE @ - admission[head].work]
  BY <1>4, <1>9 DEF creditAfter
<1>12. visitOpen' = [visitOpen EXCEPT ![cursor] = @ /\ Tail(queue[cursor]) # <<>>]
  BY <1>4, <1>9
<1> QED
  BY <1>1, <1>3, <1>4, <1>6, <1>9, <1>10, <1>11, <1>12

(* A head is dispatched: the oracle serves it too. *)
LEMMA SimServe ==
  ASSUME IInv, IInv', Inv, now < MaxTime, Serve, UNCHANGED <<order, workload, observed>>
  PROVE  SimInv'
<1>1. /\ pc = "serve" /\ current # <<>> /\ funded /\ pc' = "notify"
      /\ expiry' = expiry \ {head} /\ resolve(head, Dispatched) /\ UNCHANGED terminal
      /\ queue' = [queue EXCEPT ![cursor] = Tail(@)]
      /\ deficit' = [deficit EXCEPT ![cursor] = IF Tail(queue[cursor]) = <<>> THEN 0 ELSE @ - admission[head].work]
      /\ visitOpen' = [visitOpen EXCEPT ![cursor] = @ /\ Tail(queue[cursor]) # <<>>]
      /\ cursor' = IF Tail(queue[cursor]) = <<>> THEN (IF cursor = N THEN 1 ELSE cursor + 1) ELSE cursor
  BY ServeEffect
<1>2. CASE terminal[control] = "none"
  BY <1>1, <1>2, SimFrames
<1>3. CASE terminal[control] # "none"
  <2>1. PICK k \in 0..maximumVisits, o \in OracleStates :
           /\ o = oracleAfter[k] /\ k + 1 \in 0..maximumVisits /\ oracleAfter[k + 1] = oracleVisit(o)
           /\ o.queue[1] = queue[2] /\ o.queue[2] = queue[3] /\ o.trace = observed
           /\ o.cursor \in 1..2 /\ cursor = o.cursor + 1 /\ cursor \in {2, 3} /\ current # <<>> /\ visitOpen[cursor]
           /\ current = o.queue[o.cursor] /\ deficit[cursor] = Credit(o, o.cursor)
           /\ \A i \in 1..2 : i # o.cursor => deficit[i + 1] = o.deficit[i] /\ visitOpen[i + 1] = o.open[i]
           /\ admission[head].work = workload.work[Head(o.queue[o.cursor])]
           /\ o.deficit \in [{1, 2} -> Nat] /\ o.open \in [{1, 2} -> BOOLEAN]
           /\ o.queue \in [{1, 2} -> Seq(Requests)]
    BY <1>1, <1>3, InsideVisit
  <2>2. oracleAfter' = oracleAfter
    BY OracleSame
  <2>3. /\ visitOpen \in [Tenants -> BOOLEAN] /\ deficit \in [Tenants -> Nat] /\ Tenants = {1, 2, 3, 4} /\ N = 4
        /\ workload \in Workloads /\ cursor \in Tenants /\ DOMAIN queue = Tenants
    BY Setup DEF IInv, DataInv, TypeData, LoopInv, TypeLoop, Inv, TypeS
  <2>4. PICK p : p = oracleAfter[k + 1] /\ p = oracleVisit(o)
    BY <2>1
  <2>5. PICK c, q : c = o.cursor /\ q = o.queue[o.cursor]
    OBVIOUS
  <2>6. q = queue[cursor] /\ head = Head(q) /\ q # <<>> /\ c \in {1, 2} /\ cursor = c + 1
    BY <2>1, <2>5 DEF current, head
  <2>7. workload.work[Head(q)] \in 1..MaxRequestUnits /\ MaxRequestUnits \in Nat
    BY <2>1, <2>3, <2>5, <2>6, VisitCases, ConfigAssumption, Zenon
  <2>8. ~Short(o)
    <3>1. deficit[cursor] \in Nat /\ admission[head].work <= deficit[cursor]
      BY <1>1, <2>3 DEF funded
    <3> QED
      BY <2>1, <2>5, <2>7, <3>1 DEF Short
  <2>9. /\ p.queue = [o.queue EXCEPT ![c] = Tail(q)] /\ p.trace = Append(o.trace, Head(q))
        /\ Tail(q) = <<>> =>
             /\ p.cursor = 3 - c
             /\ p.deficit = [o.deficit EXCEPT ![c] = 0] /\ p.open = [o.open EXCEPT ![c] = FALSE]
        /\ Tail(q) # <<>> =>
             /\ p.cursor = c
             /\ p.deficit = [o.deficit EXCEPT ![c] = Credit(o, c) - workload.work[Head(q)]]
             /\ p.open = [o.open EXCEPT ![c] = TRUE]
    <3>1. o \in OracleStates /\ workload \in Workloads /\ o.queue[o.cursor] # <<>> /\ ~Short(o)
      BY <2>1, <2>3, <2>8
    <3>2. LET v == oracleVisit(o)
              h == o.queue[o.cursor]
          IN  /\ v.queue = [o.queue EXCEPT ![o.cursor] = Tail(h)] /\ v.trace = Append(o.trace, Head(h))
              /\ Tail(h) = <<>> =>
                   /\ v.cursor = 3 - o.cursor
                   /\ v.deficit = [o.deficit EXCEPT ![o.cursor] = 0] /\ v.open = [o.open EXCEPT ![o.cursor] = FALSE]
              /\ Tail(h) # <<>> =>
                   /\ v.cursor = o.cursor
                   /\ v.deficit = [o.deficit EXCEPT ![o.cursor] = Credit(o, o.cursor) - workload.work[Head(h)]]
                   /\ v.open = [o.open EXCEPT ![o.cursor] = TRUE]
      BY <3>1, VisitCases, Zenon
    <3> QED
      BY <2>4, <2>5, <3>2
  <2>10. p.cursor = IF cursor' = 3 THEN 2 ELSE 1
    BY <1>1, <2>3, <2>6, <2>9, SMTT(30)
  <2>11. ASSUME NEW i \in 1..2
         PROVE  /\ deficit'[i + 1] = p.deficit[i] /\ visitOpen'[i + 1] = p.open[i]
                /\ p.queue[i] = queue'[i + 1]
    <3>1. i + 1 \in Tenants /\ i \in {1, 2} /\ o.queue[i] = queue[i + 1]
      BY <2>1, <2>3, SMTT(30)
    <3>2. CASE i = c
      <4>1. i + 1 = cursor
        BY <2>6, <3>2
      <4>2. p.queue[i] = Tail(q) /\ queue'[i + 1] = Tail(q)
        BY <1>1, <2>1, <2>3, <2>6, <2>9, <3>1, <3>2, <4>1, Zenon
      <4>5. visitOpen'[i + 1] = (visitOpen[cursor] /\ Tail(queue[cursor]) # <<>>)
        BY <1>1, <2>3, <4>1, Zenon
      <4>3. CASE Tail(q) = <<>>
        <5>1. p.deficit[i] = 0
          BY <2>1, <2>9, <3>1, <3>2, <4>3
        <5>4. p.open[i] = FALSE
          BY <2>1, <2>9, <3>1, <3>2, <4>3
        <5>2. deficit'[i + 1] = 0
          BY <1>1, <2>3, <2>6, <4>1, <4>3
        <5>3. visitOpen'[i + 1] = FALSE
          BY <2>6, <4>3, <4>5, Zenon
        <5> QED
          BY <4>2, <5>1, <5>2, <5>3, <5>4, Zenon
      <4>4. CASE Tail(q) # <<>>
        <5>1. p.deficit[i] = Credit(o, c) - workload.work[Head(q)]
          BY <2>1, <2>9, <3>1, <3>2, <4>4
        <5>5. p.open[i] = TRUE
          BY <2>1, <2>9, <3>1, <3>2, <4>4, SMTT(30)
        <5>2. deficit'[i + 1] = deficit[cursor] - admission[head].work
          BY <1>1, <2>3, <2>6, <4>1, <4>4
        <5>3. visitOpen'[i + 1] = TRUE
          <6>1. visitOpen[cursor] = TRUE
            BY <2>1, <2>3
          <6> QED
            BY <2>6, <4>4, <4>5, <6>1, Zenon
        <5>4. deficit'[i + 1] = p.deficit[i]
          BY <2>1, <2>5, <5>1, <5>2
        <5> QED
          BY <4>2, <5>3, <5>4, <5>5, Zenon
      <4> QED
        BY <4>3, <4>4
    <3>3. CASE i # c
      <4>1. i + 1 # cursor
        BY <2>6, <3>1, <3>3
      <4>2. p.queue[i] = o.queue[i] /\ queue'[i + 1] = queue[i + 1]
        BY <1>1, <2>1, <2>3, <2>6, <2>9, <3>1, <3>3, <4>1, Zenon
      <4>3. p.deficit[i] = o.deficit[i] /\ p.open[i] = o.open[i]
        BY <2>1, <2>9, <3>1, <3>3
      <4>4. deficit'[i + 1] = deficit[i + 1] /\ visitOpen'[i + 1] = visitOpen[i + 1]
        BY <1>1, <2>3, <3>1, <4>1
      <4> QED
        BY <2>1, <2>5, <3>1, <3>3, <4>2, <4>3, <4>4
    <3> QED
      BY <3>2, <3>3
  <2>12. Pending' = {head} /\ head \in Service
    <3>1. head \in Service /\ head \in expiry /\ head \in Requests /\ Pending = {}
      BY <1>1, <1>3, HeadFacts, PumpFacts
    <3>2. head \notin answered /\ head \notin served
      BY <3>1, ResultFacts
    <3>3. served' = served \cup {head}
      BY <1>1, <3>1, <3>2, Resolved
    <3>4. head \notin ToSet(observed)
      <4>1. UpstreamInv
        BY DEF Inv
      <4> QED
        BY <3>1, <3>2, <4>1 DEF UpstreamInv
    <3> QED
      BY <3>1, <3>3, <3>4 DEF Pending
  <2>13. k + 1 \in 0..maximumVisits /\ p = oracleAfter[k + 1] /\ pc' # "serve"
    BY <1>1, <2>1, <2>4, SMTT(30)
  <2>14. \E x \in Service : Pending' = {x} /\ p.trace = Append(observed', x)
    BY <2>1, <2>6, <2>9, <2>12
  <2>15. p.queue[1] = queue'[2] /\ p.queue[2] = queue'[3]
    <3>1. 1 \in 1..2 /\ 2 \in 1..2 /\ 1 + 1 = 2 /\ 2 + 1 = 3
      OBVIOUS
    <3> QED
      BY <2>11, <3>1
  <2> QED
    BY <2>2, <2>10, <2>11, <2>13, <2>14, <2>15, SimFrom
<1> QED
  BY <1>2, <1>3

(* What it does to the rest *)
LEMMA ServeKeeps ==
  ASSUME IInv, IInv', Inv, now < MaxTime, UNCHANGED <<driver, wire>>, UNCHANGED <<outside, accepting, command>>, Serve
  PROVE  Inv'
<1>1. /\ ServedInv /\ AnswerInv /\ UpstreamInv /\ ControlInv /\ SettledInv /\ ConsumedInv /\ OrderInv
  BY DEF Inv
<1>2. UNCHANGED <<workload, stage, step, todo, expectation, order, plan, observed, counts>>
  BY DEF driver
<1>3. UNCHANGED <<handler, answer, call, released, arrivals, seenUpstream, issue>>
  BY DEF wire
<1>4. UNCHANGED <<now, ctxDone, admission, deadline, source, accepting, cmd, wake>>
  BY DEF outside, command
<1>5. /\ pc = "serve" /\ current # <<>> /\ pc' = "notify"
      /\ expiry' = expiry \ {head} /\ inflight' = {head} /\ resolve(head, Dispatched)
      /\ UNCHANGED <<seq, cause, terminal, entries>>
      /\ cursor' = IF Tail(queue[cursor]) = <<>> THEN (IF cursor = N THEN 1 ELSE cursor + 1) ELSE cursor
      /\ queue' = [queue EXCEPT ![cursor] = Tail(@)]
  BY ServeEffect
<1>6. PICK r \in Requests : r = head
  BY <1>5, HeadFacts
<1>7. /\ r \in expiry /\ kind[r] \in {"control", "initial", "late"} /\ (r = control \/ terminal[control] # "none")
      /\ r = control => expiry = {control} /\ cursor = 1
  <2>1. r \in expiry
    BY <1>5, <1>6, HeadFacts
  <2>2. kind[r] \in {"control", "initial", "late"} /\ (r = control \/ terminal[control] # "none")
    BY <1>5, <2>1, PumpFacts
  <2>3. ASSUME r = control PROVE expiry = {control} /\ cursor = 1
    <3>1. terminal[control] = "none"
      BY <1>5, <2>1, <2>3, PumpFacts, Setup
    <3> QED
      BY <1>5, <3>1, PumpFacts, HeadFacts
  <2> QED
    BY <2>1, <2>2, <2>3
<1>8. r \notin answered /\ handler[r] = "waiting" /\ answer[r] = "none"
  BY <1>7, ResultFacts, QueuedFacts
<1>9. answered' = answered \cup {r} /\ served' = served \cup {r} /\ expired' = expired /\ canceled' = canceled
  <2>1. Dispatched # Expired /\ Dispatched # Canceled
    BY DEF Dispatched, Expired, Canceled, Decision
  <2> QED
    BY <1>5, <1>6, <1>8, <2>1, Resolved
<1>10. settled' = settled /\ launched' = launched /\ passed' = passed /\ consumed' = consumed /\ job' = job
  BY <1>2, SamePosition
<1>11. CmdInv'
  BY <1>4, <1>5, PumpCmd
<1>12. ServedInv'
  BY <1>1, <1>3, <1>4, <1>5, <1>6, <1>7, <1>8, <1>9 DEF ServedInv
<1>13. AnswerInv'
  BY <1>1, <1>3, <1>4, <1>8, <1>9 DEF AnswerInv
<1>14. UpstreamInv'
  BY <1>1, <1>2, <1>3, <1>8, <1>9 DEF UpstreamInv
<1>15. ControlInv'
  <2>1. ASSUME control \in inflight' PROVE cursor' = 2 /\ \A t \in Tenants : deficit'[t] = 0 /\ ~visitOpen'[t]
    <3>1. r = control /\ expiry = {control} /\ cursor = 1 /\ expiry' = {}
      BY <1>5, <1>6, <1>7, <2>1
    <3>2. ASSUME NEW t \in Tenants PROVE queue'[t] = <<>>
      <4>1. ToSet(queue'[t]) = {}
        BY <3>1 DEF IInv, DataInv, BooksAgree
      <4>2. queue'[t] \in Seq(Requests) /\ IsInjective(queue'[t])
        BY DEF IInv, DataInv, TypeData, BooksAgree
      <4> QED
        BY <4>1, <4>2, InjectiveLength
    <3>3. \A t \in Tenants : deficit'[t] = 0 /\ ~visitOpen'[t]
      BY <3>2 DEF IInv, DataInv, CreditBounded
    <3>4. 1 \in Tenants /\ N = 4 /\ DOMAIN queue = Tenants
      BY Setup DEF IInv, DataInv, TypeData
    <3>5. Tail(queue[cursor]) = <<>>
      BY <1>5, <3>1, <3>2, <3>4
    <3> QED
      BY <1>5, <3>1, <3>3, <3>4, <3>5
  <2> QED
    BY <1>1, <1>2, <1>3, <1>5, <2>1 DEF ControlInv, AtBarrier
<1>16. SettledInv'
  BY <1>1, <1>4, <1>5, <1>6, <1>7, <1>9, <1>10, Setup DEF SettledInv
<1>17. ConsumedInv'
  BY <1>1, <1>2, <1>3, <1>9, <1>10 DEF ConsumedInv
<1>18. OrderInv'
  BY <1>1, <1>2, <1>5, <1>10 DEF OrderInv
<1>19. SimInv'
  BY <1>2, SimServe
<1> QED
  BY <1>4, <1>11, <1>12, <1>13, <1>14, <1>15, <1>16, <1>17, <1>18, <1>19, OwnerFrame

(* The pump looks whether there is anything to do. *)
LEMMA EnterKeeps ==
  ASSUME IInv, Inv, UNCHANGED <<driver, wire>>, UNCHANGED <<outside, accepting, command>>, EnterPump
  PROVE  Inv'
<1>1. /\ pc = "pump" /\ pc' \in {"visit", "notify"}
      /\ pc' = "visit" => ~saturated(counters) /\ counters[Global].queuedCount # 0
  BY DEF EnterPump
<1>2. /\ UNCHANGED <<seq, cause, result, terminal, entries, queue, expiry, inflight, deficit, visitOpen, cursor>>
      /\ UNCHANGED <<now, ctxDone, admission, deadline, source, accepting, cmd, wake, order, workload, observed>>
  BY DEF EnterPump, marks, books, drr, outside, command, driver
<1>3. ASSUME pc' = "visit" PROVE inflight = {} /\ expiry # {}
  <2>1. Global \in Scopes /\ Charged(Global, expiry) = expiry /\ Charged(Global, inflight) = inflight
    BY Setup DEF Charged, Charges
  <2>2. IsFiniteSet(inflight) /\ inflight \subseteq Requests
    BY ResultFacts, Setup, FS_Subset
  <2>3. counters[Global].queuedCount = Cardinality(expiry) /\ counters[Global].inflightCount = Cardinality(inflight)
    BY <2>1 DEF IInv, DataInv, AccountingExact
  <2>4. expiry # {}
    BY <1>1, <1>3, <2>3, FS_EmptySet
  <2>5. counters[Global].inflightCount <= 1 /\ counters[Global].inflightCount # 1
    BY <1>1, <1>3, <2>1, Setup DEF IInv, DataInv, LimitsHold, saturated
  <2>6. Cardinality(inflight) \in Nat
    BY <2>2, FS_CardinalityType
  <2>7. Cardinality(inflight) = 0
    BY <2>3, <2>5, <2>6
  <2> QED
    BY <2>2, <2>4, <2>7, FS_EmptySet
<1>4. CmdInv'
  BY <1>1, <1>2, <1>3, PumpCmd
<1>5. SimInv'
  BY <1>1, <1>2, SimFrames DEF Inv
<1>6. \A x \in inflight : handler[x] # "done"
  BY <1>1, ResultFacts, NoFinish
<1> QED
  BY <1>1, <1>2, <1>3, <1>4, <1>5, <1>6, Quiet

(* The steps of a pump that dispatch nothing *)
LEMMA SweepsOn ==
  ASSUME IInv, Inv, now < MaxTime, UNCHANGED <<driver, wire>>, UNCHANGED <<outside, accepting, command>>,
         SkipEmpty \/ OpenVisit \/ LeaveTenant \/ NotFunded \/ EndSweep
  PROVE  Inv'
<1>1. pc \in {"visit", "serve"} /\ pc' \in {"visit", "serve", "notify"}
  BY DEF SkipEmpty, OpenVisit, LeaveTenant, NotFunded, EndSweep, Visiting, NextTenant, LeavePump
<1>2. UNCHANGED <<seq, cause, result, terminal, entries, queue, expiry, inflight>>
  BY DEF SkipEmpty, OpenVisit, LeaveTenant, NotFunded, EndSweep, marks, books
<1>3. UNCHANGED <<now, ctxDone, admission, deadline, source, accepting, cmd, wake, order, workload, observed>>
  BY DEF outside, command, driver
<1>4. inflight = {} /\ expiry # {} /\ counters[Global].queuedCount # 0
  BY <1>1, PumpFacts
<1>5. CmdInv'
  BY <1>1, <1>2, <1>3, <1>4, PumpCmd
<1>6. SimInv'
  <2>1. CASE SkipEmpty
    <3>1. pc = "visit" /\ pc' = "visit" /\ current = <<>> /\ advance
      BY <2>1 DEF SkipEmpty, Visiting, NextTenant
    <3>2. cursor \in Tenants /\ deficit \in [Tenants -> Nat] /\ visitOpen \in [Tenants -> BOOLEAN]
      BY DEF IInv, DataInv, TypeData, LoopInv, TypeLoop
    <3>3. deficit[cursor] = 0 /\ ~visitOpen[cursor]
      BY <3>1, <3>2 DEF IInv, DataInv, CreditBounded, current
    <3>4. deficit' = deficit
      BY <2>1, <3>2, <3>3 DEF SkipEmpty
    <3>5. visitOpen' = visitOpen
      BY <2>1, <3>2, <3>3 DEF SkipEmpty
    <3> QED
      BY <1>2, <1>3, <3>1, <3>4, <3>5, SimSkip
  <2>2. CASE OpenVisit
    BY <1>3, <2>2, SimOpen
  <2>3. CASE LeaveTenant
    <3>1. pc = "serve" /\ (current # <<>> => ~tenantFits)
      BY <2>3 DEF LeaveTenant
    <3>2. current = <<>>
      BY <3>1, HeadFacts
    <3>3. terminal[control] = "none"
      BY <3>1, <3>2, InsideVisit
    <3> QED
      BY <1>2, <3>3, SimFrames
  <2>4. CASE NotFunded
    BY <1>3, <2>4, SimShort
  <2>5. CASE EndSweep
    <3>1. pc = "visit" /\ pc' \in {"visit", "notify"} /\ UNCHANGED <<cursor, deficit, visitOpen>>
      BY <1>4, <2>5 DEF EndSweep, LeavePump
    <3> QED
      BY <1>2, <1>3, <3>1, SimFrames DEF Inv
  <2> QED
    BY <2>1, <2>2, <2>3, <2>4, <2>5
<1> QED
  BY <1>2, <1>3, <1>4, <1>5, <1>6, Quiet

(* All of the pump *)
LEMMA PumpKeeps ==
  ASSUME IInv, IInv', Inv, now < MaxTime, UNCHANGED <<driver, wire>>, Pump
  PROVE  Inv'
<1>1. UNCHANGED <<outside, accepting, command>>
  BY DEF Pump
<1>2. ~DropHead
  <2> SUFFICES ASSUME DropHead PROVE FALSE
    OBVIOUS
  <2>1. pc \in {"visit", "serve"} /\ current # <<>> /\ headIsDead
    BY DEF DropHead, Visiting
  <2> QED
    BY <2>1, HeadFacts
<1>3. ~Barrier
  <2> SUFFICES ASSUME Barrier PROVE FALSE
    OBVIOUS
  <2>1. pc \in {"visit", "serve"} /\ current # <<>> /\ ~globalFits
    BY DEF Barrier, Servable
  <2> QED
    BY <2>1, HeadFacts
<1>4. EnterPump \/ Serve \/ (SkipEmpty \/ OpenVisit \/ LeaveTenant \/ NotFunded \/ EndSweep)
  BY <1>2, <1>3 DEF Pump
<1> QED
  BY <1>1, <1>4, EnterKeeps, ServeKeeps, SweepsOn

-----------------------------------------------------------------------------
(* The owner's other steps *)

(* A command that changes none of the books *)
LEMMA IdleHandled ==
  ASSUME IInv, Inv, UNCHANGED <<driver, wire>>, UNCHANGED outside, Handled,
         pc = "drain" \/ (pc = "busy" /\ cmd.op \notin {"snapshot", "finish"}),
         UNCHANGED <<seq, cause, result, terminal, entries, queue, expiry, inflight, deficit, visitOpen, cursor, accepting>>
  PROVE  Inv'
<1>1. UNCHANGED <<now, ctxDone, admission, deadline, source, order, workload, observed>>
  BY DEF outside, driver
<1>2. pc' = "pump"
  BY DEF Handled
<1>3. stage \in {"shutdown", "reported"} => entries' = {}
  BY DEF Inv, CmdInv
<1>4. CmdInv'
  BY <1>1, <1>3, HandledCmd
<1>5. SimInv'
  BY <1>1, <1>2, SimFrames DEF Inv
<1>6. \A x \in inflight : handler[x] # "done"
  BY ResultFacts, NoFinish
<1> QED
  BY <1>1, <1>2, <1>4, <1>5, <1>6, Quiet

(* Only deadline jobs are ever late. *)
LEMMA ExpireKeeps ==
  ASSUME IInv, Inv, now < MaxTime, UNCHANGED <<driver, wire>>, UNCHANGED outside, NEW r \in Requests, ExpireReady(r)
  PROVE  Inv'
<1>1. /\ pc = "busy" /\ r \in expiry /\ deadline[r] <= wake /\ Drop(r, deadlineDecision(r))
      /\ UNCHANGED <<accepting, pc, cmd, wake>>
  BY DEF ExpireReady, isLate, isTop, command
<1>2. UNCHANGED <<now, ctxDone, admission, deadline, source, stage, step, handler>>
  BY DEF outside, driver, wire
<1>3. deadline[r] # 0 /\ r \notin answered
  BY <1>1, ResultFacts
<1>4. kind[r] = "deadline"
  <2>1. wake \in Nat /\ now \in Nat /\ MaxTime \in Nat /\ deadline[r] \in Nat /\ wake <= now
    BY Setup DEF IInv, LoopInv, TypeLoop, Inv, CmdInv
  <2>2. deadline[r] # MaxTime
    BY <1>1, <2>1
  <2> QED
    BY <1>3, <2>2, QueuedFacts
<1>5. deadlineDecision(r) = Expired
  <2>1. source[r] = "queue" /\ ~ctxDone[r]
    BY <1>3, <1>4, QueuedFacts DEF Inv, ServedInv
  <2> QED
    BY <2>1 DEF deadlineDecision
<1>6. entries' = entries \ {r} /\ inflight' = inflight /\ expiry' = expiry \ {r}
  BY <1>1 DEF Drop, removeQueued
<1>7. CmdInv'
  BY <1>1, <1>2, <1>6 DEF Inv, CmdInv
<1> QED
  BY <1>1, <1>4, <1>5, <1>7, DropKeeps

(* Only cancelled jobs are ever cancelled. *)
LEMMA CancelKeeps ==
  ASSUME IInv, Inv, UNCHANGED <<driver, wire>>, UNCHANGED outside, NEW r \in Requests, CancelQueued(r) \/ CancelOther(r)
  PROVE  Inv'
<1>1. pc = "busy" /\ cmd.op = "cancel" /\ cmd.id = r /\ Handled /\ UNCHANGED accepting
  BY DEF CancelQueued, CancelOther, Handling
<1>2. ctxDone[r] /\ kind[r] = "cancel"
  BY <1>1 DEF Inv, CmdInv, ServedInv
<1>3. r \notin inflight
  BY <1>2, ResultFacts DEF Inv, ServedInv
<1>4. CASE CancelQueued(r)
  <2>1. r \in expiry
    BY <1>3, <1>4, ResultFacts DEF CancelQueued
  <2>2. Drop(r, Canceled) /\ entries' = entries \ {r} /\ pc' = "pump"
    BY <1>1, <1>4 DEF CancelQueued, Drop, Handled
  <2>3. UNCHANGED now
    BY DEF outside
  <2>4. stage \in {"shutdown", "reported"} => entries' = {}
    BY <2>2 DEF Inv, CmdInv
  <2>5. CmdInv'
    BY <1>1, <2>3, <2>4, HandledCmd
  <2>6. \A x \in inflight : handler[x] # "done"
    BY <1>1, ResultFacts, NoFinish
  <2> QED
    BY <1>2, <2>1, <2>2, <2>5, <2>6, DropKeeps
<1>5. CASE CancelOther(r)
  <2>1. r \notin entries
    BY <1>3, <1>5, ResultFacts DEF CancelOther, IInv, DataInv, BooksAgree
  <2>2. cause' = [cause EXCEPT ![r] = cause[r]] /\ cause \in [Requests -> {"none", "client", "shutdown"}]
    BY <1>5, <2>1 DEF CancelOther, IInv, DataInv, TypeData
  <2>3. cause' = cause
    BY <2>2
  <2>4. UNCHANGED <<seq, result, terminal, entries, queue, expiry, inflight, deficit, visitOpen, cursor>>
    BY <1>5 DEF CancelOther, books, drr
  <2> QED
    BY <1>1, <2>3, <2>4, IdleHandled
<1> QED
  BY <1>4, <1>5

(* All of handle, but for the snapshots *)
LEMMA HandleKeeps ==
  ASSUME IInv, Inv, now < MaxTime, UNCHANGED <<driver, wire>>, Handle, ~Handling("snapshot")
  PROVE  Inv'
<1>1. UNCHANGED outside
  BY DEF Handle
<1>2. CmdInv
  BY DEF Inv
<1>3. CASE NothingToHandle
  <2>1. pc = "busy" /\ cmd.op = "timer" /\ Handled
    BY <1>3 DEF NothingToHandle, Handling
  <2>2. UNCHANGED <<seq, cause, result, terminal, entries, queue, expiry, inflight, deficit, visitOpen, cursor, accepting>>
    BY <1>3 DEF NothingToHandle, marks, books, drr
  <2> QED
    BY <1>1, <2>1, <2>2, IdleHandled
<1>4. CASE BeginDrain
  <2>1. pc = "busy" /\ cmd.op = "drain" /\ pc' = "drain" /\ accepting' = FALSE
    BY <1>2, <1>4 DEF BeginDrain, Handling, CmdInv
  <2>2. UNCHANGED <<seq, cause, result, terminal, entries, queue, expiry, inflight, deficit, visitOpen, cursor, cmd, wake>>
    BY <1>4 DEF BeginDrain, marks, books, drr, command
  <2>3. UNCHANGED <<now, ctxDone, admission, deadline, source, order, workload, observed, stage, step>>
    BY <1>1 DEF outside, driver
  <2>4. CmdInv'
    BY <1>2, <2>1, <2>2, <2>3 DEF CmdInv
  <2>5. SimInv'
    BY <2>1, <2>2, <2>3, SimFrames DEF Inv
  <2>6. \A x \in inflight : handler[x] # "done"
    BY <2>1, ResultFacts, NoFinish
  <2> QED
    BY <2>1, <2>2, <2>3, <2>4, <2>5, <2>6, Quiet
<1>5. CASE DrainDone
  <2>1. pc = "drain" /\ Handled
    BY <1>2, <1>5 DEF DrainDone, CmdInv
  <2>2. UNCHANGED <<seq, cause, result, terminal, entries, queue, expiry, inflight, deficit, visitOpen, cursor, accepting>>
    BY <1>5 DEF DrainDone, marks, books, drr
  <2> QED
    BY <1>1, <2>1, <2>2, IdleHandled
<1>6. ~ForceCancelInflight /\ ~Stop
  BY <1>2 DEF ForceCancelInflight, Stop, Handling, CmdInv
<1>7. ASSUME NEW r \in Requests PROVE ~DrainNext(r)
  <2> SUFFICES ASSUME DrainNext(r) PROVE FALSE
    OBVIOUS
  <2>1. PICK t \in Tenants : queue[t] # <<>>
    BY DEF DrainNext
  <2>2. queue[t] \in Seq(Requests) /\ IsInjective(queue[t]) /\ ToSet(queue[t]) \subseteq expiry
    BY DEF IInv, DataInv, TypeData, BooksAgree
  <2>3. expiry = {}
    BY <1>2, ResultFacts DEF DrainNext, CmdInv
  <2> QED
    BY <2>1, <2>2, <2>3, InjectiveLength
<1>8. ASSUME NEW r \in Requests,
             ExpireReady(r) \/ Refuse(r) \/ Enqueue(r) \/ CancelQueued(r) \/ CancelOther(r) \/ FinishEntry(r)
      PROVE  Inv'
  BY <1>1, <1>8, ExpireKeeps, RefuseKeeps, EnqueueKeeps, CancelKeeps, FinishKeeps
<1> QED
  BY <1>3, <1>4, <1>5, <1>6, <1>7, <1>8 DEF Handle

(* The end of a pump: the timer is set again. *)
LEMMA NotifyKeeps ==
  ASSUME IInv, Inv, UNCHANGED <<driver, wire>>, Notify
  PROVE  Inv'
<1>1. pc = "notify" /\ pc' = "select"
  BY DEF Notify
<1>2. /\ UNCHANGED <<seq, cause, result, terminal, entries, queue, expiry, inflight, deficit, visitOpen, cursor, cmd, wake>>
      /\ UNCHANGED <<now, ctxDone, admission, deadline, source, accepting, order, workload, observed, stage, step>>
  BY DEF Notify, marks, books, drr, command, outside, driver
<1>3. CmdInv'
  BY <1>1, <1>2 DEF Inv, CmdInv
<1>4. SimInv'
  BY <1>1, <1>2, SimFrames DEF Inv
<1>5. \A x \in inflight : handler[x] # "done"
  BY <1>1, ResultFacts, NoFinish
<1> QED
  BY <1>1, <1>2, <1>3, <1>4, <1>5, Quiet

(* The owner wakes up, for anything but a finish or a snapshot. *)
LEMMA WakeKeeps ==
  ASSUME IInv, Inv, UNCHANGED <<driver, wire>>, NEW c, WakeUp(c), c.op \in {"timer", "admit", "cancel"},
         c.op = "cancel" => ctxDone[c.id]
  PROVE  Inv'
<1>1. pc = "select" /\ pc' = "busy" /\ cmd' = c /\ wake' = now /\ now \in Nat
  BY DEF WakeUp, IInv, LoopInv, TypeLoop
<1>2. /\ UNCHANGED <<seq, cause, result, terminal, entries, queue, expiry, inflight, deficit, visitOpen, cursor>>
      /\ UNCHANGED <<now, ctxDone, admission, deadline, source, accepting, order, workload, observed, stage, step>>
  BY DEF WakeUp, marks, books, drr, outside, driver
<1>3. CmdInv'
  BY <1>1, <1>2 DEF Inv, CmdInv
<1>4. SimInv'
  BY <1>1, <1>2, SimFrames DEF Inv
<1>5. \A x \in inflight : handler[x] # "done"
  BY <1>1, ResultFacts, NoFinish
<1> QED
  BY <1>1, <1>2, <1>3, <1>4, <1>5, Quiet

(* Time passes. *)
LEMMA TickKeeps ==
  ASSUME IInv, Inv, UNCHANGED <<driver, wire>>, Tick
  PROVE  Inv'
<1>1. now \in Nat /\ wake \in Nat /\ now' = now + 1
  BY DEF Tick, IInv, LoopInv, TypeLoop
<1>2. /\ UNCHANGED <<seq, cause, result, terminal, entries, queue, expiry, inflight, deficit, visitOpen, cursor, pc, cmd, wake>>
      /\ UNCHANGED <<ctxDone, admission, deadline, source, accepting, order, workload, observed, stage, step, handler>>
  BY DEF Tick, owner, marks, books, drr, command, driver, wire
<1>3. CmdInv'
  BY <1>1, <1>2 DEF Inv, CmdInv
<1>4. SimInv'
  BY <1>1, <1>2, SimFrames DEF Inv
<1>5. control \in inflight => pc' \notin {"visit", "serve"}
  BY <1>2 DEF Inv, ControlInv
<1> QED
  BY <1>2, <1>3, <1>4, <1>5, Quiet

(* The owner, and time *)
LEMMA OwnerKeeps ==
  ASSUME IInv, IInv', Inv, now < MaxTime, Owner \/ TimePasses
  PROVE  Inv'
<1>1. UNCHANGED <<driver, wire>>
  BY DEF Owner, TimePasses
<1>2. CASE Owner
  <2>1. Handle \/ Pump \/ Notify
    BY <1>2 DEF Owner, Run
  <2>2. ~Handling("snapshot")
    BY <1>2 DEF Owner
  <2> QED
    BY <1>1, <2>1, <2>2, HandleKeeps, PumpKeeps, NotifyKeeps
<1>3. CASE TimePasses
  BY <1>1, <1>3, TickKeeps DEF TimePasses
<1> QED
  BY <1>2, <1>3

-----------------------------------------------------------------------------
(* The gateway's handlers, the upstream and the clients *)

(* What to show of a step of theirs *)
LEMMA WireFrame ==
  ASSUME Inv, UNCHANGED driver, UNCHANGED <<result, terminal, queue, expiry, seq, cursor, deficit, visitOpen>>,
         pc' = "serve" <=> pc = "serve",
         TypeS', LaunchInv', EntryInv', ServedInv', AnswerInv', CallInv', CmdInv', UpstreamInv', ControlInv',
         SettledInv', ConsumedInv', HoldInv'
  PROVE  Inv'
<1>1. UNCHANGED <<workload, stage, step, todo, expectation, order, plan, observed, counts>>
  BY DEF driver
<1>2. /\ PosInv /\ ExpectInv /\ OrderInv /\ CountInv /\ PlanInv /\ SimInv
  BY DEF Inv
<1>3. PosInv' /\ ExpectInv' /\ OrderInv' /\ CountInv' /\ PlanInv'
  BY <1>1, <1>2, Frames
<1>4. SimInv'
  BY <1>1, <1>2, SimFrames
<1> QED
  BY <1>3, <1>4 DEF Inv

(* A handler moves on *)
LEMMA HandlerMoves ==
  ASSUME Inv, UNCHANGED driver, NEW r \in Requests, handler[r] # "none",
         NEW g \in {"slots", "waiting", "upstream", "held", "streaming", "written", "done"},
         handler' = [handler EXCEPT ![r] = g]
  PROVE  /\ handler' \in [Requests -> {"none", "sent", "slots", "waiting", "upstream", "held", "streaming", "written", "done"}]
         /\ LaunchInv'
         /\ handler'[r] = g /\ \A x \in Requests : x # r => handler'[x] = handler[x]
         /\ \A S : r \notin S => Holding(S)' = Holding(S)
         /\ g \in {"slots", "waiting"} => \A S : r \in S => Holding(S)' = Holding(S) \cup {r}
         /\ g \notin {"slots", "waiting"} => \A S : Holding(S)' = Holding(S) \ {r}
<1>1. TypeS /\ LaunchInv /\ UNCHANGED <<stage, step, todo>>
  BY DEF Inv, driver
<1>2. handler \in [Requests -> {"none", "sent", "slots", "waiting", "upstream", "held", "streaming", "written", "done"}]
  BY <1>1 DEF TypeS
<1>3. handler'[r] = g /\ \A x \in Requests : x # r => handler'[x] = handler[x]
  BY <1>2
<1>4. launched' = launched
  BY <1>1, SamePosition
<1>5. LaunchInv'
  BY <1>1, <1>3, <1>4 DEF LaunchInv
<1>6. \A x : x # r => handler'[x] = handler[x]
  OBVIOUS
<1> QED
  BY <1>2, <1>3, <1>5, <1>6 DEF Holding

(* The command the owner is at is not affected. *)
LEMMA HandlerCmd ==
  ASSUME IInv, Inv, UNCHANGED <<stage, step, now, ctxDone, accepting, pc, cmd, wake, entries, inflight, expiry>>,
         \A x \in Requests : handler[x] = "done" => handler'[x] = "done"
  PROVE  CmdInv'
<1>1. pc = "busy" /\ cmd.op = "finish" => cmd.id \in Requests
  BY CommandTypes DEF IInv, LoopInv, TypeLoop
<1> QED
  BY <1>1 DEF Inv, CmdInv

(* A probe on its way in: the driver waits for it, and every service job is *)
(* in its queue.                                                            *)
LEMMA ProbeFinds ==
  ASSUME IInv, Inv, NEW r \in Requests, handler[r] = "sent", kind[r] \in {"reject", "global"}
  PROVE  /\ \A x \in Service : handler[x] = "waiting"
         /\ Service \subseteq Requests
<1>1. PosInv /\ LaunchInv /\ ConsumedInv /\ CallInv /\ AnswerInv
  BY DEF Inv
<1>2. r \in launched /\ r \notin consumed
  <2>1. r \in launched /\ answer[r] = "none"
    BY <1>1 DEF LaunchInv, AnswerInv
  <2>2. call[r] \notin {"rejected", "globalRejected"}
    BY <1>1, <2>1 DEF CallInv
  <2> QED
    BY <1>1, <2>1, <2>2 DEF ConsumedInv
<1>3. r \notin settled
  <2>1. awaits[kind[r]] = kind[r] /\ passed \subseteq consumed
    BY DEF awaits, consumed
  <2>2. r \in settled => r \in passed
    BY <2>1 DEF settled, passed
  <2> QED
    BY <1>2, <2>1, <2>2
<1>4. stage = kind[r]
  BY <1>1, <1>2, <1>3, Ranks
<1>5. rank[stage] >= 8 /\ rank[stage] < 10
  BY <1>4 DEF rank
<1>6. released[control] = "no"
  BY <1>5 DEF Inv, ControlInv
<1>7. served \subseteq {control} /\ Service \subseteq expiry \cup served
  BY <1>5, <1>6, ControlHeld, Filling
<1>8. Service \subseteq expiry /\ Service \subseteq Requests
  BY <1>7, Setup
<1>9. ASSUME NEW x \in Service PROVE handler[x] = "waiting"
  <2>1. x \in Requests /\ deadline[x] # 0 /\ x \notin answered
    BY <1>8, ResultFacts
  <2> QED
    BY <2>1, QueuedFacts
<1> QED
  BY <1>8, <1>9

(* The handlers of a set of requests hold no more than so many slots, and   *)
(* all of them when so many wait.                                           *)
LEMMA AllHeld ==
  ASSUME NEW S, IsFiniteSet(S), NEW T \in SUBSET S, \A x \in T : handler[x] = "waiting",
         NEW n \in Nat, Cardinality(T) = n, Cardinality(Holding(S)) <= n
  PROVE  Cardinality(Holding(S)) = n
<1>1. T \subseteq Holding(S) /\ Holding(S) \subseteq S
  BY DEF Holding
<1>2. IsFiniteSet(Holding(S)) /\ IsFiniteSet(T)
  BY <1>1, FS_Subset
<1>3. Cardinality(T) <= Cardinality(Holding(S)) /\ Cardinality(Holding(S)) \in Nat
  BY <1>1, <1>2, FS_Subset, FS_CardinalityType
<1> QED
  BY <1>3

(* A probe is turned away by the limit it is meant to probe. *)
LEMMA ProbeRefused ==
  ASSUME IInv, Inv, NEW r \in Requests, handler[r] = "sent"
  PROVE  /\ kind[r] = "reject" => Cardinality(Holding(OfTenant(tenant[r]))) = QueueLimits[tenant[r]].count
         /\ kind[r] = "global" => /\ Cardinality(Holding(OfTenant(tenant[r]))) # QueueLimits[tenant[r]].count
                                  /\ Cardinality(Holding(Requests)) = QueueLimits[Global].count
<1>1. HoldInv
  BY DEF Inv
<1>2. \A s \in Scopes : QueueLimits[s].count \in Nat /\ QueueLimits[s].count >= 1
  BY ConfigAssumption DEF holdsOneMaximumRequest
<1>3. ASSUME kind[r] = "reject" PROVE Cardinality(Holding(OfTenant(tenant[r]))) = QueueLimits[tenant[r]].count
  <2>1. PICK t : t = tenant[r]
    OBVIOUS
  <2>2. t \in {2, 3} /\ t \in Tenants /\ t \in Scopes /\ t \in ToSet(ServiceTenants)
    BY <1>3, <2>1, Setup
  <2>3. PICK T : T = {x \in Service : tenant[x] = t}
    OBVIOUS
  <2>4. Cardinality(T) = QueueLimits[t].count
    BY <2>2, <2>3, WorkloadAssumption DEF validateSeededWorkload
  <2>5. OfTenant(t) \subseteq Requests /\ T \subseteq OfTenant(t) /\ \A x \in T : handler[x] = "waiting"
    BY <1>3, <2>3, ProbeFinds DEF OfTenant
  <2>6. IsFiniteSet(OfTenant(t)) /\ QueueLimits[t].count \in Nat /\ Cardinality(Holding(OfTenant(t))) <= QueueLimits[t].count
    BY <1>1, <1>2, <2>2, <2>5, Setup, FS_Subset DEF HoldInv
  <2> QED
    BY <2>1, <2>4, <2>5, <2>6, AllHeld
<1>4. ASSUME kind[r] = "global" PROVE Cardinality(Holding(Requests)) = QueueLimits[Global].count
  <2>1. Cardinality(Service) = QueueLimits[Global].count
    BY SetupAssumption DEF saturationAdmissionConfig
  <2>2. Service \subseteq Requests /\ \A x \in Service : handler[x] = "waiting"
    BY <1>4, ProbeFinds
  <2>3. IsFiniteSet(Requests) /\ QueueLimits[Global].count \in Nat
    BY <1>2, Setup
  <2>4. Cardinality(Holding(Requests)) <= QueueLimits[Global].count
    BY <1>1 DEF HoldInv
  <2> QED
    BY <2>1, <2>2, <2>3, <2>4, AllHeld
<1>5. ASSUME kind[r] = "global" PROVE Cardinality(Holding(OfTenant(tenant[r]))) # QueueLimits[tenant[r]].count
  <2>1. tenant[r] = 4 /\ 4 \in Scopes
    BY <1>5, Setup
  <2>2. ASSUME NEW x \in Requests, tenant[x] = 4 PROVE x = r
    <3>1. kind[x] = "global"
      BY <2>2, Setup
    <3> QED
      BY <1>5, <3>1, Setup
  <2>3. Holding(OfTenant(4)) = {}
    BY <2>2 DEF Holding, OfTenant
  <2>4. Cardinality(Holding(OfTenant(4))) = 0
    BY <2>3, FS_EmptySet
  <2> QED
    BY <1>2, <2>1, <2>4
<1> QED
  BY <1>3, <1>4, <1>5

(* A request comes in. *)
LEMMA PreDispatchKeeps ==
  ASSUME IInv, Inv, NEW r \in Requests, acquirePreDispatch(r)
  PROVE  Inv'
<1>1. /\ TypeS /\ LaunchInv /\ EntryInv /\ ServedInv /\ AnswerInv /\ CallInv /\ CmdInv /\ UpstreamInv /\ ControlInv
      /\ SettledInv /\ ConsumedInv /\ HoldInv
  BY DEF Inv
<1>2. /\ handler[r] = "sent" /\ UNCHANGED <<call, released, arrivals, seenUpstream, issue>>
      /\ UNCHANGED <<workload, stage, step, todo, expectation, order, plan, observed, counts>>
      /\ UNCHANGED driver
  BY DEF acquirePreDispatch, driver
<1>3. /\ UNCHANGED <<now, ctxDone, admission, deadline, source, seq, cause, result, terminal, entries, queue, expiry, inflight>>
      /\ UNCHANGED <<deficit, visitOpen, cursor, accepting, pc, cmd, wake>>
  BY DEF acquirePreDispatch, vars, outside, owner, marks, books, drr, command
<1>4. PICK tenantFull, globalFull \in BOOLEAN :
        /\ tenantFull <=> Cardinality(Holding(OfTenant(tenant[r]))) = QueueLimits[tenant[r]].count
        /\ globalFull <=> Cardinality(Holding(Requests)) = QueueLimits[Global].count
        /\ handler' = [handler EXCEPT ![r] = IF tenantFull \/ globalFull THEN "done" ELSE "slots"]
        /\ answer' = [answer EXCEPT ![r] = IF tenantFull THEN "tenant_capacity"
                                           ELSE IF globalFull THEN "overloaded" ELSE "none"]
  BY DEF acquirePreDispatch
<1>5. PICK g, a : /\ g = IF tenantFull \/ globalFull THEN "done" ELSE "slots"
                  /\ a = IF tenantFull THEN "tenant_capacity" ELSE IF globalFull THEN "overloaded" ELSE "none"
  OBVIOUS
<1>6. /\ \/ g = "done" /\ a \in {"tenant_capacity", "overloaded"}
         \/ g = "slots" /\ a = "none"
      /\ kind[r] = "reject" => g = "done" /\ a = "tenant_capacity"
      /\ kind[r] = "global" => g = "done" /\ a = "overloaded"
  BY <1>2, <1>4, <1>5, ProbeRefused
<1>7. handler' = [handler EXCEPT ![r] = g] /\ answer' = [answer EXCEPT ![r] = a]
  BY <1>4, <1>5
<1>8. /\ handler' \in [Requests -> {"none", "sent", "slots", "waiting", "upstream", "held", "streaming", "written", "done"}]
      /\ LaunchInv' /\ handler'[r] = g /\ \A x \in Requests : x # r => handler'[x] = handler[x]
  BY <1>2, <1>6, <1>7, HandlerMoves
<1>9. answer'[r] = a /\ \A x \in Requests : x # r => answer'[x] = answer[x]
  BY <1>1, <1>7 DEF TypeS
<1>10. TypeS'
  BY <1>1, <1>2, <1>6, <1>7, <1>8 DEF TypeS
<1>11. deadline[r] = 0 /\ r \notin answered /\ r \notin served /\ r \notin inflight /\ r \notin canceled /\ r \notin expired
       /\ terminal[r] = "none" /\ answer[r] = "none"
  <2>1. deadline[r] = 0 /\ answer[r] = "none"
    BY <1>1, <1>2 DEF EntryInv, AnswerInv
  <2>2. r \notin answered
    BY <2>1, ResultFacts
  <2> QED
    BY <2>1, <2>2, ResultFacts
<1>12. served' = served /\ expired' = expired /\ canceled' = canceled /\ answered' = answered
  BY <1>3, SameResults
<1>13. EntryInv'
  BY <1>1, <1>2, <1>3, <1>6, <1>8, <1>11 DEF EntryInv, Asked
<1>14. ServedInv'
  BY <1>1, <1>2, <1>3, <1>6, <1>8, <1>11, <1>12 DEF ServedInv
<1>15. AnswerInv'
  BY <1>1, <1>3, <1>6, <1>8, <1>9, <1>11, <1>12 DEF AnswerInv
<1>16. CallInv'
  BY <1>1, <1>2, <1>6, <1>8, <1>9, <1>11 DEF CallInv
<1>17. CmdInv'
  BY <1>2, <1>3, <1>8, HandlerCmd
<1>18. UpstreamInv'
  BY <1>1, <1>2, <1>8, <1>11, <1>12 DEF UpstreamInv
<1>19. ControlInv'
  BY <1>1, <1>2, <1>3, <1>8, Setup DEF ControlInv, AtBarrier
<1>20. SettledInv' /\ ConsumedInv'
  BY <1>1, <1>2, <1>3, Frames
<1>21. HoldInv'
  <2>1. CASE g = "done"
    <3>1. r \notin Holding(Requests) /\ \A t : r \notin Holding(OfTenant(t))
      BY <1>2 DEF Holding
    <3>2. Holding(Requests)' = Holding(Requests) \ {r}
          /\ \A t : Holding(OfTenant(t))' = Holding(OfTenant(t)) \ {r}
      BY <1>2, <1>7, <2>1, HandlerMoves DEF OfTenant
    <3>3. Holding(Requests)' = Holding(Requests) /\ \A t : Holding(OfTenant(t))' = Holding(OfTenant(t))
      BY <3>1, <3>2
    <3> QED
      BY <1>1, <3>3 DEF HoldInv
  <2>2. CASE g = "slots"
    <3>1. PICK u : u = tenant[r] /\ u \in Tenants
      BY Setup
    <3>2. r \in OfTenant(u) /\ \A t \in Tenants : t # u => r \notin OfTenant(t)
      BY <3>1 DEF OfTenant
    <3>3. /\ OfTenant(u)' = OfTenant(u) /\ Holding(Requests)' = Holding(Requests) \cup {r}
          /\ Holding(OfTenant(u))' = Holding(OfTenant(u)) \cup {r}
          /\ \A t \in Tenants : t # u => Holding(OfTenant(t))' = Holding(OfTenant(t))
      BY <1>2, <1>7, <2>2, <3>2, HandlerMoves DEF OfTenant
    <3>4. r \notin Holding(Requests) /\ r \notin Holding(OfTenant(u))
      BY <1>2 DEF Holding
    <3>5. IsFiniteSet(Holding(Requests)) /\ IsFiniteSet(Holding(OfTenant(u)))
      <4>1. Holding(Requests) \subseteq Requests /\ Holding(OfTenant(u)) \subseteq Requests
        BY DEF Holding, OfTenant
      <4> QED
        BY <4>1, Setup, FS_Subset
    <3>6. /\ Cardinality(Holding(Requests)') = Cardinality(Holding(Requests)) + 1
          /\ Cardinality(Holding(OfTenant(u))') = Cardinality(Holding(OfTenant(u))) + 1
          /\ Cardinality(Holding(Requests)) \in Nat /\ Cardinality(Holding(OfTenant(u))) \in Nat
      BY <3>3, <3>4, <3>5, FS_AddElement, FS_CardinalityType
    <3>7. ~tenantFull /\ ~globalFull
      BY <1>5, <2>2
    <3>8. /\ Cardinality(Holding(Requests)) # QueueLimits[Global].count
          /\ Cardinality(Holding(OfTenant(u))) # QueueLimits[u].count
      BY <1>4, <3>1, <3>7
    <3>9. QueueLimits[Global].count \in Nat /\ QueueLimits[u].count \in Nat
      BY <3>1, ConfigAssumption, Setup
    <3>10. /\ Cardinality(Holding(Requests)') <= QueueLimits[Global].count
           /\ Cardinality(Holding(OfTenant(u))') <= QueueLimits[u].count
      BY <1>1, <3>1, <3>6, <3>8, <3>9 DEF HoldInv
    <3>11. \A t \in Tenants : t # u => Cardinality(Holding(OfTenant(t))') <= QueueLimits[t].count
      BY <1>1, <3>3 DEF HoldInv
    <3> QED
      BY <3>10, <3>11 DEF HoldInv
  <2> QED
    BY <1>6, <2>1, <2>2
<1> QED
  BY <1>2, <1>3, <1>8, <1>10, <1>13, <1>14, <1>15, <1>16, <1>17, <1>18, <1>19, <1>20, <1>21, WireFrame

(* The slots held by others are not affected. *)
LEMMA HoldKeeps ==
  ASSUME Inv, UNCHANGED driver, NEW r \in Requests,
         NEW g \in {"waiting", "upstream", "held", "streaming", "written", "done"},
         handler[r] # "none", g = "waiting" => handler[r] = "slots",
         handler' = [handler EXCEPT ![r] = g]
  PROVE  HoldInv'
<1>1. HoldInv
  BY DEF Inv
<1>2. ASSUME NEW S \in SUBSET Requests PROVE Cardinality(Holding(S)') <= Cardinality(Holding(S)) /\ Cardinality(Holding(S)) \in Nat
                                        /\ Cardinality(Holding(S)') \in Nat
  <2>1. Holding(S)' \subseteq Holding(S)
    <3>1. CASE r \notin S
      BY <3>1, HandlerMoves
    <3>2. CASE r \in S /\ g = "waiting"
      <4>1. r \in Holding(S)
        BY <3>2 DEF Holding
      <4>2. \A T : r \in T => Holding(T)' = Holding(T) \cup {r}
        BY <3>2, HandlerMoves, Zenon
      <4>3. Holding(S)' = Holding(S) \cup {r}
        BY <3>2, <4>2
      <4> QED
        BY <4>1, <4>3
    <3>3. CASE g # "waiting"
      <4>1. g \notin {"slots", "waiting"}
        BY <3>3
      <4>2. \A T : Holding(T)' = Holding(T) \ {r}
        BY <4>1, HandlerMoves, Zenon
      <4>3. Holding(S)' = Holding(S) \ {r}
        BY <4>2
      <4> QED
        BY <4>3
    <3> QED
      BY <3>1, <3>2, <3>3
  <2>2. IsFiniteSet(Holding(S))
    <3>1. Holding(S) \subseteq Requests
      BY DEF Holding
    <3> QED
      BY <3>1, Setup, FS_Subset
  <2> QED
    BY <2>1, <2>2, FS_Subset, FS_CardinalityType
<1>3. \A s \in Scopes : QueueLimits[s].count \in Nat
  BY ConfigAssumption
<1>4. Cardinality(Holding(Requests)') <= QueueLimits[Global].count
  <2>1. Cardinality(Holding(Requests)') <= Cardinality(Holding(Requests)) /\ Cardinality(Holding(Requests)) \in Nat
        /\ Cardinality(Holding(Requests)') \in Nat
    BY <1>2
  <2>2. QueueLimits[Global].count \in Nat
    BY <1>3, Setup
  <2> QED
    BY <1>1, <2>1, <2>2 DEF HoldInv
<1>5. ASSUME NEW t \in Tenants PROVE Cardinality(Holding(OfTenant(t))') <= QueueLimits[t].count
  <2>1. OfTenant(t) \subseteq Requests
    BY DEF OfTenant
  <2>2. Cardinality(Holding(OfTenant(t))') <= Cardinality(Holding(OfTenant(t))) /\ Cardinality(Holding(OfTenant(t))) \in Nat
        /\ Cardinality(Holding(OfTenant(t))') \in Nat
    BY <1>2, <2>1 DEF OfTenant, Holding
  <2>3. QueueLimits[t].count \in Nat
    BY <1>3, Setup
  <2> QED
    BY <1>1, <2>2, <2>3 DEF HoldInv
<1> QED
  BY <1>4, <1>5 DEF HoldInv

(* A handler's request is given to the scheduler. *)
LEMMA SubmitKeeps ==
  ASSUME IInv, Inv, now < MaxTime, NEW r \in Requests, Submit(r)
  PROVE  Inv'
<1>1. /\ TypeS /\ LaunchInv /\ EntryInv /\ ServedInv /\ AnswerInv /\ CallInv /\ CmdInv /\ UpstreamInv /\ ControlInv
      /\ SettledInv /\ ConsumedInv /\ HoldInv
  BY DEF Inv
<1>2. /\ handler[r] = "slots" /\ handler' = [handler EXCEPT ![r] = "waiting"]
      /\ UNCHANGED <<answer, call, released, arrivals, seenUpstream, issue>>
      /\ UNCHANGED <<workload, stage, step, todo, expectation, order, plan, observed, counts>>
      /\ UNCHANGED driver
  BY DEF Submit, driver
<1>3. /\ UNCHANGED <<now, ctxDone, seq, cause, result, terminal, entries, queue, expiry, inflight>>
      /\ UNCHANGED <<deficit, visitOpen, cursor, accepting, pc, cmd, wake>>
  BY DEF Submit, Acquire, owner, marks, books, drr, command
<1>4. /\ handler' \in [Requests -> {"none", "sent", "slots", "waiting", "upstream", "held", "streaming", "written", "done"}]
      /\ LaunchInv' /\ handler'[r] = "waiting" /\ \A x \in Requests : x # r => handler'[x] = handler[x]
  BY <1>2, HandlerMoves
<1>5. TypeS'
  BY <1>1, <1>2, <1>4 DEF TypeS
<1>6. deadline[r] = 0 /\ r \notin answered /\ r \notin served /\ r \notin inflight /\ answer[r] = "none"
  <2>1. deadline[r] = 0 /\ answer[r] = "none"
    BY <1>1, <1>2 DEF EntryInv, AnswerInv
  <2>2. r \notin answered
    BY <2>1, ResultFacts
  <2> QED
    BY <2>1, <2>2, ResultFacts
<1>7. served' = served /\ expired' = expired /\ canceled' = canceled /\ answered' = answered
  BY <1>3, SameResults
<1>8. /\ \A x \in Requests : x # r => admission'[x] = admission[x] /\ deadline'[x] = deadline[x] /\ source'[x] = source[x]
      /\ admission'[r] = Asked(r)' /\ source'[r] = "queue" /\ deadline'[r] # 0
      /\ kind[r] # "deadline" => deadline'[r] = MaxTime
  <2>8. Acquire(r)
    BY DEF Submit
  <2>1. PICK a \in Admissions, d \in Timeouts, src \in Sources :
           /\ now + d <= MaxTime
           /\ admission' = [admission EXCEPT ![r] = a]
           /\ deadline' = [deadline EXCEPT ![r] = now + d]
           /\ source' = [source EXCEPT ![r] = src]
    BY <2>8, Zenon DEF Acquire
  <2>2. /\ admission \in [Requests -> Admission] /\ deadline \in [Requests -> Nat] /\ source \in [Requests -> {"queue", "client"}]
        /\ now \in Nat /\ MaxTime \in Nat
    BY Setup DEF IInv, DataInv, TypeData, LoopInv, TypeLoop
  <2>3. \A x \in Requests : x # r => admission'[x] = admission[x] /\ deadline'[x] = deadline[x] /\ source'[x] = source[x]
    BY <2>1, <2>2
  <2>4. source'[r] = "queue"
    BY <2>1, <2>2, Setup
  <2>5. admission'[r] = Asked(r)'
    <3>1. Asked(r)' = Asked(r)
      BY <1>2 DEF Asked
    <3>2. admission'[r] = Asked(r)
      BY Zenon DEF Submit, Asked
    <3> QED
      BY <3>1, <3>2
  <2>6. deadline'[r] = IF kind[r] = "deadline" THEN now + 1 ELSE MaxTime
    BY DEF Submit
  <2>7. deadline'[r] # 0
    BY <2>2, <2>6
  <2> QED
    BY <2>3, <2>4, <2>5, <2>6, <2>7
<1>9. kind[r] \notin {"reject", "global"}
  BY <1>1, <1>2 DEF AnswerInv
<1>10. EntryInv'
  <2> SUFFICES ASSUME NEW x \in Requests
               PROVE  /\ handler'[x] \in {"none", "sent", "slots"} => deadline'[x] = 0
                      /\ handler'[x] \in {"waiting", "upstream", "held", "streaming", "written"} => deadline'[x] # 0
                      /\ deadline'[x] # 0 => /\ admission'[x] = Asked(x)' /\ source'[x] = "queue"
                                             /\ kind[x] # "deadline" => deadline'[x] = MaxTime
                                             /\ kind[x] \notin {"reject", "global"}
    BY DEF EntryInv
  <2>1. CASE x = r
    BY <1>4, <1>8, <1>9, <2>1
  <2>2. CASE x # r
    <3>1. Asked(x)' = Asked(x)
      BY <1>2 DEF Asked
    <3> QED
      BY <1>1, <1>4, <1>8, <2>2, <3>1 DEF EntryInv
  <2> QED
    BY <2>1, <2>2
<1>11. ServedInv'
  BY <1>1, <1>2, <1>3, <1>4, <1>6, <1>7 DEF ServedInv
<1>12. AnswerInv'
  BY <1>1, <1>2, <1>4, <1>6, <1>7, <1>8, <1>9 DEF AnswerInv
<1>13. CallInv'
  BY <1>1, <1>2, <1>4, <1>6 DEF CallInv
<1>14. CmdInv'
  BY <1>2, <1>3, <1>4, HandlerCmd
<1>15. UpstreamInv'
  BY <1>1, <1>2, <1>4, <1>6, <1>7 DEF UpstreamInv
<1>16. ControlInv'
  BY <1>1, <1>2, <1>3, <1>4, Setup DEF ControlInv, AtBarrier
<1>17. SettledInv' /\ ConsumedInv'
  BY <1>1, <1>2, <1>3, Frames
<1>18. HoldInv'
  BY <1>2, HoldKeeps
<1> QED
  BY <1>2, <1>3, <1>4, <1>5, <1>10, <1>11, <1>12, <1>13, <1>14, <1>15, <1>16, <1>17, <1>18, WireFrame

(* Steps of the request handlers and the upstream that leave the scheduler  *)
(* alone                                                                    *)
LEMMA HandlerFrame ==
  ASSUME IInv, Inv, UNCHANGED <<vars, driver, call, released, issue>>, NEW r \in Requests,
         NEW g \in {"upstream", "held", "streaming", "written", "done"}, g # "done" => r \in served,
         handler[r] \notin {"none", "sent", "slots", "done"}, handler' = [handler EXCEPT ![r] = g],
         r = control => handler[r] # "held" \/ released[r] # "no",
         g = "done" => r \notin served,
         \A x \in Requests : x # r => answer'[x] = answer[x],
         answer' \in [Requests -> {"none", "tenant_capacity", "overloaded", "queue_deadline", "ok"}],
         seenUpstream' \subseteq Requests,
         AnswerInv', UpstreamInv',
         answer'[r] = answer[r] \/ answer[r] = "none",
         arrivals' = arrivals \/ released[control] # "no" \/ (rank[stage] = 1 /\ ~AtBarrier)
  PROVE  Inv'
<1>1. /\ TypeS /\ LaunchInv /\ EntryInv /\ ServedInv /\ AnswerInv /\ CallInv /\ CmdInv /\ UpstreamInv /\ ControlInv
      /\ SettledInv /\ ConsumedInv /\ HoldInv
  BY DEF Inv
<1>2. /\ UNCHANGED <<workload, stage, step, todo, expectation, order, plan, observed, counts>>
      /\ UNCHANGED driver
  BY DEF driver
<1>3. /\ UNCHANGED <<now, ctxDone, admission, deadline, source, seq, cause, result, terminal, entries, queue, expiry, inflight>>
      /\ UNCHANGED <<deficit, visitOpen, cursor, accepting, pc, cmd, wake>>
  BY DEF vars, outside, owner, marks, books, drr, command
<1>4. /\ handler' \in [Requests -> {"none", "sent", "slots", "waiting", "upstream", "held", "streaming", "written", "done"}]
      /\ LaunchInv' /\ handler'[r] = g /\ \A x \in Requests : x # r => handler'[x] = handler[x]
  BY <1>2, HandlerMoves
<1>5. TypeS'
  BY <1>1, <1>2, <1>4 DEF TypeS
<1>6. served' = served /\ expired' = expired /\ canceled' = canceled /\ answered' = answered
  BY <1>3, SameResults
<1>7. deadline[r] # 0
  <2>1. handler[r] \in {"waiting", "upstream", "held", "streaming", "written"}
    BY <1>1 DEF TypeS
  <2> QED
    BY <1>1, <2>1 DEF EntryInv
<1>8. EntryInv'
  BY <1>1, <1>2, <1>3, <1>4, <1>7 DEF EntryInv, Asked
<1>9. inflight \subseteq served
  BY ResultFacts
<1>10. ServedInv'
  BY <1>1, <1>3, <1>4, <1>6, <1>9 DEF ServedInv
<1>11. CallInv'
  BY <1>1, <1>4 DEF CallInv
<1>12. CmdInv'
  BY <1>2, <1>3, <1>4, HandlerCmd
<1>13. ControlInv'
  <2>1. ASSUME rank[stage] > 1 \/ AtBarrier, released[control] = "no" PROVE handler'[control] = "held" /\ arrivals' = <<>>
    <3>1. handler[control] = "held" /\ arrivals = <<>> /\ rank[stage] \in 1..14
      BY <1>1, <2>1, Ranks DEF ControlInv, Inv
    <3>2. arrivals' = arrivals
      BY <2>1, <3>1
    <3>3. r # control
      BY <2>1, <3>1
    <3> QED
      BY <1>4, <3>1, <3>2, <3>3, Setup
  <2> QED
    BY <1>1, <1>2, <1>3, <2>1 DEF ControlInv, AtBarrier
<1>14. SettledInv' /\ ConsumedInv'
  BY <1>1, <1>2, <1>3, Frames
<1>15. HoldInv'
  BY <1>2, HoldKeeps
<1> QED
  BY <1>2, <1>3, <1>4, <1>5, <1>8, <1>10, <1>11, <1>12, <1>13, <1>14, <1>15, WireFrame

(* Acquire returns. *)
LEMMA ReturnKeeps ==
  ASSUME IInv, Inv, NEW r \in Requests, AcquireReturns(r)
  PROVE  Inv'
<1>1. /\ TypeS /\ ServedInv /\ AnswerInv /\ UpstreamInv
  BY DEF Inv
<1>2. /\ handler[r] = "waiting" /\ result[r] # <<>> /\ UNCHANGED <<vars, driver, call, released, arrivals, seenUpstream, issue>>
      /\ UNCHANGED <<stage, step, todo, result, deadline, ctxDone, observed>>
  BY DEF AcquireReturns, driver, vars, owner, marks, outside
<1>3. PICK g, a : /\ handler' = [handler EXCEPT ![r] = g] /\ answer' = [answer EXCEPT ![r] = a]
                  /\ \/ r \in served /\ g = "upstream" /\ a = answer[r]
                     \/ r \notin served /\ g = "done" /\ a = writeAdmissionDecision(r)
  <2>1. answer = [answer EXCEPT ![r] = answer[r]]
    BY <1>1 DEF TypeS
  <2>2. CASE result[r] = <<Dispatched>>
    BY <2>1, <2>2 DEF AcquireReturns, served
  <2>3. CASE result[r] # <<Dispatched>>
    BY <2>3 DEF AcquireReturns, served
  <2> QED
    BY <2>2, <2>3
<1>4. answer[r] = "none" /\ r \in answered /\ kind[r] \notin {"reject", "global"}
  BY <1>1, <1>2 DEF AnswerInv, answered
<1>5. served' = served /\ expired' = expired /\ canceled' = canceled /\ answered' = answered
  BY <1>2, SameResults
<1>6. /\ handler'[r] = g /\ \A x \in Requests : x # r => handler'[x] = handler[x]
  BY <1>1, <1>3 DEF TypeS
<1>7. answer'[r] = a /\ \A x \in Requests : x # r => answer'[x] = answer[x]
  BY <1>1, <1>3 DEF TypeS
<1>8. /\ a \in {"none", "tenant_capacity", "overloaded", "queue_deadline"}
      /\ r \in canceled => a = "none"
      /\ r \in expired /\ kind[r] # "cancel" => a = "queue_deadline"
  <2>1. CASE r \in served
    BY <1>3, <1>4, <2>1, ResultFacts
  <2>2. CASE r \notin served
    <3>1. a = writeAdmissionDecision(r)
      BY <1>3, <2>2
    <3>2. a \in {"none", "tenant_capacity", "overloaded", "queue_deadline"}
      BY <3>1 DEF writeAdmissionDecision
    <3>3. ASSUME r \in canceled PROVE a = "none"
      <4>1. result[r][1].kind = "CanceledQueued"
        BY <3>3 DEF canceled, Canceled, Decision
      <4> QED
        BY <3>1, <4>1 DEF writeAdmissionDecision
    <3>4. ASSUME r \in expired, kind[r] # "cancel" PROVE a = "queue_deadline"
      <4>1. result[r][1].kind = "QueueExpired"
        BY <3>4 DEF expired, Expired, Decision
      <4>2. ~ctxDone[r]
        BY <1>1, <3>4 DEF ServedInv
      <4> QED
        BY <3>1, <4>1, <4>2 DEF writeAdmissionDecision
    <3> QED
      BY <3>2, <3>3, <3>4
  <2> QED
    BY <2>1, <2>2
<1>9. answer' \in [Requests -> {"none", "tenant_capacity", "overloaded", "queue_deadline", "ok"}]
  BY <1>1, <1>3, <1>8 DEF TypeS
<1>10. AnswerInv'
  BY <1>1, <1>2, <1>3, <1>4, <1>5, <1>6, <1>7, <1>8 DEF AnswerInv
<1>11. UpstreamInv'
  BY <1>1, <1>2, <1>3, <1>5, <1>6 DEF UpstreamInv
<1>12. seenUpstream' \subseteq Requests
  BY <1>1, <1>2 DEF TypeS
<1> QED
  BY <1>2, <1>3, <1>4, <1>7, <1>9, <1>10, <1>11, <1>12, HandlerFrame

(* A dispatched request reaches the upstream. *)
LEMMA ArriveKeeps ==
  ASSUME IInv, Inv, NEW r \in Requests, Arrives(r)
  PROVE  Inv'
<1>1. /\ TypeS /\ ServedInv /\ AnswerInv /\ UpstreamInv /\ ControlInv /\ PosInv
  BY DEF Inv
<1>2. /\ handler[r] = "upstream" /\ UNCHANGED <<vars, driver, call, released>>
      /\ UNCHANGED <<stage, step, todo, result, deadline, observed>>
  BY DEF Arrives, driver, vars, owner, marks, outside
<1>3. r \in served /\ kind[r] \in {"control", "initial", "late"} /\ r \notin seenUpstream /\ answer[r] = "none"
  BY <1>1, <1>2 DEF ServedInv, UpstreamInv, AnswerInv
<1>4. validateRequest(r)
  BY <1>3, Setup DEF validateRequest, Jobs
<1>5. /\ arrivals = <<>> /\ arrivals' = <<r>> /\ seenUpstream' = seenUpstream \cup {r}
      /\ handler' = [handler EXCEPT ![r] = "held"] /\ UNCHANGED <<answer, issue>>
  BY <1>3, <1>4 DEF Arrives
<1>6. handler'[r] = "held" /\ \A x \in Requests : x # r => handler'[x] = handler[x]
  BY <1>1, <1>5 DEF TypeS
<1>7. served' = served /\ expired' = expired /\ canceled' = canceled /\ answered' = answered
  BY <1>2, SameResults
<1>8. AnswerInv'
  BY <1>1, <1>2, <1>3, <1>5, <1>6, <1>7 DEF AnswerInv
<1>9. UpstreamInv'
  BY <1>1, <1>2, <1>3, <1>5, <1>6, <1>7 DEF UpstreamInv
<1>10. released[control] # "no" \/ (rank[stage] = 1 /\ ~AtBarrier)
  <2> SUFFICES ASSUME released[control] = "no", ~(rank[stage] = 1 /\ ~AtBarrier) PROVE FALSE
    OBVIOUS
  <2>1. rank[stage] > 1 \/ AtBarrier
    BY <1>1, Ranks
  <2>2. handler[control] = "held"
    BY <1>1, <2>1 DEF ControlInv
  <2>3. r # control /\ terminal[control] # "none"
    BY <1>1, <1>2, <1>3, <2>2, Setup DEF ServedInv
  <2> QED
    BY <2>3, ControlHeld
<1>11. /\ seenUpstream' \subseteq Requests
       /\ answer' \in [Requests -> {"none", "tenant_capacity", "overloaded", "queue_deadline", "ok"}]
  BY <1>1, <1>5 DEF TypeS
<1>12. \A x \in Requests : x # r => answer'[x] = answer[x]
  BY <1>5
<1> QED
  BY <1>2, <1>3, <1>5, <1>8, <1>9, <1>10, <1>11, <1>12, HandlerFrame

(* The upstream answers what has been released. *)
LEMMA AnswersKeep ==
  ASSUME IInv, Inv, NEW r \in Requests, Answers(r)
  PROVE  Inv'
<1>1. /\ TypeS /\ ServedInv /\ AnswerInv /\ UpstreamInv
  BY DEF Inv
<1>2. /\ UNCHANGED <<vars, driver, call, released, arrivals, seenUpstream, issue>>
      /\ UNCHANGED <<stage, step, todo, result, deadline, observed>>
      /\ handler[r] \in {"held", "streaming"} /\ released[r] # "no"
  BY DEF Answers, driver, vars, owner, marks, outside
<1>3. PICK g, a : /\ handler' = [handler EXCEPT ![r] = g] /\ answer' = [answer EXCEPT ![r] = a]
                  /\ \/ g = "streaming" /\ a = answer[r]
                     \/ g = "written" /\ a = "ok"
  <2>1. answer = [answer EXCEPT ![r] = answer[r]]
    BY <1>1 DEF TypeS
  <2> QED
    BY <2>1 DEF Answers
<1>4. answer[r] = "none" /\ r \in served /\ kind[r] \notin {"reject", "global"} /\ r \notin canceled /\ r \notin expired
  BY <1>1, <1>2, ResultFacts DEF AnswerInv, ServedInv
<1>5. served' = served /\ expired' = expired /\ canceled' = canceled /\ answered' = answered
  BY <1>2, SameResults
<1>6. /\ handler'[r] = g /\ \A x \in Requests : x # r => handler'[x] = handler[x]
  BY <1>1, <1>3 DEF TypeS
<1>7. answer'[r] = a /\ \A x \in Requests : x # r => answer'[x] = answer[x]
  BY <1>1, <1>3 DEF TypeS
<1>8. answer' \in [Requests -> {"none", "tenant_capacity", "overloaded", "queue_deadline", "ok"}]
  BY <1>1, <1>3, <1>4 DEF TypeS
<1>9. AnswerInv'
  BY <1>1, <1>2, <1>3, <1>4, <1>5, <1>6, <1>7 DEF AnswerInv
<1>10. UpstreamInv'
  BY <1>1, <1>2, <1>3, <1>4, <1>5, <1>6 DEF UpstreamInv
<1>11. seenUpstream' \subseteq Requests
  BY <1>1, <1>2 DEF TypeS
<1> QED
  BY <1>2, <1>3, <1>4, <1>7, <1>8, <1>9, <1>10, <1>11, HandlerFrame

(* A client learns something. *)
LEMMA CallFrame ==
  ASSUME IInv, Inv, UNCHANGED <<vars, driver, handler, answer, released, arrivals, seenUpstream, issue>>,
         NEW r \in Requests,
         NEW c \in {"event", "canceled", "failure", "deadline", "rejected", "globalRejected", "completed"},
         call' = [call EXCEPT ![r] = c], call[r] # "canceled", CallInv', ConsumedInv'
  PROVE  Inv'
<1>1. /\ TypeS /\ LaunchInv /\ EntryInv /\ ServedInv /\ AnswerInv /\ CmdInv /\ UpstreamInv /\ ControlInv
      /\ SettledInv /\ HoldInv
  BY DEF Inv
<1>2. /\ UNCHANGED <<workload, stage, step, todo, expectation, order, plan, observed, counts>>
      /\ UNCHANGED driver
  BY DEF driver
<1>3. /\ UNCHANGED <<now, ctxDone, admission, deadline, source, seq, cause, result, terminal, entries, queue, expiry, inflight>>
      /\ UNCHANGED <<deficit, visitOpen, cursor, accepting, pc, cmd, wake>>
  BY DEF vars, outside, owner, marks, books, drr, command
<1>4. TypeS'
  BY <1>1, <1>2 DEF TypeS
<1>5. LaunchInv' /\ EntryInv' /\ AnswerInv' /\ CmdInv'
  BY <1>1, <1>2, <1>3, Frames
<1>6. UpstreamInv' /\ ControlInv' /\ SettledInv' /\ HoldInv'
  BY <1>1, <1>2, <1>3, Frames
<1>7. \A x \in Requests : call'[x] = "canceled" \/ call[x] # "canceled"
  BY <1>1 DEF TypeS
<1>8. ServedInv'
  BY <1>1, <1>3, <1>7, SameResults DEF ServedInv
<1> QED
  BY <1>2, <1>3, <1>4, <1>5, <1>6, <1>8, WireFrame

(* A client reads the first event of its stream. *)
LEMMA EventKeeps ==
  ASSUME IInv, Inv, NEW r \in Requests, ClientSeesEvent(r)
  PROVE  Inv'
<1>1. TypeS /\ CallInv /\ ConsumedInv /\ PosInv
  BY DEF Inv
<1>2. /\ call[r] = "running" /\ r \in Streams /\ call' = [call EXCEPT ![r] = "event"]
      /\ UNCHANGED <<vars, driver, handler, answer, released, arrivals, seenUpstream, issue>>
      /\ UNCHANGED <<stage, step, todo, result>>
  BY DEF ClientSeesEvent, driver, vars, owner, marks
<1>3. call'[r] = "event" /\ \A x \in Requests : x # r => call'[x] = call[x]
  BY <1>1, <1>2 DEF TypeS
<1>4. kind[r] = "late" /\ r \in Service
  BY <1>2, Setup
<1>5. CallInv'
  BY <1>1, <1>2, <1>3, <1>4 DEF CallInv
<1>6. r \notin consumed /\ r \notin passed /\ ~(stage = "canceling" /\ r = job)
  <2>1. r \notin consumed
    BY <1>1, <1>2, <1>4 DEF ConsumedInv
  <2>2. stage = "canceling" => kind[job] = "cancel"
    BY <1>1, JobFacts DEF about
  <2> QED
    BY <1>4, <2>1, <2>2 DEF consumed
<1>7. ConsumedInv'
  BY <1>1, <1>2, <1>3, <1>6, SamePosition, SameResults DEF ConsumedInv
<1> QED
  BY <1>2, <1>5, <1>7, CallFrame

(* A client has its answer and makes of it what the kind of its job says. *)
LEMMA ClientKeeps ==
  ASSUME IInv, Inv, NEW r \in Requests, ClientReturns(r)
  PROVE  Inv'
<1>1. TypeS /\ CallInv /\ ConsumedInv /\ PosInv /\ SettledInv /\ AnswerInv
  BY DEF Inv
<1>2. /\ answer[r] # "none" /\ call[r] \in {"event", "running", "canceling"} /\ call' = [call EXCEPT ![r] = classify(kind[r], answer[r])]
      /\ UNCHANGED <<vars, driver, handler, answer, released, arrivals, seenUpstream, issue>>
      /\ UNCHANGED <<stage, step, todo, result>>
  BY DEF ClientReturns, driver, vars, owner, marks
<1>3. PICK c : c = classify(kind[r], answer[r])
  OBVIOUS
<1>4. c \in {"failure", "deadline", "rejected", "globalRejected", "completed"}
  BY <1>3 DEF classify
<1>5. call'[r] = c /\ \A x \in Requests : x # r => call'[x] = call[x]
  BY <1>1, <1>2, <1>3 DEF TypeS
<1>6. CallInv'
  BY <1>1, <1>2, <1>3, <1>4, <1>5 DEF CallInv
<1>7. call[r] # "canceling"
  <2> SUFFICES ASSUME call[r] = "canceling" PROVE FALSE
    OBVIOUS
  <2>1. kind[r] = "cancel"
    BY <1>1 DEF CallInv
  <2>2. rank[stage] > rank[kind[r]]
    <3>1. awaits["cancel"] = "canceling" /\ rank["canceling"] = 6 /\ rank["cancel"] = 3
      BY DEF awaits, rank
    <3>2. rank[stage] \in 1..14
      BY <1>1, Ranks
    <3>3. r \in consumed \/ stage = "canceling"
      BY <1>1 DEF ConsumedInv
    <3>4. r \in consumed => rank[stage] >= rank[awaits[kind[r]]]
      BY <1>1, Ranks
    <3> QED
      BY <2>1, <3>1, <3>2, <3>3, <3>4
  <2>3. r \in settled
    BY <1>1, <2>2, Ranks
  <2>4. r \in expiry \/ r \in canceled
    BY <1>1, <2>1, <2>3 DEF SettledInv
  <2>5. r \notin canceled
    BY <1>1, <1>2 DEF AnswerInv
  <2>6. r \notin expiry
    BY <1>2, ResultFacts, QueuedFacts
  <2> QED
    BY <2>4, <2>5, <2>6
<1>8. r \in consumed => kind[r] = "deadline"
  BY <1>1, <1>2, <1>7, Setup DEF ConsumedInv, Stages, Enqueued
<1>9. ~(stage = "canceling" /\ step = "result" /\ r = job)
  BY <1>1, <1>2, <1>7 DEF ConsumedInv
<1>10. settled' = settled /\ launched' = launched /\ passed' = passed /\ consumed' = consumed /\ job' = job
  BY <1>2, SamePosition
<1>11. served' = served /\ expired' = expired /\ canceled' = canceled
  BY <1>2, SameResults
<1>12. ConsumedInv'
  BY <1>1, <1>2, <1>4, <1>5, <1>8, <1>9, <1>10, <1>11, Setup DEF ConsumedInv
<1> QED
  BY <1>2, <1>3, <1>4, <1>6, <1>12, CallFrame

(* A cancelled client returns before the gateway knows. *)
LEMMA GiveUpKeeps ==
  ASSUME IInv, Inv, NEW r \in Requests, ClientGivesUp(r)
  PROVE  Inv'
<1>1. TypeS /\ CallInv /\ ConsumedInv
  BY DEF Inv
<1>2. /\ call[r] = "canceling" /\ call' = [call EXCEPT ![r] = "canceled"]
      /\ UNCHANGED <<vars, driver, handler, answer, released, arrivals, seenUpstream, issue>>
      /\ UNCHANGED <<stage, step, todo, result>>
  BY DEF ClientGivesUp, driver, vars, owner, marks
<1>3. call'[r] = "canceled" /\ \A x \in Requests : x # r => call'[x] = call[x]
  BY <1>1, <1>2 DEF TypeS
<1>4. CallInv'
  BY <1>1, <1>2, <1>3 DEF CallInv
<1>5. kind[r] = "cancel" /\ r \notin Service \cup {control}
  BY <1>1, <1>2, Setup DEF CallInv
<1>6. ConsumedInv'
  BY <1>1, <1>2, <1>3, <1>5, SamePosition, SameResults DEF ConsumedInv
<1> QED
  BY <1>2, <1>4, <1>6, CallFrame

(* The gateway sees that a client has gone. *)
LEMMA GoneKeeps ==
  ASSUME IInv, Inv, NEW r \in Requests, GatewaySeesClientGone(r)
  PROVE  Inv'
<1>1. /\ TypeS /\ LaunchInv /\ EntryInv /\ ServedInv /\ AnswerInv /\ CallInv /\ CmdInv /\ UpstreamInv /\ ControlInv
      /\ SettledInv /\ ConsumedInv /\ HoldInv
  BY DEF Inv
<1>2. /\ UNCHANGED <<workload, stage, step, todo, expectation, order, plan, observed, counts>>
      /\ UNCHANGED driver /\ UNCHANGED <<handler, answer, call, released, arrivals, seenUpstream, issue>>
  BY DEF GatewaySeesClientGone, driver, wire
<1>3. /\ UNCHANGED <<now, admission, deadline, source, seq, cause, result, terminal, entries, queue, expiry, inflight>>
      /\ UNCHANGED <<deficit, visitOpen, cursor, accepting, pc, cmd, wake>>
  BY DEF GatewaySeesClientGone, CtxDone, owner, marks, books, drr, command
<1>4. ctxDone' = [ctxDone EXCEPT ![r] = TRUE] /\ call[r] = "canceled" /\ ctxDone \in [Requests -> BOOLEAN]
  BY DEF GatewaySeesClientGone, CtxDone, IInv, LoopInv, TypeLoop
<1>5. /\ \A x \in Requests : ctxDone[x] => ctxDone'[x]
      /\ \A x \in Requests : ctxDone'[x] => x = r \/ ctxDone[x]
  BY <1>4
<1>6. kind[r] = "cancel"
  BY <1>1, <1>4 DEF CallInv
<1>7. TypeS' /\ LaunchInv' /\ EntryInv' /\ AnswerInv' /\ CallInv'
  BY <1>1, <1>2, <1>3, Frames
<1>8. UpstreamInv' /\ ControlInv' /\ ConsumedInv' /\ HoldInv'
  BY <1>1, <1>2, <1>3, Frames
<1>9. ServedInv'
  BY <1>1, <1>2, <1>3, <1>4, <1>5, <1>6, SameResults DEF ServedInv
<1>10. CmdInv'
  <2>1. pc = "busy" /\ cmd.op = "cancel" => cmd.id \in Requests
    BY CommandTypes DEF IInv, LoopInv, TypeLoop
  <2> QED
    BY <1>1, <1>2, <1>3, <1>5, <2>1 DEF CmdInv
<1>11. SettledInv'
  <2>1. settled' = settled /\ settled \subseteq Requests
    BY <1>2, SamePosition DEF settled
  <2> QED
    BY <1>1, <1>3, <1>5, <2>1, SameResults DEF SettledInv
<1> QED
  BY <1>2, <1>3, <1>7, <1>8, <1>9, <1>10, <1>11, WireFrame

(* A permit is given back. *)
LEMMA PermitKeeps ==
  ASSUME IInv, Inv, NEW r \in Requests, FinishPermit(r)
  PROVE  Inv'
<1>1. /\ TypeS /\ LaunchInv /\ EntryInv /\ ServedInv /\ AnswerInv /\ CallInv /\ CmdInv /\ UpstreamInv /\ ControlInv
      /\ SettledInv /\ ConsumedInv /\ HoldInv
  BY DEF Inv
<1>2. /\ UNCHANGED <<workload, stage, step, todo, expectation, order, plan, observed, counts>>
      /\ UNCHANGED driver /\ UNCHANGED <<answer, call, released, arrivals, seenUpstream, issue>>
      /\ handler[r] = "written" /\ handler' = [handler EXCEPT ![r] = "done"]
  BY DEF FinishPermit, driver
<1>3. answer[r] = "ok" /\ r \in served
  BY <1>1, <1>2 DEF AnswerInv, ServedInv
<1>4. Receive([op |-> "finish", id |-> r, outcome |-> "Completed"])
  BY <1>3 DEF FinishPermit, servingOutcome
<1>5. /\ pc = "select" /\ pc' = "busy" /\ cmd' = [op |-> "finish", id |-> r, outcome |-> "Completed"] /\ wake' = now
      /\ UNCHANGED <<now, ctxDone, admission, deadline, source, seq, cause, result, terminal, entries, queue, expiry, inflight>>
      /\ UNCHANGED <<deficit, visitOpen, cursor, accepting>>
  BY <1>4 DEF Receive, WakeUp, outside, marks, books, drr
<1>6. /\ handler' \in [Requests -> {"none", "sent", "slots", "waiting", "upstream", "held", "streaming", "written", "done"}]
      /\ LaunchInv' /\ handler'[r] = "done" /\ \A x \in Requests : x # r => handler'[x] = handler[x]
  BY <1>2, HandlerMoves
<1>7. served' = served /\ expired' = expired /\ canceled' = canceled /\ answered' = answered
  BY <1>5, SameResults
<1>8. r \notin expired /\ r \notin canceled /\ inflight \subseteq Requests /\ now \in Nat
  BY <1>3, ResultFacts DEF IInv, LoopInv, TypeLoop
<1>9. TypeS'
  BY <1>1, <1>2, <1>6 DEF TypeS
<1>10. EntryInv'
  BY <1>1, <1>2, <1>5, <1>6 DEF EntryInv, Asked
<1>11. ServedInv'
  BY <1>1, <1>2, <1>5, <1>6, <1>7 DEF ServedInv
<1>12. AnswerInv'
  BY <1>1, <1>2, <1>3, <1>5, <1>6, <1>7, <1>8 DEF AnswerInv
<1>13. CallInv'
  BY <1>1, <1>2, <1>6 DEF CallInv
<1>14. CmdInv'
  BY <1>1, <1>2, <1>5, <1>6, <1>8 DEF CmdInv
<1>15. UpstreamInv'
  BY <1>1, <1>2, <1>3, <1>6, <1>7 DEF UpstreamInv
<1>16. ControlInv'
  BY <1>1, <1>2, <1>5, <1>6, Setup DEF ControlInv, AtBarrier
<1>17. SettledInv' /\ ConsumedInv'
  BY <1>1, <1>2, <1>5, Frames
<1>18. HoldInv'
  BY <1>2, HoldKeeps
<1> QED
  BY <1>2, <1>5, <1>6, <1>9, <1>10, <1>11, <1>12, <1>13, <1>14, <1>15, <1>16, <1>17, <1>18, WireFrame

(* What arrives in the owner's mailbox, and everything outside it *)
LEMMA WireKeeps ==
  ASSUME IInv, Inv, now < MaxTime, Mailbox \/ Requested
  PROVE  Inv'
<1>1. ASSUME NEW r \in Requests, Request(r) PROVE Inv'
  BY <1>1, PreDispatchKeeps, SubmitKeeps, ReturnKeeps, ArriveKeeps, AnswersKeep, EventKeeps, ClientKeeps,
     GiveUpKeeps, GoneKeeps DEF Request
<1>2. CASE TimerFires /\ UNCHANGED <<driver, wire>>
  <2>1. WakeUp(TimerFired) /\ TimerFired.op = "timer"
    BY <1>2 DEF TimerFires, TimerFired
  <2> QED
    BY <1>2, <2>1, WakeKeeps
<1>3. ASSUME NEW r \in Requests, FinishPermit(r) PROVE Inv'
  BY <1>3, PermitKeeps
<1>4. ASSUME NEW r \in Requests, UNCHANGED <<driver, wire>>, Receive([op |-> "admit", id |-> r]) PROVE Inv'
  <2>1. PICK c : c = [op |-> "admit", id |-> r]
    OBVIOUS
  <2>2. WakeUp(c) /\ c.op = "admit"
    BY <1>4, <2>1 DEF Receive
  <2> QED
    BY <1>4, <2>2, WakeKeeps
<1>5. ASSUME NEW r \in Requests, UNCHANGED <<driver, wire>>, ctxDone[r], Receive([op |-> "cancel", id |-> r]) PROVE Inv'
  <2>1. PICK c : c = [op |-> "cancel", id |-> r]
    OBVIOUS
  <2>2. WakeUp(c) /\ c.op = "cancel" /\ c.id = r
    BY <1>5, <2>1 DEF Receive
  <2> QED
    BY <1>5, <2>2, WakeKeeps
<1>6. CASE Requested
  BY <1>1, <1>6 DEF Requested
<1>7. CASE Mailbox
  BY <1>2, <1>3, <1>4, <1>5, <1>7 DEF Mailbox
<1> QED
  BY <1>6, <1>7

-----------------------------------------------------------------------------
(* The driver *)

(* Steps that leave the driver's sets as they are *)
LEMMA SetFrames ==
  ASSUME settled' = settled, launched' = launched, passed' = passed, consumed' = consumed
  PROVE  /\ LaunchInv /\ UNCHANGED handler => LaunchInv'
         /\ SettledInv /\ UNCHANGED <<expiry, result, ctxDone>> => SettledInv'
         /\ ExpectInv /\ UNCHANGED expectation => ExpectInv'
         /\ OrderInv /\ UNCHANGED <<order, expiry, seq>> => OrderInv'
         /\ CountInv /\ UNCHANGED counts => CountInv'
<1>1. LaunchInv /\ UNCHANGED handler => LaunchInv'
  BY DEF LaunchInv
<1>2. SettledInv /\ UNCHANGED <<expiry, result, ctxDone>> => SettledInv'
  BY SameResults DEF SettledInv
<1>3. ExpectInv /\ UNCHANGED expectation => ExpectInv'
  BY DEF ExpectInv
<1>4. OrderInv /\ UNCHANGED <<order, expiry, seq>> => OrderInv'
  BY DEF OrderInv
<1>5. CountInv /\ UNCHANGED counts => CountInv'
  BY DEF CountInv, tally, Of
<1> QED
  BY <1>1, <1>2, <1>3, <1>4, <1>5

(* One more job of a tenant *)
LEMMA OfAdd ==
  ASSUME NEW S \in SUBSET Requests, NEW j \in Requests, NEW t
  PROVE  /\ Of(t, S) \in Nat
         /\ j \notin S => Of(t, S \cup {j}) = Of(t, S) + (IF tenant[j] = t THEN 1 ELSE 0)
<1>1. PICK A : A = {r \in S : tenant[r] = t}
  OBVIOUS
<1>2. IsFiniteSet(A)
  BY <1>1, Setup, FS_Subset
<1>3. Cardinality(A) \in Nat
  BY <1>2, FS_CardinalityType
<1>4. ASSUME j \notin S PROVE Of(t, S \cup {j}) = Of(t, S) + (IF tenant[j] = t THEN 1 ELSE 0)
  <2>1. CASE tenant[j] = t
    <3>1. {r \in S \cup {j} : tenant[r] = t} = A \cup {j} /\ j \notin A
      BY <1>1, <1>4, <2>1
    <3>2. Cardinality(A \cup {j}) = Cardinality(A) + 1
      BY <1>2, <3>1, FS_AddElement
    <3>3. Of(t, S \cup {j}) = Cardinality(A \cup {j}) /\ Of(t, S) = Cardinality(A)
      BY <1>1, <3>1, Zenon DEF Of
    <3> QED
      BY <2>1, <3>2, <3>3
  <2>2. CASE tenant[j] # t
    <3>1. {r \in S \cup {j} : tenant[r] = t} = A
      BY <1>1, <2>2
    <3>2. Of(t, S \cup {j}) = Cardinality(A) /\ Of(t, S) = Cardinality(A)
      BY <1>1, <3>1, Zenon DEF Of
    <3> QED
      BY <1>3, <2>2, <3>2
  <2> QED
    BY <2>1, <2>2
<1> QED
  BY <1>1, <1>3, <1>4 DEF Of

(* Each outcome has its set of jobs. *)
LEMMA TallyTypes ==
  /\ DOMAIN tally = Outcome
  /\ \A o \in Outcome : tally[o] \subseteq Requests
<1>1. settled \subseteq Requests /\ passed \subseteq Requests /\ launched \subseteq Requests /\ consumed \subseteq Requests
  BY DEF settled, passed, launched, consumed
<1> QED
  BY <1>1 DEF tally, Outcome

(* Which of these sets depends on which position of the driver *)
LEMMA TallySame ==
  /\ launched' = launched => tally'["submitted"] = tally["submitted"]
  /\ settled' = settled => tally'["admitted"] = tally["admitted"]
  /\ consumed' = consumed => tally'["completed"] = tally["completed"]
  /\ consumed' = consumed => tally'["rejected"] = tally["rejected"]
  /\ passed' = passed => tally'["canceled"] = tally["canceled"]
  /\ consumed' = consumed => tally'["deadlineExceeded"] = tally["deadlineExceeded"]
<1>1. launched' = launched => tally'["submitted"] = tally["submitted"]
  BY DEF tally
<1>2. settled' = settled => tally'["admitted"] = tally["admitted"]
  BY DEF tally
<1>3. consumed' = consumed => tally'["completed"] = tally["completed"]
  BY DEF tally
<1>4. consumed' = consumed => tally'["rejected"] = tally["rejected"]
  BY DEF tally
<1>5. passed' = passed => tally'["canceled"] = tally["canceled"]
  BY DEF tally
<1>6. consumed' = consumed => tally'["deadlineExceeded"] = tally["deadlineExceeded"]
  BY DEF tally
<1> QED
  BY <1>1, <1>2, <1>3, <1>4, <1>5, <1>6

(* The driver's counters follow its sets. *)
LEMMA CountsStep ==
  ASSUME TypeS, CountInv, NEW j \in Requests, NEW outs, counts' = counted(j, outs),
         \A o \in Outcome : IF o \in outs THEN tally'[o] = tally[o] \cup {j} /\ j \notin tally[o]
                                          ELSE tally'[o] = tally[o]
  PROVE  CountInv' /\ counts' \in [Tenants -> [Outcome -> Nat]]
<1>1. counts \in [Tenants -> [Outcome -> Nat]] /\ tenant[j] \in Tenants
  BY Setup DEF TypeS
<1>2. counts' = [counts EXCEPT ![tenant[j]] = [o \in Outcome |-> counts[tenant[j]][o] + IF o \in outs THEN 1 ELSE 0]]
  BY DEF counted
<1>3. [o \in Outcome |-> counts[tenant[j]][o] + IF o \in outs THEN 1 ELSE 0] \in [Outcome -> Nat]
  BY <1>1
<1>4. counts' \in [Tenants -> [Outcome -> Nat]]
  BY <1>1, <1>2, <1>3
<1>5. ASSUME NEW t \in {2, 3} PROVE counts'[t] = [o \in Outcome |-> Of(t, tally'[o])]
  <2>1. t \in Tenants /\ t \in ToSet(ServiceTenants)
    BY Setup
  <2>2. counts[t] = [o \in Outcome |-> Of(t, tally[o])]
    BY <2>1 DEF CountInv
  <2>3. ASSUME NEW o \in Outcome
        PROVE  Of(t, tally'[o]) = counts[t][o] + IF o \in outs /\ tenant[j] = t THEN 1 ELSE 0
    <3>1. tally[o] \subseteq Requests /\ counts[t][o] = Of(t, tally[o])
      BY <2>2, TallyTypes
    <3>2. PICK S \in SUBSET Requests : S = tally[o]
      BY <3>1
    <3>3. Of(t, S) \in Nat /\ (j \notin S => Of(t, S \cup {j}) = Of(t, S) + (IF tenant[j] = t THEN 1 ELSE 0))
      BY OfAdd
    <3>4. CASE o \in outs
      <4>1. tally'[o] = S \cup {j} /\ j \notin S
        BY <3>2, <3>4
      <4> QED
        BY <3>1, <3>2, <3>3, <3>4, <4>1
    <3>5. CASE o \notin outs
      <4>1. tally'[o] = S
        BY <3>2, <3>5
      <4> QED
        BY <3>1, <3>2, <3>3, <3>5, <4>1
    <3> QED
      BY <3>4, <3>5
  <2>4. counts'[t] = [o \in Outcome |-> counts[t][o] + IF o \in outs /\ tenant[j] = t THEN 1 ELSE 0]
    <3>1. CASE tenant[j] = t
      <4>1. counts'[t] = [o \in Outcome |-> counts[tenant[j]][o] + IF o \in outs THEN 1 ELSE 0]
        BY <1>1, <1>2, <3>1, Zenon
      <4>2. counts'[t] = [o \in Outcome |-> counts[t][o] + IF o \in outs THEN 1 ELSE 0]
        BY <3>1, <4>1, Zenon
      <4>3. \A o \in Outcome : (IF o \in outs THEN 1 ELSE 0) = (IF o \in outs /\ tenant[j] = t THEN 1 ELSE 0)
        BY <3>1
      <4> QED
        BY <4>2, <4>3
    <3>2. CASE tenant[j] # t
      <4>1. counts'[t] = counts[t] /\ counts[t] \in [Outcome -> Nat]
        BY <1>1, <1>2, <2>1, <3>2
      <4>2. \A o \in Outcome : counts[t][o] = counts[t][o] + IF o \in outs /\ tenant[j] = t THEN 1 ELSE 0
        BY <3>2, <4>1
      <4> QED
        BY <4>1, <4>2
    <3> QED
      BY <3>1, <3>2
  <2> QED
    BY <2>3, <2>4
<1>6. \A t \in ToSet(ServiceTenants) : counts'[t] = [o \in Outcome |-> Of(t, tally'[o])]
  BY <1>5, Setup
<1>7. CountInv'
  BY <1>6 DEF CountInv, Of
<1> QED
  BY <1>4, <1>7

(* The scheduler stands still. *)
LEMMA OwnerStill ==
  ASSUME UNCHANGED vars
  PROVE  /\ UNCHANGED <<now, ctxDone, admission, deadline, source, seq, cause, result, terminal, entries, queue, expiry, inflight>>
         /\ UNCHANGED <<deficit, visitOpen, cursor, accepting, drainNotified, counters, pc, cmd, wake>>
  BY DEF vars, outside, owner, marks, books, drr, command

(* Where the driver launches *)
LEMMA LaunchFacts ==
  ASSUME IInv, Inv, step = "launch"
  PROVE  /\ stage \in Stages /\ kind[job] = stage /\ job \in Requests /\ rank[stage] \in 1..9
         /\ job \notin settled /\ launched = settled /\ consumed = passed /\ job \notin passed
         /\ handler[job] = "none" /\ call[job] = "none" /\ deadline[job] = 0 /\ answer[job] = "none" /\ ~ctxDone[job]
         /\ job \notin answered /\ job \notin expiry /\ job \notin served
<1>1. /\ PosInv /\ LaunchInv /\ CallInv /\ AnswerInv /\ ServedInv /\ EntryInv
  BY DEF Inv
<1>2. stage \in Stages
  BY <1>1 DEF PosInv, rank, stepsOf, Stages, Enqueued
<1>3. kind[job] = stage /\ job \in Requests
  BY <1>1, <1>2, JobFacts
<1>4. rank[stage] \in 1..9
  BY <1>2 DEF rank, Stages, Enqueued
<1>5. job \notin settled /\ launched = settled
  BY <1>1, <1>2, Positions
<1>6. consumed = passed
  BY <1>1, Positions DEF AtBarrier
<1>7. job \notin passed
  BY <1>1, <1>5, Ranks
<1>8. handler[job] = "none"
  BY <1>1, <1>3, <1>5 DEF LaunchInv
<1>9. call[job] = "none" /\ deadline[job] = 0 /\ answer[job] = "none" /\ ~ctxDone[job]
  BY <1>1, <1>3, <1>8 DEF CallInv, EntryInv, AnswerInv, ServedInv
<1>10. job \notin answered /\ job \notin expiry
  BY <1>9, ResultFacts
<1> QED
  BY <1>2, <1>3, <1>4, <1>5, <1>6, <1>7, <1>8, <1>9, <1>10, ResultFacts

(* A job goes to the end of its tenant's queue. *)
LEMMA OrderLaunch ==
  ASSUME IInv, Inv, step = "launch", UNCHANGED <<expiry, seq>>,
         settled' = settled, launched' = launched \cup {job},
         order' = IF job \in Service THEN [order EXCEPT ![tenant[job]] = Append(@, job)] ELSE order
  PROVE  OrderInv' /\ order' \in [Tenants -> Seq(Requests)]
<1>1. OrderInv /\ TypeS
  BY DEF Inv
<1>2. order \in [Tenants -> Seq(Requests)] /\ job \in Requests /\ tenant[job] \in Tenants
  BY <1>1, LaunchFacts, Setup DEF TypeS
<1>3. order' \in [Tenants -> Seq(Requests)]
  BY <1>2
<1>4. ASSUME NEW t \in Tenants
      PROVE  /\ IsInjective(order'[t]) /\ ToSet(order'[t]) = {r \in Service \cap launched' : tenant[r] = t}
             /\ \A i \in 1..Len(order'[t]) - 1 : order'[t][i] \in settled
             /\ \A i, j \in 1..Len(order'[t]) :
                  i < j /\ order'[t][j] \in expiry => seq[order'[t][i]] < seq[order'[t][j]]
  <2>1. PICK s \in Seq(Requests) : s = order[t]
    BY <1>2
  <2>2. /\ IsInjective(s) /\ ToSet(s) = {r \in Service \cap launched : tenant[r] = t}
        /\ \A i \in 1..Len(s) - 1 : s[i] \in settled
        /\ \A i, j \in 1..Len(s) : i < j /\ s[j] \in expiry => seq[s[i]] < seq[s[j]]
    BY <1>1, <2>1 DEF OrderInv
  <2>3. CASE ~(job \in Service /\ tenant[job] = t)
    <3>1. order'[t] = s
      BY <1>2, <2>1, <2>3
    <3>2. {r \in Service \cap launched' : tenant[r] = t} = {r \in Service \cap launched : tenant[r] = t}
      BY <2>3
    <3> QED
      BY <2>2, <3>1, <3>2
  <2>4. CASE job \in Service /\ tenant[job] = t
    <3>1. order'[t] = Append(s, job)
      BY <1>2, <2>1, <2>4
    <3>2. job \notin ToSet(s) /\ job \notin expiry /\ launched = settled
      BY <2>2, LaunchFacts
    <3>3. PICK u \in Seq(Requests) : u = Append(s, job)
      BY <1>2, AppendFacts
    <3>4. /\ Len(u) = Len(s) + 1 /\ u[Len(s) + 1] = job /\ Len(s) \in Nat
          /\ \A i \in 1..Len(s) : u[i] = s[i]
          /\ ToSet(u) = ToSet(s) \cup {job} /\ IsInjective(u)
      BY <1>2, <2>2, <3>2, <3>3, AppendFacts
    <3>5. ToSet(u) = {r \in Service \cap launched' : tenant[r] = t}
      BY <2>2, <2>4, <3>4
    <3>6. \A i \in 1..Len(s) : s[i] \in settled
      BY <2>2, <3>2 DEF ToSet
    <3>7. \A i \in 1..Len(u) - 1 : u[i] \in settled
      BY <3>4, <3>6
    <3>8. \A i, j \in 1..Len(u) : i < j /\ u[j] \in expiry => seq[u[i]] < seq[u[j]]
      <4> SUFFICES ASSUME NEW i \in 1..Len(u), NEW j \in 1..Len(u), i < j, u[j] \in expiry PROVE seq[u[i]] < seq[u[j]]
        OBVIOUS
      <4>1. j # Len(s) + 1
        BY <3>2, <3>4
      <4>2. i \in 1..Len(s) /\ j \in 1..Len(s)
        BY <3>4, <4>1
      <4> QED
        BY <2>2, <3>4, <4>2
    <3> QED
      BY <3>1, <3>3, <3>4, <3>5, <3>7, <3>8
  <2> QED
    BY <2>3, <2>4
<1> QED
  BY <1>3, <1>4, ZenonT(30) DEF OrderInv

(* launch: a client is started, and its job is expected from now on. *)
LEMMA LaunchKeeps ==
  ASSUME IInv, Inv, Launch
  PROVE  Inv'
<1>1. /\ TypeS /\ PosInv /\ LaunchInv /\ EntryInv /\ ServedInv /\ AnswerInv /\ CallInv /\ CmdInv /\ UpstreamInv
      /\ ControlInv /\ SettledInv /\ ConsumedInv /\ ExpectInv /\ HoldInv /\ CountInv /\ PlanInv
  BY DEF Inv
<1>2. /\ step = "launch" /\ UNCHANGED vars /\ UNCHANGED <<workload, plan, observed, answer, released, arrivals, seenUpstream, issue>>
      /\ call' = [call EXCEPT ![job] = "running"] /\ handler' = [handler EXCEPT ![job] = "sent"]
      /\ counts' = counted(job, IF stage \in Enqueued \cup {"reject"} THEN {"submitted"} ELSE {})
      /\ expectation' = IF stage \in Enqueued THEN expectation \cup {job} ELSE expectation
      /\ order' = IF job \in Service THEN [order EXCEPT ![tenant[job]] = Append(@, job)] ELSE order
  BY DEF Launch
<1>3. /\ UNCHANGED <<now, ctxDone, admission, deadline, source, seq, cause, result, terminal, entries, queue, expiry, inflight>>
      /\ UNCHANGED <<deficit, visitOpen, cursor, accepting, pc, cmd, wake>>
  BY <1>2, OwnerStill
<1>4. /\ stage \in Stages /\ kind[job] = stage /\ job \in Requests /\ rank[stage] \in 1..9
      /\ job \notin settled /\ launched = settled /\ consumed = passed /\ job \notin passed
      /\ handler[job] = "none" /\ call[job] = "none" /\ deadline[job] = 0 /\ answer[job] = "none" /\ ~ctxDone[job]
      /\ job \notin answered /\ job \notin expiry /\ job \notin served
  BY <1>2, LaunchFacts
<1>5. PICK s : /\ Goto(s)
               /\ \/ s = "barrier" /\ stage \in Enqueued
                  \/ s = "dispatch" /\ stage = "control"
                  \/ s = "result" /\ stage \in {"reject", "global"}
  <2>1. PICK s : s = CASE stage \in Enqueued -> "barrier" [] stage = "control" -> "dispatch" [] OTHER -> "result"
    OBVIOUS
  <2>2. Goto(s)
    BY <2>1 DEF Launch
  <2>3. \/ s = "barrier" /\ stage \in Enqueued
        \/ s = "dispatch" /\ stage = "control"
        \/ s = "result" /\ stage \in {"reject", "global"}
    BY <1>4, <2>1 DEF Stages, Enqueued
  <2> QED
    BY <2>2, <2>3
<1>6. UNCHANGED <<stage, todo>> /\ step' = s
  BY <1>5 DEF Goto
<1>7. settled' = settled /\ passed' = passed /\ job' = job /\ launched' = launched \cup {job} /\ consumed' = consumed
  <2>1. settled' = settled /\ passed' = passed /\ job' = job
    BY <1>1, <1>5, GotoMoves
  <2>2. launched' = launched \cup {job}
    BY <1>1, <1>4, <1>5, GotoMoves
  <2>3. consumed' = passed
    BY <1>1, <1>5, GotoMoves DEF Awaiting, Enqueued
  <2> QED
    BY <1>4, <2>1, <2>2, <2>3
<1>8. handler'[job] = "sent" /\ \A x \in Requests : x # job => handler'[x] = handler[x]
  BY <1>1, <1>2, <1>4 DEF TypeS
<1>9. call'[job] = "running" /\ \A x \in Requests : x # job => call'[x] = call[x]
  BY <1>1, <1>2, <1>4 DEF TypeS
<1>10. served' = served /\ expired' = expired /\ canceled' = canceled /\ answered' = answered
  BY <1>3, SameResults
<1>11. OrderInv' /\ order' \in [Tenants -> Seq(Requests)]
  BY <1>2, <1>3, <1>7, OrderLaunch
<1>12. CountInv' /\ counts' \in [Tenants -> [Outcome -> Nat]]
  <2>1. PICK outs : outs = IF stage \in Enqueued \cup {"reject"} THEN {"submitted"} ELSE {}
    OBVIOUS
  <2>2. tally'.submitted = IF stage \in Enqueued \cup {"reject"} THEN tally.submitted \cup {job} ELSE tally.submitted
    BY <1>4, <1>7 DEF tally
  <2>3. job \notin tally.submitted
    BY <1>4 DEF tally
  <2>4. \A o \in Outcome \ {"submitted"} : tally'[o] = tally[o]
    BY <1>7, TallySame DEF Outcome
  <2>5. \A o \in Outcome : IF o \in outs THEN tally'[o] = tally[o] \cup {job} /\ job \notin tally[o] ELSE tally'[o] = tally[o]
    BY <2>1, <2>2, <2>3, <2>4
  <2> QED
    BY <1>1, <1>2, <1>4, <2>1, <2>5, CountsStep
<1>13. TypeS'
  BY <1>1, <1>2, <1>11, <1>12 DEF TypeS
<1>14. PosInv'
  <2>1. s \in stepsOf[stage] /\ s # "event" /\ stage # "expire"
    BY <1>4, <1>5 DEF stepsOf, Enqueued, Stages
  <2> QED
    BY <1>1, <1>6, <2>1 DEF PosInv
<1>15. LaunchInv'
  BY <1>1, <1>4, <1>7, <1>8 DEF LaunchInv
<1>16. EntryInv'
  BY <1>1, <1>2, <1>3, <1>4, <1>8 DEF EntryInv, Asked
<1>17. ServedInv'
  BY <1>1, <1>3, <1>4, <1>8, <1>9, <1>10 DEF ServedInv
<1>18. AnswerInv'
  BY <1>1, <1>2, <1>3, <1>4, <1>8, <1>10 DEF AnswerInv
<1>19. CallInv'
  BY <1>1, <1>2, <1>4, <1>8, <1>9 DEF CallInv
<1>20. CmdInv'
  <2>1. pc = "busy" /\ cmd.op = "finish" => cmd.id \in Requests
    BY CommandTypes DEF IInv, LoopInv, TypeLoop
  <2>2. s # "snapshot"
    BY <1>5
  <2> QED
    BY <1>1, <1>2, <1>3, <1>4, <1>6, <1>8, <2>1, <2>2 DEF CmdInv
<1>21. UpstreamInv'
  BY <1>1, <1>2, <1>4, <1>8, <1>10 DEF UpstreamInv
<1>22. ControlInv'
  <2>1. rank[stage] > 1 \/ s \notin {"barrier", "snapshot"}
    BY <1>4, <1>5 DEF rank, Enqueued
  <2>2. ASSUME (rank[stage] > 1 \/ AtBarrier)', released[control] = "no" PROVE handler'[control] = "held" /\ arrivals' = <<>>
    <3>1. rank[stage] > 1
      BY <1>6, <2>1, <2>2 DEF AtBarrier
    <3>2. handler[control] = "held" /\ arrivals = <<>>
      BY <1>1, <2>2, <3>1 DEF ControlInv
    <3> QED
      BY <1>2, <1>4, <1>8, <3>2, Setup
  <2>3. s # "release" /\ rank[stage] < 10 /\ step # "release"
    BY <1>2, <1>4, <1>5
  <2> QED
    BY <1>1, <1>2, <1>3, <1>6, <2>2, <2>3 DEF ControlInv
<1>23. SettledInv'
  BY <1>1, <1>3, <1>7, <1>10 DEF SettledInv
<1>24. ConsumedInv'
  <2>1. stage # "canceling"
    BY <1>4 DEF Stages, Enqueued
  <2> QED
    BY <1>1, <1>4, <1>6, <1>7, <1>9, <1>10, <2>1 DEF ConsumedInv
<1>25. ExpectInv'
  BY <1>1, <1>2, <1>4, <1>7 DEF ExpectInv
<1>26. HoldInv'
  <2>1. \A S : Holding(S)' = Holding(S)
    BY <1>2, <1>4 DEF Holding
  <2> QED
    BY <1>1, <2>1 DEF HoldInv, OfTenant
<1>27. PlanInv'
  <2>1. rank[stage] < 11 /\ ~(rank[stage] >= 11) /\ ~(rank[stage] >= 12) /\ stage # "measure"
    BY <1>4 DEF Stages, Enqueued
  <2>2. observed' = <<>> /\ stage' = stage
    BY <1>1, <1>2, <1>6, <2>1 DEF PlanInv
  <2> QED
    BY <2>1, <2>2 DEF PlanInv
<1>28. SimInv'
  <2>1. terminal[control] = "none"
    BY <1>4, ControlGone
  <2> QED
    BY <1>3, <2>1, SimFrames
<1> QED
  BY <1>11, <1>12, <1>13, <1>14, <1>15, <1>16, <1>17, <1>18, <1>19, <1>20, <1>21, <1>22, <1>23, <1>24, <1>25,
     <1>26, <1>27, <1>28 DEF Inv

(* What arrives while the driver measures is what the plan names next. *)
LEMMA Arrival ==
  ASSUME IInv, Inv, stage = "measure", arrivals # <<>>
  PROVE  \E x \in Service :
           /\ arrivals = <<x>> /\ x \in seenUpstream /\ x \notin ToSet(observed) /\ Pending = {x}
           /\ Len(observed) + 1 \in 1..Len(plan) /\ plan[Len(observed) + 1] = x
           /\ terminal[control] # "none"
<1>1. /\ UpstreamInv /\ ServedInv /\ ControlInv /\ PlanInv /\ SimInv /\ TypeS
  BY DEF Inv
<1>2. rank[stage] = 11
  BY DEF rank
<1>3. PICK x \in Requests : arrivals = <<x>> /\ handler[x] = "held" /\ released[x] = "no"
  BY <1>1 DEF UpstreamInv
<1>4. x \in served /\ x \in seenUpstream
  BY <1>1, <1>3 DEF ServedInv, UpstreamInv
<1>5. x # control
  <2>1. step # "release"
    BY DEF Inv, PosInv, stepsOf
  <2> QED
    BY <1>1, <1>2, <1>3, <2>1 DEF ControlInv
<1>6. x \in Service
  BY <1>1, <1>4, <1>5, Setup DEF ServedInv
<1>7. terminal[control] # "none" /\ x \notin ToSet(observed)
  BY <1>1, <1>3, <1>4, <1>5, <1>6 DEF ServedInv, UpstreamInv
<1>8. x \in Pending
  BY <1>4, <1>6, <1>7 DEF Pending
<1>9. PICK k \in 0..maximumVisits : Matches(oracleAfter[k])
  BY <1>1, <1>7 DEF SimInv
<1>10. Pending = {x} /\ oracleAfter[k].trace = Append(observed, x)
  BY <1>8, <1>9 DEF Matches
<1>11. Filled
  BY <1>2, Filling
<1>12. Begins(oracleAfter[k].trace, expectedDispatchPlan)
  BY <1>11, OraclePrefix
<1>13. plan = expectedDispatchPlan
  BY <1>1, <1>2 DEF PlanInv
<1>14. observed \in Seq(Requests) /\ plan \in Seq(Requests)
  BY <1>1 DEF TypeS
<1>15. PICK u : u = Append(observed, x) /\ Len(u) = Len(observed) + 1 /\ u[Len(observed) + 1] = x /\ Len(observed) \in Nat /\ Len(plan) \in Nat
  <2>1. PICK u : u = Append(observed, x)
    OBVIOUS
  <2>2. Len(Append(observed, x)) = Len(observed) + 1 /\ Append(observed, x)[Len(observed) + 1] = x
    BY <1>14, AppendFacts
  <2>3. Len(observed) \in Nat /\ Len(plan) \in Nat
    BY <1>14
  <2> QED
    BY <2>1, <2>2, <2>3
<1>16. Begins(u, plan)
  BY <1>10, <1>12, <1>13, <1>15
<1>17. Len(observed) + 1 \in 1..Len(plan) /\ plan[Len(observed) + 1] = x
  BY <1>15, <1>16 DEF Begins
<1> QED
  BY <1>3, <1>4, <1>6, <1>7, <1>10, <1>17

(* The driver moves on within a stage; the scheduler stands still. *)
LEMMA GotoFrame ==
  ASSUME IInv, Inv, UNCHANGED vars, NEW s, Goto(s),
         UNCHANGED <<workload, expectation, order, plan, counts, handler, answer, seenUpstream, issue>>,
         launched' = launched, consumed' = consumed,
         s \in stepsOf[stage], s # "snapshot", step # "snapshot", s = "event" => job \in Streams,
         stage # "expire",
         TypeS', ServedInv', CallInv', UpstreamInv', ControlInv', ConsumedInv', PlanInv', SimInv'
  PROVE  Inv'
<1>1. /\ PosInv /\ LaunchInv /\ EntryInv /\ AnswerInv /\ CmdInv /\ SettledInv /\ ExpectInv /\ HoldInv /\ OrderInv /\ CountInv
  BY DEF Inv
<1>2. /\ UNCHANGED <<now, ctxDone, admission, deadline, source, seq, cause, result, terminal, entries, queue, expiry, inflight>>
      /\ UNCHANGED <<deficit, visitOpen, cursor, accepting, pc, cmd, wake>>
  BY OwnerStill
<1>3. UNCHANGED <<stage, todo>> /\ step' = s /\ job' = job /\ settled' = settled /\ passed' = passed
  BY <1>1, GotoMoves DEF Goto
<1>4. PosInv'
  BY <1>1, <1>3 DEF PosInv
<1>5. EntryInv' /\ AnswerInv' /\ HoldInv'
  BY <1>1, <1>2, Frames
<1>6. CmdInv'
  BY <1>1, <1>2, <1>3 DEF CmdInv
<1>7. LaunchInv' /\ SettledInv' /\ ExpectInv' /\ OrderInv' /\ CountInv'
  BY <1>1, <1>2, <1>3, SetFrames
<1> QED
  BY <1>4, <1>5, <1>6, <1>7 DEF Inv

(* The control request has arrived. *)
LEMMA ControlArrives ==
  ASSUME IInv, Inv, AwaitDispatch, stage = "control"
  PROVE  Inv'
<1>1. /\ TypeS /\ PosInv /\ ServedInv /\ CallInv /\ UpstreamInv /\ ControlInv /\ ConsumedInv /\ PlanInv /\ SimInv
  BY DEF Inv
<1>2. /\ step = "dispatch" /\ (arrivals # <<>> \/ issue) /\ arrivals' = <<>>
      /\ UNCHANGED <<vars, handler, answer, call, seenUpstream, issue>>
  BY DEF AwaitDispatch
<1>3. rank[stage] = 1 /\ "control" \in Stages /\ "control" \notin Awaiting /\ kind[job] = "control" /\ job = control
  <2>1. rank[stage] = 1 /\ "control" \in Stages /\ "control" \notin Awaiting
    BY DEF rank, Stages, Awaiting
  <2>2. kind[job] = "control" /\ job \in Requests
    BY <1>1, <2>1, JobFacts
  <2> QED
    BY <2>1, <2>2, Setup
<1>4. released[control] = "no"
  BY <1>1, <1>3 DEF ControlInv
<1>5. ~issue /\ arrivals = <<job>> /\ handler[control] = "held"
  <2>1. PICK x \in Requests : arrivals = <<x>> /\ handler[x] = "held"
    BY <1>1, <1>2 DEF UpstreamInv
  <2>2. x \in served
    BY <1>1, <2>1 DEF ServedInv
  <2>3. x = control
    BY <1>4, <2>2, ControlHeld
  <2> QED
    BY <1>1, <1>3, <2>1, <2>3 DEF UpstreamInv
<1>6. Goto("barrier") /\ UNCHANGED <<workload, expectation, order, plan, counts, observed, released>>
  <2>1. PICK s : s = CASE stage = "control" -> "barrier" [] job \in Streams -> "event" [] OTHER -> "result"
    OBVIOUS
  <2>0. job \notin Streams
    BY <1>3, Setup
  <2>2. s = "barrier"
    BY <2>0, <2>1
  <2>3. Goto(s)
    BY <1>5, <2>1 DEF AwaitDispatch
  <2>4. UNCHANGED <<workload, expectation, order, plan, counts, observed, released>>
    BY <1>5 DEF AwaitDispatch
  <2> QED
    BY <2>2, <2>3, <2>4
<1>7. UNCHANGED <<stage, todo>> /\ step' = "barrier" /\ job' = job /\ settled' = settled /\ passed' = passed
  BY <1>1, <1>6, GotoMoves DEF Goto
<1>8. launched' = launched /\ consumed' = consumed
  <2>1. launched' = settled \cup {job} /\ consumed' = passed
    BY <1>1, <1>3, <1>6, GotoMoves
  <2>2. launched = settled \cup {job} /\ consumed = passed
    BY <1>1, <1>2, <1>3, Positions DEF AtBarrier
  <2> QED
    BY <2>1, <2>2
<1>9. /\ UNCHANGED <<now, ctxDone, admission, deadline, source, seq, cause, result, terminal, entries, queue, expiry, inflight>>
      /\ UNCHANGED <<deficit, visitOpen, cursor, accepting, pc, cmd, wake>>
  BY <1>2, OwnerStill
<1>10. TypeS' /\ ServedInv' /\ CallInv'
  BY <1>1, <1>2, <1>6, <1>9, Frames
<1>11. UpstreamInv'
  BY <1>1, <1>2, <1>6, <1>9, SameResults DEF UpstreamInv
<1>12. ControlInv'
  BY <1>1, <1>2, <1>3, <1>5, <1>6, <1>7, <1>9 DEF ControlInv
<1>13. ConsumedInv'
  BY <1>1, <1>2, <1>7, <1>8, <1>9, SameResults DEF ConsumedInv
<1>14. PlanInv'
  BY <1>1, <1>3, <1>6, <1>7 DEF PlanInv
<1>15. SimInv'
  BY <1>1, <1>6, <1>9, SimFrames
<1>16. "barrier" \in stepsOf[stage]
  BY DEF stepsOf
<1> QED
  BY <1>2, <1>6, <1>8, <1>10, <1>11, <1>12, <1>13, <1>14, <1>15, <1>16, GotoFrame

(* A service job has arrived. *)
LEMMA ServiceArrives ==
  ASSUME IInv, Inv, AwaitDispatch, stage = "measure"
  PROVE  Inv'
<1>1. /\ TypeS /\ PosInv /\ ServedInv /\ CallInv /\ UpstreamInv /\ ControlInv /\ ConsumedInv /\ PlanInv /\ SimInv
  BY DEF Inv
<1>2. /\ step = "dispatch" /\ (arrivals # <<>> \/ issue) /\ arrivals' = <<>>
      /\ UNCHANGED <<vars, handler, answer, call, seenUpstream, issue>>
  BY DEF AwaitDispatch
<1>3. ~issue /\ arrivals # <<>>
  BY <1>1, <1>2 DEF UpstreamInv
<1>4. PICK x \in Service :
        /\ arrivals = <<x>> /\ x \in seenUpstream /\ x \notin ToSet(observed) /\ Pending = {x}
        /\ Len(observed) + 1 \in 1..Len(plan) /\ plan[Len(observed) + 1] = x
        /\ terminal[control] # "none"
  BY <1>3, Arrival
<1>5. /\ todo \in Seq(Requests) /\ todo # <<>> /\ Len(todo) \in Nat /\ Len(todo) >= 1 /\ job = todo[1]
      /\ Len(todo) <= Len(plan) /\ todo[1] = plan[Len(plan) - Len(todo) + 1]
      /\ Len(observed) = Len(plan) - Len(todo) /\ Len(plan) \in Nat /\ Len(observed) \in Nat
      /\ \A i \in 1..Len(observed) : observed[i] = plan[i]
  <2>1. /\ todo \in Seq(Requests) /\ todo # <<>> /\ Len(todo) \in Nat /\ Len(todo) >= 1 /\ job = todo[1]
    BY <1>1 DEF PosInv, job
  <2>2. /\ Len(todo) <= Len(plan) /\ Len(plan) \in Nat /\ Len(observed) \in Nat
        /\ Len(observed) = Len(plan) - Len(todo) + 0
        /\ \A i \in 1..Len(todo) : todo[i] = plan[Len(plan) - Len(todo) + i]
        /\ \A i \in 1..Len(observed) : observed[i] = plan[i]
    BY <1>1, <1>2 DEF PlanInv, TypeS
  <2>3. 1 \in 1..Len(todo)
    BY <2>1
  <2>4. todo[1] = plan[Len(plan) - Len(todo) + 1]
    BY <2>2, <2>3
  <2> QED
    BY <2>1, <2>2, <2>4
<1>6. x = job /\ job \in Requests /\ job # control
  <2>1. x \in Requests /\ x # control
    BY Setup
  <2> QED
    BY <1>4, <1>5, <2>1
<1>7. arrivals = <<job>>
  BY <1>4, <1>6
<1>8. PICK s : Goto(s) /\ ((s = "event" /\ job \in Streams) \/ s = "result")
  <2>1. PICK s : s = CASE stage = "control" -> "barrier" [] job \in Streams -> "event" [] OTHER -> "result"
    OBVIOUS
  <2>2. Goto(s)
    BY <1>3, <1>7, <2>1 DEF AwaitDispatch
  <2> QED
    BY <2>1, <2>2
<1>9. /\ observed' = Append(observed, job) /\ released' = [released EXCEPT ![job] = "first"]
      /\ UNCHANGED <<workload, expectation, order, plan, counts>>
  BY <1>3, <1>7 DEF AwaitDispatch
<1>10. UNCHANGED <<stage, todo>> /\ step' = s /\ job' = job /\ settled' = settled /\ passed' = passed
  BY <1>1, <1>8, GotoMoves DEF Goto
<1>11. launched' = launched /\ consumed' = consumed
  <2>1. "measure" \notin Stages /\ s \notin {"barrier", "snapshot"}
    BY <1>8 DEF Stages, Enqueued
  <2>2. launched' = settled /\ consumed' = passed
    BY <1>1, <1>8, <2>1, GotoMoves
  <2>3. launched = settled /\ consumed = passed
    BY <1>1, <1>2, <2>1, Positions DEF AtBarrier
  <2> QED
    BY <2>2, <2>3
<1>12. /\ UNCHANGED <<now, ctxDone, admission, deadline, source, seq, cause, result, terminal, entries, queue, expiry, inflight>>
       /\ UNCHANGED <<deficit, visitOpen, cursor, accepting, pc, cmd, wake>>
  BY <1>2, OwnerStill
<1>13. /\ observed \in Seq(Requests) /\ observed' \in Seq(Requests) /\ Len(observed') = Len(observed) + 1
       /\ observed'[Len(observed) + 1] = job /\ \A i \in 1..Len(observed) : observed'[i] = observed[i]
       /\ ToSet(observed') = ToSet(observed) \cup {job}
  BY <1>1, <1>6, <1>9, AppendFacts DEF TypeS
<1>14. released'[job] = "first" /\ \A r \in Requests : r # job => released'[r] = released[r]
  BY <1>1, <1>6, <1>9 DEF TypeS
<1>15. TypeS'
  BY <1>1, <1>2, <1>9, <1>13 DEF TypeS
<1>16. ServedInv' /\ CallInv'
  BY <1>1, <1>2, <1>12, Frames
<1>17. UpstreamInv'
  <2>1. job \in Service /\ job \in seenUpstream /\ Service \subseteq Requests
    BY <1>4, <1>6, Setup
  <2> QED
    BY <1>1, <1>2, <1>12, <1>13, <1>14, <2>1, SameResults DEF UpstreamInv
<1>18. ControlInv'
  <2>1. released'[control] = released[control] /\ rank[stage] = 11 /\ s # "release" /\ step # "release"
    BY <1>2, <1>6, <1>8, <1>14, Setup DEF rank
  <2> QED
    BY <1>1, <1>2, <1>10, <1>12, <2>1 DEF ControlInv
<1>19. ConsumedInv'
  BY <1>1, <1>2, <1>10, <1>11, <1>12, SameResults DEF ConsumedInv
<1>20. PlanInv'
  <2>1. rank[stage] = 11 /\ s # "dispatch"
    BY <1>8 DEF rank
  <2>2. expectedDispatchPlan' = expectedDispatchPlan
    BY <1>9, OracleSame
  <2>3. Len(observed') = Len(plan) - Len(todo) + 1
    BY <1>5, <1>13
  <2>4. ASSUME NEW i \in 1..Len(observed') PROVE observed'[i] = plan[i]
    <3>1. CASE i = Len(observed) + 1
      BY <1>4, <1>6, <1>13, <3>1
    <3>2. CASE i \in 1..Len(observed)
      BY <1>5, <1>13, <3>2
    <3> QED
      BY <1>5, <1>13, <2>4, <3>1, <3>2
  <2> QED
    BY <1>1, <1>9, <1>10, <2>1, <2>2, <2>3, <2>4 DEF PlanInv
<1>21. SimInv'
  <2>1. PICK k \in 0..maximumVisits : Matches(oracleAfter[k])
    BY <1>1, <1>4 DEF SimInv
  <2>2. oracleAfter[k].trace = observed'
    BY <1>4, <1>6, <1>9, <2>1 DEF Matches
  <2>3. oracleAfter' = oracleAfter
    BY <1>9, OracleSame
  <2>4. Pending' = {}
    BY <1>4, <1>6, <1>12, <1>13, SameResults DEF Pending
  <2>5. Matches(oracleAfter[k])'
    BY <1>12, <2>1, <2>2, <2>3, <2>4 DEF Matches, Credit
  <2> QED
    BY <2>5 DEF SimInv
<1>22. s \in stepsOf[stage] /\ s # "snapshot"
  BY <1>8 DEF stepsOf
<1> QED
  BY <1>2, <1>8, <1>9, <1>11, <1>15, <1>16, <1>17, <1>18, <1>19, <1>20, <1>21, <1>22, GotoFrame

(* awaitUpstreamDispatch finds the job it waits for, and no other. *)
LEMMA AwaitDispatchKeeps ==
  ASSUME IInv, Inv, AwaitDispatch
  PROVE  Inv'
<1>1. stage \in {"control", "measure"}
  BY DEF AwaitDispatch, Inv, PosInv, stepsOf, rank
<1> QED
  BY <1>1, ControlArrives, ServiceArrives

(* The job the driver measures has arrived. *)
LEMMA JobObserved ==
  ASSUME IInv, Inv, stage = "measure", step # "dispatch"
  PROVE  job \in ToSet(observed) /\ job \in Service /\ job # control /\ released[job] # "no" /\ job \in served
<1>1. /\ TypeS /\ PosInv /\ UpstreamInv /\ PlanInv
  BY DEF Inv
<1>2. /\ todo \in Seq(Requests) /\ todo # <<>> /\ Len(todo) \in Nat /\ Len(todo) >= 1 /\ job = todo[1]
  BY <1>1 DEF PosInv, job
<1>3. /\ Len(todo) <= Len(plan) /\ Len(plan) \in Nat /\ Len(observed) \in Nat
      /\ Len(observed) = Len(plan) - Len(todo) + 1
      /\ \A i \in 1..Len(todo) : todo[i] = plan[Len(plan) - Len(todo) + i]
      /\ \A i \in 1..Len(observed) : observed[i] = plan[i]
      /\ observed \in Seq(Requests)
  BY <1>1 DEF PlanInv, TypeS
<1>4. 1 \in 1..Len(todo) /\ Len(observed) \in 1..Len(observed)
  BY <1>2, <1>3
<1>5. job = observed[Len(observed)]
  BY <1>2, <1>3, <1>4
<1>6. job \in ToSet(observed)
  BY <1>3, <1>4, <1>5 DEF ToSet
<1>7. job \in Service /\ released[job] # "no" /\ job \in Requests
  BY <1>1, <1>6, Setup DEF UpstreamInv
<1>8. job # control
  BY <1>7, Setup
<1> QED
  BY <1>1, <1>6, <1>7, <1>8 DEF UpstreamInv

(* A step that passes neither a launch nor a result *)
LEMMA GotoStays ==
  ASSUME PosInv, NEW s, Goto(s), s # "launch", step # "launch",
         s \notin {"barrier", "snapshot"}, step \notin {"barrier", "snapshot"}
  PROVE  launched' = launched /\ consumed' = consumed
<1>1. /\ launched' = settled \cup (IF stage \in Stages THEN {job} ELSE {})
      /\ consumed' = passed
  BY GotoMoves
<1>2. /\ launched = settled \cup (IF stage \in Stages THEN {job} ELSE {})
      /\ consumed = passed
  BY Positions DEF AtBarrier
<1> QED
  BY <1>1, <1>2

(* awaitFirstEvent: the rest of the stream is released. *)
LEMMA AwaitFirstEventKeeps ==
  ASSUME IInv, Inv, AwaitFirstEvent
  PROVE  Inv'
<1>1. /\ TypeS /\ PosInv /\ ServedInv /\ CallInv /\ UpstreamInv /\ ControlInv /\ ConsumedInv /\ PlanInv /\ SimInv
  BY DEF Inv
<1>2. /\ step = "event" /\ released' = [released EXCEPT ![job] = "done"] /\ Goto("result")
      /\ UNCHANGED <<vars, workload, expectation, order, plan, observed, counts,
                     handler, answer, call, arrivals, seenUpstream, issue>>
  BY DEF AwaitFirstEvent
<1>3. stage = "measure"
  BY <1>1, <1>2 DEF PosInv, stepsOf, rank
<1>4. job \in Service /\ job # control /\ job \in Requests /\ released[job] # "no" /\ job \in served /\ job \in ToSet(observed)
  BY <1>2, <1>3, JobObserved, Setup
<1>5. UNCHANGED <<stage, todo>> /\ step' = "result" /\ job' = job /\ settled' = settled /\ passed' = passed
  BY <1>1, <1>2, GotoMoves DEF Goto
<1>6. launched' = launched /\ consumed' = consumed
  <2>1. Goto("result") /\ step = "event"
    BY <1>2
  <2> QED
    BY <1>1, <2>1, GotoStays
<1>7. /\ UNCHANGED <<now, ctxDone, admission, deadline, source, seq, cause, result, terminal, entries, queue, expiry, inflight>>
      /\ UNCHANGED <<deficit, visitOpen, cursor, accepting, pc, cmd, wake>>
  BY <1>2, OwnerStill
<1>8. /\ released'[job] = "done" /\ (\A r \in Requests : r # job => released'[r] = released[r])
      /\ released' \in [Requests -> {"no", "first", "done"}]
  BY <1>1, <1>2, <1>4 DEF TypeS
<1>9. TypeS'
  BY <1>1, <1>2, <1>8 DEF TypeS
<1>10. ServedInv' /\ CallInv'
  BY <1>1, <1>2, <1>7, Frames
<1>11. UpstreamInv'
  <2>1. \A r \in Requests : released'[r] = "no" <=> released[r] = "no"
    BY <1>4, <1>8
  <2>2. Service \subseteq Requests
    BY Setup
  <2> QED
    BY <1>1, <1>2, <1>7, <2>1, <2>2, SameResults DEF UpstreamInv
<1>12. ControlInv'
  <2>1. released'[control] = released[control] /\ rank[stage] = 11
    BY <1>3, <1>4, <1>8, Setup DEF rank
  <2> QED
    BY <1>1, <1>2, <1>5, <1>7, <2>1 DEF ControlInv, AtBarrier
<1>13. ConsumedInv'
  BY <1>1, <1>2, <1>3, <1>5, <1>6, <1>7, SameResults DEF ConsumedInv
<1>14. PlanInv'
  <2>1. expectedDispatchPlan' = expectedDispatchPlan
    BY <1>2, OracleSame
  <2> QED
    BY <1>1, <1>2, <1>5, <2>1 DEF PlanInv
<1>15. SimInv'
  BY <1>1, <1>2, <1>7, SimFrames
<1>16. "result" \in stepsOf[stage]
  BY <1>3 DEF stepsOf
<1> QED
  BY <1>2, <1>3, <1>6, <1>9, <1>10, <1>11, <1>12, <1>13, <1>14, <1>15, <1>16, GotoFrame

(* A call is cancelled while its request waits. *)
LEMMA CancelCallKeeps ==
  ASSUME IInv, Inv, CancelCall
  PROVE  Inv'
<1>1. /\ TypeS /\ PosInv /\ EntryInv /\ ServedInv /\ AnswerInv /\ CallInv /\ UpstreamInv /\ ControlInv
      /\ SettledInv /\ ConsumedInv /\ PlanInv /\ SimInv /\ LaunchInv
  BY DEF Inv
<1>2. /\ step = "cancel" /\ call' = [call EXCEPT ![job] = IF @ = "running" THEN "canceling" ELSE @] /\ Goto("result")
      /\ UNCHANGED <<vars, workload, expectation, order, plan, observed, counts,
                     handler, answer, released, arrivals, seenUpstream, issue>>
  BY DEF CancelCall
<1>3. stage = "canceling"
  BY <1>1, <1>2 DEF PosInv, stepsOf, rank
<1>4. rank[stage] = 6 /\ kind[job] = "cancel" /\ job \in Requests /\ job \notin Streams /\ job # control
  <2>1. kind[job] = "cancel" /\ job \in Requests
    BY <1>1, <1>3, JobFacts DEF about
  <2> QED
    BY <1>3, <2>1, Setup DEF rank
<1>5. "canceling" \notin Stages /\ "canceling" \in Awaiting
  BY DEF Stages, Enqueued, Awaiting
<1>6. launched = settled /\ consumed = passed /\ job \notin passed /\ job \in settled
  <2>1. launched = settled /\ consumed = passed /\ job \notin passed
    BY <1>1, <1>2, <1>3, <1>5, Positions DEF AtBarrier
  <2>2. rank[stage] > rank[kind[job]]
    BY <1>4 DEF rank
  <2> QED
    BY <1>1, <1>4, <2>1, <2>2, Ranks
<1>7. call[job] = "running"
  <2>1. call[job] \notin {"canceling", "canceled"}
    BY <1>1, <1>2, <1>4, <1>6 DEF ConsumedInv
  <2>2. handler[job] # "none" /\ call[job] # "none"
    BY <1>1, <1>4, <1>6 DEF LaunchInv, CallInv
  <2>3. ~ctxDone[job]
    BY <1>1, <1>4, <2>1 DEF ServedInv
  <2>4. job \in expiry
    BY <1>1, <1>4, <1>6, <2>3 DEF SettledInv
  <2>5. deadline[job] # 0 /\ job \notin answered
    BY <2>4, ResultFacts
  <2>6. answer[job] = "none"
    BY <1>4, <2>5, QueuedFacts
  <2>7. call[job] \notin {"failure", "deadline", "rejected", "globalRejected", "completed"}
    BY <1>1, <1>4, <2>6 DEF CallInv
  <2>8. call[job] # "event"
    BY <1>1, <1>4 DEF CallInv
  <2> QED
    BY <1>1, <1>4, <2>1, <2>2, <2>7, <2>8 DEF TypeS
<1>8. /\ call'[job] = "canceling" /\ (\A r \in Requests : r # job => call'[r] = call[r])
      /\ TypeS'
  BY <1>1, <1>2, <1>4, <1>7 DEF TypeS
<1>9. UNCHANGED <<stage, todo>> /\ step' = "result" /\ job' = job /\ settled' = settled /\ passed' = passed
  BY <1>1, <1>2, GotoMoves DEF Goto
<1>10. launched' = launched /\ consumed' = consumed
  <2>1. launched' = settled /\ consumed' = passed
    BY <1>1, <1>2, <1>3, <1>5, GotoMoves
  <2> QED
    BY <1>6, <2>1
<1>11. /\ UNCHANGED <<now, ctxDone, admission, deadline, source, seq, cause, result, terminal, entries, queue, expiry, inflight>>
       /\ UNCHANGED <<deficit, visitOpen, cursor, accepting, pc, cmd, wake>>
  BY <1>2, OwnerStill
<1>12. ServedInv'
  <2>1. \A r \in Requests : ctxDone[r] => call'[r] = "canceled"
    BY <1>1, <1>7, <1>8 DEF ServedInv
  <2> QED
    BY <1>1, <1>2, <1>11, <2>1, SameResults DEF ServedInv
<1>13. CallInv'
  <2>1. handler[job] # "none"
    BY <1>1, <1>4, <1>7 DEF CallInv
  <2> QED
    BY <1>1, <1>2, <1>4, <1>8, <2>1 DEF CallInv
<1>14. UpstreamInv'
  BY <1>1, <1>2, <1>11, Frames
<1>15. ControlInv'
  BY <1>1, <1>2, <1>4, <1>9, <1>11 DEF ControlInv, AtBarrier
<1>16. ConsumedInv'
  <2>1. ASSUME NEW r \in Requests, r # job
        PROVE  /\ call'[r] = call[r]
               /\ call[r] \in {"canceling", "canceled"} => r \in consumed
    BY <1>1, <1>2, <1>8, <2>1 DEF ConsumedInv
  <2>2. job \notin consumed
    BY <1>6
  <2> QED
    BY <1>1, <1>3, <1>6, <1>8, <1>9, <1>10, <1>11, <2>1, <2>2, SameResults DEF ConsumedInv
<1>17. PlanInv'
  <2>1. expectedDispatchPlan' = expectedDispatchPlan
    BY <1>2, OracleSame
  <2> QED
    BY <1>1, <1>2, <1>3, <1>9, <2>1 DEF PlanInv
<1>18. SimInv'
  BY <1>1, <1>2, <1>11, SimFrames
<1>19. "result" \in stepsOf[stage]
  BY <1>3 DEF stepsOf
<1> QED
  BY <1>2, <1>3, <1>8, <1>10, <1>12, <1>13, <1>14, <1>15, <1>16, <1>17, <1>18, <1>19, GotoFrame

(* The control request, held at the upstream, is released. *)
LEMMA ReleaseControlKeeps ==
  ASSUME IInv, Inv, ReleaseControl
  PROVE  Inv'
<1>1. /\ TypeS /\ PosInv /\ ServedInv /\ CallInv /\ UpstreamInv /\ ControlInv /\ ConsumedInv /\ PlanInv /\ SimInv
  BY DEF Inv
<1>2. /\ step = "release" /\ released' = [released EXCEPT ![control] = "first"] /\ Goto("result")
      /\ UNCHANGED <<vars, workload, expectation, order, plan, observed, counts,
                     handler, answer, call, arrivals, seenUpstream, issue>>
  BY DEF ReleaseControl
<1>3. stage = "release"
  BY <1>1, <1>2 DEF PosInv, stepsOf, rank
<1>4. rank[stage] = 10 /\ "release" \notin Stages /\ control \in Requests /\ control \notin Service
  BY <1>3, Setup DEF rank, Stages, Enqueued
<1>5. released[control] = "no" /\ handler[control] = "held" /\ arrivals = <<>>
  BY <1>1, <1>2, <1>4 DEF ControlInv
<1>6. control \in served /\ control \in seenUpstream
  BY <1>1, <1>4, <1>5 DEF ServedInv, UpstreamInv
<1>7. UNCHANGED <<stage, todo>> /\ step' = "result" /\ job' = job /\ settled' = settled /\ passed' = passed
  BY <1>1, <1>2, GotoMoves DEF Goto
<1>8. launched' = launched /\ consumed' = consumed
  <2>1. Goto("result") /\ step = "release"
    BY <1>2
  <2> QED
    BY <1>1, <2>1, GotoStays
<1>9. /\ UNCHANGED <<now, ctxDone, admission, deadline, source, seq, cause, result, terminal, entries, queue, expiry, inflight>>
      /\ UNCHANGED <<deficit, visitOpen, cursor, accepting, pc, cmd, wake>>
  BY <1>2, OwnerStill
<1>10. /\ released'[control] = "first" /\ (\A r \in Requests : r # control => released'[r] = released[r])
       /\ released' \in [Requests -> {"no", "first", "done"}]
  BY <1>1, <1>2, <1>4 DEF TypeS
<1>11. TypeS'
  BY <1>1, <1>2, <1>10 DEF TypeS
<1>12. ServedInv' /\ CallInv'
  BY <1>1, <1>2, <1>9, Frames
<1>13. UpstreamInv'
  <2>1. Service \subseteq Requests
    BY Setup
  <2> QED
    BY <1>1, <1>2, <1>4, <1>5, <1>6, <1>9, <1>10, <2>1, SameResults DEF UpstreamInv
<1>14. ControlInv'
  BY <1>1, <1>2, <1>4, <1>7, <1>9, <1>10 DEF ControlInv, AtBarrier
<1>15. ConsumedInv'
  BY <1>1, <1>2, <1>3, <1>7, <1>8, <1>9, SameResults DEF ConsumedInv
<1>16. PlanInv'
  BY <1>1, <1>2, <1>3, <1>4, <1>7 DEF PlanInv
<1>17. SimInv'
  BY <1>1, <1>2, <1>9, SimFrames
<1>18. "result" \in stepsOf[stage]
  BY <1>3 DEF stepsOf
<1> QED
  BY <1>2, <1>3, <1>8, <1>11, <1>12, <1>13, <1>14, <1>15, <1>16, <1>17, <1>18, GotoFrame

-----------------------------------------------------------------------------
(* The driver takes results *)

(* What a client made of an answer, when it was not cancelled *)
LEMMA ResultRead ==
  ASSUME IInv, Inv, NEW r \in Requests, Returned(r), kind[r] # "cancel"
  PROVE  /\ answer[r] # "none" /\ call[r] = classify(kind[r], answer[r])
         /\ handler[r] \in {"written", "done"}
         /\ r \in served => answer[r] = "ok"
<1>1. TypeS /\ CallInv /\ AnswerInv
  BY DEF Inv
<1>2. call[r] \in {"failure", "deadline", "rejected", "globalRejected", "completed"}
  BY <1>1 DEF Returned, TypeS, CallInv
<1>3. answer[r] # "none" /\ call[r] = classify(kind[r], answer[r])
  BY <1>1, <1>2 DEF CallInv
<1>4. handler[r] \in {"written", "done"}
  BY <1>1, <1>3 DEF AnswerInv
<1>5. ASSUME r \in served PROVE answer[r] = "ok"
  <2>1. deadline[r] # 0
    BY <1>5, ResultFacts
  <2> QED
    BY <1>1, <1>4, <1>5, <2>1 DEF AnswerInv
<1> QED
  BY <1>3, <1>4, <1>5

(* The result the driver has waited for is the one it wants. *)
LEMMA ResultWanted ==
  ASSUME IInv, Inv, step = "result", Returned(job)
  PROVE  /\ stage \in Awaiting /\ job \in Requests /\ kind[job] \in about[stage] /\ call[job] = wanted[stage]
         /\ kind[job] = "deadline" => job \in expired
<1>1. /\ TypeS /\ PosInv /\ ServedInv /\ AnswerInv /\ CallInv /\ SettledInv /\ ConsumedInv
  BY DEF Inv
<1>2. stage \in Awaiting
  BY <1>1 DEF PosInv, stepsOf, rank, Awaiting
<1>3. job \in Requests /\ kind[job] \in about[stage]
  BY <1>1, JobFacts
<1>4. CASE stage = "expire"
  <2>1. kind[job] = "deadline"
    BY <1>3, <1>4 DEF about
  <2>2. answer[job] # "none" /\ call[job] = classify("deadline", answer[job]) /\ handler[job] \in {"written", "done"}
    BY <1>3, <2>1, ResultRead
  <2>3. rank[stage] > rank[kind[job]]
    BY <1>4, <2>1 DEF rank
  <2>4. job \in settled
    BY <1>1, <1>3, <2>3, Ranks
  <2>5. job \in expiry \cup expired
    BY <1>1, <2>1, <2>4 DEF SettledInv
  <2>6. job \notin expiry
    <3>1. SUFFICES ASSUME job \in expiry PROVE FALSE
      OBVIOUS
    <3>2. deadline[job] # 0 /\ job \notin answered
      BY <3>1, ResultFacts
    <3> QED
      BY <1>3, <2>2, <3>2, QueuedFacts
  <2>7. job \in expired /\ job \notin served
    BY <2>5, <2>6, ResultFacts
  <2>8. handler[job] = "done"
    BY <1>1, <1>3, <2>2, <2>7 DEF ServedInv
  <2>9. answer[job] = "queue_deadline"
    BY <1>1, <1>3, <2>1, <2>7, <2>8 DEF AnswerInv
  <2> QED
    BY <1>2, <1>3, <1>4, <2>2, <2>7, <2>9 DEF classify, validBody, wanted
<1>5. CASE stage = "canceling"
  <2>1. kind[job] = "cancel"
    BY <1>3, <1>5 DEF about
  <2>2. call[job] \in {"canceling", "canceled"}
    BY <1>1, <1>3, <1>5 DEF ConsumedInv
  <2> QED
    BY <1>2, <1>3, <1>5, <2>1, <2>2 DEF Returned, wanted
<1>6. CASE stage = "reject"
  <2>1. kind[job] = "reject"
    BY <1>3, <1>6 DEF about
  <2>2. answer[job] # "none" /\ call[job] = classify("reject", answer[job])
    BY <1>3, <2>1, ResultRead
  <2>3. answer[job] = "tenant_capacity"
    BY <1>1, <1>3, <2>1, <2>2 DEF AnswerInv
  <2> QED
    BY <1>2, <1>3, <1>6, <2>1, <2>2, <2>3 DEF classify, validBody, wanted
<1>7. CASE stage = "global"
  <2>1. kind[job] = "global"
    BY <1>3, <1>7 DEF about
  <2>2. answer[job] # "none" /\ call[job] = classify("global", answer[job])
    BY <1>3, <2>1, ResultRead
  <2>3. answer[job] = "overloaded"
    BY <1>1, <1>3, <2>1, <2>2 DEF AnswerInv
  <2> QED
    BY <1>2, <1>3, <1>7, <2>1, <2>2, <2>3 DEF classify, validBody, wanted
<1>8. CASE stage = "release"
  <2>1. kind[job] = "control"
    BY <1>3, <1>8 DEF about
  <2>2. rank[stage] > rank[kind[job]]
    BY <1>8, <2>1 DEF rank
  <2>3. job \in settled
    BY <1>1, <1>3, <2>2, Ranks
  <2>4. job \in served
    BY <1>1, <2>1, <2>3 DEF SettledInv
  <2>5. call[job] = classify("control", answer[job]) /\ answer[job] = "ok"
    BY <1>3, <2>1, <2>4, ResultRead
  <2> QED
    BY <1>2, <1>3, <1>8, <2>1, <2>5 DEF classify, validBody, wanted
<1>9. CASE stage = "measure"
  <2>1. job \in served /\ job \in Service
    BY <1>9, JobObserved
  <2>2. kind[job] \in {"initial", "late"}
    BY <1>3, <1>9 DEF about
  <2>3. call[job] = classify(kind[job], answer[job]) /\ answer[job] = "ok"
    BY <1>3, <2>1, <2>2, ResultRead
  <2> QED
    BY <1>2, <1>3, <1>9, <2>2, <2>3 DEF classify, validBody, wanted
<1> QED
  BY <1>2, <1>4, <1>5, <1>6, <1>7, <1>8, <1>9 DEF Awaiting

(* One more result has been taken and counted. *)
LEMMA ResultTally ==
  ASSUME TypeS, CountInv, stage \in Awaiting, job \in Requests, kind[job] \in about[stage],
         counts' = counted(job, tallied[stage]),
         settled' = settled, launched' = launched, consumed' = consumed \cup {job}, job \notin consumed,
         \A r \in Requests : kind[r] = "cancel" => (r \in passed' <=> r \in passed)
  PROVE  CountInv' /\ counts' \in [Tenants -> [Outcome -> Nat]]
<1>1. PICK outs : outs = tallied[stage]
  OBVIOUS
<1>2. tally'["submitted"] = tally["submitted"] /\ tally'["admitted"] = tally["admitted"]
  BY TallySame
<1>3. tally'["canceled"] = tally["canceled"]
  <2>1. passed \subseteq Requests /\ passed' \subseteq Requests
    BY DEF passed
  <2> QED
    BY <2>1 DEF tally
<1>4. /\ tally'["completed"] = IF kind[job] \in {"initial", "late"} THEN tally["completed"] \cup {job} ELSE tally["completed"]
      /\ job \notin tally["completed"]
  <2>1. job \in Service <=> kind[job] \in {"initial", "late"}
    BY Setup
  <2> QED
    BY <2>1 DEF tally
<1>5. /\ tally'["rejected"] = IF kind[job] = "reject" THEN tally["rejected"] \cup {job} ELSE tally["rejected"]
      /\ job \notin tally["rejected"]
  BY DEF tally
<1>6. /\ tally'["deadlineExceeded"] = IF kind[job] = "deadline" THEN tally["deadlineExceeded"] \cup {job} ELSE tally["deadlineExceeded"]
      /\ job \notin tally["deadlineExceeded"]
  BY DEF tally
<1>7. /\ "completed" \in outs <=> kind[job] \in {"initial", "late"}
      /\ "rejected" \in outs <=> kind[job] = "reject"
      /\ "deadlineExceeded" \in outs <=> kind[job] = "deadline"
      /\ "submitted" \notin outs /\ "admitted" \notin outs /\ "canceled" \notin outs
  <2>1. CASE stage = "release"
    BY <1>1, <2>1 DEF tallied, about
  <2>2. CASE stage = "measure"
    BY <1>1, <2>2 DEF tallied, about
  <2>3. CASE stage = "canceling"
    BY <1>1, <2>3 DEF tallied, about
  <2>4. CASE stage = "expire"
    BY <1>1, <2>4 DEF tallied, about
  <2>5. CASE stage = "reject"
    BY <1>1, <2>5 DEF tallied, about
  <2>6. CASE stage = "global"
    BY <1>1, <2>6 DEF tallied, about
  <2> QED
    BY <2>1, <2>2, <2>3, <2>4, <2>5, <2>6 DEF Awaiting
<1>8. \A o \in Outcome : IF o \in outs THEN tally'[o] = tally[o] \cup {job} /\ job \notin tally[o] ELSE tally'[o] = tally[o]
  BY <1>2, <1>3, <1>4, <1>5, <1>6, <1>7 DEF Outcome
<1>9. counts' = counted(job, outs)
  BY <1>1
<1> QED
  BY <1>8, <1>9, CountsStep

(* What stays when a result is taken *)
LEMMA ResultFrame ==
  ASSUME IInv, Inv, step = "result", Returned(job), UNCHANGED <<vars, wire>>, UNCHANGED <<workload, order, observed>>,
         plan' \in Seq(Requests), expectation' = expectation \ {job}, counts' = counted(job, tallied[stage]),
         settled' = settled, launched' = launched, consumed' = consumed \cup {job}, job \notin consumed,
         \A r \in Requests : kind[r] = "cancel" => (r \in passed' <=> r \in passed),
         PosInv', PlanInv', step' \notin {"snapshot", "release"}, stage' # "canceling" \/ step' = "barrier",
         stage' \notin {"shutdown", "reported"}, rank[stage'] > 1, rank[stage'] < 10 <=> rank[stage] < 10
  PROVE  Inv'
<1>1. /\ TypeS /\ PosInv /\ LaunchInv /\ EntryInv /\ ServedInv /\ AnswerInv /\ CallInv /\ CmdInv /\ UpstreamInv
      /\ ControlInv /\ SettledInv /\ ConsumedInv /\ ExpectInv /\ HoldInv /\ OrderInv /\ CountInv /\ PlanInv /\ SimInv
  BY DEF Inv
<1>2. /\ stage \in Awaiting /\ job \in Requests /\ kind[job] \in about[stage] /\ call[job] = wanted[stage]
      /\ kind[job] = "deadline" => job \in expired
  BY ResultWanted
<1>3. /\ UNCHANGED <<now, ctxDone, admission, deadline, source, seq, cause, result, terminal, entries, queue, expiry, inflight>>
      /\ UNCHANGED <<deficit, visitOpen, cursor, accepting, pc, cmd, wake>>
  BY OwnerStill
<1>4. UNCHANGED <<handler, answer, call, released, arrivals, seenUpstream, issue>>
  BY DEF wire
<1>5. CountInv' /\ counts' \in [Tenants -> [Outcome -> Nat]]
  BY <1>1, <1>2, ResultTally
<1>6. TypeS'
  BY <1>1, <1>4, <1>5 DEF TypeS
<1>7. EntryInv' /\ ServedInv' /\ AnswerInv' /\ CallInv' /\ UpstreamInv' /\ HoldInv'
  BY <1>1, <1>3, <1>4, Frames
<1>8. LaunchInv' /\ SettledInv' /\ OrderInv'
  BY <1>1, <1>3, <1>4, SameResults DEF LaunchInv, SettledInv, OrderInv
<1>9. CmdInv'
  <2>1. stage \notin {"shutdown", "reported"}
    BY <1>2 DEF Awaiting
  <2> QED
    BY <1>1, <1>3, <1>4, <2>1 DEF CmdInv
<1>10. ControlInv'
  <2>1. rank[stage] > 1
    BY <1>2 DEF Awaiting, rank
  <2> QED
    BY <1>1, <1>3, <1>4, <2>1 DEF ControlInv
<1>11. ConsumedInv'
  <2>1. served' = served /\ expired' = expired /\ canceled' = canceled
    BY <1>3, SameResults
  <2>2. /\ job \in Service \cup {control} => call[job] = "completed"
        /\ kind[job] = "cancel" => call[job] = "canceled"
        /\ kind[job] = "reject" => call[job] = "rejected"
        /\ kind[job] = "global" => call[job] = "globalRejected"
    <3>1. job \in Service \cup {control} => kind[job] \in {"initial", "late", "control"}
      BY Setup
    <3>2. \/ stage = "release" /\ kind[job] = "control" /\ call[job] = "completed"
          \/ stage = "measure" /\ kind[job] \in {"initial", "late"} /\ call[job] = "completed"
          \/ stage = "canceling" /\ kind[job] = "cancel" /\ call[job] = "canceled"
          \/ stage = "expire" /\ kind[job] = "deadline"
          \/ stage = "reject" /\ kind[job] = "reject" /\ call[job] = "rejected"
          \/ stage = "global" /\ kind[job] = "global" /\ call[job] = "globalRejected"
      BY <1>2 DEF Awaiting, about, wanted
    <3> QED
      BY <3>1, <3>2
  <2>3. ASSUME NEW r \in Requests
        PROVE  r \in consumed' =>
                 /\ r \in Service \cup {control} => call'[r] = "completed"
                 /\ kind[r] = "deadline" => r \in expired'
                 /\ kind[r] = "cancel" => call'[r] = "canceled"
                 /\ kind[r] = "reject" => call'[r] = "rejected"
                 /\ kind[r] = "global" => call'[r] = "globalRejected"
    BY <1>1, <1>2, <1>4, <2>1, <2>2 DEF ConsumedInv
  <2>4. ASSUME NEW r \in Requests
        PROVE  /\ r \in passed' /\ kind[r] = "cancel" => r \in canceled'
               /\ call'[r] \in {"canceling", "canceled"} => r \in consumed'
               /\ ~(stage' = "canceling" /\ step' = "result")
    BY <1>1, <1>4, <2>1 DEF ConsumedInv
  <2> QED
    BY <2>3, <2>4 DEF ConsumedInv
<1>12. ExpectInv'
  BY <1>1 DEF ExpectInv
<1>13. SimInv'
  BY <1>1, <1>3, SimFrames
<1> QED
  BY <1>5, <1>6, <1>7, <1>8, <1>9, <1>10, <1>11, <1>12, <1>13 DEF Inv

(* No result makes the run fail, and there is a plan for every service job. *)
LEMMA ResultEffect ==
  ASSUME IInv, Inv, AwaitResult
  PROVE  /\ step = "result" /\ Returned(job) /\ UNCHANGED <<vars, wire>> /\ UNCHANGED <<workload, order, observed>>
         /\ expectation' = expectation \ {job} /\ counts' = counted(job, tallied[stage])
         /\ plan' = IF stage = "release" THEN expectedDispatchPlan ELSE plan
         /\ IF stage \in {"release", "measure"} \/ (stage = "expire" /\ Len(todo) > 1)
            THEN Proceed ELSE Goto("barrier")
         /\ stage \in {"release", "measure"} => Filled
<1>1. step = "result" /\ Returned(job) /\ UNCHANGED <<vars, wire>>
  BY DEF AwaitResult
<1>2. call[job] = wanted[stage]
  BY <1>1, ResultWanted
<1>3. stage \in {"release", "measure"} => Filled
  <2>1. stage \in {"release", "measure"} => rank[stage] >= 8
    BY DEF rank
  <2> QED
    BY <2>1, Filling
<1>4. ~(call[job] # wanted[stage] \/ (stage = "release" /\ Len(expectedDispatchPlan) # Cardinality(Service)))
  BY <1>2, <1>3, PlanFacts
<1> QED
  BY <1>1, <1>3, <1>4 DEF AwaitResult

(* There is another job behind this one, or this one is the last. *)
LEMMA OneOrMore ==
  ASSUME NEW s, Len(s) \in Nat, Len(s) >= 1
  PROVE  Len(s) > 1 <=> Len(s) # 1
<1>1. PICK n : n = Len(s)
  OBVIOUS
<1>2. n > 1 <=> n # 1
  BY <1>1
<1> QED
  BY <1>1, <1>2

(* A result is taken and its barrier comes next. *)
LEMMA ResultWaits ==
  ASSUME IInv, Inv, AwaitResult, ~(stage \in {"release", "measure"} \/ (stage = "expire" /\ Len(todo) > 1))
  PROVE  Inv'
<1>1. /\ TypeS /\ PosInv /\ PlanInv
  BY DEF Inv
<1>2. /\ step = "result" /\ Returned(job) /\ UNCHANGED <<vars, wire>> /\ UNCHANGED <<workload, order, observed>>
      /\ expectation' = expectation \ {job} /\ counts' = counted(job, tallied[stage])
      /\ plan' = plan
  BY ResultEffect
<1>3. Goto("barrier")
  BY ResultEffect
<1>4. stage \in {"canceling", "expire", "reject", "global"} /\ stage \in Awaiting
  BY <1>2, ResultWanted DEF Awaiting
<1>5. UNCHANGED <<stage, todo>> /\ step' = "barrier"
  BY <1>3 DEF Goto
<1>6. rank[stage] \in 5..9
  BY <1>4 DEF rank
<1>7. settled' = settled /\ passed' = passed /\ launched' = launched /\ consumed' = consumed \cup {job} /\ job \notin consumed
  <2>1. settled' = settled /\ passed' = passed
    BY <1>1, <1>3, GotoMoves
  <2>2. launched' = settled \cup (IF stage \in Stages THEN {job} ELSE {})
    BY <1>1, <1>3, GotoMoves
  <2>3. launched = settled \cup (IF stage \in Stages THEN {job} ELSE {})
    BY <1>1, <1>2, Positions
  <2>4. consumed' = passed \cup {job}
    BY <1>1, <1>3, <1>4, GotoMoves
  <2>5. consumed = passed /\ job \notin passed
    BY <1>1, <1>2, <1>4, Positions DEF AtBarrier
  <2> QED
    BY <2>1, <2>2, <2>3, <2>4, <2>5
<1>8. PosInv'
  <2>0. todo # <<>> /\ todo \in Seq(Requests) /\ Len(todo) \in Nat /\ Len(todo) >= 1
    BY <1>1 DEF PosInv
  <2>1. stage = "expire" => Len(todo) = 1
    BY <2>0, OneOrMore
  <2>2. "barrier" \in stepsOf[stage]
    BY <1>4 DEF stepsOf
  <2> QED
    BY <1>1, <1>5, <2>1, <2>2 DEF PosInv
<1>9. PlanInv'
  <2>1. observed = <<>>
    BY <1>1, <1>6 DEF PlanInv
  <2> QED
    BY <1>2, <1>4, <1>5, <1>6, <2>1 DEF PlanInv
<1>10. plan' \in Seq(Requests)
  BY <1>1, <1>2 DEF TypeS
<1>11. stage' \notin {"shutdown", "reported"} /\ rank[stage'] > 1 /\ (rank[stage'] < 10 <=> rank[stage] < 10)
  BY <1>4, <1>5, <1>6
<1> QED
  BY <1>2, <1>5, <1>7, <1>8, <1>9, <1>10, <1>11, ResultFrame

(* The plan stays what it is: the jobs that are left are its end. *)
LEMMA PlanProceeds ==
  ASSUME IInv, Inv, AwaitResult, stage \in {"release", "measure", "expire"}, Proceed,
         stage = "expire" => Len(todo) > 1
  PROVE  /\ PlanInv' /\ plan' \in Seq(Requests)
         /\ stage' = IF stage = "release" THEN "measure" ELSE IF stage = "measure" /\ Len(todo) = 1 THEN "final" ELSE stage
<1>1. /\ TypeS /\ PosInv /\ PlanInv
  BY DEF Inv
<1>2. /\ step = "result" /\ UNCHANGED <<workload, order, observed>>
      /\ plan' = (IF stage = "release" THEN expectedDispatchPlan ELSE plan)
      /\ stage \in {"release", "measure"} => Filled
  BY ResultEffect
<1>3. /\ stage' = (IF Len(todo) = 1 THEN following[stage] ELSE stage)
      /\ todo' = (IF Len(todo) = 1 THEN jobsOf(stage') ELSE Tail(todo))
      /\ step' = firstStep(stage')
  BY DEF Proceed
<1>4. todo \in Seq(Requests) /\ todo # <<>> /\ Len(todo) \in Nat /\ Len(todo) >= 1 /\ IsInjective(todo)
  BY <1>1 DEF PosInv
<1>5. stage = "release" => Len(todo) = 1
  BY <1>1 DEF PosInv
<1>6. stage' = IF stage = "release" THEN "measure" ELSE IF stage = "measure" /\ Len(todo) = 1 THEN "final" ELSE stage
  <2>1. CASE stage = "release"
    BY <1>3, <1>5, <2>1 DEF following
  <2>2. CASE stage = "measure"
    BY <1>3, <2>2 DEF following
  <2>3. CASE stage = "expire"
    <3>1. Len(todo) # 1
      BY <1>4, <2>3, OneOrMore
    <3> QED
      BY <1>3, <2>3, <3>1
  <2> QED
    BY <2>1, <2>2, <2>3
<1>7. expectedDispatchPlan' = expectedDispatchPlan
  BY <1>2, OracleSame
<1>8. CASE stage = "expire"
  <2>1. rank[stage] = 5 /\ stage' = "expire" /\ plan' = plan /\ observed' = <<>>
    BY <1>1, <1>2, <1>6, <1>8 DEF rank, PlanInv
  <2> QED
    BY <1>1, <1>6, <1>8, <2>1 DEF PlanInv, TypeS
<1>9. CASE stage = "release"
  <2>1. rank[stage] = 10 /\ rank[stage'] = 11 /\ stage' = "measure" /\ step' = "dispatch"
    BY <1>3, <1>6, <1>9 DEF rank, firstStep
  <2>2. observed' = <<>>
    BY <1>1, <1>2, <2>1 DEF PlanInv
  <2>3. plan' = expectedDispatchPlan /\ todo' = expectedDispatchPlan
    BY <1>2, <1>3, <1>5, <1>9, <2>1 DEF jobsOf
  <2>4. plan' \in Seq(Requests) /\ IsInjective(plan') /\ ToSet(plan') = Service /\ Len(plan') \in Nat
    BY <1>2, <1>9, <2>3, PlanFacts
  <2>5. /\ Len(todo') <= Len(plan')
        /\ \A i \in 1..Len(todo') : todo'[i] = plan'[Len(plan') - Len(todo') + i]
        /\ Len(observed') = Len(plan') - Len(todo') + 0
        /\ \A i \in 1..Len(observed') : observed'[i] = plan'[i]
    BY <2>2, <2>3, <2>4
  <2> QED
    BY <1>6, <1>7, <2>1, <2>3, <2>4, <2>5 DEF PlanInv
<1>10. CASE stage = "measure"
  <2>1. rank[stage] = 11 /\ plan' = plan /\ plan \in Seq(Requests) /\ observed \in Seq(Requests)
        /\ Len(plan) \in Nat /\ Len(observed) \in Nat
    BY <1>1, <1>2, <1>10 DEF rank, TypeS
  <2>2. /\ plan = expectedDispatchPlan /\ IsInjective(plan) /\ ToSet(plan) = Service
        /\ Len(todo) <= Len(plan)
        /\ \A i \in 1..Len(todo) : todo[i] = plan[Len(plan) - Len(todo) + i]
        /\ Len(observed) = Len(plan) - Len(todo) + 1
        /\ \A i \in 1..Len(observed) : observed[i] = plan[i]
    BY <1>1, <1>2, <1>10, <2>1 DEF PlanInv
  <2>3. CASE Len(todo) = 1
    <3>1. stage' = "final" /\ rank[stage'] = 12
      BY <1>6, <1>10, <2>3 DEF rank
    <3>2. observed = plan
      <4>1. Len(observed) = Len(plan)
        BY <2>1, <2>2, <2>3
      <4>2. \A i \in 1..Len(plan) : observed[i] = plan[i]
        BY <2>2, <4>1
      <4> QED
        BY <2>1, <4>1, <4>2
    <3> QED
      BY <1>2, <1>6, <1>7, <2>1, <2>2, <3>1, <3>2 DEF PlanInv
  <2>4. CASE Len(todo) # 1
    <3>1. stage' = "measure" /\ step' = "dispatch" /\ todo' = Tail(todo)
      BY <1>3, <1>6, <1>10, <2>4 DEF firstStep
    <3>2. /\ Len(Tail(todo)) = Len(todo) - 1
          /\ \A i \in 1..(Len(todo) - 1) : Tail(todo)[i] = todo[i + 1]
      BY <1>4, TailFacts
    <3>3. Len(todo') <= Len(plan') /\ Len(observed') = Len(plan') - Len(todo') + 0
      BY <1>2, <1>4, <2>1, <2>2, <3>1, <3>2
    <3>4. ASSUME NEW i \in 1..Len(todo') PROVE todo'[i] = plan'[Len(plan') - Len(todo') + i]
      <4>1. i \in 1..(Len(todo) - 1) /\ i + 1 \in 1..Len(todo) /\ i \in Nat
        BY <1>4, <3>1, <3>2, <3>4
      <4>2. todo'[i] = plan[Len(plan) - Len(todo) + (i + 1)]
        BY <2>2, <3>1, <3>2, <4>1
      <4>3. Len(plan) - Len(todo) + (i + 1) = Len(plan') - Len(todo') + i
        BY <1>4, <2>1, <3>1, <3>2, <4>1
      <4> QED
        BY <2>1, <4>2, <4>3
    <3>5. \A i \in 1..Len(observed') : observed'[i] = plan'[i]
      BY <1>2, <2>1, <2>2
    <3> QED
      <4>1. rank[stage'] = 11 /\ ~(rank[stage'] < 11) /\ ~(rank[stage'] >= 12)
        BY <1>10, <2>1, <3>1
      <4>2. plan' = expectedDispatchPlan' /\ IsInjective(plan') /\ ToSet(plan') = Service
        BY <1>7, <2>1, <2>2
      <4>3. PlanInv'
        BY <3>1, <3>3, <3>4, <3>5, <4>1, <4>2 DEF PlanInv
      <4> QED
        BY <1>6, <2>1, <4>3
  <2> QED
    BY <2>3, <2>4
<1> QED
  BY <1>8, <1>9, <1>10

(* A result is taken and the next job comes next; with that of the control  *)
(* request the plan is made.                                                *)
LEMMA ResultProceeds ==
  ASSUME IInv, Inv, AwaitResult, stage \in {"release", "measure"} \/ (stage = "expire" /\ Len(todo) > 1)
  PROVE  Inv'
<1>1. /\ TypeS /\ PosInv
  BY DEF Inv
<1>2. /\ step = "result" /\ Returned(job) /\ UNCHANGED <<vars, wire>> /\ UNCHANGED <<workload, order, observed>>
      /\ expectation' = expectation \ {job} /\ counts' = counted(job, tallied[stage])
      /\ stage \in {"release", "measure"} => Filled
  BY ResultEffect
<1>3. Proceed
  BY ResultEffect
<1>4. stage \in Awaiting /\ stage \notin Stages /\ stage \in DOMAIN following
  BY DEF Awaiting, Stages, Enqueued, following
<1>5. /\ PlanInv' /\ plan' \in Seq(Requests)
      /\ stage' = IF stage = "release" THEN "measure" ELSE IF stage = "measure" /\ Len(todo) = 1 THEN "final" ELSE stage
  BY <1>3, PlanProceeds
<1>6. /\ settled' = settled /\ launched' = settled' /\ passed' = passed \cup {job} /\ consumed' = passed'
      /\ PosInv' /\ step' = firstStep(stage')
  <2>1. workload \in Workloads /\ (stage = "release" => Filled)
    BY <1>1, <1>2 DEF TypeS
  <2>2. /\ settled' = settled \cup (IF stage \in Stages THEN {job} ELSE {})
        /\ launched' = settled'
        /\ passed' = passed \cup (IF stage \in Awaiting THEN {job} ELSE {})
        /\ consumed' = passed'
        /\ PosInv' /\ step' = firstStep(stage')
    BY <1>1, <1>3, <1>4, <2>1, ProceedMoves
  <2> QED
    BY <1>4, <2>2
<1>7. launched = settled /\ consumed = passed /\ job \notin passed
  BY <1>1, <1>2, <1>4, Positions DEF AtBarrier
<1>8. kind[job] # "cancel"
  <2>1. kind[job] \in about[stage]
    BY <1>1, JobFacts
  <2> QED
    BY <2>1 DEF about
<1>9. /\ step' \notin {"snapshot", "release"} /\ stage' # "canceling" /\ stage' \notin {"shutdown", "reported"}
      /\ rank[stage'] > 1 /\ (rank[stage'] < 10 <=> rank[stage] < 10)
  <2>1. stage' \in {"measure", "final", "expire"} /\ (stage' = "expire" <=> stage = "expire")
    BY <1>5
  <2> QED
    BY <1>6, <2>1 DEF rank, firstStep
<1>10. /\ launched' = launched /\ consumed' = consumed \cup {job} /\ job \notin consumed
       /\ \A r \in Requests : kind[r] = "cancel" => (r \in passed' <=> r \in passed)
  BY <1>6, <1>7, <1>8
<1> QED
  BY <1>2, <1>5, <1>6, <1>9, <1>10, ResultFrame

(* awaitClientResult: no result is an error. *)
LEMMA AwaitResultKeeps ==
  ASSUME IInv, Inv, AwaitResult
  PROVE  Inv'
BY ResultWaits, ResultProceeds

-----------------------------------------------------------------------------
(* The driver asks for a snapshot, and asks again until it matches *)

(* A step of the driver between asking for a snapshot and reading it *)
LEMMA BarrierFrame ==
  ASSUME IInv, Inv, AtBarrier, NEW s \in {"barrier", "snapshot"}, Goto(s), pc # "busy" \/ cmd.op # "finish",
         UNCHANGED <<now, ctxDone, admission, deadline, source, seq, cause, result, terminal, entries, queue, expiry, inflight>>,
         UNCHANGED <<deficit, visitOpen, cursor, accepting>>,
         UNCHANGED <<wire, workload, expectation, order, plan, observed, counts>>,
         pc \notin {"visit", "serve"}, pc' \notin {"visit", "serve"}, CmdInv'
  PROVE  Inv'
<1>1. /\ TypeS /\ PosInv /\ LaunchInv /\ EntryInv /\ ServedInv /\ AnswerInv /\ CallInv /\ CmdInv /\ UpstreamInv
      /\ ControlInv /\ SettledInv /\ ConsumedInv /\ ExpectInv /\ HoldInv /\ OrderInv /\ CountInv /\ PlanInv /\ SimInv
  BY DEF Inv
<1>2. UNCHANGED <<stage, todo>> /\ step' = s /\ AtBarrier' = TRUE /\ AtBarrier = TRUE
  BY DEF Goto, AtBarrier
<1>3. settled' = settled /\ passed' = passed /\ launched' = launched /\ consumed' = consumed /\ job' = job
  <2>1. settled' = settled /\ passed' = passed /\ job' = job
    BY <1>1, GotoMoves
  <2>2. launched' = settled \cup (IF stage \in Stages THEN {job} ELSE {})
    BY <1>1, GotoMoves
  <2>3. launched = settled \cup (IF stage \in Stages THEN {job} ELSE {})
    BY <1>1, Positions DEF AtBarrier
  <2>4. consumed' = passed \cup (IF stage \in Awaiting THEN {job} ELSE {})
    BY <1>1, GotoMoves
  <2>5. consumed = passed \cup (IF stage \in Awaiting THEN {job} ELSE {})
    BY <1>1, Positions DEF AtBarrier
  <2> QED
    BY <2>1, <2>2, <2>3, <2>4, <2>5
<1>4. UNCHANGED <<handler, answer, call, released, arrivals, seenUpstream, issue>>
  BY DEF wire
<1>5. \A x \in inflight : handler[x] # "done"
  BY ResultFacts, NoFinish
<1>6. PosInv'
  <2>1. s \in stepsOf[stage]
    <3>1. stage \in DOMAIN rank /\ step \in stepsOf[stage] /\ step \in {"barrier", "snapshot"}
      BY <1>1 DEF PosInv, AtBarrier
    <3> QED
      BY <3>1, Tables DEF stepsOf
  <2>2. step' # "event"
    BY <1>2
  <2> QED
    BY <1>1, <1>2, <2>1, <2>2 DEF PosInv
<1>7. TypeS' /\ EntryInv' /\ AnswerInv' /\ CallInv' /\ UpstreamInv' /\ HoldInv'
  BY <1>1, <1>4, Frames
<1>8. LaunchInv' /\ SettledInv' /\ ExpectInv' /\ OrderInv' /\ CountInv'
  BY <1>1, <1>3, <1>4, SetFrames
<1>9. ServedInv'
  BY <1>1, <1>4, <1>5, SameResults DEF ServedInv
<1>10. ControlInv'
  <2>1. step # "release" /\ s # "release"
    BY DEF AtBarrier
  <2> QED
    BY <1>1, <1>2, <1>4, <2>1 DEF ControlInv
<1>11. ConsumedInv'
  <2>1. step # "result" /\ s # "result"
    BY DEF AtBarrier
  <2> QED
    BY <1>1, <1>2, <1>3, <1>4, <2>1, SameResults DEF ConsumedInv
<1>12. PlanInv'
  <2>1. expectedDispatchPlan' = expectedDispatchPlan
    BY OracleSame
  <2>2. step # "dispatch" /\ s # "dispatch"
    BY DEF AtBarrier
  <2> QED
    BY <1>1, <1>2, <2>1, <2>2 DEF PlanInv
<1>13. SimInv'
  BY <1>1, SimFrames
<1> QED
  BY <1>6, <1>7, <1>8, <1>9, <1>10, <1>11, <1>12, <1>13 DEF Inv

(* waitForSnapshot asks. *)
LEMMA AskSnapshotKeeps ==
  ASSUME IInv, Inv, AskSnapshot
  PROVE  Inv'
<1>1. step = "barrier" /\ Goto("snapshot") /\ UNCHANGED <<workload, expectation, order, plan, observed, counts, wire>>
  BY DEF AskSnapshot
<1>2. PICK c : c = [op |-> "snapshot"] /\ WakeUp(c)
  BY DEF AskSnapshot, Receive
<1>3. c.op = "snapshot"
  BY <1>2
<1>4. pc = "select" /\ pc' = "busy" /\ cmd' = c /\ wake' = now /\ now \in Nat
  BY <1>2 DEF WakeUp, IInv, LoopInv, TypeLoop
<1>5. /\ UNCHANGED <<now, ctxDone, admission, deadline, source, seq, cause, result, terminal, entries, queue, expiry, inflight>>
      /\ UNCHANGED <<deficit, visitOpen, cursor, accepting>>
  BY <1>2 DEF WakeUp, marks, books, drr, outside
<1>6. UNCHANGED stage /\ step' = "snapshot"
  BY <1>1 DEF Goto
<1>7. CmdInv'
  BY <1>3, <1>4, <1>5, <1>6 DEF Inv, CmdInv
<1> QED
  BY <1>1, <1>4, <1>5, <1>7, BarrierFrame DEF AtBarrier

(* The snapshot has been taken; what its command was about is over. *)
LEMMA SnapshotHandled ==
  ASSUME IInv, Inv, TakeSnapshot
  PROVE  /\ step = "snapshot" /\ pc = "busy" /\ cmd.op = "snapshot" /\ pc' = "pump" /\ wake' = 0 /\ now \in Nat
         /\ UNCHANGED <<now, ctxDone, admission, deadline, source, seq, cause, result, terminal, entries, queue, expiry, inflight>>
         /\ UNCHANGED <<deficit, visitOpen, cursor, accepting, counters, wire>>
         /\ \A x \in inflight : handler[x] # "done"
<1>1. step = "snapshot" /\ Handling("snapshot") /\ NothingToHandle /\ UNCHANGED outside /\ UNCHANGED wire
  BY DEF TakeSnapshot
<1>2. pc = "busy" /\ cmd.op = "snapshot"
  BY <1>1 DEF Handling
<1>3. pc' = "pump" /\ wake' = 0 /\ now \in Nat
  BY <1>1 DEF NothingToHandle, Handled, IInv, LoopInv, TypeLoop
<1>4. /\ UNCHANGED <<now, ctxDone, admission, deadline, source, seq, cause, result, terminal, entries, queue, expiry, inflight>>
      /\ UNCHANGED <<deficit, visitOpen, cursor, accepting, counters, wire>>
  BY <1>1 DEF NothingToHandle, marks, books, drr, outside
<1>5. \A x \in inflight : handler[x] # "done"
  BY <1>2, ResultFacts, NoFinish
<1> QED
  BY <1>1, <1>2, <1>3, <1>4, <1>5

(* A snapshot that does not match is taken again. *)
LEMMA SnapshotRetried ==
  ASSUME IInv, Inv, TakeSnapshot, ~snapshotMatches
  PROVE  Inv'
<1>1. /\ step = "snapshot" /\ pc = "busy" /\ cmd.op = "snapshot" /\ pc' = "pump" /\ wake' = 0 /\ now \in Nat
      /\ UNCHANGED <<now, ctxDone, admission, deadline, source, seq, cause, result, terminal, entries, queue, expiry, inflight>>
      /\ UNCHANGED <<deficit, visitOpen, cursor, accepting, wire>>
  BY SnapshotHandled
<1>2. Goto("barrier") /\ UNCHANGED <<workload, expectation, order, plan, observed, counts>>
  BY DEF TakeSnapshot
<1>3. UNCHANGED stage /\ step' = "barrier"
  BY <1>2 DEF Goto
<1>4. CmdInv'
  BY <1>1, <1>3 DEF Inv, CmdInv
<1> QED
  BY <1>1, <1>2, <1>4, BarrierFrame DEF AtBarrier

-----------------------------------------------------------------------------
(* A snapshot that matches: what the driver may conclude from its sums *)

(* As many jobs wait as are expected to, and in the end nobody is in        *)
(* flight.                                                                  *)
LEMMA SnapshotCounts ==
  ASSUME IInv, Inv, snapshotMatches
  PROVE  /\ IsFiniteSet(expiry) /\ IsFiniteSet(expectation) /\ Cardinality(expiry) = Cardinality(expectation)
         /\ expiry \subseteq Requests /\ expectation \subseteq Requests
         /\ stage = "final" => inflight = {}
<1>1. PosInv /\ ExpectInv
  BY DEF Inv
<1>2. expiry \subseteq Requests /\ inflight \subseteq Requests
  BY ResultFacts
<1>3. expectation \subseteq Requests
  BY <1>1, Positions DEF ExpectInv
<1>4. IsFiniteSet(expiry) /\ IsFiniteSet(expectation) /\ IsFiniteSet(inflight)
  BY <1>2, <1>3, Setup, FS_Subset
<1>5. 0 \in Scopes /\ Global = 0
  BY Setup
<1>6. Charged(0, expiry) = expiry /\ Charged(0, inflight) = inflight
  BY <1>5 DEF Charged, Charges
<1>7. counters[0].queuedCount = Cardinality(expiry) /\ counters[0].inflightCount = Cardinality(inflight)
  BY <1>5, <1>6 DEF IInv, DataInv, AccountingExact
<1>8. counters[0] = expectedCounters(0)
  BY <1>5 DEF snapshotMatches
<1>9. {r \in expectation : 0 \in {Global, tenant[r]}} = expectation
  BY <1>5
<1>10. expectedCounters(0).queuedCount = Cardinality(expectation)
  BY <1>9 DEF expectedCounters
<1>11. ASSUME stage = "final" PROVE inflight = {}
  <2>1. expectedCounters(0).inflightCount = Cardinality({})
    BY <1>11 DEF expectedCounters
  <2> QED
    BY <1>4, <1>7, <1>8, <2>1, FS_EmptySet
<1> QED
  BY <1>2, <1>3, <1>4, <1>7, <1>8, <1>10, <1>11

(* What is queued is expected to be, except a job that is being cancelled. *)
LEMMA QueuedExpected ==
  ASSUME IInv, Inv, NEW r \in expiry, r # control
  PROVE  r \in expectation \/ (stage = "canceling" /\ r = job)
<1>1. /\ PosInv /\ CallInv /\ ConsumedInv /\ ExpectInv
  BY DEF Inv
<1>2. r \in Requests /\ deadline[r] # 0 /\ r \notin answered
  BY ResultFacts
<1>3. r \in launched /\ answer[r] = "none" /\ kind[r] \in Enqueued
  BY <1>2, QueuedFacts, Setup
<1>4. r \in consumed => stage = "canceling" /\ r = job
  <2>1. SUFFICES ASSUME r \in consumed PROVE stage = "canceling" /\ r = job
    OBVIOUS
  <2>2. r \notin Service
    BY <1>1, <1>2, <1>3, <2>1 DEF ConsumedInv, CallInv
  <2>3. kind[r] # "deadline"
    BY <1>1, <1>2, <2>1, ResultFacts DEF ConsumedInv
  <2>4. kind[r] = "cancel"
    BY <1>2, <1>3, <2>2, <2>3, Setup DEF Enqueued
  <2>5. r \notin passed
    BY <1>1, <1>2, <2>4, ResultFacts DEF ConsumedInv
  <2>6. stage \in Awaiting /\ r = job
    BY <1>1, <2>1, <2>5, Positions
  <2>7. stage = "canceling"
    BY <1>1, <2>4, <2>6, JobFacts DEF awaits
  <2> QED
    BY <2>6, <2>7
<1> QED
  BY <1>1, <1>3, <1>4 DEF ExpectInv

(* The job just launched is in the queue. *)
LEMMA BarrierQueued ==
  ASSUME IInv, Inv, step = "snapshot", snapshotMatches, stage \in Enqueued
  PROVE  job \in expiry
<1>1. /\ PosInv /\ ExpectInv /\ ControlInv
  BY DEF Inv
<1>2. rank[stage] \in 2..7 /\ stage \in Stages /\ stage \notin Awaiting /\ stage # "canceling"
  BY DEF Enqueued, rank, Stages, Awaiting
<1>3. released[control] = "no"
  BY <1>1, <1>2 DEF ControlInv
<1>4. control \in served
  BY <1>2, <1>3, ControlHeld
<1>5. control \notin expiry
  BY <1>4, ResultFacts
<1>6. expiry \subseteq expectation
  BY <1>2, <1>5, QueuedExpected
<1>7. expiry = expectation
  BY <1>6, SnapshotCounts, FS_Subset
<1>8. job \in launched /\ job \notin settled /\ consumed = passed
  BY <1>1, <1>2, Positions
<1>9. job \notin consumed
  BY <1>1, <1>8, Ranks
<1>10. kind[job] \in Enqueued
  BY <1>1, <1>2, JobFacts
<1> QED
  BY <1>1, <1>7, <1>8, <1>9, <1>10 DEF ExpectInv

(* The job just cancelled has left the queue, and for that reason. *)
LEMMA BarrierCanceled ==
  ASSUME IInv, Inv, step = "snapshot", snapshotMatches, stage = "canceling"
  PROVE  job \in canceled
<1>1. /\ PosInv /\ ServedInv /\ ExpectInv /\ ControlInv /\ SettledInv /\ ConsumedInv
  BY DEF Inv
<1>2. rank[stage] = 6 /\ stage \notin Stages /\ stage \in Awaiting
  BY DEF Enqueued, rank, Stages, Awaiting
<1>3. released[control] = "no"
  BY <1>1, <1>2 DEF ControlInv
<1>4. served = {control} /\ control \notin Service
  BY <1>2, <1>3, ControlHeld, Setup
<1>5. launched = settled /\ job \in consumed
  BY <1>1, <1>2, Positions DEF AtBarrier
<1>6. ASSUME NEW r \in expectation PROVE r \in expiry
  <2>1. r \in settled /\ r \notin consumed /\ kind[r] \in Enqueued /\ r \in Requests
    BY <1>1, <1>5, <1>6, Positions DEF ExpectInv
  <2>2. kind[r] # "deadline"
    <3>1. SUFFICES ASSUME kind[r] = "deadline" PROVE FALSE
      OBVIOUS
    <3>2. rank[stage] > rank[awaits[kind[r]]]
      BY <1>2, <3>1 DEF rank, awaits
    <3>3. r \in passed
      BY <1>1, <2>1, <3>2, Ranks
    <3> QED
      BY <1>1, <2>1, <3>3, Positions
  <2>3. CASE kind[r] = "cancel"
    <3>1. ~ctxDone[r]
      BY <1>1, <2>1 DEF ServedInv, ConsumedInv
    <3> QED
      BY <1>1, <2>1, <2>3, <3>1 DEF SettledInv
  <2>4. CASE kind[r] \in {"initial", "late"}
    <3>1. r \in Service
      BY <2>1, <2>4, Setup
    <3> QED
      BY <1>1, <1>4, <2>1, <3>1 DEF SettledInv
  <2> QED
    BY <2>1, <2>2, <2>3, <2>4 DEF Enqueued
<1>7. expiry = expectation
  <2>1. expectation \subseteq expiry
    BY <1>6
  <2> QED
    BY <2>1, SnapshotCounts, FS_Subset
<1>8. job \notin expiry
  BY <1>1, <1>5, <1>7 DEF ExpectInv
<1>9. kind[job] = "cancel" /\ job \in Requests
  BY <1>1, JobFacts DEF about
<1>10. job \in settled
  <2>1. rank[stage] > rank[kind[job]]
    BY <1>2, <1>9 DEF rank
  <2> QED
    BY <1>1, <1>9, <2>1, Ranks
<1> QED
  BY <1>1, <1>8, <1>9, <1>10 DEF SettledInv

(* After the last of them nothing is left. *)
LEMMA AllConsumed ==
  ASSUME PosInv, rank[stage] >= 12
  PROVE  settled = Requests /\ launched = Requests /\ passed = Requests /\ consumed = Requests
<1>1. rank[stage] \in 12..14 /\ stage \notin Stages
  BY Ranks
<1>2. ASSUME NEW r \in Requests PROVE r \in settled /\ r \in passed
  <2>1. kind[r] \in Stages
    BY Setup
  <2>2. rank[stage] > rank[kind[r]] /\ rank[stage] > rank[awaits[kind[r]]]
    BY <1>1, <2>1 DEF rank, awaits, Stages, Enqueued
  <2> QED
    BY <2>2, Ranks
<1> QED
  BY <1>2, Positions

(* waitForEmptySnapshot: the last barrier is passed with empty books. *)
LEMMA BarrierFinal ==
  ASSUME IInv, Inv, step = "snapshot", snapshotMatches, stage = "final"
  PROVE  entries = {}
<1>1. PosInv /\ ExpectInv
  BY DEF Inv
<1>2. expectation = {}
  <2>1. rank[stage] >= 12
    BY DEF rank
  <2> QED
    BY <1>1, <2>1, AllConsumed DEF ExpectInv
<1>3. expiry = {}
  BY <1>2, SnapshotCounts, FS_EmptySet
<1> QED
  BY <1>3, SnapshotCounts, ResultFacts

-----------------------------------------------------------------------------
(* The report *)

(* The jobs of a service tenant: one to cancel, one to expire, one to be    *)
(* refused, and the service jobs.                                           *)
LEMMA TenantJobs ==
  ASSUME NEW t \in {2, 3}
  PROVE  \E S, c, d, j :
           /\ S = {r \in Service : tenant[r] = t} /\ IsFiniteSet(S) /\ Cardinality(S) = QueueLimits[t].count
           /\ {r \in Requests : kind[r] = "cancel" /\ tenant[r] = t} = {c}
           /\ {r \in Requests : kind[r] = "deadline" /\ tenant[r] = t} = {d}
           /\ {r \in Requests : kind[r] = "reject" /\ tenant[r] = t} = {j}
           /\ QueueLimits[t].count \in Nat
<1>1. t \in ToSet(ServiceTenants) /\ t \in Scopes
  BY Setup
<1>2. PICK S, C, D, J :
        /\ S = {r \in Service : tenant[r] = t} /\ C = {r \in Requests : kind[r] = "cancel" /\ tenant[r] = t}
        /\ D = {r \in Requests : kind[r] = "deadline" /\ tenant[r] = t}
        /\ J = {r \in Requests : kind[r] = "reject" /\ tenant[r] = t}
  OBVIOUS
<1>3. S \subseteq Requests /\ C \subseteq Requests /\ D \subseteq Requests /\ J \subseteq Requests
  BY <1>2, Setup
<1>4. IsFiniteSet(S) /\ IsFiniteSet(C) /\ IsFiniteSet(D) /\ IsFiniteSet(J)
  BY <1>3, Setup, FS_Subset
<1>5. /\ C = {r \in Jobs("cancel") : tenant[r] = t} /\ D = {r \in Jobs("deadline") : tenant[r] = t}
      /\ J = {r \in Jobs("reject") : tenant[r] = t}
  BY <1>2 DEF Jobs
<1>6. /\ Cardinality({r \in Jobs("cancel") : tenant[r] = t}) = 1
      /\ Cardinality({r \in Jobs("deadline") : tenant[r] = t}) = 1
      /\ Cardinality({r \in Jobs("reject") : tenant[r] = t}) = 1
      /\ Cardinality({r \in Service : tenant[r] = t}) = QueueLimits[t].count
  BY <1>1, WorkloadAssumption DEF validateSeededWorkload
<1>7. Cardinality(C) = 1 /\ Cardinality(D) = 1 /\ Cardinality(J) = 1 /\ Cardinality(S) = QueueLimits[t].count
  BY <1>2, <1>5, <1>6
<1>8. PICK c, d, j : C = {c} /\ D = {d} /\ J = {j}
  <2>1. PICK c : C = {c}
    BY <1>4, <1>7, FS_Singleton
  <2>2. PICK d : D = {d}
    BY <1>4, <1>7, FS_Singleton
  <2>3. PICK j : J = {j}
    BY <1>4, <1>7, FS_Singleton
  <2> QED
    BY <2>1, <2>2, <2>3, Zenon
<1>9. QueueLimits[t].count \in Nat
  BY <1>4, <1>7, FS_CardinalityType
<1>10. /\ S = {r \in Service : tenant[r] = t} /\ IsFiniteSet(S) /\ Cardinality(S) = QueueLimits[t].count
       /\ {r \in Requests : kind[r] = "cancel" /\ tenant[r] = t} = {c}
       /\ {r \in Requests : kind[r] = "deadline" /\ tenant[r] = t} = {d}
       /\ {r \in Requests : kind[r] = "reject" /\ tenant[r] = t} = {j}
       /\ QueueLimits[t].count \in Nat
  BY <1>2, <1>4, <1>7, <1>8, <1>9, Zenon
<1> QED
  BY <1>10, Zenon

(* A set with one more member *)
LEMMA OneMore ==
  ASSUME NEW S, IsFiniteSet(S), NEW n, Cardinality(S) = n, NEW x, x \notin S, NEW T, T = S \cup {x}
  PROVE  IsFiniteSet(T) /\ Cardinality(T) = n + 1
BY FS_AddElement

(* What the accumulators say in the end *)
LEMMA FinalTally ==
  ASSUME settled = Requests, launched = Requests, passed = Requests, consumed = Requests, NEW t \in {2, 3}
  PROVE  /\ Of(t, tally["submitted"]) = QueueLimits[t].count + 3
         /\ Of(t, tally["admitted"]) = QueueLimits[t].count + 2
         /\ Of(t, tally["completed"]) = QueueLimits[t].count
         /\ Of(t, tally["rejected"]) = 1 /\ Of(t, tally["canceled"]) = 1 /\ Of(t, tally["deadlineExceeded"]) = 1
         /\ QueueLimits[t].count \in Nat
<1>1. PICK S, c, d, j :
        /\ S = {r \in Service : tenant[r] = t} /\ IsFiniteSet(S) /\ Cardinality(S) = QueueLimits[t].count
        /\ {r \in Requests : kind[r] = "cancel" /\ tenant[r] = t} = {c}
        /\ {r \in Requests : kind[r] = "deadline" /\ tenant[r] = t} = {d}
        /\ {r \in Requests : kind[r] = "reject" /\ tenant[r] = t} = {j}
        /\ QueueLimits[t].count \in Nat
  BY TenantJobs, Zenon
<1>2. /\ kind[c] = "cancel" /\ kind[d] = "deadline" /\ kind[j] = "reject"
      /\ c \in Requests /\ d \in Requests /\ j \in Requests
  BY <1>1
<1>3. S = {r \in Requests : kind[r] \in {"initial", "late"} /\ tenant[r] = t}
  BY <1>1, Setup
<1>4. c \notin S /\ d \notin S \cup {c} /\ j \notin S \cup {c} \cup {d}
  BY <1>2, <1>3
<1>5. PICK n, n1, n2, n3, S1, S2, S3 :
        /\ n = QueueLimits[t].count /\ n \in Nat /\ n1 = n + 1 /\ n2 = n1 + 1 /\ n3 = n2 + 1
        /\ S1 = S \cup {c} /\ S2 = S1 \cup {d} /\ S3 = S2 \cup {j}
  BY <1>1
<1>6. IsFiniteSet(S1) /\ Cardinality(S1) = n1 /\ c \notin S /\ d \notin S1 /\ j \notin S2
  <2>1. c \notin S /\ d \notin S1 /\ j \notin S2
    BY <1>4, <1>5
  <2>2. IsFiniteSet(S) /\ Cardinality(S) = n
    BY <1>1, <1>5
  <2>3. S1 = S \cup {c} /\ n1 = n + 1
    BY <1>5
  <2>4. IsFiniteSet(S1) /\ Cardinality(S1) = n1
    BY <2>1, <2>2, <2>3, OneMore
  <2> QED
    BY <2>1, <2>4
<1>7. Cardinality(S2) = n2 /\ Cardinality(S3) = n3
  <2>1. IsFiniteSet(S2) /\ Cardinality(S2) = n2
    BY <1>5, <1>6, OneMore
  <2> QED
    BY <1>5, <1>6, <2>1, OneMore
<1>8. {r \in tally["submitted"] : tenant[r] = t} = S3
  BY <1>1, <1>3, <1>5 DEF tally, Enqueued
<1>9. {r \in tally["admitted"] : tenant[r] = t} = S2
  BY <1>1, <1>3, <1>5 DEF tally, Enqueued
<1>10. {r \in tally["completed"] : tenant[r] = t} = S
  BY <1>1, Setup DEF tally
<1>11. {r \in tally["rejected"] : tenant[r] = t} = {j}
  BY <1>1 DEF tally
<1>12. {r \in tally["canceled"] : tenant[r] = t} = {c}
  BY <1>1 DEF tally
<1>13. {r \in tally["deadlineExceeded"] : tenant[r] = t} = {d}
  BY <1>1 DEF tally
<1> QED
  <2>1. /\ Of(t, tally["rejected"]) = 1 /\ Of(t, tally["canceled"]) = 1 /\ Of(t, tally["deadlineExceeded"]) = 1
        /\ Of(t, tally["completed"]) = n
    BY <1>1, <1>5, <1>10, <1>11, <1>12, <1>13, FS_Singleton DEF Of
  <2>2. Of(t, tally["submitted"]) = n3 /\ Of(t, tally["admitted"]) = n2
    BY <1>7, <1>8, <1>9 DEF Of
  <2>3. n3 = n + 3 /\ n2 = n + 2
    BY <1>5
  <2> QED
    BY <1>5, <2>1, <2>2, <2>3

(* Every job that was meant to arrive has arrived, and no other. *)
LEMMA SeenAll ==
  ASSUME IInv, Inv, rank[stage] >= 12
  PROVE  /\ seenUpstream = Service \cup {control}
         /\ IsFiniteSet(Service) /\ Cardinality(Service) \in Nat
         /\ Cardinality(seenUpstream) = Cardinality(Service) + 1
<1>1. /\ PosInv /\ TypeS /\ ServedInv /\ AnswerInv /\ CallInv /\ UpstreamInv /\ ConsumedInv
  BY DEF Inv
<1>2. consumed = Requests
  BY <1>1, AllConsumed
<1>3. Service \subseteq Requests /\ control \in Requests /\ control \notin Service
  BY Setup
<1>4. ASSUME NEW r \in Service \cup {control} PROVE r \in seenUpstream
  <2>1. r \in Requests /\ call[r] = "completed"
    BY <1>1, <1>2, <1>3, <1>4 DEF ConsumedInv
  <2>2. answer[r] # "none" /\ call[r] = classify(kind[r], answer[r])
    BY <1>1, <2>1 DEF CallInv
  <2>3. kind[r] \in {"control", "initial", "late"}
    BY <1>3, <1>4, Setup
  <2>4. answer[r] = "ok"
    BY <2>1, <2>2, <2>3 DEF classify, validBody
  <2>5. handler[r] \in {"written", "done"}
    BY <1>1, <2>1, <2>2 DEF AnswerInv
  <2>6. r \in served
    BY <1>1, <2>1, <2>4, <2>5 DEF AnswerInv, ServedInv
  <2> QED
    BY <1>1, <2>1, <2>5, <2>6 DEF UpstreamInv
<1>5. ASSUME NEW r \in seenUpstream PROVE r \in Service \cup {control}
  <2>1. r \in Requests /\ r \in served
    BY <1>1, <1>5 DEF UpstreamInv, TypeS
  <2>2. kind[r] \in {"control", "initial", "late"}
    BY <1>1, <2>1 DEF ServedInv
  <2> QED
    BY <2>1, <2>2, Setup
<1>6. seenUpstream = Service \cup {control}
  BY <1>4, <1>5
<1>7. IsFiniteSet(Service)
  BY <1>3, Setup, FS_Subset
<1> QED
  BY <1>3, <1>6, <1>7, FS_AddElement, FS_CardinalityType

(* The numbers that are constants in the harness come out right. *)
LEMMA ReportValid ==
  ASSUME IInv, Inv, rank[stage] >= 12
  PROVE  validReport
<1>1. /\ PosInv /\ CountInv /\ PlanInv
  BY DEF Inv
<1>2. settled = Requests /\ launched = Requests /\ passed = Requests /\ consumed = Requests
  BY <1>1, AllConsumed
<1>3. ToSet(ServiceTenants) = {2, 3} /\ ServiceTenants = <<2, 3>> /\ ServiceTenants[1] = 2 /\ ServiceTenants[2] = 3
  BY Setup
<1>4. ASSUME NEW t \in {2, 3}
      PROVE  counts[t] = [submitted |-> QueueLimits[t].count + 3, admitted |-> QueueLimits[t].count + 2,
                          completed |-> QueueLimits[t].count, rejected |-> 1, canceled |-> 1,
                          deadlineExceeded |-> 1]
  <2>1. counts[t] = [o \in Outcome |-> Of(t, tally[o])]
    BY <1>1, <1>3 DEF CountInv
  <2> QED
    BY <1>2, <2>1, FinalTally DEF Outcome
<1>5. plan = observed /\ Len(plan) = Cardinality(Service)
  <2>1. Filled /\ rank[stage] >= 11
    BY Filling, Ranks, <1>1
  <2> QED
    BY <1>1, <2>1, PlanFacts DEF PlanInv
<1>6. PICK S2, c2, d2, j2 :
        /\ S2 = {r \in Service : tenant[r] = 2} /\ IsFiniteSet(S2) /\ Cardinality(S2) = QueueLimits[2].count
        /\ {r \in Requests : kind[r] = "cancel" /\ tenant[r] = 2} = {c2}
        /\ {r \in Requests : kind[r] = "deadline" /\ tenant[r] = 2} = {d2}
        /\ {r \in Requests : kind[r] = "reject" /\ tenant[r] = 2} = {j2}
        /\ QueueLimits[2].count \in Nat
  BY TenantJobs, Zenon
<1>7. PICK S3, c3, d3, j3 :
        /\ S3 = {r \in Service : tenant[r] = 3} /\ IsFiniteSet(S3) /\ Cardinality(S3) = QueueLimits[3].count
        /\ {r \in Requests : kind[r] = "cancel" /\ tenant[r] = 3} = {c3}
        /\ {r \in Requests : kind[r] = "deadline" /\ tenant[r] = 3} = {d3}
        /\ {r \in Requests : kind[r] = "reject" /\ tenant[r] = 3} = {j3}
        /\ QueueLimits[3].count \in Nat
  BY TenantJobs, Zenon
<1>8. PICK q2, q3 : q2 = QueueLimits[2].count /\ q3 = QueueLimits[3].count /\ q2 \in Nat /\ q3 \in Nat
  BY <1>6, <1>7
<1>9. Cardinality(Service) = q2 + q3
  <2>1. Service = S2 \cup S3 /\ S2 \cap S3 = {}
    BY <1>6, <1>7, Setup
  <2>2. Cardinality(S2 \cup S3) = Cardinality(S2) + Cardinality(S3) - Cardinality(S2 \cap S3)
    BY <1>6, <1>7, FS_Union
  <2>3. Cardinality(S2) = q2 /\ Cardinality(S3) = q3
    BY <1>6, <1>7, <1>8
  <2>4. Cardinality(S2 \cap S3) = 0
    BY <2>1, FS_EmptySet
  <2> QED
    BY <1>8, <2>1, <2>2, <2>3, <2>4
<1>10. Cardinality(Requests) = q2 + q3 + 8
  <2>1. PICK g \in Requests : kind[g] = "global"
    BY KindsExist DEF Stages
  <2>2. PICK A : A = Service
    OBVIOUS
  <2>3. /\ A = {r \in Requests : kind[r] \in {"initial", "late"}} /\ IsFiniteSet(A)
    BY <2>2, SeenAll, Setup
  <2>4. /\ kind[c2] = "cancel" /\ kind[c3] = "cancel" /\ c2 # c3 /\ kind[d2] = "deadline" /\ kind[d3] = "deadline" /\ d2 # d3
        /\ kind[j2] = "reject" /\ kind[j3] = "reject" /\ j2 # j3 /\ kind[control] = "control"
        /\ {c2, c3, d2, d3, j2, j3, control} \subseteq Requests
    BY <1>6, <1>7, Setup
  <2>5. Requests = A \cup {c2} \cup {c3} \cup {d2} \cup {d3} \cup {j2} \cup {j3} \cup {control} \cup {g}
    <3>1. ASSUME NEW r \in Requests
          PROVE  r \in A \cup {c2} \cup {c3} \cup {d2} \cup {d3} \cup {j2} \cup {j3} \cup {control} \cup {g}
      <4>1. kind[r] \in {"control", "initial", "late", "cancel", "deadline", "reject", "global"}
        BY Setup DEF Stages, Enqueued
      <4>2. kind[r] \in {"cancel", "deadline", "reject"} => tenant[r] \in {2, 3}
        BY Setup
      <4>3. kind[r] = "control" => r = control
        BY Setup
      <4>4. kind[r] = "global" => r = g
        BY <2>1, Setup
      <4> QED
        BY <1>6, <1>7, <2>3, <4>1, <4>2, <4>3, <4>4
    <3> QED
      BY <2>1, <2>3, <2>4, <3>1
  <2>6. PICK B1, B2, B3, B4, B5, B6, B7 :
          /\ B1 = A \cup {c2} /\ B2 = B1 \cup {c3} /\ B3 = B2 \cup {d2} /\ B4 = B3 \cup {d3} /\ B5 = B4 \cup {j2}
          /\ B6 = B5 \cup {j3} /\ B7 = B6 \cup {control}
    OBVIOUS
  <2>7. c2 \notin A /\ c3 \notin B1 /\ d2 \notin B2 /\ d3 \notin B3 /\ j2 \notin B4 /\ j3 \notin B5 /\ control \notin B6 /\ g \notin B7
    BY <2>1, <2>3, <2>4, <2>6
  <2>8. PICK n, n1, n2, n3, n4, n5, n6, n7 :
          /\ n = q2 + q3 /\ n \in Nat /\ n1 = n + 1 /\ n2 = n1 + 1 /\ n3 = n2 + 1 /\ n4 = n3 + 1 /\ n5 = n4 + 1
          /\ n6 = n5 + 1 /\ n7 = n6 + 1
    BY <1>8
  <2>9. Cardinality(A) = n
    BY <1>9, <2>2, <2>8
  <2>10. IsFiniteSet(B1) /\ Cardinality(B1) = n1
    <3>1. c2 \notin A /\ B1 = A \cup {c2} /\ n1 = n + 1
      BY <2>6, <2>7, <2>8
    <3> QED
      BY <2>3, <2>9, <3>1, OneMore
  <2>11. IsFiniteSet(B2) /\ Cardinality(B2) = n2
    <3>1. c3 \notin B1 /\ B2 = B1 \cup {c3} /\ n2 = n1 + 1
      BY <2>6, <2>7, <2>8
    <3> QED
      BY <2>10, <3>1, OneMore
  <2>12. IsFiniteSet(B3) /\ Cardinality(B3) = n3
    <3>1. d2 \notin B2 /\ B3 = B2 \cup {d2} /\ n3 = n2 + 1
      BY <2>6, <2>7, <2>8
    <3> QED
      BY <2>11, <3>1, OneMore
  <2>13. IsFiniteSet(B4) /\ Cardinality(B4) = n4
    <3>1. d3 \notin B3 /\ B4 = B3 \cup {d3} /\ n4 = n3 + 1
      BY <2>6, <2>7, <2>8
    <3> QED
      BY <2>12, <3>1, OneMore
  <2>14. IsFiniteSet(B5) /\ Cardinality(B5) = n5
    <3>1. j2 \notin B4 /\ B5 = B4 \cup {j2} /\ n5 = n4 + 1
      BY <2>6, <2>7, <2>8
    <3> QED
      BY <2>13, <3>1, OneMore
  <2>15. IsFiniteSet(B6) /\ Cardinality(B6) = n6
    <3>1. j3 \notin B5 /\ B6 = B5 \cup {j3} /\ n6 = n5 + 1
      BY <2>6, <2>7, <2>8
    <3> QED
      BY <2>14, <3>1, OneMore
  <2>16. IsFiniteSet(B7) /\ Cardinality(B7) = n7 /\ Cardinality(B7 \cup {g}) = n7 + 1
    <3>0. control \notin B6 /\ B7 = B6 \cup {control} /\ n7 = n6 + 1
      BY <2>6, <2>7, <2>8
    <3>1. IsFiniteSet(B7) /\ Cardinality(B7) = n7
      BY <2>15, <3>0, OneMore
    <3>2. PICK B : B = B7 \cup {g}
      OBVIOUS
    <3>3. Cardinality(B) = n7 + 1
      BY <2>7, <3>1, <3>2, OneMore
    <3> QED
      BY <3>1, <3>2, <3>3
  <2>17. Requests = B7 \cup {g}
    BY <2>5, <2>6
  <2>18. n7 + 1 = q2 + q3 + 8
    BY <1>8, <2>8
  <2> QED
    BY <2>16, <2>17, <2>18
<1>11. Cardinality(seenUpstream) = q2 + q3 + 1
  BY <1>8, <1>9, SeenAll
<1>12. /\ counts[2]["submitted"] = q2 + 3 /\ counts[3]["submitted"] = q3 + 3
       /\ counts[2]["completed"] = q2 /\ counts[3]["completed"] = q3
  BY <1>4, <1>8
<1>13. Reconciled
  BY <1>3, <1>8, <1>10, <1>11, <1>12 DEF Reconciled
<1> QED
  BY <1>3, <1>4, <1>5, <1>13 DEF validReport

-----------------------------------------------------------------------------
(* The driver goes on to the next job or stage *)

(* What a matching snapshot does *)
LEMMA SnapshotEffect ==
  ASSUME IInv, Inv, TakeSnapshot, snapshotMatches
  PROVE  /\ Proceed /\ UNCHANGED <<workload, expectation, order, plan, observed>>
         /\ \E outs : /\ counts' = counted(job, outs)
                      /\ outs = IF stage \in Enqueued THEN {"admitted"} ELSE IF stage = "canceling" THEN {"canceled"} ELSE {}
<1>1. ~(snapshotMatches /\ stage = "final" /\ ~validReport)
  <2>1. SUFFICES ASSUME stage = "final" PROVE validReport
    OBVIOUS
  <2>2. rank[stage] >= 12
    BY <2>1 DEF rank
  <2> QED
    BY <2>2, ReportValid
<1>2. PICK outs : outs = CASE stage \in Enqueued -> {"admitted"} [] stage = "canceling" -> {"canceled"} [] OTHER -> {}
  OBVIOUS
<1>3. counts' = counted(job, outs) /\ Proceed /\ UNCHANGED <<workload, expectation, order, plan, observed>>
  BY <1>1, <1>2 DEF TakeSnapshot
<1>4. outs = IF stage \in Enqueued THEN {"admitted"} ELSE IF stage = "canceling" THEN {"canceled"} ELSE {}
  BY <1>2 DEF Enqueued
<1> QED
  BY <1>3, <1>4

(* One more job has been admitted, or cancelled, and is counted. *)
LEMMA BarrierTally ==
  ASSUME TypeS, CountInv, PosInv, NEW outs, counts' = counted(job, outs),
         outs = IF stage \in Enqueued THEN {"admitted"} ELSE IF stage = "canceling" THEN {"canceled"} ELSE {},
         settled' = settled \cup (IF stage \in Stages THEN {job} ELSE {}),
         passed' = passed \cup (IF stage \in Awaiting THEN {job} ELSE {}),
         launched' = launched, consumed' = consumed
  PROVE  CountInv' /\ counts' \in [Tenants -> [Outcome -> Nat]]
<1>1. /\ job \in Requests /\ kind[job] \in about[stage] /\ kind[job] \in Stages
      /\ stage \in Stages => kind[job] = stage /\ job \notin settled
      /\ stage \in Awaiting <=> stage = awaits[kind[job]]
      /\ stage \in Awaiting => job \notin passed
  BY JobFacts, Positions
<1>2. /\ tally'["submitted"] = tally["submitted"] /\ tally'["completed"] = tally["completed"]
      /\ tally'["rejected"] = tally["rejected"] /\ tally'["deadlineExceeded"] = tally["deadlineExceeded"]
  BY TallySame
<1>3. /\ tally'["admitted"] = IF stage \in Enqueued THEN tally["admitted"] \cup {job} ELSE tally["admitted"]
      /\ stage \in Enqueued => job \notin tally["admitted"]
  <2>1. stage \in Enqueued => stage \in Stages
    BY DEF Stages
  <2> QED
    BY <1>1, <2>1 DEF tally
<1>4. /\ tally'["canceled"] = IF stage = "canceling" THEN tally["canceled"] \cup {job} ELSE tally["canceled"]
      /\ stage = "canceling" => job \notin tally["canceled"]
  <2>1. stage = "canceling" => stage \in Awaiting /\ kind[job] = "cancel"
    BY <1>1 DEF Awaiting, about
  <2>2. stage \in Awaiting /\ kind[job] = "cancel" => stage = "canceling"
    BY <1>1 DEF awaits
  <2> QED
    BY <1>1, <2>1, <2>2 DEF tally
<1>5. \A o \in Outcome : IF o \in outs THEN tally'[o] = tally[o] \cup {job} /\ job \notin tally[o] ELSE tally'[o] = tally[o]
  <2>1. "canceling" \notin Enqueued
    BY DEF Enqueued
  <2> QED
    BY <1>2, <1>3, <1>4, <2>1 DEF Outcome
<1> QED
  BY <1>1, <1>5, CountsStep

(* A snapshot that matches lets the driver go on, for what it expects of    *)
(* the scheduler is then so.                                                *)
LEMMA SnapshotTaken ==
  ASSUME IInv, Inv, TakeSnapshot, snapshotMatches
  PROVE  Inv'
<1>1. /\ TypeS /\ PosInv /\ LaunchInv /\ EntryInv /\ ServedInv /\ AnswerInv /\ CallInv /\ CmdInv /\ UpstreamInv
      /\ ControlInv /\ SettledInv /\ ConsumedInv /\ ExpectInv /\ HoldInv /\ OrderInv /\ CountInv /\ PlanInv /\ SimInv
  BY DEF Inv
<1>2. /\ step = "snapshot" /\ pc = "busy" /\ cmd.op = "snapshot" /\ pc' = "pump" /\ wake' = 0 /\ now \in Nat
      /\ UNCHANGED <<now, ctxDone, admission, deadline, source, seq, cause, result, terminal, entries, queue, expiry, inflight>>
      /\ UNCHANGED <<deficit, visitOpen, cursor, accepting, wire>>
      /\ \A x \in inflight : handler[x] # "done"
  BY SnapshotHandled
<1>3. Proceed /\ UNCHANGED <<workload, expectation, order, plan, observed>>
  BY SnapshotEffect
<1>4. PICK outs : /\ counts' = counted(job, outs)
                  /\ outs = IF stage \in Enqueued THEN {"admitted"} ELSE IF stage = "canceling" THEN {"canceled"} ELSE {}
  BY SnapshotEffect
<1>5. UNCHANGED <<handler, answer, call, released, arrivals, seenUpstream, issue>>
  BY <1>2 DEF wire
<1>6. /\ stage \in DOMAIN rank \ {"release", "measure", "shutdown", "reported"} /\ AtBarrier
      /\ stage \in DOMAIN following
  <2>1. stage \in DOMAIN rank /\ step \in stepsOf[stage] /\ AtBarrier
    BY <1>1, <1>2 DEF PosInv, AtBarrier
  <2>2. stage \notin {"release", "measure", "shutdown", "reported"}
    BY <1>2, <2>1 DEF stepsOf
  <2> QED
    BY <2>1, <2>2, Tables
<1>7. /\ settled' = settled \cup (IF stage \in Stages THEN {job} ELSE {})
      /\ launched' = settled'
      /\ passed' = passed \cup (IF stage \in Awaiting THEN {job} ELSE {})
      /\ consumed' = passed' /\ PosInv' /\ step' = firstStep(stage')
      /\ stage' # stage => stage' = following[stage]
  <2>1. workload \in Workloads /\ stage # "release"
    BY <1>1, <1>6 DEF TypeS
  <2> QED
    BY <1>1, <1>3, <1>6, <2>1, ProceedMoves
<1>8. launched' = launched /\ consumed' = consumed
  <2>1. step # "launch"
    BY <1>2
  <2> QED
    BY <1>1, <1>6, <1>7, <2>1, Positions
<1>9. job \in Requests /\ kind[job] \in about[stage] /\ (stage \in Stages => kind[job] = stage)
  BY <1>1, JobFacts
<1>10. /\ stage' \in DOMAIN rank \ {"measure", "final", "reported"} \/ (stage' = "final" /\ stage = "final")
       /\ step' \notin {"barrier", "snapshot", "event"}
       /\ rank[stage'] < 11 <=> rank[stage] < 11
       /\ rank[stage'] < 10 => rank[stage] < 10
       /\ rank[stage] < 10 => rank[stage'] < 10 \/ (stage' = "release" /\ step' = "release")
       /\ step' = "release" => rank[stage] < 10
       /\ stage' = "canceling" => step' = "cancel"
       /\ stage' = "shutdown" => stage = "final"
       /\ rank[stage'] >= 12 => rank[stage] >= 12
  <2>1. CASE stage' = stage
    BY <1>6, <1>7, <2>1, Tables DEF rank, firstStep
  <2>2. CASE stage' # stage
    <3>1. stage' = following[stage]
      BY <1>7, <2>2
    <3> QED
      BY <1>6, <1>7, <3>1, Tables DEF rank, firstStep, following
  <2> QED
    BY <2>1, <2>2
<1>11. CountInv' /\ counts' \in [Tenants -> [Outcome -> Nat]]
  BY <1>1, <1>4, <1>7, <1>8, BarrierTally
<1>12. TypeS'
  BY <1>1, <1>3, <1>5, <1>11 DEF TypeS
<1>13. EntryInv' /\ AnswerInv' /\ CallInv' /\ UpstreamInv' /\ HoldInv'
  BY <1>1, <1>2, <1>3, <1>5, Frames
<1>14. LaunchInv' /\ ExpectInv'
  BY <1>1, <1>3, <1>5, <1>8 DEF LaunchInv, ExpectInv
<1>15. ServedInv'
  BY <1>1, <1>2, <1>5, SameResults DEF ServedInv
<1>16. CmdInv'
  <2>1. stage' \in {"shutdown", "reported"} => entries = {}
    BY <1>2, <1>10, BarrierFinal
  <2>2. accepting
    BY DEF snapshotMatches
  <2> QED
    BY <1>1, <1>2, <1>10, <2>1, <2>2 DEF CmdInv
<1>17. ControlInv'
  <2>1. released[control] = "no" <=> rank[stage] < 10
    BY <1>1, <1>2 DEF ControlInv
  <2>2. released'[control] = "no" <=> rank[stage'] < 10 \/ step' = "release"
    BY <1>5, <1>10, <2>1
  <2>3. released'[control] = "no" => handler'[control] = "held" /\ arrivals' = <<>>
    BY <1>1, <1>5, <1>6 DEF ControlInv
  <2> QED
    BY <1>1, <1>2, <2>2, <2>3 DEF ControlInv
<1>18. SettledInv'
  <2>1. SUFFICES ASSUME stage \in Stages
        PROVE  /\ job \in Service => job \in expiry \cup served
               /\ kind[job] = "cancel" => job \in expiry \/ (job \in canceled /\ ctxDone[job])
               /\ kind[job] = "deadline" => job \in expiry \cup expired
               /\ kind[job] = "control" => job \in served
    BY <1>1, <1>2, <1>7, SameResults DEF SettledInv
  <2>2. CASE stage \in Enqueued
    <3>1. job \in expiry
      BY <1>2, <2>2, BarrierQueued
    <3>2. kind[job] # "control"
      BY <1>9, <2>1, <2>2 DEF Enqueued
    <3> QED
      BY <3>1, <3>2
  <2>3. CASE stage = "control"
    <3>1. kind[job] = "control" /\ job = control /\ job \notin Service
      BY <1>9, <2>1, <2>3, Setup
    <3>2. released[control] = "no"
      BY <1>1, <2>3 DEF ControlInv, rank
    <3>3. control \in served
      BY <1>6, <3>2, ControlHeld
    <3> QED
      BY <3>1, <3>3
  <2>4. CASE stage \in {"reject", "global"}
    BY <1>9, <2>1, <2>4, Setup
  <2> QED
    BY <2>1, <2>2, <2>3, <2>4 DEF Stages
<1>19. ConsumedInv'
  <2>1. served' = served /\ expired' = expired /\ canceled' = canceled
    BY <1>2, SameResults
  <2>2. stage \in Awaiting /\ kind[job] = "cancel" => job \in canceled
    <3>1. SUFFICES ASSUME stage \in Awaiting, kind[job] = "cancel" PROVE job \in canceled
      OBVIOUS
    <3>2. stage = "canceling"
      BY <1>1, <3>1, JobFacts DEF awaits
    <3> QED
      BY <1>2, <3>2, BarrierCanceled
  <2>3. ASSUME NEW r \in Requests PROVE r \in passed' /\ kind[r] = "cancel" => r \in canceled'
    BY <1>1, <1>7, <2>1, <2>2 DEF ConsumedInv
  <2>4. ASSUME NEW r \in Requests
        PROVE  call[r] \in {"canceling", "canceled"} => r \in consumed
    BY <1>1, <1>2 DEF ConsumedInv
  <2>5. ~(stage' = "canceling" /\ step' = "result")
    BY <1>10
  <2> QED
    BY <1>1, <1>5, <1>8, <2>1, <2>3, <2>4, <2>5 DEF ConsumedInv
<1>20. OrderInv'
  <2>1. settled \subseteq settled'
    BY <1>7
  <2> QED
    BY <1>1, <1>2, <1>3, <1>8, <2>1 DEF OrderInv
<1>21. PlanInv'
  <2>1. expectedDispatchPlan' = expectedDispatchPlan
    BY <1>3, OracleSame
  <2>2. rank[stage'] \in 1..14 /\ rank[stage] \in 1..14 /\ stage' # "measure"
    BY <1>1, <1>6, <1>7, <1>10, Tables DEF PosInv
  <2> QED
    BY <1>1, <1>3, <1>10, <2>1, <2>2 DEF PlanInv
<1>22. SimInv'
  BY <1>1, <1>2, <1>3, SimFrames
<1> QED
  BY <1>7, <1>11, <1>12, <1>13, <1>14, <1>15, <1>16, <1>17, <1>18, <1>19, <1>20, <1>21, <1>22 DEF Inv

(* waitForSnapshot reads what it asked for. *)
LEMMA TakeSnapshotKeeps ==
  ASSUME IInv, Inv, TakeSnapshot
  PROVE  Inv'
BY SnapshotRetried, SnapshotTaken

(* The last checks find nothing. *)
LEMMA FinalizeKeeps ==
  ASSUME IInv, Inv, Finalize
  PROVE  Inv'
<1>1. /\ TypeS /\ PosInv /\ ServedInv /\ CallInv /\ UpstreamInv /\ ControlInv /\ ConsumedInv /\ PlanInv /\ SimInv
  BY DEF Inv
<1>2. step = "final" /\ UNCHANGED <<vars, wire>>
  BY DEF Finalize
<1>3. stage = "final"
  BY <1>1, <1>2 DEF PosInv, stepsOf, rank
<1>4. rank[stage] = 12 /\ rank[stage] >= 12 /\ rank[stage] >= 11 /\ rank[stage] >= 8
  BY <1>3 DEF rank
<1>5. plan = observed /\ Cardinality(seenUpstream) = Len(plan) + 1 /\ ~issue
  <2>1. plan = observed /\ plan = expectedDispatchPlan
    BY <1>1, <1>4 DEF PlanInv
  <2>2. Len(plan) = Cardinality(Service)
    BY <1>4, <2>1, Filling, PlanFacts
  <2> QED
    BY <1>1, <1>4, <2>1, <2>2, SeenAll DEF UpstreamInv
<1>6. Goto("barrier") /\ UNCHANGED <<workload, expectation, order, plan, observed, counts>>
  BY <1>5 DEF Finalize
<1>7. UNCHANGED <<stage, todo>> /\ step' = "barrier" /\ job' = job /\ settled' = settled /\ passed' = passed
  BY <1>1, <1>6, GotoMoves DEF Goto
<1>8. launched' = launched /\ consumed' = consumed
  <2>1. stage \notin Stages /\ stage \notin Awaiting
    BY <1>3 DEF Stages, Enqueued, Awaiting
  <2>2. launched' = settled /\ consumed' = passed
    BY <1>1, <1>6, <2>1, GotoMoves
  <2>3. launched = settled /\ consumed = passed
    BY <1>1, <2>1, Positions
  <2> QED
    BY <2>2, <2>3
<1>9. /\ UNCHANGED <<now, ctxDone, admission, deadline, source, seq, cause, result, terminal, entries, queue, expiry, inflight>>
      /\ UNCHANGED <<deficit, visitOpen, cursor, accepting, pc, cmd, wake>>
  BY <1>2, OwnerStill
<1>10. UNCHANGED <<handler, answer, call, released, arrivals, seenUpstream, issue>>
  BY <1>2 DEF wire
<1>11. TypeS' /\ ServedInv' /\ CallInv' /\ UpstreamInv'
  BY <1>1, <1>6, <1>9, <1>10, Frames
<1>12. ControlInv'
  BY <1>1, <1>2, <1>4, <1>7, <1>9, <1>10 DEF ControlInv, AtBarrier
<1>13. ConsumedInv'
  BY <1>1, <1>3, <1>7, <1>8, <1>9, <1>10, SameResults DEF ConsumedInv
<1>14. PlanInv'
  <2>1. expectedDispatchPlan' = expectedDispatchPlan
    BY <1>6, OracleSame
  <2> QED
    BY <1>1, <1>3, <1>6, <1>7, <2>1 DEF PlanInv
<1>15. SimInv'
  BY <1>1, <1>6, <1>9, SimFrames
<1>16. "barrier" \in stepsOf[stage]
  BY <1>3 DEF stepsOf
<1>17. UNCHANGED vars
  BY <1>2
<1> QED
  BY <1>2, <1>3, <1>6, <1>8, <1>10, <1>11, <1>12, <1>13, <1>14, <1>15, <1>16, <1>17, GotoFrame

(* The drain finds nothing. *)
LEMMA ShutdownIdle ==
  ASSUME IInv, Inv, stage = "shutdown"
  PROVE  counters[Global] = Idle
<1>1. expiry = {} /\ inflight = {}
  BY ResultFacts DEF Inv, CmdInv
<1>2. Global \in Scopes
  BY Setup
<1>3. Charged(Global, expiry) = {} /\ Charged(Global, inflight) = {}
  BY <1>1 DEF Charged
<1>4. Cardinality({}) = 0 /\ Weigh({}, workUnits) = 0 /\ Weigh({}, bodyBytes) = 0
  BY FS_EmptySet, WeighEmpty
<1>5. PICK c : c = counters[Global] /\ c \in Counters
  BY <1>2 DEF IInv, DataInv, TypeData
<1>6. c.queuedCount = 0 /\ c.queuedBytes = 0 /\ c.queuedWork = 0 /\ c.inflightCount = 0 /\ c.inflightWork = 0
  BY <1>2, <1>3, <1>4, <1>5 DEF IInv, DataInv, AccountingExact
<1> QED
  BY <1>5, <1>6 DEF Counters, Idle

(* The drain is asked for. *)
LEMMA DrainKeeps ==
  ASSUME IInv, Inv, Shutdown, ~drainNotified
  PROVE  Inv'
<1>1. /\ TypeS /\ PosInv /\ LaunchInv /\ EntryInv /\ ServedInv /\ AnswerInv /\ CallInv /\ CmdInv /\ UpstreamInv
      /\ ControlInv /\ SettledInv /\ ConsumedInv /\ ExpectInv /\ HoldInv /\ OrderInv /\ CountInv /\ PlanInv /\ SimInv
  BY DEF Inv
<1>2. /\ step = "shutdown" /\ stage = "shutdown" /\ UNCHANGED step
      /\ UNCHANGED <<workload, todo, expectation, order, plan, observed, counts, wire>>
  BY DEF Shutdown
<1>3. stage' = stage
  BY <1>2, ShutdownIdle DEF Shutdown
<1>4. PICK c : c = [op |-> "drain"] /\ WakeUp(c)
  BY DEF Shutdown, Receive
<1>5. c.op = "drain"
  BY <1>4
<1>6. pc = "select" /\ pc' = "busy" /\ cmd' = c /\ wake' = now /\ now \in Nat
  BY <1>4 DEF WakeUp, IInv, LoopInv, TypeLoop
<1>7. /\ UNCHANGED <<now, ctxDone, admission, deadline, source, seq, cause, result, terminal, entries, queue, expiry, inflight>>
      /\ UNCHANGED <<deficit, visitOpen, cursor, accepting>>
  BY <1>4 DEF WakeUp, marks, books, drr, outside
<1>8. UNCHANGED <<driver, wire>>
  BY <1>2, <1>3 DEF driver
<1>9. CmdInv'
  BY <1>1, <1>2, <1>3, <1>5, <1>6, <1>7 DEF CmdInv
<1>10. SimInv'
  BY <1>1, <1>2, <1>6, <1>7, SimFrames
<1>11. \A x \in inflight : handler[x] # "done"
  BY <1>6, ResultFacts, NoFinish
<1> QED
  BY <1>6, <1>7, <1>8, <1>9, <1>10, <1>11, Quiet

(* The drain is over and the run reports. *)
LEMMA ReportKeeps ==
  ASSUME IInv, Inv, Shutdown, drainNotified
  PROVE  Inv'
<1>1. /\ TypeS /\ PosInv /\ LaunchInv /\ EntryInv /\ ServedInv /\ AnswerInv /\ CallInv /\ CmdInv /\ UpstreamInv
      /\ ControlInv /\ SettledInv /\ ConsumedInv /\ ExpectInv /\ HoldInv /\ OrderInv /\ CountInv /\ PlanInv /\ SimInv
  BY DEF Inv
<1>2. /\ step = "shutdown" /\ stage = "shutdown" /\ UNCHANGED <<vars, step>> /\ stage' = "reported"
      /\ UNCHANGED <<workload, todo, expectation, order, plan, observed, counts, wire>>
  BY DEF Shutdown
<1>3. /\ UNCHANGED <<now, ctxDone, admission, deadline, source, seq, cause, result, terminal, entries, queue, expiry, inflight>>
      /\ UNCHANGED <<deficit, visitOpen, cursor, accepting, pc, cmd, wake>>
  BY <1>2, OwnerStill
<1>4. UNCHANGED <<handler, answer, call, released, arrivals, seenUpstream, issue>>
  BY <1>2 DEF wire
<1>5. rank[stage] = 13 /\ rank[stage'] = 14 /\ rank[stage] >= 12 /\ rank[stage'] >= 12
  BY <1>2 DEF rank
<1>6. PosInv'
  BY <1>1, <1>2, Tables DEF PosInv, stepsOf, about, AtBarrier
<1>7. settled = Requests /\ launched = Requests /\ passed = Requests /\ consumed = Requests
  BY <1>1, <1>5, AllConsumed
<1>8. settled' = Requests /\ launched' = Requests /\ passed' = Requests /\ consumed' = Requests
  <2>1. ASSUME NEW r \in Requests PROVE rank[stage'] > rank[kind[r]] /\ rank[stage'] > rank[awaits[kind[r]]]
    <3>1. kind[r] \in Stages
      BY Setup
    <3> QED
      BY <1>5, <3>1 DEF rank, awaits, Stages, Enqueued
  <2>2. settled' = Requests /\ passed' = Requests
    BY <2>1 DEF settled, passed
  <2> QED
    BY <2>2 DEF launched, consumed
<1>9. settled' = settled /\ launched' = launched /\ passed' = passed /\ consumed' = consumed
  BY <1>7, <1>8
<1>10. TypeS' /\ EntryInv' /\ ServedInv' /\ AnswerInv' /\ CallInv' /\ UpstreamInv' /\ HoldInv'
  BY <1>1, <1>2, <1>3, <1>4, Frames
<1>11. LaunchInv' /\ SettledInv' /\ ExpectInv' /\ OrderInv' /\ CountInv'
  BY <1>1, <1>2, <1>3, <1>4, <1>9, SetFrames
<1>12. CmdInv'
  BY <1>1, <1>2, <1>3, <1>4 DEF CmdInv
<1>13. ControlInv'
  BY <1>1, <1>2, <1>3, <1>4, <1>5 DEF ControlInv, AtBarrier
<1>14. ConsumedInv'
  BY <1>1, <1>2, <1>3, <1>4, <1>9, SameResults DEF ConsumedInv
<1>15. PlanInv'
  <2>1. expectedDispatchPlan' = expectedDispatchPlan
    BY <1>2, OracleSame
  <2> QED
    BY <1>1, <1>2, <1>5, <2>1 DEF PlanInv
<1>16. SimInv'
  BY <1>1, <1>2, <1>3, SimFrames
<1> QED
  BY <1>6, <1>10, <1>11, <1>12, <1>13, <1>14, <1>15, <1>16 DEF Inv

(* All of exerciseSaturation and shutdown *)
LEMMA DriverKeeps ==
  ASSUME IInv, Inv, Driver
  PROVE  Inv'
<1>1. CASE Shutdown
  BY <1>1, DrainKeeps, ReportKeeps
<1> QED
  BY <1>1, AwaitDispatchKeeps, AwaitFirstEventKeeps, ReleaseControlKeeps, AskSnapshotKeeps, TakeSnapshotKeeps,
     FinalizeKeeps, LaunchKeeps, CancelCallKeeps, AwaitResultKeeps DEF Driver

-----------------------------------------------------------------------------
(* The invariant *)

(* It holds when the gateway has been started and nothing was launched. *)
LEMMA InitKeeps == SInit => Inv
<1> SUFFICES ASSUME SInit PROVE Inv
  OBVIOUS
<1>1. /\ Init /\ stage = "control" /\ step = "launch" /\ workload \in Workloads /\ todo = workload["control"]
      /\ expectation = {} /\ plan = <<>> /\ observed = <<>> /\ issue = FALSE
      /\ order = [t \in Tenants |-> <<>>]
      /\ counts = [t \in Tenants |-> [o \in Outcome |-> 0]]
      /\ handler = [r \in Requests |-> "none"] /\ answer = handler /\ call = handler
      /\ released = [r \in Requests |-> "no"]
      /\ arrivals = <<>> /\ seenUpstream = {}
  BY SetupWorkload DEF SInit
<1>2. /\ now = 0 /\ ctxDone = [r \in Requests |-> FALSE] /\ deadline = [r \in Requests |-> 0]
      /\ cause = [r \in Requests |-> "none"] /\ terminal = [r \in Requests |-> "none"]
      /\ result = [r \in Requests |-> <<>>] /\ entries = {} /\ expiry = {} /\ inflight = {}
      /\ accepting = TRUE /\ pc = "select" /\ wake = 0
  BY <1>1 DEF Init
<1>3. rank[stage] = 1 /\ stage \in Stages /\ stage \notin Awaiting /\ stage \in DOMAIN rank
  BY <1>1 DEF rank, Stages, Awaiting
<1>4. todo \in Seq(Requests) /\ IsInjective(todo) /\ ToSet(todo) = {r \in Requests : kind[r] = "control"}
  BY <1>1, <1>3, SetupWorkload
<1>5. ToSet(todo) = {control}
  BY <1>4, Setup
<1>6. Len(todo) = 1 /\ todo # <<>>
  BY <1>4, <1>5, OneMember
<1>7. PosInv
  BY <1>1, <1>3, <1>4, <1>6 DEF PosInv, stepsOf, about, AtBarrier
<1>8. settled = {} /\ passed = {} /\ launched = {} /\ consumed = {}
  <2>1. ASSUME NEW r \in Requests PROVE r \notin settled /\ r \notin passed
    <3>1. kind[r] \in Stages
      BY Setup
    <3>2. ~(rank[stage] > rank[kind[r]]) /\ ~(rank[stage] > rank[awaits[kind[r]]]) /\ stage # awaits[kind[r]]
      BY <1>1, <3>1 DEF rank, awaits, Stages, Enqueued
    <3>3. stage = kind[r] => r \in ToSet(todo)
      BY <1>1, <1>4
    <3> QED
      BY <3>2, <3>3 DEF settled, passed
  <2>2. settled = {} /\ passed = {}
    BY <2>1 DEF settled, passed
  <2>3. launched = settled /\ consumed = passed
    BY <1>1, <1>3, <1>7, Positions
  <2> QED
    BY <2>2, <2>3
<1>9. served = {} /\ expired = {} /\ canceled = {} /\ answered = {}
  BY <1>2 DEF served, expired, canceled, answered, Dispatched, Expired, Canceled
<1>10. TypeS
  <2>1. <<>> \in Seq(Requests)
    OBVIOUS
  <2> QED
    BY <1>1, <2>1 DEF TypeS
<1>11. LaunchInv /\ SettledInv /\ ExpectInv
  BY <1>1, <1>8 DEF LaunchInv, SettledInv, ExpectInv
<1>12. EntryInv /\ AnswerInv /\ CallInv
  BY <1>1, <1>2, <1>9 DEF EntryInv, AnswerInv, CallInv
<1>13. ServedInv
  BY <1>1, <1>2, <1>9 DEF ServedInv
<1>14. CmdInv
  BY <1>1, <1>2 DEF CmdInv
<1>15. UpstreamInv
  <2>1. ToSet(observed) = {} /\ Service \subseteq Requests
    BY <1>1, Setup DEF ToSet
  <2> QED
    BY <1>1, <1>9, <2>1 DEF UpstreamInv
<1>16. ControlInv
  BY <1>1, <1>2, <1>3, Setup DEF ControlInv, AtBarrier
<1>17. ConsumedInv
  BY <1>1, <1>8 DEF ConsumedInv
<1>18. HoldInv
  <2>1. \A S \in SUBSET Requests : Holding(S) = {}
    BY <1>1 DEF Holding
  <2>2. \A s \in Scopes : QueueLimits[s].count \in Nat
    BY ConfigAssumption DEF holdsOneMaximumRequest
  <2>3. \A t \in Tenants : OfTenant(t) \in SUBSET Requests /\ t \in Scopes
    BY Setup DEF OfTenant
  <2>7. Cardinality({}) = 0
    BY FS_EmptySet
  <2>4. ASSUME NEW t \in Tenants
        PROVE  Cardinality(Holding(OfTenant(t))) <= QueueLimits[t].count
    <3>1. Holding(OfTenant(t)) = {} /\ QueueLimits[t].count \in Nat
      BY <2>1, <2>2, <2>3
    <3>2. Cardinality(Holding(OfTenant(t))) = 0
      BY <3>1, <2>7, Zenon
    <3> QED
      BY <3>1, <3>2
  <2>5. Global \in Scopes
    BY Setup
  <2>6. Cardinality(Holding(Requests)) <= QueueLimits[Global].count
    <3>1. Holding(Requests) = {} /\ QueueLimits[Global].count \in Nat
      BY <2>1, <2>2, <2>5
    <3>2. Cardinality(Holding(Requests)) = 0
      BY <3>1, <2>7, Zenon
    <3> QED
      BY <3>1, <3>2
  <2> QED
    BY <2>4, <2>6 DEF HoldInv
<1>19. OrderInv
  <2>1. ASSUME NEW t \in Tenants PROVE order[t] = <<>>
    BY <1>1
  <2>2. IsInjective(<<>>) /\ ToSet(<<>>) = {} /\ Len(<<>>) = 0
    BY DEF IsInjective, ToSet
  <2> QED
    BY <1>8, <2>1, <2>2 DEF OrderInv
<1>20. CountInv
  <2>1. ASSUME NEW t, NEW o \in Outcome PROVE Of(t, tally[o]) = 0
    <3>1. tally[o] = {}
      BY <1>8 DEF tally, Outcome
    <3> QED
      BY <3>1, FS_EmptySet DEF Of
  <2>2. \A t \in ToSet(ServiceTenants) : counts[t] = [o \in Outcome |-> 0]
    BY <1>1, Setup
  <2> QED
    BY <2>1, <2>2 DEF CountInv
<1>21. PlanInv
  BY <1>1, <1>3 DEF PlanInv
<1>22. SimInv
  BY <1>2, Setup DEF SimInv
<1> QED
  BY <1>7, <1>10, <1>11, <1>12, <1>13, <1>14, <1>15, <1>16, <1>17, <1>18, <1>19, <1>20, <1>21, <1>22 DEF Inv

(* It is about the state. *)
LEMMA StillInv == ASSUME Inv, UNCHANGED svars PROVE Inv'
<1>1. /\ TypeS /\ PosInv /\ LaunchInv /\ EntryInv /\ ServedInv /\ AnswerInv /\ CallInv /\ CmdInv /\ UpstreamInv
      /\ ControlInv /\ SettledInv /\ ConsumedInv /\ ExpectInv /\ HoldInv /\ OrderInv /\ CountInv /\ PlanInv /\ SimInv
  BY DEF Inv
<1>2. UNCHANGED vars /\ UNCHANGED <<workload, stage, step, todo, expectation, order, plan, observed, counts>>
      /\ UNCHANGED <<handler, answer, call, released, arrivals, seenUpstream, issue>>
  BY DEF svars, driver, wire
<1>3. /\ UNCHANGED <<now, ctxDone, admission, deadline, source, seq, cause, result, terminal, entries, queue, expiry, inflight>>
      /\ UNCHANGED <<deficit, visitOpen, cursor, accepting, pc, cmd, wake>>
  BY <1>2, OwnerStill
<1>4. /\ TypeS' /\ PosInv' /\ LaunchInv' /\ EntryInv' /\ ServedInv' /\ AnswerInv' /\ CallInv' /\ CmdInv' /\ UpstreamInv'
  BY <1>1, <1>2, <1>3, Frames
<1>5. /\ ControlInv' /\ SettledInv' /\ ConsumedInv' /\ ExpectInv' /\ HoldInv' /\ OrderInv' /\ CountInv' /\ PlanInv'
  BY <1>1, <1>2, <1>3, Frames
<1>6. SimInv'
  BY <1>1, <1>2, <1>3, SimFrames
<1> QED
  BY <1>4, <1>5, <1>6 DEF Inv

(* Every step of the harness keeps the invariant. *)
LEMMA SatStep ==
  ASSUME IInv, IInv', SatInv, [SNext]_svars
  PROVE  SatInv'
<1>1. CASE Going /\ (Driver \/ Owner \/ Mailbox \/ Requested \/ TimePasses)
  <2>1. Inv /\ now < MaxTime
    BY <1>1 DEF Going, Over, SatInv
  <2>2. Inv'
    BY <1>1, <2>1, DriverKeeps, OwnerKeeps, WireKeeps
  <2>3. stage' \in DOMAIN rank
    BY <2>2 DEF Inv, PosInv
  <2>4. stage' # "failed"
    BY <2>3 DEF rank
  <2> QED
    BY <2>2, <2>4 DEF SatInv
<1>2. CASE RunTimesOut
  BY <1>2, OwnerStill DEF RunTimesOut, Fail, SatInv
<1>3. CASE UNCHANGED svars
  <2>1. stage' = stage /\ now' = now
    BY <1>3, OwnerStill DEF svars, driver
  <2> QED
    BY <1>3, <2>1, StillInv DEF SatInv
<1> QED
  BY <1>1, <1>2, <1>3 DEF SNext

(* Until the harness gives up for want of time, SatInv holds: the position  *)
(* of exerciseSaturation tells where every request is in the gateway, what  *)
(* the scheduler decided of it and how it was counted; and once the control *)
(* request is finished, the pump is where the oracle is after some number   *)
(* of passes. None of the checks of the harness fails.                      *)
THEOREM HarnessInvariance == SSpec => []SatInv
<1>1. SInit => SatInv
  BY InitKeeps DEF SatInv, SInit
<1>2. IInv /\ IInv' /\ SatInv /\ [SNext]_svars => SatInv'
  BY SatStep
<1> QED
  BY <1>1, <1>2, HarnessDrivesOwner, Invariance, PTL DEF SSpec

-----------------------------------------------------------------------------
(* The verdict *)

(* What is reported is what the scheduler decided. *)
LEMMA Reported ==
  ASSUME IInv, Inv
  PROVE  ReportTrue
<1> SUFFICES ASSUME stage = "reported", NEW r \in Requests
             PROVE  CASE r \in Service \cup {control} -> terminal[r] = "Completed"
                      [] kind[r] = "cancel"   -> result[r] = <<Canceled>>
                      [] kind[r] = "deadline" -> result[r] = <<Expired>>
                      [] OTHER -> result[r] = <<>>
  BY DEF ReportTrue
<1>1. PosInv /\ EntryInv /\ ServedInv /\ UpstreamInv /\ ConsumedInv /\ CmdInv
  BY DEF Inv
<1>2. rank[stage] >= 12
  BY DEF rank
<1>3. r \in passed /\ r \in consumed
  BY <1>1, <1>2, AllConsumed
<1>4. ASSUME r \in Service \cup {control} PROVE terminal[r] = "Completed"
  <2>1. r \in served
    BY <1>1, <1>2, <1>4, SeenAll DEF UpstreamInv
  <2>2. entries = {}
    BY <1>1 DEF CmdInv
  <2>3. terminal[r] # "none"
    BY <2>1, <2>2, ResultFacts
  <2> QED
    BY <1>1, <2>3 DEF ServedInv
<1>5. ASSUME kind[r] = "cancel" PROVE result[r] = <<Canceled>>
  BY <1>1, <1>3, <1>5 DEF ConsumedInv, canceled
<1>6. ASSUME kind[r] = "deadline" PROVE result[r] = <<Expired>>
  BY <1>1, <1>3, <1>6 DEF ConsumedInv, expired
<1>7. ASSUME kind[r] \in {"reject", "global"} PROVE result[r] = <<>>
  <2>1. deadline[r] = 0
    BY <1>1, <1>7 DEF EntryInv
  <2>2. r \notin answered
    BY <2>1, ResultFacts
  <2> QED
    BY <2>2 DEF answered
<1>8. CASE r \in Service \cup {control}
  <2>1. kind[r] \in {"initial", "late", "control"}
    BY <1>8, Setup
  <2> QED
    BY <1>4, <1>8, <2>1
<1>9. CASE r \notin Service \cup {control}
  <2>1. kind[r] \in {"cancel", "deadline", "reject", "global"}
    BY <1>9, Setup DEF Stages, Enqueued
  <2> QED
    BY <1>5, <1>6, <1>7, <1>9, <2>1
<1> QED
  BY <1>8, <1>9

(* Before the control request is released every service job is queued. *)
LEMMA QueuesFull ==
  ASSUME IInv, Inv, stage \in {"reject", "global"}
  PROVE  /\ expiry = Service /\ Service \subseteq Requests
         /\ \A r \in Service : admission[r].tenant = tenant[r]
<1>1. ControlInv
  BY DEF Inv
<1>2. rank[stage] \in 8..9 /\ step # "release"
  BY DEF rank, Inv, PosInv, stepsOf
<1>3. released[control] = "no"
  BY <1>1, <1>2 DEF ControlInv
<1>4. served = {control} /\ control \notin Service
  BY <1>2, <1>3, ControlHeld, Setup
<1>5. expiry = Service
  BY <1>2, <1>4, Filling
<1>6. Service \subseteq Requests
  BY Setup
<1>7. ASSUME NEW r \in Service PROVE admission[r].tenant = tenant[r]
  <2>1. r \in Requests /\ deadline[r] # 0
    BY <1>5, <1>6, ResultFacts
  <2>2. admission[r] = Asked(r)
    BY <2>1 DEF Inv, EntryInv
  <2> QED
    BY <2>2 DEF Asked
<1> QED
  BY <1>5, <1>6, <1>7

(* A probe that was refused has met a full queue. *)
LEMMA ProbedFull ==
  ASSUME IInv, Inv
  PROVE  ProbesMeanFull
<1> SUFFICES ASSUME NEW r \in Requests
             PROVE  /\ call[r] = "rejected" /\ stage = "reject" =>
                         counters[tenant[r]].queuedCount = QueueLimits[tenant[r]].count
                    /\ call[r] = "globalRejected" /\ stage = "global" =>
                         counters[Global].queuedCount = QueueLimits[Global].count
  BY DEF ProbesMeanFull
<1>1. CallInv
  BY DEF Inv
<1>2. ASSUME call[r] = "rejected", stage = "reject"
      PROVE  counters[tenant[r]].queuedCount = QueueLimits[tenant[r]].count
  <2>1. call[r] = classify(kind[r], answer[r])
    BY <1>1, <1>2 DEF CallInv
  <2>2. kind[r] = "reject"
    BY <1>2, <2>1, Setup DEF classify, validBody, Stages, Enqueued
  <2>3. PICK t : t = tenant[r]
    OBVIOUS
  <2>4. t \in {2, 3} /\ t \in Scopes /\ t # Global
    BY <2>2, <2>3, Setup
  <2>5. Charged(t, expiry) = {x \in Service : tenant[x] = t}
    BY <1>2, <2>4, QueuesFull DEF Charged, Charges
  <2>6. Cardinality({x \in Service : tenant[x] = t}) = QueueLimits[t].count
    BY <2>4, Setup, WorkloadAssumption DEF validateSeededWorkload
  <2>7. counters[t].queuedCount = Cardinality(Charged(t, expiry))
    BY <2>4 DEF IInv, DataInv, AccountingExact
  <2> QED
    BY <2>3, <2>5, <2>6, <2>7
<1>3. ASSUME stage = "global" PROVE counters[Global].queuedCount = QueueLimits[Global].count
  <2>1. Global \in Scopes
    BY Setup
  <2>2. Charged(Global, expiry) = Service
    BY <1>3, QueuesFull DEF Charged, Charges
  <2>3. counters[Global].queuedCount = Cardinality(Charged(Global, expiry))
    BY <2>1 DEF IInv, DataInv, AccountingExact
  <2> QED
    BY <2>2, <2>3, SetupAssumption DEF saturationAdmissionConfig
<1> QED
  BY <1>2, <1>3

(* What the harness says follows from the invariant. *)
LEMMA VerdictFollows ==
  ASSUME IInv, SatInv
  PROVE  VerdictTrue
<1>1. OnlyTimeFails
  BY DEF SatInv, OnlyTimeFails
<1>2. CASE stage = "failed"
  BY <1>1, <1>2 DEF VerdictTrue, OracleAgrees, ReportTrue, ProbesMeanFull
<1>3. CASE stage # "failed"
  <2>1. Inv
    BY <1>3 DEF SatInv
  <2>2. OracleAgrees
    <3>1. SUFFICES ASSUME stage = "measure", arrivals # <<>> PROVE arrivals[1] = plan[Len(observed) + 1]
      BY DEF OracleAgrees
    <3>2. PICK x : arrivals = <<x>> /\ plan[Len(observed) + 1] = x
      BY <2>1, <3>1, Arrival
    <3> QED
      BY <3>2
  <2> QED
    BY <1>1, <2>1, <2>2, Reported, ProbedFull DEF VerdictTrue
<1> QED
  BY <1>2, <1>3

(* For every workload that validateSeededWorkload accepts, and in whatever  *)
(* order its requests, their answers and the snapshots are handled: the     *)
(* gateway dispatches as expectedDispatchPlan foretells, exerciseSaturation *)
(* fails for want of time only, what it reports is what the scheduler       *)
(* decided job by job, and a refused probe has met a full queue.            *)
THEOREM VerdictIsTrue == SSpec => []VerdictTrue
<1>1. IInv /\ SatInv => VerdictTrue
  BY VerdictFollows
<1> QED
  BY <1>1, HarnessInvariance, HarnessDrivesOwner, Invariance, PTL

(* The plan is complete: no bound on its passes cuts it short. *)
PlanComplete ==
  stage \in {"release", "measure"} =>
    /\ IsInjective(expectedDispatchPlan) /\ ToSet(expectedDispatchPlan) = Service
    /\ Len(expectedDispatchPlan) = Cardinality(Service)

(* expectedDispatchPlan serves every service job once before its loop has   *)
(* made maximumVisits passes, whatever the weights, the work of the jobs    *)
(* and the order of the queues: its errInvalidWorkload is never returned.   *)
THEOREM OraclePlanIsComplete == SSpec => []PlanComplete
<1>1. IInv /\ SatInv => PlanComplete
  <2> SUFFICES ASSUME IInv, SatInv, stage \in {"release", "measure"}
               PROVE  /\ IsInjective(expectedDispatchPlan) /\ ToSet(expectedDispatchPlan) = Service
                      /\ Len(expectedDispatchPlan) = Cardinality(Service)
    BY DEF PlanComplete
  <2>1. Inv
    BY DEF SatInv
  <2>2. rank[stage] >= 8
    BY DEF rank
  <2>3. Filled
    BY <2>1, <2>2, Filling
  <2> QED
    BY <2>3, PlanFacts
<1> QED
  BY <1>1, HarnessInvariance, HarnessDrivesOwner, Invariance, PTL
=============================================================================
