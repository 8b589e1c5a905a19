----------------------------- MODULE Saturation -----------------------------
(***************************************************************************)
(* The saturation harness (tools/run_saturation): a driver that fills the   *)
(* queues of the production gateway behind one held request, lets some of   *)
(* the waiting requests expire and cancels others, probes the full limits,  *)
(* then releases the held request and compares the order in which the       *)
(* gateway dispatches with an independent round robin of its own.           *)
(*                                                                          *)
(* The gateway's scheduler is the owner of OwnerState, step by step; around *)
(* it are the request handler's slots (httpapi/handler.go), the controlled  *)
(* upstream and one client goroutine per job.  The driver's only view of    *)
(* the gateway is what its clients receive, what arrives upstream, and      *)
(* snapshots of the scheduler, which it uses as barriers.                   *)
(*                                                                          *)
(* A tick stands for the queue deadline of the deadline jobs.  MaxTime is   *)
(* when the first of the longer timeouts passes (upstream, default queue    *)
(* timeout, execution): each of them makes the run fail, and is one step.   *)
(* What is cleaned up after a failure is the business of Server.            *)
(***************************************************************************)
EXTENDS OwnerState

CONSTANTS
  kind,           \* per job: "control", "initial", "late", "cancel", "deadline", "reject", "global"
  tenant,         \* per job: its tenant
  Streams,        \* the service jobs that ask for a stream
  ServiceTenants, \* in the order of serviceTenants
  Workloads       \* what the seeds make: per stage the order of its jobs, and
                  \* per job its work (workUnits)

Jobs(k) == {r \in Requests : kind[r] = k}
Service == Jobs("initial") \cup Jobs("late")
Enqueued == {"initial", "cancel", "deadline", "late"}
Stages == Enqueued \cup {"control", "reject", "global"}

(* What validateSeededWorkload demands of the jobs: who owns them, how many *)
(* there are, that each is in its stage once, and that a request is no      *)
(* larger than the largest.                                                 *)
validateSeededWorkload ==
  /\ kind \in [Requests -> Stages] /\ tenant \in [Requests -> Tenants]
  /\ Cardinality(Jobs("control")) = 1 /\ Cardinality(Jobs("global")) = 1
  /\ \A r \in Requests : CASE kind[r] = "control" -> tenant[r] = 1
                          [] kind[r] = "global" -> tenant[r] = N
                          [] OTHER -> tenant[r] \in ToSet(ServiceTenants)
  /\ Cancelable = Jobs("cancel") /\ Streams \subseteq Jobs("late")
  /\ \A t \in ToSet(ServiceTenants) :
       LET of(S) == Cardinality({r \in S : tenant[r] = t}) IN
       /\ \A k \in {"cancel", "deadline", "reject"} : of(Jobs(k)) = 1
       /\ of(Streams) = 1 /\ of(Jobs("initial")) >= 1
       /\ of(Service) = QueueLimits[t].count
       /\ of(Jobs("initial")) + 2 = QueueLimits[t].count
  /\ \A w \in Workloads :
       /\ w.work \in [Requests -> 1..MaxRequestUnits]
       /\ \A k \in Stages : /\ w[k] \in Seq(Requests) /\ IsInjective(w[k])
                            /\ ToSet(w[k]) = Jobs(k)
ASSUME WorkloadAssumption == validateSeededWorkload

(* The constants of saturationAdmissionConfig: the control tenant, the two  *)
(* service tenants and the probe's, in this order; one request in flight;   *)
(* and for each tenant as many places as it has service jobs, which is also *)
(* what it has waiting before the late jobs come.  The base quantum is the  *)
(* control tenant's.  No job has a deadline of its client's, and a handler  *)
(* reports completion or an upstream failure.                               *)
saturationAdmissionConfig ==
  /\ N = 4 /\ ServiceTenants = <<2, 3>>
  /\ InflightLimits[Global].count = 1
  /\ QueueLimits[Global].count = Cardinality(Service)
  /\ \A t \in Tenants : Quantum[1] <= Quantum[t]
  /\ Sources = {"queue"} /\ {"Completed", "UpstreamFailed"} \subseteq Outcomes
ASSUME SetupAssumption == saturationAdmissionConfig

VARIABLES
  workload,
  stage, step,    \* the driver's position in exerciseSaturation
  todo,           \* the jobs the stage still has to see to, the current one first
  expectation,    \* the jobs queueExpectation counts as queued
  order,          \* workload.serviceQueues: service jobs as they were launched
  plan, observed, \* expectedDispatchPlan; what arrived upstream
  counts,         \* the accumulators: a bag of outcomes per tenant
  handler,        \* per job: where its request is in the gateway
  answer, call,   \* per job: what the gateway wrote; what the client made of it
  released,       \* per job: how far the upstream may answer
  arrivals, seenUpstream, issue  \* the controlled upstream

driver == <<workload, stage, step, todo, expectation, order, plan, observed, counts>>
wire == <<handler, answer, call, released, arrivals, seenUpstream, issue>>
svars == <<vars, driver, wire>>

Outcome == {"submitted", "admitted", "rejected", "completed", "canceled", "deadlineExceeded"}

SInit ==
  /\ Init
  /\ stage = "control" /\ step = "launch" /\ workload \in Workloads /\ todo = workload.control
  /\ expectation = {} /\ plan = <<>> /\ observed = <<>> /\ issue = FALSE
  /\ order = [t \in Tenants |-> <<>>]
  /\ counts = [t \in Tenants |-> [o \in Outcome |-> 0]]
  /\ handler = [r \in Requests |-> "none"] /\ answer = handler /\ call = handler
  /\ released = [r \in Requests |-> "no"]
  /\ arrivals = <<>> /\ seenUpstream = {}

-----------------------------------------------------------------------------
(* The gateway around the owner: acquirePreDispatch, Acquire, release *)

Holding(S) == {r \in S : handler[r] \in {"slots", "waiting"}}
OfTenant(t) == {r \in Requests : tenant[r] = t}

(* The driver has at most one request on its way in, so both slots are      *)
(* taken in one step; PreDispatch has the steps in between.                 *)
acquirePreDispatch(r) ==
  /\ handler[r] = "sent"
  /\ LET tenantFull == Cardinality(Holding(OfTenant(tenant[r]))) = QueueLimits[tenant[r]].count
         globalFull == Cardinality(Holding(Requests)) = QueueLimits[Global].count
     IN  /\ handler' = [handler EXCEPT ![r] = IF tenantFull \/ globalFull THEN "done" ELSE "slots"]
         /\ answer' = [answer EXCEPT ![r] = IF tenantFull THEN "tenant_capacity"
                                            ELSE IF globalFull THEN "overloaded" ELSE "none"]
  /\ UNCHANGED <<vars, driver, call, released, arrivals, seenUpstream, issue>>

(* Both timeouts start here: the deadline job's own and the default. *)
Submit(r) ==
  /\ handler[r] = "slots"
  /\ Acquire(r)
  /\ admission'[r] = [tenant |-> tenant[r], bytes |-> 1, work |-> workload.work[r]]
  /\ deadline'[r] = IF kind[r] = "deadline" THEN now + 1 ELSE MaxTime
  /\ handler' = [handler EXCEPT ![r] = "waiting"]
  /\ UNCHANGED <<driver, answer, call, released, arrivals, seenUpstream, issue>>

writeAdmissionDecision(r) ==
  IF ctxDone[r] THEN "none"
  ELSE CASE result[r][1].kind = "QueueExpired"   -> "queue_deadline"
         [] result[r][1].kind = "TenantRejected" -> "tenant_capacity"
         [] result[r][1].kind = "GlobalRejected" -> "overloaded"
         [] OTHER -> "none"

(* The result has been sent for some time when Acquire returns and the      *)
(* slots are given back.                                                    *)
AcquireReturns(r) ==
  /\ handler[r] = "waiting" /\ result[r] # <<>>
  /\ IF result[r] = <<Dispatched>>
     THEN handler' = [handler EXCEPT ![r] = "upstream"] /\ UNCHANGED answer
     ELSE /\ handler' = [handler EXCEPT ![r] = "done"]
          /\ answer' = [answer EXCEPT ![r] = writeAdmissionDecision(r)]
  /\ UNCHANGED <<vars, driver, call, released, arrivals, seenUpstream, issue>>

servingOutcome(r) == IF answer[r] = "ok" THEN "Completed" ELSE "UpstreamFailed"

(* permit.Finish; the answer may reach the client before or after it. *)
FinishPermit(r) ==
  /\ handler[r] = "written"
  /\ Receive([op |-> "finish", id |-> r, outcome |-> servingOutcome(r)])
  /\ handler' = [handler EXCEPT ![r] = "done"]
  /\ UNCHANGED <<driver, answer, call, released, arrivals, seenUpstream, issue>>

-----------------------------------------------------------------------------
(* The controlled upstream: ServeHTTP *)

(* The body must be that of a job that is meant to arrive. *)
validateRequest(r) == r \in Service \cup Jobs("control")

Arrives(r) ==
  /\ handler[r] = "upstream"
  /\ IF validateRequest(r) /\ r \notin seenUpstream
     THEN /\ arrivals = <<>> /\ arrivals' = <<r>> /\ seenUpstream' = seenUpstream \cup {r}
          /\ handler' = [handler EXCEPT ![r] = "held"]
          /\ UNCHANGED <<answer, issue>>
     ELSE /\ issue' = TRUE /\ UNCHANGED <<arrivals, seenUpstream>>
          /\ handler' = [handler EXCEPT ![r] = "written"]
          /\ answer' = [answer EXCEPT ![r] = "upstream"]
  /\ UNCHANGED <<vars, driver, call, released>>

Answers(r) ==
  /\ \/ handler[r] = "held" /\ released[r] # "no"
     \/ handler[r] = "streaming" /\ released[r] = "done"
  /\ IF handler[r] = "held" /\ r \in Streams
     THEN handler' = [handler EXCEPT ![r] = "streaming"] /\ UNCHANGED answer
     ELSE /\ handler' = [handler EXCEPT ![r] = "written"]
          /\ answer' = [answer EXCEPT ![r] = "ok"]
  /\ UNCHANGED <<vars, driver, call, released, arrivals, seenUpstream, issue>>

-----------------------------------------------------------------------------
(* One client goroutine per job: executeClientRequest *)

(* The only answer each kind of job takes for valid; a cancelled one must   *)
(* have none.                                                               *)
validBody(k) ==
  CASE k = "deadline" -> "queue_deadline" [] k = "reject" -> "tenant_capacity"
    [] k = "global" -> "overloaded" [] k = "cancel" -> "nothing" [] OTHER -> "ok"

classify(k, a) ==
  IF a # validBody(k) THEN "failure"
  ELSE CASE k = "deadline" -> "deadline" [] k = "reject" -> "rejected"
         [] k = "global" -> "globalRejected" [] OTHER -> "completed"

(* readClientStream *)
ClientSeesEvent(r) ==
  /\ call[r] = "running" /\ r \in Streams
  /\ handler[r] = "streaming" \/ answer[r] = "ok"
  /\ call' = [call EXCEPT ![r] = "event"]
  /\ UNCHANGED <<vars, driver, handler, answer, released, arrivals, seenUpstream, issue>>

ClientReturns(r) ==
  /\ answer[r] # "none"
  /\ call[r] = "event" \/ (call[r] \in {"running", "canceling"} /\ (r \in Streams => answer[r] # "ok"))
  /\ call' = [call EXCEPT ![r] = classify(kind[r], answer[r])]
  /\ UNCHANGED <<vars, driver, handler, answer, released, arrivals, seenUpstream, issue>>

(* The transport returns at once; the gateway learns of it by itself. *)
ClientGivesUp(r) ==
  /\ call[r] = "canceling"
  /\ call' = [call EXCEPT ![r] = "canceled"]
  /\ UNCHANGED <<vars, driver, handler, answer, released, arrivals, seenUpstream, issue>>

GatewaySeesClientGone(r) ==
  /\ call[r] = "canceled" /\ handler[r] = "waiting"
  /\ CtxDone(r)
  /\ UNCHANGED <<driver, wire>>

-----------------------------------------------------------------------------
(* The oracle: expectedDispatchPlan *)

control == CHOOSE r \in Jobs("control") : TRUE
BaseQuantum == Quantum[tenant[control]]

(* Fault: a dispatch ends the visit. *)
oracleServesOnce(o) == [o EXCEPT !.open[o.cursor] = FALSE, !.cursor = 1 + (o.cursor % Len(ServiceTenants))]
oracleServes(o) == o

boundedOracleAdd(value, addition, maximum) ==
  IF value >= maximum \/ addition > maximum - value THEN maximum ELSE value + addition

(* One pass of its loop.  cursor and the fields go by the index of the      *)
(* tenant in serviceTenants.                                                *)
oracleVisit(o) ==
  LET c == o.cursor
      moveOn(p) == [p EXCEPT !.open[c] = FALSE, !.cursor = 1 + (c % Len(ServiceTenants))]
      credit == IF o.open[c] THEN o.deficit[c]
                ELSE boundedOracleAdd(o.deficit[c], Quantum[ServiceTenants[c]], DeficitCap)
      work == workload.work[Head(o.queue[c])]
      rest == Tail(o.queue[c])
  IN  IF o.queue[c] = <<>> THEN moveOn([o EXCEPT !.deficit[c] = 0])
      ELSE IF work > credit THEN moveOn([o EXCEPT !.deficit[c] = credit])
      ELSE LET served == [o EXCEPT !.queue[c] = rest, !.trace = Append(@, Head(o.queue[c])),
                                   !.open[c] = TRUE, !.deficit[c] = credit - work]
           IN  IF rest = <<>> THEN moveOn([served EXCEPT !.deficit[c] = 0]) ELSE oracleServes(served)

maximumVisits == Cardinality(Service) * (DeficitCap \div BaseQuantum + 2) * Len(ServiceTenants)

(* The variables of the loop after so many passes *)
oracleAfter[passes \in 0..maximumVisits] ==
  IF passes = 0
  THEN [queue |-> [i \in DOMAIN ServiceTenants |-> order[ServiceTenants[i]]],
        deficit |-> [i \in DOMAIN ServiceTenants |-> 0],
        open |-> [i \in DOMAIN ServiceTenants |-> FALSE], cursor |-> 1, trace |-> <<>>]
  ELSE LET o == oracleAfter[passes - 1]
       IN  IF \A i \in DOMAIN ServiceTenants : o.queue[i] = <<>> THEN o ELSE oracleVisit(o)

expectedDispatchPlan == oracleAfter[maximumVisits].trace

-----------------------------------------------------------------------------
(* The driver: exerciseSaturation.  After each stage comes the next one.    *)

following == [control |-> "initial", initial |-> "cancel", cancel |-> "deadline",
              deadline |-> "expire", expire |-> "canceling", canceling |-> "late",
              late |-> "reject", reject |-> "global", global |-> "release",
              release |-> "measure", measure |-> "final", final |-> "shutdown"]
firstStep(s) ==
  CASE s = "expire" -> "result" [] s = "canceling" -> "cancel"
    [] s \in {"release", "final", "shutdown"} -> s [] s = "measure" -> "dispatch" [] OTHER -> "launch"
jobsOf(s) ==
  CASE s = "expire" -> workload.deadline [] s = "canceling" -> workload.cancel
    [] s = "release" -> workload.control [] s = "measure" -> expectedDispatchPlan
    [] s \in {"final", "shutdown"} -> workload.global [] OTHER -> workload[s]
job == Head(todo)

Fail == stage' = "failed" /\ UNCHANGED <<workload, step, todo, expectation, order, plan, observed, counts>>
Proceed ==
  /\ stage' = IF Len(todo) = 1 THEN following[stage] ELSE stage
  /\ todo' = IF Len(todo) = 1 THEN jobsOf(stage') ELSE Tail(todo)
  /\ step' = firstStep(stage')
Goto(s) == step' = s /\ UNCHANGED <<stage, todo>>

counted(r, outcomes) == [counts EXCEPT ![tenant[r]] = [o \in Outcome |-> @[o] + IF o \in outcomes THEN 1 ELSE 0]]

(* launch, alone and as the first half of enqueueObserved *)
Launch ==
  /\ step = "launch"
  /\ call' = [call EXCEPT ![job] = "running"] /\ handler' = [handler EXCEPT ![job] = "sent"]
  /\ counts' = counted(job, IF stage \in Enqueued \cup {"reject"} THEN {"submitted"} ELSE {})
  /\ expectation' = IF stage \in Enqueued THEN expectation \cup {job} ELSE expectation
  /\ order' = IF job \in Service THEN [order EXCEPT ![tenant[job]] = Append(@, job)] ELSE order
  /\ Goto(CASE stage \in Enqueued -> "barrier" [] stage = "control" -> "dispatch" [] OTHER -> "result")
  /\ UNCHANGED <<vars, workload, plan, observed, answer, released, arrivals, seenUpstream, issue>>

(* awaitUpstreamDispatch.  An issue is an error; so is, in the second use,  *)
(* an arrival the plan does not name next.                                  *)
AwaitDispatch ==
  /\ step = "dispatch" /\ (arrivals # <<>> \/ issue)
  /\ arrivals' = <<>>
  /\ IF issue \/ arrivals # <<job>> THEN Fail /\ UNCHANGED released
     ELSE /\ observed' = IF stage = "measure" THEN Append(observed, job) ELSE observed
          /\ released' = IF stage = "measure" THEN [released EXCEPT ![job] = "first"] ELSE released
          /\ Goto(CASE stage = "control" -> "barrier" [] job \in Streams -> "event" [] OTHER -> "result")
          /\ UNCHANGED <<workload, expectation, order, plan, counts>>
  /\ UNCHANGED <<vars, handler, answer, call, seenUpstream, issue>>

AwaitFirstEvent ==
  /\ step = "event" /\ call[job] \in {"event", "completed"}
  /\ released' = [released EXCEPT ![job] = "done"] /\ Goto("result")
  /\ UNCHANGED <<vars, workload, expectation, order, plan, observed, counts,
                 handler, answer, call, arrivals, seenUpstream, issue>>

CancelCall ==
  /\ step = "cancel"
  /\ call' = [call EXCEPT ![job] = IF @ = "running" THEN "canceling" ELSE @]
  /\ Goto("result")
  /\ UNCHANGED <<vars, workload, expectation, order, plan, observed, counts,
                 handler, answer, released, arrivals, seenUpstream, issue>>

ReleaseControl ==
  /\ step = "release"
  /\ released' = [released EXCEPT ![control] = "first"] /\ Goto("result")
  /\ UNCHANGED <<vars, workload, expectation, order, plan, observed, counts,
                 handler, answer, call, arrivals, seenUpstream, issue>>

Returned(r) == call[r] \notin {"none", "running", "event", "canceling"}
wanted == [expire |-> "deadline", canceling |-> "canceled", reject |-> "rejected",
           global |-> "globalRejected", release |-> "completed", measure |-> "completed"]
tallied == [expire |-> {"deadlineExceeded"}, canceling |-> {}, reject |-> {"rejected"},
            global |-> {}, release |-> {}, measure |-> {"completed"}]

(* awaitClientResult and what follows it in each stage.  A plan that does   *)
(* not serve every job is an error.                                         *)
AwaitResult ==
  /\ step = "result" /\ Returned(job)
  /\ IF call[job] # wanted[stage]
        \/ (stage = "release" /\ Len(expectedDispatchPlan) # Cardinality(Service)) THEN Fail
     ELSE /\ expectation' = expectation \ {job}
          /\ counts' = counted(job, tallied[stage])
          /\ plan' = IF stage = "release" THEN expectedDispatchPlan ELSE plan
          /\ IF stage \in {"release", "measure"} \/ (stage = "expire" /\ Len(todo) > 1)
             THEN Proceed ELSE Goto("barrier")
          /\ UNCHANGED <<workload, order, observed>>
  /\ UNCHANGED <<vars, wire>>

-----------------------------------------------------------------------------
(* waitForSnapshot and waitForEmptySnapshot *)

size(S, f) == Weigh(S, [r \in Requests |-> admission[r][f]])
expectedCounters(s) ==
  LET q == {r \in expectation : s \in {Global, tenant[r]}}
      i == IF stage # "final" /\ s \in {Global, tenant[control]} THEN {control} ELSE {}
  IN  [queuedCount |-> Cardinality(q), queuedBytes |-> size(q, "bytes"), queuedWork |-> size(q, "work"),
       inflightCount |-> Cardinality(i), inflightWork |-> size(i, "work")]

snapshotMatches ==
  accepting /\ (\A s \in Scopes : counters[s] = expectedCounters(s)) /\ \A t \in Tenants : deficit[t] = 0

AskSnapshot ==
  /\ step = "barrier" /\ Receive([op |-> "snapshot"])
  /\ Goto("snapshot")
  /\ UNCHANGED <<workload, expectation, order, plan, observed, counts, wire>>

(* buildReport: every job and every arrival is accounted for. *)
Reconciled ==
  LET total(o) == counts[ServiceTenants[1]][o] + counts[ServiceTenants[2]][o] IN
  /\ Cardinality(Requests) = total("submitted") + 2
  /\ Cardinality(seenUpstream) = total("completed") + 1

(* validateReport, whose numbers are constants there.  The requests and the *)
(* work it counts as dispatched are counted with the completed ones, from   *)
(* the dispatches that observed lists, and compared with the same list;     *)
(* which job streams is fixed by the workload.                              *)
validReport ==
  /\ Reconciled
  /\ plan = observed /\ Len(plan) = Cardinality(Service)
  /\ \A t \in ToSet(ServiceTenants) :
       counts[t] = [submitted |-> QueueLimits[t].count + 3, admitted |-> QueueLimits[t].count + 2,
                    completed |-> QueueLimits[t].count, rejected |-> 1, canceled |-> 1,
                    deadlineExceeded |-> 1]

TakeSnapshot ==
  /\ step = "snapshot" /\ Handling("snapshot")
  /\ NothingToHandle /\ UNCHANGED <<outside, drainNotified, timerAt, sweep>>
  /\ CASE ~snapshotMatches -> Goto("barrier") /\ UNCHANGED <<workload, expectation, order, plan, observed, counts>>
       [] snapshotMatches /\ stage = "final" /\ ~validReport -> Fail
       [] OTHER -> /\ counts' = counted(job, CASE stage \in Enqueued -> {"admitted"}
                                               [] stage = "canceling" -> {"canceled"} [] OTHER -> {})
                   /\ Proceed
                   /\ UNCHANGED <<workload, expectation, order, plan, observed>>
  /\ UNCHANGED wire

(* The last checks, then waitClients *)
Finalize ==
  /\ step = "final"
  /\ IF plan # observed \/ Cardinality(seenUpstream) # Len(plan) + 1 \/ issue THEN Fail
     ELSE /\ \A r \in Requests : call[r] # "none" => Returned(r)
          /\ Goto("barrier") /\ UNCHANGED <<workload, expectation, order, plan, observed, counts>>
  /\ UNCHANGED <<vars, wire>>

(* gatewayRuntime.shutdown: a drain that finds anything is an error.  A     *)
(* shutdown that has to be forced, and Serve or the upstream that do not    *)
(* end, are long timeouts (RunTimesOut).                                    *)
Shutdown ==
  /\ step = "shutdown" /\ stage = "shutdown"
  /\ IF drainNotified THEN stage' = "reported" /\ UNCHANGED <<vars, step>>
     ELSE /\ accepting /\ Receive([op |-> "drain"])
          /\ stage' = IF counters[Global] = Idle THEN stage ELSE "failed"
          /\ UNCHANGED step
  /\ UNCHANGED <<workload, todo, expectation, order, plan, observed, counts, wire>>

(* A long timeout has passed: the wait it ends is an error. *)
RunTimesOut ==
  /\ now = MaxTime /\ Fail
  /\ UNCHANGED <<vars, wire>>

-----------------------------------------------------------------------------
Owner == Run /\ ~Handling("snapshot") /\ UNCHANGED <<driver, wire>>
Mailbox ==
  \/ TimerFires /\ UNCHANGED <<driver, wire>>
  \/ \E r \in Requests :
       \/ /\ handler[r] = "waiting"
          /\ Receive([op |-> "admit", id |-> r]) \/ (ctxDone[r] /\ Receive([op |-> "cancel", id |-> r]))
          /\ UNCHANGED <<driver, wire>>
       \/ FinishPermit(r)

Request(r) ==
  \/ acquirePreDispatch(r) \/ Submit(r) \/ AcquireReturns(r) \/ Arrives(r) \/ Answers(r)
  \/ ClientSeesEvent(r) \/ ClientReturns(r) \/ ClientGivesUp(r) \/ GatewaySeesClientGone(r)

Driver ==
  \/ AwaitDispatch \/ AwaitFirstEvent \/ ReleaseControl \/ AskSnapshot \/ TakeSnapshot
  \/ Finalize \/ Shutdown \/ Launch \/ CancelCall \/ AwaitResult

Requested == \E r \in Requests : Request(r)
TimePasses == Tick /\ UNCHANGED <<driver, wire>>
Over == stage \in {"failed", "reported"}
Going == ~Over /\ now < MaxTime

SNext ==
  \/ Going /\ (Driver \/ Owner \/ Mailbox \/ Requested \/ TimePasses)
  \/ ~Over /\ RunTimesOut
  \/ Over /\ UNCHANGED svars

SSpec == SInit /\ [][SNext]_svars

(* The gateway dispatches exactly as the independent round robin foretells, *)
(* whatever the jobs ask for and in whatever order they were launched.      *)
OracleAgrees ==
  stage = "measure" /\ arrivals # <<>> => arrivals[1] = plan[Len(observed) + 1]

(* The harness gives a false alarm only for want of time: until some long   *)
(* timeout has passed, none of its checks of the gateway fails.             *)
OnlyTimeFails == stage = "failed" => now = MaxTime

(* What it reports is what the scheduler decided, job by job.               *)
ReportTrue ==
  stage = "reported" => \A r \in Requests :
    CASE r \in Service \cup {control} -> terminal[r] = "Completed"
      [] kind[r] = "cancel"   -> result[r] = <<Canceled>>
      [] kind[r] = "deadline" -> result[r] = <<Expired>>
      [] OTHER -> result[r] = <<>>

(* A probe is refused because the scheduler's queues really are full, not   *)
(* for a slot somebody has yet to give back.                                *)
ProbesMeanFull ==
  \A r \in Requests :
    /\ call[r] = "rejected" /\ stage = "reject" => counters[tenant[r]].queuedCount = QueueLimits[tenant[r]].count
    /\ call[r] = "globalRejected" /\ stage = "global" => counters[Global].queuedCount = QueueLimits[Global].count

(* What the harness says of the gateway is so, be it good or bad.           *)
VerdictTrue == OracleAgrees /\ OnlyTimeFails /\ ReportTrue /\ ProbesMeanFull

(* Two things can hold the harness up before a long timeout: a deadline job *)
(* that expires before the barrier has seen it waiting, and a late job that *)
(* is refused because the handler of a cancelled one has yet to give its    *)
(* slots back, which no snapshot of the scheduler shows.  Nothing else can: *)
(* once everyone else has come to rest, the driver's wait is over.          *)
Disturbed ==
  \/ stage = "deadline" /\ \E r \in Jobs("deadline") : result[r] # <<>>
  \/ \E r \in Jobs("late") : answer[r] = "tenant_capacity"
Waits ==
  CASE step = "barrier" -> ~snapshotMatches
    [] step = "result" -> ~Returned(job) /\ ~(stage = "expire" /\ deadline[job] > now)
    [] step = "dispatch" -> arrivals = <<>> /\ ~issue
    [] step = "event" -> call[job] \notin {"event", "completed"}
    [] step = "final" -> \E r \in Requests : call[r] # "none" /\ ~Returned(r)
    [] step = "shutdown" -> ~accepting /\ ~drainNotified
    [] OTHER -> FALSE
NeverStuck == Going /\ ~Disturbed /\ Waits => ENABLED (Owner \/ Mailbox \/ Requested)
=============================================================================
