----------------------------- MODULE OwnerState -----------------------------
(***************************************************************************)
(* The owner goroutine of the admission scheduler                          *)
(* (internal/admission/owner.go, expiry.go).  Every queue, fairness,       *)
(* cancellation and accounting transition of the gateway is a step of this *)
(* one goroutine: it receives a command (or its expiry timer), expires the *)
(* entries whose deadline has passed, handles the command, pumps the       *)
(* weighted deficit round robin, and notifies a completed drain.           *)
(*                                                                         *)
(* The owner's fields are private to it, but the wall clock and the client *)
(* contexts it reads are not: both may change between any two of its       *)
(* steps, so each iteration of its loops is a step of its own.             *)
(*                                                                         *)
(* Clients are represented by what they may put into the mailbox: an       *)
(* Acquire first, a cancel only behind its own admit, a finish only once   *)
(* per permit (Permit.finishOnce), a stop only after the drained channel   *)
(* closed (Scheduler.Close).                                               *)
(*                                                                         *)
(* A definition whose comment begins with "Fault" is a bug this code could *)
(* have had.  No behaviour uses it; substituting it for the definition     *)
(* that follows it breaks one of the properties.                           *)
(***************************************************************************)
EXTENDS Resources, Sequences, SequencesExt

CONSTANTS
  Requests,         \* the calls of Acquire that reach the mailbox
  Cancelable,       \* those of them whose client may give up at any time
  Admissions,       \* the reservations clients ask for
  Timeouts,         \* distance from Acquire to the effective deadline
  Sources,          \* which deadline is the effective one
  Outcomes,         \* the ServingOutcomes workers report
  MaxTime           \* bound on the clock (bounds the model, not the code)

(* What validateAdmission and the deadline arithmetic of Acquire let through. *)
ASSUME ClientAssumption ==
  /\ IsFiniteSet(Requests)
  /\ Cancelable \subseteq Requests
  /\ Admissions \subseteq Admission
  /\ Timeouts \subseteq Nat \ {0}
  /\ Sources \subseteq {"queue", "client"}
  /\ Outcomes \subseteq {"Completed", "UpstreamFailed", "DownstreamFailed",
                         "Canceled", "InternalFailure"}
  /\ MaxTime \in Nat

VARIABLES
  now,            \* clock.Now()
  ctxDone,        \* clientCtx.Err() # nil
  \* fields of entry that Acquire sets; deadline 0: Acquire not called yet
  admission, deadline, source,
  \* fields of entry that the owner sets
  state, phase, seq, cause,
  result,         \* what was sent on item.result
  terminal,       \* what finishEntry answered
  \* ownerState and tenantState
  entries, queue, expiry, inflight, counters, sequence,
  deficit, visitOpen, cursor, accepting, drainNotified,
  timerAt,        \* when the armed expiry timer fires; 0: nil channel
  \* the position and the locals of run and pump
  pc, cmd, wake, visits, dispatched, needsFunding,
  fundings        \* quanta granted by the current pump (observed, never read)

outside == <<now, ctxDone, admission, deadline, source>>
marks   == <<state, phase, seq, cause, result, terminal>>
books   == <<entries, queue, expiry, inflight, counters, sequence>>
drr     == <<deficit, visitOpen, cursor>>
command == <<cmd, wake>>
sweep   == <<visits, dispatched, needsFunding, fundings>>
owner   == <<marks, books, drr, accepting, drainNotified, timerAt, pc, command, sweep>>
vars    == <<outside, owner>>

Decision(kind, resource) == [kind |-> kind, resource |-> resource]
Dispatched == Decision("Dispatched", "none")
Canceled   == Decision("CanceledQueued", "none")
Expired    == Decision("QueueExpired", "none")
ShutDown   == Decision("Shutdown", "none")
Draining   == Decision("Draining", "none")

NoCommand  == [op |-> "none"]
TimerFired == [op |-> "timer"]

(* newOwnerState, before any Acquire *)
Init ==
  /\ now = 0
  /\ ctxDone = [r \in Requests |-> FALSE]
  /\ admission = [r \in Requests |-> [tenant |-> 1, bytes |-> 1, work |-> 1]]
  /\ deadline = [r \in Requests |-> 0]
  /\ source = [r \in Requests |-> "queue"]
  /\ state = [r \in Requests |-> "none"] /\ phase = state /\ cause = state /\ terminal = state
  /\ seq = [r \in Requests |-> 0]
  /\ result = [r \in Requests |-> <<>>]
  /\ entries = {} /\ expiry = {} /\ inflight = {}
  /\ queue = [t \in Tenants |-> <<>>]
  /\ counters = [s \in Scopes |-> Idle]
  /\ sequence = 0
  /\ deficit = [t \in Tenants |-> 0]
  /\ visitOpen = [t \in Tenants |-> FALSE]
  /\ cursor = 1
  /\ accepting = TRUE /\ drainNotified = FALSE
  /\ timerAt = 0
  /\ pc = "select" /\ cmd = NoCommand /\ wake = 0
  /\ visits = 0 /\ dispatched = FALSE /\ needsFunding = FALSE /\ fundings = 0

-----------------------------------------------------------------------------
(* The world around the owner *)

Tick ==
  /\ now < MaxTime
  /\ now' = now + 1
  /\ UNCHANGED <<ctxDone, admission, deadline, source, owner>>

(* A client context ends: its caller gives up, or its own deadline, when    *)
(* that is the effective one, has passed.                                   *)
CtxDone(r) ==
  /\ ~ctxDone[r]
  /\ \/ r \in Cancelable
     \/ deadline[r] # 0 /\ source[r] = "client" /\ deadline[r] <= now
  /\ ctxDone' = [ctxDone EXCEPT ![r] = TRUE]
  /\ UNCHANGED <<now, admission, deadline, source, owner>>

(* Acquire builds the entry.  The queue timeout starts here, before the     *)
(* mailbox accepts the command.  The model stops offering requests whose    *)
(* deadline lies beyond MaxTime.                                            *)
Acquire(r) ==
  /\ deadline[r] = 0 /\ ~ctxDone[r]
  /\ \E a \in Admissions, d \in Timeouts, src \in Sources :
       /\ now + d <= MaxTime
       /\ admission' = [admission EXCEPT ![r] = a]
       /\ deadline' = [deadline EXCEPT ![r] = now + d]
       /\ source' = [source EXCEPT ![r] = src]
  /\ UNCHANGED <<now, ctxDone, owner>>

-----------------------------------------------------------------------------
(* Entries, queues and the expiry heap *)

tenantOf(r) == admission[r].tenant

(* Fault: the heap is ordered by arrival. *)
LessByArrival(r, o) == seq[r] < seq[o]

Less(r, o) ==
  \/ deadline[r] < deadline[o]
  \/ deadline[r] = deadline[o] /\ seq[r] < seq[o]

(* expiry[0]: the heap is kept as a set, its top is the least element. *)
isTop(r) == r \in expiry /\ \A o \in expiry \ {r} : Less(r, o)

Without(q, r) == RemoveAt(q, CHOOSE i \in DOMAIN q : q[i] = r)

resolve(r, decision) == result' = [result EXCEPT ![r] = Append(@, decision)]

deadlineDecision(r) ==
  IF ctxDone[r] \/ source[r] = "client" THEN Canceled ELSE Expired

(* removeQueued.  credit is what the tenant keeps unless its queue is now   *)
(* empty; the entry's phase and the counters are left to the two callers.   *)
empties(r) == Len(queue[tenantOf(r)]) = 1

(* Fault: the emptied tenant keeps its credit. *)
creditKept(r, credit) == credit

creditAfter(r, credit) == IF empties(r) THEN 0 ELSE credit

removeQueued(r, credit) ==
  /\ queue' = [queue EXCEPT ![tenantOf(r)] = Without(@, r)]
  /\ expiry' = expiry \ {r}
  /\ deficit' = [deficit EXCEPT ![tenantOf(r)] = creditAfter(r, credit)]
  /\ visitOpen' = [visitOpen EXCEPT ![tenantOf(r)] = @ /\ ~empties(r)]

(* A queued entry leaves without a permit: removeQueued, delete, resolve. *)
Drop(r, decision) ==
  /\ removeQueued(r, deficit[tenantOf(r)])
  /\ counters' = removeQueuedFrom(counters, admission[r])
  /\ phase' = [phase EXCEPT ![r] = "none"]
  /\ entries' = entries \ {r}
  /\ resolve(r, decision)
  /\ UNCHANGED <<state, seq, cause, terminal, inflight, sequence, cursor>>

(* A queued entry becomes a permit. *)
dispatch(r) ==
  /\ removeQueued(r, deficit[tenantOf(r)] - admission[r].work)
  /\ counters' = addInflight(removeQueuedFrom(counters, admission[r]), admission[r])
  /\ state' = [state EXCEPT ![r] = "inflight"]
  /\ phase' = [phase EXCEPT ![r] = "inflight"]
  /\ inflight' = inflight \cup {r}
  /\ resolve(r, Dispatched)
  /\ UNCHANGED <<seq, cause, terminal, entries, sequence>>

-----------------------------------------------------------------------------
(* run: the select, then expireReady with the time read at wake-up.  What   *)
(* the timer does after a wake-up is not observed: it is stopped and        *)
(* drained before it is armed again.                                        *)

received(r) == r \in entries \/ result[r] # <<>>

(* Fault: Permit.Finish without its Once. *)
mayFinishAgain(r) == result[r] = <<Dispatched>>

mayFinish(r) == result[r] = <<Dispatched>> /\ terminal[r] = "none"

(* The commands a client may have in the mailbox *)
pending(c) ==
  CASE c.op = "admit"  -> deadline[c.id] # 0 /\ ~received(c.id)
    [] c.op = "cancel" -> received(c.id) /\ (ctxDone[c.id] \/ result[c.id] = <<Dispatched>>)
    [] c.op = "finish" -> mayFinish(c.id)
    [] c.op = "stop"   -> drainNotified
    [] OTHER -> TRUE

Commands ==
  [op : {"admit", "cancel"}, id : Requests]
    \cup [op : {"finish"}, id : Requests, outcome : Outcomes]
    \cup [op : {"snapshot", "drain", "force", "stop"}]

WakeUp(c) ==
  /\ pc = "select"
  /\ pc' = "busy" /\ cmd' = c /\ wake' = now /\ timerAt' = 0
  /\ UNCHANGED <<outside, marks, books, drr, accepting, drainNotified, sweep>>

Receive(c) == pending(c) /\ WakeUp(c)

TimerFires == timerAt # 0 /\ timerAt <= now /\ WakeUp(TimerFired)

isLate(r) == isTop(r) /\ deadline[r] <= wake

(* Fault: the late entry is taken off the heap only. *)
ExpireReadyHeapOnly(r) ==
  /\ pc = "busy" /\ isLate(r)
  /\ expiry' = expiry \ {r}
  /\ resolve(r, deadlineDecision(r))
  /\ UNCHANGED <<state, phase, seq, cause, terminal, entries, queue, inflight, counters,
                 sequence, drr, accepting, pc, command>>

ExpireReady(r) ==
  /\ pc = "busy" /\ isLate(r)
  /\ Drop(r, deadlineDecision(r))
  /\ UNCHANGED <<accepting, pc, command>>

-----------------------------------------------------------------------------
(* handle: one action per command, once nothing in the heap is late *)

Handling(op) == pc = "busy" /\ cmd.op = op /\ \A r \in expiry : ~isLate(r)

Handled == pc' = "pump" /\ cmd' = NoCommand /\ wake' = 0

(* A timer has no handler, and snapshot only reads. *)
NothingToHandle ==
  /\ Handling("timer") \/ Handling("snapshot")
  /\ Handled
  /\ UNCHANGED <<marks, books, drr, accepting>>

(* admit's chain of refusals.  The branch for an unknown tenant is left out: *)
(* validateAdmission turned such a request away before the mailbox.          *)
refusal(r) ==
  LET a == admission[r]
      tenantFailure == queueLimitFailure(counters[a.tenant], a, QueueLimits[a.tenant])
      globalFailure == queueLimitFailure(counters[Global], a, QueueLimits[Global])
  IN  IF ~accepting                  THEN <<Draining>>
      ELSE IF ctxDone[r]             THEN <<Canceled>>
      ELSE IF deadline[r] <= wake    THEN <<deadlineDecision(r)>>
      ELSE IF tenantFailure # "none" THEN <<Decision("TenantRejected", tenantFailure)>>
      ELSE IF globalFailure # "none" THEN <<Decision("GlobalRejected", globalFailure)>>
      ELSE <<>>

Refuse(r) ==
  /\ Handling("admit") /\ cmd.id = r /\ refusal(r) # <<>>
  /\ resolve(r, refusal(r)[1])
  /\ Handled
  /\ UNCHANGED <<state, phase, seq, cause, terminal, books, drr, accepting>>

(* Fault: the newest request goes to the front. *)
PushFront(q, r) == <<r>> \o q

PushBack(q, r) == Append(q, r)

Enqueue(r) ==
  /\ Handling("admit") /\ cmd.id = r /\ refusal(r) = <<>>
  /\ sequence' = sequence + 1
  /\ seq' = [seq EXCEPT ![r] = sequence + 1]
  /\ state' = [state EXCEPT ![r] = "queued"]
  /\ phase' = [phase EXCEPT ![r] = "queued"]
  /\ queue' = [queue EXCEPT ![tenantOf(r)] = PushBack(@, r)]
  /\ counters' = addQueued(counters, admission[r])
  /\ entries' = entries \cup {r}
  /\ expiry' = expiry \cup {r}
  /\ Handled
  /\ UNCHANGED <<cause, terminal, result, inflight, drr, accepting>>

(* cancelEntry of an entry still queued *)
CancelQueued(r) ==
  /\ Handling("cancel") /\ cmd.id = r /\ r \in entries /\ state[r] = "queued"
  /\ Drop(r, Canceled)
  /\ Handled
  /\ UNCHANGED accepting

(* cancelEntry of anything else: an entry in flight is only marked (its     *)
(* permit's context ends), and a terminal one is left alone.                *)
CancelOther(r) ==
  /\ Handling("cancel") /\ cmd.id = r /\ ~(r \in entries /\ state[r] = "queued")
  /\ cause' = [cause EXCEPT ![r] = IF r \in entries /\ @ = "none" THEN "client" ELSE @]
  /\ Handled
  /\ UNCHANGED <<state, phase, seq, terminal, result, books, drr, accepting>>

terminalOutcome(c, serving) ==
  IF c = "shutdown" THEN "Shutdown"
  ELSE IF c = "client" \/ serving = "Canceled" THEN "CanceledInflight"
  ELSE serving

(* A finish that finds no permit in flight answers without releasing. *)
FinishEntry(r) ==
  /\ Handling("finish") /\ cmd.id = r
  /\ IF r \in entries /\ state[r] = "inflight" /\ phase[r] = "inflight"
     THEN LET c == IF cause[r] = "none" /\ ctxDone[r] THEN "client" ELSE cause[r]
          IN  /\ cause' = [cause EXCEPT ![r] = c]
              /\ terminal' = [terminal EXCEPT ![r] = terminalOutcome(c, cmd.outcome)]
              /\ counters' = removeInflight(counters, admission[r])
              /\ phase' = [phase EXCEPT ![r] = "none"]
              /\ inflight' = inflight \ {r}
              /\ entries' = entries \ {r}
     ELSE /\ terminal' = [terminal EXCEPT ![r] = "Unreleased"]
          /\ UNCHANGED <<cause, counters, phase, inflight, entries>>
  /\ Handled
  /\ UNCHANGED <<state, seq, result, queue, expiry, sequence, drr, accepting>>

(* Fault: the queues are left for the pump to find. *)
BeginDrainKeepsQueues ==
  /\ Handling("drain") \/ (Handling("force") /\ accepting)
  /\ accepting' = FALSE
  /\ Handled
  /\ UNCHANGED <<marks, books, drr>>

(* beginDrain, also as the first part of forceCancelInflight *)
BeginDrain ==
  /\ Handling("drain") \/ (Handling("force") /\ accepting)
  /\ accepting' = FALSE
  /\ pc' = "drain"
  /\ UNCHANGED <<marks, books, drr, command>>

DrainNext(r) ==
  /\ pc = "drain"
  /\ \E t \in Tenants : /\ queue[t] # <<>> /\ Head(queue[t]) = r
                        /\ \A u \in 1..(t - 1) : queue[u] = <<>>
  /\ Drop(r, IF ctxDone[r] THEN Canceled ELSE ShutDown)
  /\ UNCHANGED <<accepting, pc, command>>

DrainDone ==
  /\ pc = "drain" /\ \A t \in Tenants : queue[t] = <<>>
  /\ IF cmd.op = "force" THEN pc' = "force" /\ UNCHANGED command ELSE Handled
  /\ UNCHANGED <<marks, books, drr, accepting>>

(* Fault: permits of departed clients are put down to shutdown. *)

forcedCauseBlamesShutdown(r) ==
  IF r \in inflight /\ cause[r] = "none" THEN "shutdown" ELSE cause[r]

forcedCause(r) ==
  IF r \in inflight /\ cause[r] = "none"
  THEN IF ctxDone[r] THEN "client" ELSE "shutdown"
  ELSE cause[r]

(* The walk over the in-flight list reads one client context per entry and  *)
(* nothing else that changes, so it is one step.                            *)
ForceCancelInflight ==
  /\ pc = "force" \/ (Handling("force") /\ ~accepting)
  /\ cause' = [r \in Requests |-> forcedCause(r)]
  /\ Handled
  /\ UNCHANGED <<state, phase, seq, terminal, result, books, drr, accepting>>

(* Fault: permits in flight are forgotten. *)
isDrainedQueueOnly == counters[Global].queuedCount = 0

isDrained == counters[Global].queuedCount = 0 /\ counters[Global].inflightCount = 0

Stop ==
  /\ Handling("stop")
  /\ pc' = IF isDrained THEN "stopped" ELSE "panicked"
  /\ UNCHANGED <<marks, books, drr, accepting, command>>

-----------------------------------------------------------------------------
(* pump: weighted deficit round robin.  pc is "visit" before a tenant of the *)
(* sweep, "serve" inside a tenant's visit.                                   *)

current == queue[cursor]
head == Head(queue[cursor])

LeavePump ==
  /\ pc' = "notify"
  /\ visits' = 0 /\ dispatched' = FALSE /\ needsFunding' = FALSE /\ fundings' = 0

(* Fault: no wrap-around. *)
advanceNoWrap == cursor' = cursor + 1

advance == cursor' = IF cursor = N THEN 1 ELSE cursor + 1

NextTenant == pc' = "visit" /\ visits' = visits + 1 /\ advance

EnterPump ==
  /\ pc = "pump"
  /\ pc' = IF saturated(counters) \/ counters[Global].queuedCount = 0
           THEN "notify" ELSE "visit"
  /\ UNCHANGED <<marks, books, drr, sweep>>

Visiting == pc = "visit" /\ visits < N

(* Fault: only the tenant's limits are looked at. *)
globalFitsAssumed == TRUE

tenantFits == inflightFits(counters[cursor], admission[head], InflightLimits[cursor])
globalFits == inflightFits(counters[Global], admission[head], InflightLimits[Global])
funded == admission[head].work <= deficit[cursor]
headIsDead == ctxDone[head] \/ deadline[head] <= now

(* A dead head is dropped when its tenant's turn comes, and again between   *)
(* the funding checks and the dispatch.                                     *)
DropHead ==
  /\ current # <<>> /\ headIsDead
  /\ Visiting \/ (pc = "serve" /\ tenantFits /\ funded)
  /\ Drop(head, IF ctxDone[head] THEN Canceled ELSE deadlineDecision(head))
  /\ UNCHANGED <<pc, sweep>>

SkipEmpty ==
  /\ Visiting /\ current = <<>>
  /\ deficit' = [deficit EXCEPT ![cursor] = 0]
  /\ visitOpen' = [visitOpen EXCEPT ![cursor] = FALSE]
  /\ NextTenant
  /\ UNCHANGED <<marks, books, dispatched, needsFunding, fundings>>

OpenVisit ==
  /\ Visiting /\ current # <<>> /\ ~headIsDead
  /\ IF visitOpen[cursor]
     THEN UNCHANGED <<deficit, visitOpen, fundings>>
     ELSE /\ deficit' = [deficit EXCEPT ![cursor] = boundedAdd(@, Quantum[cursor], DeficitCap)]
          /\ visitOpen' = [visitOpen EXCEPT ![cursor] = TRUE]
          /\ fundings' = fundings + 1
  /\ pc' = "serve"
  /\ UNCHANGED <<marks, books, cursor, visits, dispatched, needsFunding>>

(* The queue ran empty, or the tenant's own limit holds its head back.  In  *)
(* the second case the visit stays open: no new quantum until it is served. *)
LeaveTenant ==
  /\ pc = "serve" /\ (current # <<>> => ~tenantFits)
  /\ NextTenant
  /\ UNCHANGED <<marks, books, deficit, visitOpen, dispatched, needsFunding, fundings>>

NotFunded ==
  /\ pc = "serve" /\ current # <<>> /\ tenantFits /\ ~funded
  /\ needsFunding' = TRUE
  /\ visitOpen' = [visitOpen EXCEPT ![cursor] = FALSE]
  /\ NextTenant
  /\ UNCHANGED <<marks, books, deficit, dispatched, fundings>>

Servable == pc = "serve" /\ current # <<>> /\ tenantFits /\ funded /\ ~headIsDead

(* Fault: the next pump starts at the next tenant. *)
BarrierMovesOn ==
  /\ Servable /\ ~globalFits
  /\ LeavePump
  /\ advance
  /\ UNCHANGED <<marks, books, deficit, visitOpen>>

(* Once a head is funded, global capacity is reserved for it: the pump ends  *)
(* with the cursor on this tenant and its visit open.                        *)
Barrier ==
  /\ Servable /\ ~globalFits
  /\ LeavePump
  /\ UNCHANGED <<marks, books, drr>>

Serve ==
  /\ Servable /\ globalFits
  /\ dispatch(head)
  /\ IF saturated(counters')
     THEN LeavePump /\ IF empties(head) THEN advance ELSE UNCHANGED cursor
     ELSE /\ dispatched' = TRUE
          /\ IF empties(head) THEN NextTenant ELSE UNCHANGED <<pc, visits, cursor>>
          /\ UNCHANGED <<needsFunding, fundings>>

(* Fault: heads that need another quantum are forgotten. *)
sweepAgainIfDispatched == counters[Global].queuedCount # 0 /\ dispatched

sweepAgain == counters[Global].queuedCount # 0 /\ (dispatched \/ needsFunding)

EndSweep ==
  /\ pc = "visit" /\ visits = N
  /\ cursor' = IF counters[Global].queuedCount = 0 THEN 1 ELSE cursor
  /\ IF sweepAgain
     THEN /\ visits' = 0 /\ dispatched' = FALSE /\ needsFunding' = FALSE
          /\ UNCHANGED <<pc, fundings>>
     ELSE LeavePump
  /\ UNCHANGED <<marks, books, deficit, visitOpen>>

-----------------------------------------------------------------------------
(* Fault: the timer is not armed again. *)
armedNever == 0

(* notifyDrained, and resetExpiryTimer at the head of the next iteration.   *)
(* A deadline already past arms a timer of duration 0, which fires at once. *)
armed == IF expiry = {} THEN 0 ELSE deadline[CHOOSE r \in expiry : isTop(r)]

Notify ==
  /\ pc = "notify"
  /\ drainNotified' = (drainNotified \/ (~accepting /\ isDrained))
  /\ timerAt' = armed
  /\ pc' = "select"
  /\ UNCHANGED <<outside, marks, books, drr, accepting, command, sweep>>

-----------------------------------------------------------------------------
Handle ==
  /\ \/ NothingToHandle \/ BeginDrain \/ DrainDone \/ ForceCancelInflight \/ Stop
     \/ \E r \in Requests :
          \/ ExpireReady(r) \/ Refuse(r) \/ Enqueue(r) \/ CancelQueued(r)
          \/ CancelOther(r) \/ FinishEntry(r) \/ DrainNext(r)
  /\ UNCHANGED <<outside, drainNotified, timerAt, sweep>>

Pump ==
  /\ \/ EnterPump \/ DropHead \/ SkipEmpty \/ OpenVisit \/ LeaveTenant \/ NotFunded
     \/ Barrier \/ Serve \/ EndSweep
  /\ UNCHANGED <<outside, accepting, drainNotified, timerAt, command>>

(* What the owner does without waiting for anybody *)
Run == Handle \/ Pump \/ Notify

Outside == Tick \/ \E r \in Requests : CtxDone(r) \/ Acquire(r)

Stopped == pc = "stopped" /\ UNCHANGED vars

Next == Outside \/ (\E c \in Commands : Receive(c)) \/ TimerFires \/ Run \/ Stopped

Spec == Init /\ [][Next]_vars

-----------------------------------------------------------------------------
Decisions == [kind : {"Dispatched", "CanceledQueued", "QueueExpired", "Shutdown",
                      "Draining", "TenantRejected", "GlobalRejected"},
              resource : {"none", "count", "bytes", "work"}]

(* Type invariant: the owner's fields range over what their Go types and    *)
(* constants allow, counters and deficits never going below zero.           *)
TypeOK ==
  /\ now \in Nat /\ wake \in Nat /\ timerAt \in Nat /\ sequence \in Nat /\ fundings \in Nat
  /\ ctxDone \in [Requests -> BOOLEAN]
  /\ admission \in [Requests -> Admission]
  /\ deadline \in [Requests -> Nat]
  /\ source \in [Requests -> {"queue", "client"}]
  /\ state \in [Requests -> {"none", "queued", "inflight"}]
  /\ phase \in [Requests -> {"none", "queued", "inflight"}]
  /\ seq \in [Requests -> Nat]
  /\ cause \in [Requests -> {"none", "client", "shutdown"}]
  /\ result \in [Requests -> Seq(Decisions)]
  /\ terminal \in [Requests -> {"none", "Completed", "UpstreamFailed", "DownstreamFailed",
                                "CanceledInflight", "Shutdown", "InternalFailure",
                                "Unreleased"}]
  /\ entries \subseteq Requests /\ expiry \subseteq Requests /\ inflight \subseteq Requests
  /\ queue \in [Tenants -> Seq(Requests)]
  /\ counters \in [Scopes -> Counters]
  /\ deficit \in [Tenants -> Nat]
  /\ visitOpen \in [Tenants -> BOOLEAN]
  /\ cursor \in Tenants /\ visits \in 0..N
  /\ accepting \in BOOLEAN /\ drainNotified \in BOOLEAN
  /\ dispatched \in BOOLEAN /\ needsFunding \in BOOLEAN
  /\ pc \in {"select", "busy", "drain", "force", "pump", "visit", "serve", "notify",
             "stopped", "panicked"}
  /\ cmd \in Commands \cup {NoCommand, TimerFired}

(* The owner's records of where an entry is (the entries map, the entry's   *)
(* state and phase, its tenant's queue, the expiry heap, the in-flight      *)
(* list) never disagree, whichever of expiry, cancellation, drain, purge    *)
(* and dispatch got to the entry first.                                     *)
BooksAgree ==
  /\ expiry = {r \in Requests : phase[r] = "queued"}
  /\ inflight = {r \in Requests : phase[r] = "inflight"}
  /\ entries = expiry \cup inflight
  /\ \A r \in entries : state[r] = phase[r]
  /\ \A t \in Tenants : /\ IsInjective(queue[t])
                        /\ ToSet(queue[t]) = {r \in expiry : tenantOf(r) = t}

(* One answer per Acquire and one release per permit: the result channel is *)
(* sent on at most once (a second send would panic on the closed channel),  *)
(* a queued request has no answer yet, and a request was dispatched exactly *)
(* when its permit is still held or has been finished with its accounting   *)
(* released.                                                                *)
AnsweredOnce ==
  \A r \in Requests :
    /\ Len(result[r]) <= 1
    /\ r \in expiry => result[r] = <<>>
    /\ result[r] = <<Dispatched>> <=> (r \in inflight \/ terminal[r] # "none")
    /\ terminal[r] # "none" => r \notin inflight /\ terminal[r] # "Unreleased"

Charged(s, S) == {r \in S : Charges(admission[r], s)}
bodyBytes == [r \in Requests |-> admission[r].bytes]
workUnits == [r \in Requests |-> admission[r].work]

(* The counters of every scope are exactly the sums over the entries queued *)
(* and in flight in it, so no release is lost or done twice and the         *)
(* underflow panics of removeQueued and removeInflight are unreachable.     *)
AccountingExact ==
  \A s \in Scopes :
    /\ counters[s].queuedCount = Cardinality(Charged(s, expiry))
    /\ counters[s].queuedBytes = Weigh(Charged(s, expiry), bodyBytes)
    /\ counters[s].queuedWork = Weigh(Charged(s, expiry), workUnits)
    /\ counters[s].inflightCount = Cardinality(Charged(s, inflight))
    /\ counters[s].inflightWork = Weigh(Charged(s, inflight), workUnits)

(* No tenant and no sum of tenants ever holds more than its configured      *)
(* queue and in-flight limits.                                              *)
LimitsHold ==
  \A s \in Scopes :
    /\ counters[s].queuedCount <= QueueLimits[s].count
    /\ counters[s].queuedBytes <= QueueLimits[s].bytes
    /\ counters[s].queuedWork <= QueueLimits[s].work
    /\ counters[s].inflightCount <= InflightLimits[s].count
    /\ counters[s].inflightWork <= InflightLimits[s].work

(* Within a tenant requests are dispatched in the order they were admitted: *)
(* none that was ever dispatched is younger than one still queued.          *)
TenantFIFO ==
  \A r, o \in Requests :
    r \in expiry /\ result[o] = <<Dispatched>> /\ tenantOf(r) = tenantOf(o)
      => seq[o] < seq[r]

(* DRR credit: a tenant with an empty queue holds none (it cannot save up   *)
(* while idle), a closed visit leaves less than one maximum request, and an *)
(* open one at most a quantum more, so the cap in boundedAdd never takes    *)
(* away credit that was granted.                                            *)
CreditBounded ==
  \A t \in Tenants :
    /\ queue[t] = <<>> => deficit[t] = 0 /\ ~visitOpen[t]
    /\ ~visitOpen[t] => deficit[t] < MaxRequestUnits
    /\ deficit[t] <= MaxRequestUnits - 1 + Quantum[t]

(* rounds * tenants * in-flight count, the product validateConfig bounds    *)
(* "per scheduling opportunity", really bounds the quanta one pump grants,  *)
(* also when heads die or new ones surface while it runs.                   *)
FundingBounded ==
  LET least == CHOOSE q \in {Quantum[t] : t \in Tenants} : \A t \in Tenants : q <= Quantum[t]
      rounds == 1 + (MaxRequestUnits - 1) \div least
  IN  fundings <= rounds * N * InflightLimits[Global].count

(* The pump leaves no usable capacity idle: when the owner waits, nothing   *)
(* is queued, or the gateway is saturated, or the head under the cursor is  *)
(* funded and waits for global capacity only, or every head is held back by *)
(* its own tenant's limit.                                                  *)
WorkConserving ==
  pc = "select" =>
    \/ \A t \in Tenants : queue[t] = <<>>
    \/ saturated(counters)
    \/ queue[cursor] # <<>> /\ tenantFits /\ funded /\ ~globalFits
    \/ \A t \in Tenants : queue[t] # <<>> =>
         ~inflightFits(counters[t], admission[Head(queue[t])], InflightLimits[t])

(* A pump does neither too little nor too much.                             *)
PumpExact == WorkConserving /\ FundingBounded

(* Whenever the owner waits with something queued, its timer is armed for   *)
(* the earliest deadline in the queues: no expiry is slept through.         *)
TimerCoversQueue ==
  pc = "select" => \A r \in expiry : timerAt # 0 /\ timerAt <= deadline[r]

(* A closed drained channel is final: admission stays shut, nothing is      *)
(* queued or in flight, and a stop command finds the owner drained instead  *)
(* of panicking.                                                            *)
DrainedIsFinal ==
  /\ drainNotified => ~accepting /\ entries = {} /\ isDrained
  /\ pc # "panicked"

(* Once admission is shut it never reopens and no request is dispatched:    *)
(* beginDrain empties the queues before the pump that follows can look.     *)
DrainStopsDispatch ==
  [][~accepting => ~accepting' /\ inflight' \subseteq inflight]_vars
=============================================================================
