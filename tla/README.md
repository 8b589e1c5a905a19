# Verification of ssemaphore

ssemaphore is a loopback gateway in front of one model server. It authenticates
tenants, holds their requests in bounded per-tenant queues, starts them by
weighted deficit round robin (DRR) within in-flight limits, relays the answer
(plain or SSE), and shuts down gracefully and then by force. This directory
holds TLA+ models of that program, TLC configurations that check them on small
instances, and TLAPS proofs for all instances.

Run from this directory, e.g. `tlc -config OwnerSafety.cfg MCOwner` and
`tlapm OwnerTheorems.tla`. `PROJECT.json` maps every definition to source lines
and lists runs, hazards and theorems.

## 1. Inventory

| part | state it keeps | operations | interacts with | hard because |
|---|---|---|---|---|
| admission owner (`internal/admission/owner.go`, `expiry.go`) | entries map, per-tenant queues, expiry heap, in-flight list, counters per scope, DRR credit and cursor, accepting/drained flags, timer | admit, cancel, finish, snapshot, drain, force, stop; expiry; pump | commands from callers, client contexts, clock | five ways out of a queue; credit across sweeps; time and contexts move while it works |
| scheduler API (`scheduler.go`, `Permit` in `types.go`) | mailbox, reply and result channels, drained/done channels | Acquire, RequestCancel, Finish, BeginDrain, ForceCancelInflight, WaitDrained, Close, Snapshot | owner, request handlers, server | every wait has three ways to end; the owner may stop with commands unread |
| admission configuration (`config.go`) | validated limits | validateConfig, validateAdmission | owner | overflow of products; a too small deficit cap starves |
| server lifecycle (`internal/server/server.go`) | serve/shutdown once-flags, base context, result | Serve, Shutdown, runGraceful, forced phase | scheduler, HTTP server, tracked handler, listener, upstream pool | eight fallible steps under two deadlines; attribution must precede cancellation |
| tracked handler (`server/handler.go`) | accepting, active count, drained channel | begin, finish, seal, wait | net/http goroutines, server | seal races begin/finish |
| bounded listener (`server/listener.go`) | slots, closed channel | Accept, Close, connection Close | net/http | slot released exactly once on four paths |
| request handler (`internal/httpapi/handler.go`) | pre-dispatch slots per tenant and gateway; per request: permit, contexts, committed response | serve | scheduler, upstream, client | slots taken without a lock; panics; three contexts read one after the other; outcome and response must agree |
| SSE relay (`relay.go`, `stream.go`) | idle timer, context watches, body | relaySSE, nextSSEEvent, verifySSEEOF | decoder, request handler | timers close the body while it is read; terminal event withheld until clean EOF |
| SSE decoder (`internal/contract/sse.go`) | read buffer, position, byte and event totals | Next, VerifyEOF | relay | lines cut by reads and by the buffer; limits at boundaries |
| request/response contract (`contract/*`) | none | parse, validate | handler | byte-level parsing |
| upstream client, HTTP configuration (`httpapi/upstream.go`, `config.go`) | none of their own | Complete, validation | handler | sums and products that may wrap |
| supervision (`internal/app/supervise.go`, `signals.go`) | one-way transition | supervise | server, signals | deadline races results |
| process start, policy, secrets (`internal/app/*`) | policy file, environment, opened parts | read, validate, consume, build, run | all | others change the file meanwhile; clean-up after a failed step |
| saturation harness (`tools/run_saturation`) | clients, controlled upstream, expectations, report | exerciseSaturation | the gateway, through its clients, its upstream and snapshots | a second round robin as oracle; barriers that see only part of the gateway |
| visuals renderer (`tools/render_readme_visuals`) | artifacts, temporary files | check, replace | file system | crash-safe replacement of several files |

What makes each part correct, in a sentence: the **owner** never exceeds a
limit, never loses or duplicates an answer, serves each tenant in order, starves
nobody and drains completely; the **API** never abandons a permit and always
returns; the **server** attributes forced cancellations to itself, runs every
clean-up step and reports success only if all succeeded; **handlers and
listener** count exactly; the **request handler** finishes every permit once with
an outcome that fits what the client saw; the **relay** never emits a terminal
event for a stream that was not complete; **supervision** reports success only
for a clean shutdown; the **process** runs only under a policy it can live with,
read whole from one private file, and leaves neither secrets nor opened parts
behind; the **harness** condemns no correct gateway; the **renderer** never
leaves a manifest that vouches for pages that are not there.

## 2. Plan

Done:

1. `Resources`, `OwnerState` with `OwnerHistory`, `OwnerLiveness`; the abstract
   `AdmissionContract` and `OwnerRefinement`.
2. Proof of an inductive invariant of `OwnerState` (`OwnerTheorems`).
3. `Scheduler`: concurrent callers over the contract.
4. `TrackedHandler`, `BoundedListener`, and `Server`, which composes the tracked
   handler with the contract: Serve, Shutdown, graceful then forced clean-up,
   deadlines.
5. `PreDispatch`: many requests, their slots and panics, over the contract.
6. `SSEDecoder` and `Relay`: one dispatched request with its contexts, watches
   and timer, over every cut of a stream into reads.
7. `Policy` and `Process`: the policy's validators in words that wrap, and one
   invocation of the program from the policy file to the exit code, over
   `BoundedListener`.
8. `VisualFiles`: replacement of the artifacts under kills and losses of power.
9. `Saturation`: the harness over the owner, step by step.
10. Proofs of the safety properties of `Scheduler`, `Server`, `PreDispatch`,
    `Process` with `Policy` and `BoundedListener`, `Relay` with `SSEDecoder` and
    `VisualFiles`, and of the owner's history, pump and refinement (section 5).
11. Proof that the harness's verdicts are true: the owner's pump simulates the
    oracle of `Saturation` (`SaturationTheorems`).

What these modules leave to TLC is at the end of section 5, what they leave out is
in section 6.

## 3. Modules

| module | models | EXTENDS |
|---|---|---|
| `Resources` | limits and counter arithmetic of `config.go`, `owner.go` | |
| `OwnerState` | the owner goroutine | `Resources` |
| `OwnerHistory` | the same with history variables | `OwnerState` |
| `OwnerLiveness` | fairness and liveness | `OwnerState` |
| `AdmissionContract` | what callers are promised | `Resources` |
| `OwnerRefinement` | `OwnerState` implements it | `OwnerState` |
| `Scheduler` | the callers' side of `scheduler.go` | `AdmissionContract` |
| `TrackedHandler` | `server/handler.go`: the count of active handlers | |
| `BoundedListener` | `server/listener.go`: connection slots | |
| `Server` | `server/server.go`: Serve, Shutdown and the clean-up | `TrackedHandler`, `AdmissionContract` |
| `PreDispatch` | `httpapi/handler.go` up to the permit, and the return | `AdmissionContract` |
| `SSEDecoder` | `contract/sse.go` as operators on a record | |
| `Relay` | `httpapi/handler.go` from the permit on, `relay.go` | `SSEDecoder` |
| `Policy` | the validators of admission, HTTP, server and policy configuration | |
| `Process` | `internal/app`: start, supervision, end | `BoundedListener`, `Policy` |
| `VisualFiles` | `render_readme_visuals`: check and replacement of artifacts | |
| `Saturation` | `run_saturation`: driver, clients, upstream, oracle | `OwnerState` |
| `OwnerTheorems` | proofs about the owner's books and loop, its history, pump and refinement | `OwnerHistory`, `OwnerRefinement` |
| `SchedulerTheorems` | proofs about the callers | `Scheduler` |
| `ServerTheorems` | proofs about the handler count and the clean-up | `Server` |
| `PreDispatchTheorems` | proofs about the slots and the answers | `PreDispatch` |
| `RelayTheorems` | proofs about what the client receives and what is reported | `Relay` |
| `ProcessTheorems` | proofs about policy, process and connection slots | `Process` |
| `VisualTheorems` | proofs about the artifacts on disk | `VisualFiles` |
| `SaturationTheorems` | proofs about the harness and its oracle | `Saturation`, `OwnerTheorems` |
| `MC*` | constants for TLC (`MCValues`: those of the owner's runs) | |

Definitions whose comment begins with "Fault" are bugs the code could have had.
No behaviour uses them; each one, substituted for the definition it follows,
makes TLC report the property named with it under `mutants` in `PROJECT.json`.

### OwnerState and owner.go

Variables are the fields of `ownerState`, `tenantState` and `entry` under their
own names, plus `pc`, `cmd`, `wake` and the pump's locals. One iteration of
`run` is: `Receive` or `TimerFires`; `ExpireReady` once per late entry; one
handler (`Refuse`, `Enqueue`, `CancelQueued`, `CancelOther`, `FinishEntry`,
`BeginDrain`/`DrainNext`/`DrainDone`, `ForceCancelInflight`, `Stop`,
`NothingToHandle`); the pump; `Notify`, which also re-arms the timer.

Granularity. Nobody but the owner touches its fields, so what can interfere is
only what it reads from outside: the clock and the clients' contexts. A loop
iteration that reads either is a step of its own (expiry, drain, every pump
visit). The guards and the dispatch of one visit are one step: between the last
read of an outside value and the dispatch nothing from outside is read. The
walk of `forceCancelInflight` over the in-flight list reads each context once
and writes only that entry's cause, so it is one step too: a context that ends
during the walk is as if it had ended before or after.

Data. The heap is a set whose top is the least element in the order of
`expiryQueue.Less`; the in-flight list is a set, since its order is only used
to walk it; ids are the requests; request contents are bytes and work units.
Numbers are unbounded integers: additions are guarded by `fits` and
`boundedAdd`, subtractions are shown not to go below zero (`AccountingExact`,
`TypeOK`), so the machine width is never felt. `fundings` only observes.
`OwnerHistory` adds what no field keeps: the request at which a pump stopped
(`reserved`), whether a force was handled, who had given up by then, and
in `signaled` the permits the gateway took back while their client was still there;
those end as a shutdown and as nothing else, whatever the client does later.

The mailbox is represented by the order constraints it guarantees (`pending`):
admit follows Acquire; a cancel follows its admit; `finishOnce` allows one
finish; Close sends stop after the drained channel is closed. `Scheduler` shows
that callers really keep to these constraints.

The timer is cleared when the owner wakes up, as the code stops and drains it
before it is armed again. The branch of `admit` for an unknown tenant is left
out: `validateAdmission` refuses such a request before the mailbox. The branch
of `stop` that panics is in the model and is proved unreachable.

### Scheduler and scheduler.go

Each Acquire (with the life of its permit), BeginDrain, ForceCancelInflight and
Close is a process with a `pc`; a `select` with several ready cases takes any of
them, so each case is an action. The owner handles one command at a time, and
joins, starts and drops requests as `AdmissionContract` allows. It answers a
command (the reply, or closing `acknowledged`) before it pumps and closes
`drained`, and acknowledges stop before `run` closes `done`; a caller can go on in
between. So `owner` says where in its loop it is (`select`, `draining`, `pump`,
`stopping`, `stopped`, and `panicked`, which is shown to be unreachable), and
`NotifyDrained` and `CloseDone` are steps of their own. Sending to the mailbox
stays possible after the owner has stopped, as in Go. Snapshot is left out: it
only reads.

### TrackedHandler, BoundedListener, Server and internal/server

Each method of the tracked handler holds its mutex throughout and is one action.
`closes` counts how often `drained` was closed, so that a second close, which
would panic, is a state rather than an error of the model.

`BoundedListener` splits Accept where another goroutine can step in: after the
slot is taken, after the wrapped Accept returned, and at the last look at
`closed`. `Close` of the listener is two steps (channel, then socket), `Close`
of a connection too (socket, then slot). A wrapped Accept that fails makes
net/http try again or give up; either may happen, but a closed listener ends it.

In `Server` each call that the clean-up goroutine makes is an action, and
`place` says which one is next. `started` is `shutdownStarted` (with its
`sync.Once`), `done` the closed `shutdownDone`; `result.complete` is whether an
error will be returned. A context is `none`, `live` or `ended`, and ends at any
time while it is live. The scheduler is the contract plus, per permit, the
cause of its cancellation, since that is what the order of the forced phase
protects; a call to it with an ended context fails at once, which `Scheduler`
has in detail. The listener is open or closed; whether closing the socket fails
is chosen once, because `boundedListener` remembers its error.

net/http is represented by what its documentation and the code's comments rely
on: it may call the handler at any time, even after Close; Serve closes its
listener when it returns and refuses to start after Shutdown; Shutdown closes
the listeners being served, polls until no handler runs, and only then reports
an error of the closing; Close does not wait. One request is one handler.
Closing idle upstream connections changes no state of this model. `Serve` is
called at most once: a second call returns before it touches anything.

### PreDispatch, SSEDecoder, Relay and internal/httpapi

`Handler.serve` is modelled in two halves that meet at the permit. `PreDispatch`
has many requests and one step for what happens between a permit and its Finish;
`Relay` has one request and all of that. In `PreDispatch` every operation on a
slots channel is a step of its own (`takeTenantSlot`, `takeGlobalSlot`,
`rollBack`, `releaseGlobal`, `releaseTenant`); `lease` says which slots a
request's `preDispatchLease` stands for, and `NextPlace` where the handler goes
after a release: it is early after Acquire and deferred on every other path,
panics included. All that is examined before any slot (path, method, credential,
headers, length) is one choice, `Examine`. Acquire is seen from outside as the
contract's steps; a permit granted to a client who has gone is finished inside
it. `EnvelopeAssumption` is what `validatePreDispatchEnvelope` establishes, and
`Process` checks that validator.

`SSEDecoder` is sequential code: a record and operators on it, in the order
`Next` calls them. A token stands for bytes that no limit or line break
separates; limits are counted in tokens. The `bufio.Reader` and the
`LimitReader` below it are in the model, since the hard cases are theirs: a
line longer than the buffer, CR and LF in different reads, an error that comes
with bytes, one byte beyond the limit. `ValidStreams` is the reference: a
stream described event by event, without reading.

`Relay` runs the decoder inside the handler. Contexts form a chain (client,
permit, upstream call, event) and the end of one reaches the next in a step of
its own. A `context.AfterFunc` is armed, started or done, and so is the idle
timer; the handler stops it or waits for it exactly where the code does. A
function that looks at one context after another (`CheckClient`, `CheckPermit`,
`CheckDeadline`) is a step per look, with `after` as its return address. The
deferred calls are steps in their order (`Unwind`, `CancelUpstream`,
`FinishPermit`, `Recover`).
Complete, Parse and Read return any result the handler tells apart. `fault` and
`idleExpired` only record what happened.

### Policy, Process and internal/app

A policy is a record of all the limits and timeouts of `policyDocument`, per
tenant and global. Every addition and multiplication of the validators is done in
words of `Word` values, with the code's own test for overflow; a timeout is the
product of milliseconds and `Millisecond` in a signed word (`Duration`, `Int64`),
and a negative one is what a wrap makes of it. The validators are those a policy
goes through, in their order: `NewParser`, the admission configuration, the
handler's with `NewResponseValidator` and `ValidateSSELimits`, the upstream's, the
server's, and the sums of the shutdown timeouts. `Sound` says in unbounded
arithmetic what the assumptions of the other modules ask for and what the hard
limits admit; `PolicyDecided` compares the two. Schema version, listener address,
names, identities and credentials have no numbers; they pass or fail in
`DecodePolicy`.

In `Process`, reading the policy is a check of the path and its ancestors
(`PathIsSafe`), lstat, open, fstat, read, fstat, each a step between which others
may rename, rewrite or expose files (two inodes are enough for every exchange), and
each of which may fail (`ReadFails`). What is opened need not be what lstat saw.
`vetted` records which files were private while they were the file at the path.
Secrets are taken from the environment one by one; a variable whose Unsetenv fails
stays there (`stuck`). Start-up
is one step per part it opens, and each may fail; `res` says who has to close
what, and whether a scheduler was told to close and did not make it within
`startupCleanupTimeout` (`late`). The accept loop and the connections are `BoundedListener`, which `Process`
closes through `ShutdownCloses`; what else Serve and Shutdown do is in `Server`.
Here Serve returns some time after its accept loop, Shutdown once the listener is
closed or its deadline has passed, and either may report an error. A signal caught while none is
awaited stays pending; after the first one signals have their default effect
again, which is the state `killed`.

### VisualFiles and render_readme_visuals

A payload, contents and mode together, is the number of its build. `now` is what the directory shows,
`stable` everything that a loss of power may leave under a name: a rename is
certain only when the directory has been synced, and a file that was renamed
before it was synced may be found torn. A kill leaves the temporary file behind,
a loss of power may. Somebody may edit an artifact at any moment, also between
the first and the second look of a read. The check notes an entry that should not
be there and goes on, as the code does; every call of the file system may fail, and
a write that fails may leave its temporary file.

### Saturation and run_saturation

The owner is `OwnerState` itself; around it are the handler's slots, the
controlled upstream and a client per job. The driver is a list of stages
(`following`), each of which launches its jobs, waits for arrivals, results or
events, and ends with a barrier: a snapshot of the scheduler that equals what it
expects. All long timeouts are one step, which makes the run fail, so that
`OnlyTimeFails` says that no other check ever does. The oracle's loop is a
function of the number of its passes (`oracleAfter`), bounded by `maximumVisits`
as in the code. It adds with a `boundedOracleAdd` of its own, so that a fault of the
owner's `boundedAdd` is not shared by the oracle it is measured against. `Saturation`
keeps the harness's setup of four tenants; the
number of jobs, the weights, the limits, the sizes and the orders of launching
are constants or chosen. The report's counts of dispatched requests and work are
counted on the same lines as the completed ones and compared with the same list, and
the number of streams is fixed with the workload, so `validReport` has one of each
pair. A forced shutdown, a Serve or an upstream that does not end come from a
deadline that has passed, and are part of the step for long timeouts.

What a barrier cannot see: a cancelled client's request leaves the scheduler
before its handler gives back the two pre-dispatch slots, and the snapshot shows
the scheduler only. A late job launched in that window is refused, and the run
ends by its timeout. That is a rare false alarm for want of time, not a wrong
verdict; `NeverStuck` names it (`Disturbed`) and shows that, but for one more
case of bad timing, there is no other.

## 4. Runs

| run | configuration | properties | shows |
|---|---|---|---|
| `owner_safety` | `OwnerSafety` | `TypeOK`, `BooksAgree`, `AnsweredOnce`, `AccountingExact`, `LimitsHold`, `TenantFIFO`, `CreditBounded`, `PumpExact`, `DrainedIsFinal`, `ForceAttributed`, `DrainStopsDispatch`, `NoOvertaking` | books, answers, sums, limits, order, credit, pump, drain, force and barrier of the owner |
| `owner_expiry` | `OwnerExpiry` | `TimerCoversQueue` | heap, queues and timer with differing deadlines |
| `owner_liveness` | `OwnerLiveness` | `LeavesQueue`, `DrainCompletes`, `ImplementsContract` | nobody stays in a queue, drains complete, and the owner implements the contract |
| `scheduler_safety` | `SchedulerSafety` | `NothingLeftBehind` | callers, contexts, Close and ForceCancelInflight on a full mailbox |
| `scheduler_close` | `SchedulerClose` | `CloseIsClean`, `CallsReturn` | two Close calls and a BeginDrain race each other and a worker: what each is told is true, and everybody returns |
| `server_shutdown` | `ServerShutdown` | `HandlersExact`, `VerdictsTrue`, `ShutdownOwnsCancellation` | what success, failure and attribution of a shutdown mean |
| `server_ends` | `ServerEnds` | `CleanUpEnds` | the clean-up ends, also after a failure of Serve |
| `pre_dispatch` | `PreDispatch` | `SlotsConserved`, `QueueNeverFull`, `AnsweredUnlessGone` | slots survive races and panics and keep the queue from filling up; every client who stays is answered |
| `relay` | `Relay` | `TerminalProven`, `RelaysWholeEvents`, `OutcomeHonest`, `IdleTimeoutFinal`, `HandlerEnds` | what reaches the client is valid and whole, the outcome is true, the handler ends |
| `process` | `Process` | `SlotsExact`, `NothingLeaked`, `VerdictExact`, `PolicyDecided`, `StopTakesEffect` | a file others change, every overflow, secrets that cannot be unset, clean-up that is late, exit code and end of the process |
| `visual_files` | `VisualFiles` | `ManifestNeverAhead`, `RunsSound` | artifacts survive kills and losses of power |
| `saturation` | `Saturation` | `VerdictTrue`, `NeverStuck` | the harness's oracle, checks, report and waits |

A property that is a conjunction has its parts named (`PumpExact`,
`LeavesQueue`, `VerdictsTrue`, `StopTakesEffect`, `VerdictTrue`); those of
`NothingLeftBehind`, `SlotsConserved` and `RelaysWholeEvents` include the type
invariant of their module.

Bounds and why they are enough:

* **Requests**: three for safety. Two tenants need at least three requests for
  one tenant to have a queue while the other holds capacity, and for a request
  to arrive between a barrier and its release. Two for the owner's liveness: one
  that waits and one that is in its way.
* **Tenants and limits** (`MCValues`): quanta 1 and 2 with work up to 2, so one
  tenant needs two visits to fund a head and the other one; each queue limit and
  each in-flight limit is the binding one in some state; two requests of work 2
  do not fit the gateway together, which makes the barrier happen.
  `MCSerialLimits` leaves one permit, so that entries with different deadlines
  wait together.
* **MaxTime**: 1 or 2 ticks. Only the order of deadlines and of the clock's
  readings matters; with two ticks there are entries that are late, about to be
  and not yet.
* **MailboxSize** 1 instead of 64: a full mailbox is the hard case, and with
  two callers more than its size it is full most of the time.
* **Callers of `scheduler_close`**: two Close calls, a BeginDrain and one request,
  so that a Close is overtaken by another at each of its waits and a drain has
  something to wait for.
* **Cancelable**: contexts that may end at any time (one request in the safety
  run; those with a client deadline end with it). All contexts may end at any
  time in `Scheduler`.

* **Server**: two requests for safety, with room for one permit, so that one
  waits while the other is served; one for liveness, where each request is on
  its own. One call of Shutdown besides the one a failing Serve makes: callers
  only read what the single clean-up publishes.
* **PreDispatch**: three requests, tenants with one slot and with two, two
  global slots: either channel is the full one, and a request that rolls back
  meets one that could have used its slot. The queue is exactly as large as the
  envelope demands.
* **Relay**: streams of up to 9 tokens with limits of 7 tokens, 5 per event and
  2 events, and a buffer of 2: valid, cut short, one over each limit, followed
  by more, out of order, with either line ending and both. Every cut into reads
  is taken (1.4 million states).
* **Process**: words of 64 values, and policies that differ from a sound one in
  any single number or timeout or in the numbers of one product or sum (`Values`
  and `Times` of `MCProcess`: zero, on and around the limits, half a word and a
  whole one), so that each check is the deciding one and each product and each
  conversion to a duration wraps. Three connections on two
  slots, so that the loop waits; two closers, so that a connection is closed
  twice at once. Two names for secrets, which may be equal.
* **VisualFiles**: three pages and the manifest, checked in the middle of them
  and written last; three builds, so that a run follows one that was cut short
  which followed one that succeeded; one edit.
* **Saturation**: 14 jobs, with one initial service job per tenant instead of
  eight, quanta, sizes and credit limit in the harness's proportions; three
  orders of launching times 64 choices of sizes.

Symmetry is used over requests, in runs without liveness only.

Fairness. The Go runtime eventually runs a runnable goroutine: weak fairness of
the owner's steps and of each caller's own steps. At its select the owner may
prefer commands to a fired timer, so the timer gets weak fairness only.
`TimePasses` says that time does; `WorkersFinish` that a worker that holds a
permit finishes it and that the mailbox, a FIFO queue, delivers the finish
(strong fairness: the finish can be received each time the owner is at its
select, not continuously). Each half of `LeavesQueue` assumes one of them and not
the other. `FairSpec` of `Scheduler` takes from `LeavesQueue` that a waiting
request is answered. No context has to end and nobody has to call anything.
`FairSpec` of `Server` has the clean-up goroutine and Serve run and the three
timeouts of `runShutdown` expire; handlers, clients and callers may hang for
ever. `Fairness` of `Relay` has the handler and started callbacks run, deadlines
pass and the idle timer fire; the upstream may be silent for ever, and a call of
it returns only once its context has ended or its body is closed. `PSpec` of
`Process` has the process and the accept loop run and a begun shutdown close the
listener; Serve may never return, connections may stay open, and
that the deadline passes is assumed by `SignalEnds` only. `PreDispatch`,
`VisualFiles` and `Saturation` state no fairness: `NeverStuck` says of each wait
of the driver that something else can move.

`SchedulerClose.cfg` turns the deadlock check off, since a caller left
waiting shall be a violation of the liveness property; deadlock is checked by
`SchedulerSafety.cfg`. The two server runs turn it off
because a server whose clients have gone and that nobody shuts down really does
wait for ever; `VisualFiles.cfg`, because nobody has to start another run. The
other runs check deadlock; the only states that stutter are those where the
owner, all callers, all handlers, the handler of `Relay`, the process or the
harness has returned.

## 5. Proofs

Every theorem holds for all values of the constants that satisfy the named
assumptions, which are what the code establishes before it starts:

| assumption | module | says | established by |
|---|---|---|---|
| `ConfigAssumption` | `Resources` | limits and quanta | `validateConfig` |
| `ClientAssumption` | `OwnerState` | finitely many requests, of legal sizes | `validateAdmission` |
| `CallerAssumption` | `Scheduler` | callers are distinct, the mailbox has a capacity | `New` |
| `HandlersAssumption`, `OneHandlerPerRequest` | `TrackedHandler`, `Server` | finitely many handlers, one for each request | net/http |
| `EnvelopeAssumption` | `PreDispatch` | slots fit the queue limits | `validatePreDispatchEnvelope` |
| `ListenerAssumption` | `BoundedListener` | finitely many connections, at least one slot | `NewServer` |
| `SSELimitsAssumption`, `UpstreamAssumption` | `SSEDecoder`, `Relay` | the limits leave room for a smallest event and stream; streams and bodies are sequences of tokens | `NewSSEDecoder`; nothing, every sequence is one |
| `VisualAssumption` | `VisualFiles` | the manifest is not a page, both lists name the same artifacts | the artifact lists of `main.go` |
| `WorkloadAssumption`, `SetupAssumption` | `Saturation` | who owns which jobs and that each stage has its own; four tenants, one request in flight, places for the service jobs, the control tenant has the smallest weight | `validateSeededWorkload`; `saturationAdmissionConfig` |
| `PolicyAssumption`, `DecodedAssumption` | `Policy`, `Process` | code limits fit a word, an hour and a minute are what the policy's largest timeouts make, the slop is below the smallest envelope; a decoded policy has word-sized numbers | Go's integer types and constants, the JSON decoder |

The assumption of each module about the part below it is itself a property of
that part: `PolicyDecided` is proved of the validators, `ImplementsContract` of
the owner under the contract that `Scheduler`, `Server` and `PreDispatch` use.

**The owner's books and loop** (`OwnerTheorems`): `Spec => []IInv`, and from it
`TypeOK`, `BooksAgree`, `AnsweredOnce`, `AccountingExact`, `LimitsHold`,
`TenantFIFO`, `CreditBounded`, `TimerCoversQueue`, `DrainedIsFinal` and the action
property `DrainStopsDispatch`. None of these is inductive alone. `LimitsHold`
needs that counters are the sums over entries (`AccountingExact`), which needs
that queues, heap, list and map agree (`BooksAgree`), which needs that a command
names an entry in the state it presupposes (`Control`). `TenantFIFO` needs that
queues are sorted by sequence number and that numbers are never reused
(`QueueOrder`). `DrainedIsFinal` needs that nothing is queued while admission is
shut and the owner is not draining (`Control`). So `IInv` is split by what can
disturb it:

* `DataInv`: types of the records, books, answers, sums, limits, credit, order.
  A lemma each shows, once for each kind of change (enqueue, drop,
  dispatch, finish, credit), that it is preserved, whoever makes the change.
* `LoopInv`: types of the loop's variables, `Control`, `DrainedIsFinal`,
  `TimerCoversQueue`. Then every action of `Next` is taken through both halves.

Sums over sets of entries are `Weigh` of `Resources`, the cardinality of a set of
tokens, so that the library's cardinality theorems apply; the first lemmas show what
adding, removing and changing one element does to such a sum.

**The owner's promises** (`OwnerTheorems`), each from `IInv` and an invariant of
its own:

* `ForceAttributed` from `CauseInv`: a force shuts admission, so what it finds in
  flight is all there will ever be; causes are written once, and a client who
  leaves after the signal changes nothing (`signaled`).
* `NoOvertaking` from `ReservedInv`: the request at which a pump stopped stays the
  head at the cursor, fitting and funded, until it leaves its queue.
* `PumpExact`, idle half, from `WorkInv`: the tenants a sweep has visited without
  dispatching or funding are held back by their own limits (`SweepKeeps`), so a
  sweep that went all the way round leaves nobody who could run.
* `PumpExact`, cost half, from `FundInv`, a potential argument: `owed` is how many
  quanta a tenant can still be granted before its credit covers the largest
  request. A grant moves one quantum from owed to granted; a dispatch adds at most
  `Rounds(0)` to what is owed and takes one in-flight place. So granted plus owed
  stays below the product that `validateConfig` bounds.
* `ImplementsContract`: each step of the owner is a step of `AdmissionContract`
  under the mapping of `OwnerRefinement`, or a stutter.

**The callers** (`SchedulerTheorems`): `SInv` says for each caller which commands
of its own can be in the mailbox, what its answer is and what the owner holds for
it, place by place. `NothingLeftBehind` needs that a caller that has returned has
no admit left in the mailbox unless the owner is done, which needs that a command
is in the mailbox at most once (`SentOnce`). `CloseIsClean` needs that stop is sent
only after `drained`, that `drained` is final, and which phase of its loop the owner
can be in when a reply of each kind is out; its step half (`DrainWins`) that a
context that ends after the drain was acknowledged is reported only if the drain has
not completed.

**The server** (`ServerTheorems`): `HandlersExact` for the tracked handler called
in any order, then that every behaviour of `Server` is one of `HandlersSpec`.
`VerdictsTrue` and `ShutdownOwnsCancellation` from `ServerInv`: what has been
closed, sealed, drained and attributed when the clean-up is at a place
(`CleanInv`), which deadline must have passed for it to be there (`AlarmInv`), and
that once the base context is cancelled every permit already has its cause
(`CauseInv`).

**The request handler** (`PreDispatchTheorems`): `PDInv` says which slots a lease
stands for at each place and that the channels hold exactly the leases' slots.
`QueueNeverFull` follows by counting: whoever waits holds a slot, so the waiting
requests are at most as many as the slots and their sizes fit the envelope.

**The process** (`ProcessTheorems`): `NothingLeaked` and `VerdictExact` from
`ProcessInv`, which says at each place who owns which part, which one is late and
which secrets are still there or stuck. `PolicyDecided` needs `ReadInv`, that an
open file which passed fstat is the one lstat found private at the path, and
`PolicyExact`: for every policy and every word size the validators, with their own
tests for overflow, accept exactly the policies that are `Sound` over the integers.
It has a lemma for each validator (`ParserSound`, `AdmissionSound`, `HandlerSound`,
`ResponsesSound`, `HeadersSound`, `ServerSound`) and one for the timeouts
(`TimesExact`: milliseconds within their maximum do not wrap, and others that wrap
were refused before). `SlotsExact` for any number of
connections, closers and slots is inductive only with who has a connection in
hand (`LoopHolds`: the accept loop at most one; `CloserHolds`: no two goroutines
are inside the Close of one connection), since otherwise two releases could be
for the same slot.

**The relay** (`RelayTheorems`): `TerminalProven`, `RelaysWholeEvents`,
`IdleTimeoutFinal` and `OutcomeHonest` for every stream the upstream may send,
every way its reads and the decoder's buffer cut it up, and all limits. The
properties speak of the whole stream and of the client; the code sees neither.
`RelayInv` ties them together:

* `Feed` and `DecoderInv`: the stream is, token by token (`Window`), what the
  decoder has consumed, what it has buffered, what a Read is bringing and what is
  still to come, unless a Read has failed. So an empty buffer and an EOF that the
  limit did not cause mean that the stream has been consumed.
* `Phase`: at each place of the handler, the client has the first events of the
  stream and nothing else (`Sent`), and the event being read, of which the first
  LF is known (`PartInv`), starts where they end (`Behind`). `ReadLineFacts` takes
  one fragment through Next: the event goes on, is refused, or is one of
  `EventOf`.
* `FinalInv`: what the client has once the handler is on its way out. Completed
  means all of the stream, and the only way there leads through the verified end
  and a clean close.
* `IdleInv`: an idle timeout leaves the handler no way to a place that writes part
  of the stream.

`OutcomeHonest` also needs the other direction: the handler finds fault only where
there is one. `HonestInv` adds to `RelayInv`

* the causes: everything that can cut the relay short, an ended context, a watch or
  a timer that has closed the body, a failed Read, goes back to a fault of the
  upstream or to a permit that has ended (`Stressed`; `CauseInv`, `SlowInv`,
  `BodyInv`, `ReadInv`). A failure that only the permit explains is never answered
  as the upstream's: between the failure and the answer the handler looks at its
  contexts, and it is still on the way to the check that will see it (`FailedInv`).
* the cut: a valid stream is cut into its events at positions pos[0], ..., pos[q]
  (`Cut`, `ValidCut`). Without a cause to stop, the decoder has not failed, begins
  event c at pos[c], and has consumed everything once [DONE] has been returned
  (`Track`). One fragment (`TrackDecode`) ends where the line ends, since the only
  LFs between pos[c] and pos[c + 1] are the ends of the two lines
  (`LineWithin`, `NextWithin`); it keeps within the limits, since the event does;
  and no EOF shows up before the last LF (`NotEnded`), since the stream is shorter
  than what LimitReader lets through.

That whole events, one behind the other, flatten to the stream is an induction
over the recursive function in `FlattenSeq`, made as an argument about the least
counterexample (`NatLeast`), since the provers cannot use an induction theorem.

**The renderer** (`VisualTheorems`): `ManifestNeverAhead` and `RunsSound` from
`VisualInv`, for any number of pages, builds, kills, losses of power and edits.
The first k artifacts in the order of writing are certain to be this build's, so
when the manifest's turn comes every page is (`ManifestLast`); every other value a
loss of power may bring back is of a build no newer than this one (`Disk`). A run
that verifies has written everything (`Progress`), so what it reports lasts.

**The saturation harness** (`SaturationTheorems`): `VerdictTrue`, for every number
of jobs, all weights, sizes and limits, and every interleaving of the driver, the
owner, the handlers, the upstream and the clients. `HarnessDrivesOwner` shows that
every behaviour of the harness is one of the owner, so `IInv` is at hand. The
harness's own invariant is `SatInv`: a run that has failed has run out of time, and
otherwise `Inv` holds. `VerdictTrue` alone is far from inductive, since its four
parts speak of the oracle, the driver, the scheduler and the clients, which share
no state:

* The driver's position determines four sets of jobs, `launched`, `settled` (their
  barrier has been passed), `consumed` (their result has been taken) and `passed`.
  `LaunchInv`, `SettledInv`, `ConsumedInv` and `ExpectInv` say what the gateway has
  made of the jobs in them, `CountInv` that the accumulators are their numbers.
  `ProceedMoves` and `GotoMoves` show once how the sets grow.
* A barrier compares sums, not jobs. That equal sums mean equal sets of jobs
  (`SnapshotCounts`, `QueuedExpected`) is what lets the driver conclude that the
  job just launched is queued (`BarrierQueued`), that the one just cancelled has
  left, and left because it was cancelled and not expired (`BarrierCanceled`).
* While the control request is held nobody else is served and no credit is granted
  (`ControlInv`), so the cursor and the credits are what the oracle starts from
  when it is finished (`FinishStarts`). The queues are too: a job is launched after
  the barrier of the one before it, so that `serviceQueues` and the scheduler have
  the same order (`OrderInv`, `SameOrder`).
* From then on the pump simulates the oracle (`SimInv`): it is always where the
  oracle is after some number of passes. The pump opens a visit and serves in two
  steps, can pass over the two tenants that have no jobs, stops after every
  dispatch and resumes with the next finish; the oracle does none of this. One
  lemma for each kind of step (`SimSkip`, `SimOpen`, `SimShort`, `SimServe`).
* The oracle by itself: `OraclePlanIsComplete`. Between two jobs served it makes at
  most two passes for each quantum that fits in the credit limit, since each grants
  a waiting tenant one (`Waited`, `PassProgress`), so `maximumVisits` passes are
  enough and `expectedDispatchPlan` has no reason to return an error. The recursive
  function exists (`LoopExists`); facts about all passes are arguments about the
  least counterexample.

From these follow that no check of the harness fails (`ResultWanted`,
`ServiceArrives`, `FinalizeKeeps`, `ReportValid`, `ShutdownIdle`) and the four parts
of the verdict (`Arrival`, `Reported`, `ProbedFull`).

Only model-checked:

* Liveness under fairness (`LeavesQueue`, `DrainCompletes`, `CallsReturn`,
  `CleanUpEnds`, `HandlerEnds`, `StopTakesEffect`) is outside TLAPS's reach, and so
  is `NeverStuck`, which is about what is enabled.

## 6. Not modelled

* Parsing of bytes: JSON scanning and decoding (`contract/decode.go`,
  `jsonscan.go`, `request.go`, most of `response.go`, `app/json.go`), the
  spelling of headers, credentials and endpoints. It is sequential code over byte
  strings without state between calls; its results are choices in `PreDispatch`,
  `Relay` and `Process`.
* Rendering (`render.go`, `demo.go`, `architecture.go`, `setup.go`,
  `saturation.go`, `saturation_render.go`): text from data. The opening of pinned
  directories in `visualfs.go`, which only refuses.
* The harness's abort after a failure, failures of building the gateway it tests,
  its command line and the printing of its report.
* A rewrite of the policy in place by its owner while it is read, that keeps its
  length: the code compares identity and size, so it does not notice, and nothing is
  claimed about it.
* Wording, logging and formatting; statistics that are only reported.
* The Go runtime, `net/http`, `container/list`, `container/heap`, `context`,
  `bufio` and the file system, which are represented by what the code relies on.
