------------------------------- MODULE Server -------------------------------
(***************************************************************************)
(* The life of the inbound server (internal/server/server.go): Serve, any  *)
(* number of Shutdown calls, and the one clean-up goroutine they start,    *)
(* which drains gracefully until one deadline and forcibly until another,  *)
(* while requests arrive, wait, are served and end.                        *)
(*                                                                         *)
(* The handlers are counted by TrackedHandler; the scheduler is            *)
(* AdmissionContract with the cause of each permit's cancellation; one     *)
(* request is one handler.  net/http may hand over a request at any time,  *)
(* closes the listeners it serves, and waits for handlers in Shutdown but  *)
(* not in Close.  Closing idle upstream connections changes nothing here.  *)
(* Faults: see OwnerState.                                                 *)
(***************************************************************************)
EXTENDS TrackedHandler, AdmissionContract

CONSTANT Callers      \* calls of Shutdown

ASSUME OneHandlerPerRequest == Handlers = Requests

VARIABLES
  cause, ended,         \* of each permit: who cancelled it, how it ended
  gone,                 \* requests whose client has left
  baseDone,             \* the base context is cancelled
  stopped,              \* the scheduler's owner has stopped
  serve,                \* "start", "serving", "nil" or "failed"
  inShutdown,           \* of http.Server
  listening, broken,    \* the listener is not closed; it failed by itself
  closeFails,           \* closing the socket reports an error
  started, done,        \* shutdownStarted, shutdownDone
  place, drainStarted,  \* of runShutdown
  ctx,                  \* the contexts of runShutdown: "none", "live", "ended"
  result,               \* what runShutdown will report
  caller, gaveUp        \* where each caller is; whose context has ended

requests == <<contract, cause, ended, gone>>
http     == <<serve, inShutdown, listening, broken, closeFails>>
cleanup  == <<started, done, place, drainStarted, ctx, result>>
callers  == <<caller, gaveUp>>
vars     == <<tracked, requests, baseDone, stopped, http, cleanup, callers>>

Init ==
  /\ HandlersInit /\ CInit
  /\ cause = [r \in Requests |-> "none"] /\ ended = cause /\ gone = {}
  /\ baseDone = FALSE /\ stopped = FALSE
  /\ serve = "start" /\ inShutdown = FALSE /\ listening = TRUE /\ broken = FALSE
  /\ closeFails \in BOOLEAN
  /\ started = FALSE /\ done = FALSE /\ place = "none" /\ drainStarted = FALSE
  /\ ctx = [k \in {"grace", "force", "final"} |-> "none"]
  /\ result = [forced |-> FALSE, complete |-> TRUE, attributed |-> TRUE]
  /\ caller = [p \in Callers |-> "start"] /\ gaveUp = {}

-----------------------------------------------------------------------------
(* Requests, their handlers and the scheduler *)

requestDone(r) == r \in gone \/ baseDone
Held == {r \in Requests : status[r] \in {"waiting", "serving"}}
schedulerDrained == ~open /\ Held = {}

Requesting == UNCHANGED <<baseDone, stopped, http, cleanup, callers>>

Handling(r) ==
  /\ Arrive(r) \/ Enter(r) \/ TurnedBack(r)
       \/ (status[r] \in {"finished", "turnedAway"} /\ Leave(r))
  /\ UNCHANGED requests /\ Requesting

Depart(r) ==
  /\ r \notin gone /\ gone' = gone \cup {r}
  /\ UNCHANGED <<tracked, contract, cause, ended>> /\ Requesting

(* The inner handler asks for a permit or answers without one; the          *)
(* scheduler drops or starts a waiting request.                             *)
Schedule(r) ==
  /\ at[r] = "inside"
  /\ TurnAway(r) \/ (~requestDone(r) /\ (Join(r) \/ Start(r)))
  /\ UNCHANGED <<tracked, cause, ended, gone>> /\ Requesting

ClientCancels(r) ==
  /\ status[r] = "serving" /\ cause[r] = "none" /\ requestDone(r)
  /\ cause' = [cause EXCEPT ![r] = "client"]
  /\ UNCHANGED <<tracked, contract, ended, gone>> /\ Requesting

FinishPermit(r) ==
  /\ Finish(r)
  /\ LET c == IF cause[r] = "none" /\ requestDone(r) THEN "client" ELSE cause[r]
     IN  cause' = [cause EXCEPT ![r] = c] /\ ended' = [ended EXCEPT ![r] = c]
  /\ UNCHANGED <<tracked, gone>> /\ Requesting

-----------------------------------------------------------------------------
(* startShutdown and its callers *)

startShutdown ==
  IF started THEN UNCHANGED <<started, place, ctx>>
  ELSE started' = TRUE /\ place' = "drain" /\ ctx' = [ctx EXCEPT !["grace"] = "live"]

verdict == IF result.complete THEN "ok" ELSE "incomplete"
Told(p, what) == caller' = [caller EXCEPT ![p] = what] /\ UNCHANGED gaveUp
Waiting == UNCHANGED <<tracked, requests, baseDone, stopped, http, done, drainStarted, result>>

CallShutdown(p) ==
  /\ caller[p] = "start"
  /\ IF done THEN Told(p, verdict) /\ UNCHANGED <<started, place, ctx>>
     ELSE IF p \in gaveUp THEN Told(p, "context") /\ UNCHANGED <<started, place, ctx>>
     ELSE Told(p, "waiting") /\ startShutdown
  /\ Waiting

CallerReturns(p) ==
  /\ caller[p] = "waiting"
  /\ IF done THEN Told(p, verdict) ELSE p \in gaveUp /\ Told(p, "context")
  /\ UNCHANGED <<started, place, ctx>> /\ Waiting

CallerGivesUp(p) ==
  /\ p \notin gaveUp /\ gaveUp' = gaveUp \cup {p}
  /\ UNCHANGED <<tracked, requests, baseDone, stopped, http, cleanup, caller>>

(* Serve: http.Server refuses to serve after Shutdown or Close, and closes  *)
(* the listener when it returns.                                            *)
StartServe ==
  /\ serve = "start" /\ ~inShutdown
  /\ serve' = "serving"
  /\ UNCHANGED <<tracked, requests, baseDone, stopped, inShutdown, listening, broken,
                 closeFails, cleanup, callers>>

ListenerBreaks ==
  /\ serve = "serving" /\ listening /\ ~broken /\ broken' = TRUE
  /\ UNCHANGED <<tracked, requests, baseDone, stopped, serve, inShutdown, listening,
                 closeFails, cleanup, callers>>

ServeReturns ==
  /\ \/ serve = "start" /\ inShutdown
     \/ serve = "serving" /\ (broken \/ ~listening)
  /\ IF inShutdown /\ started
     THEN serve' = "nil" /\ UNCHANGED <<started, place, ctx>>
     ELSE serve' = "failed" /\ startShutdown
  /\ listening' = FALSE
  /\ UNCHANGED <<tracked, requests, baseDone, stopped, inShutdown, broken, closeFails,
                 done, drainStarted, result, callers>>

-----------------------------------------------------------------------------
(* Steps of runShutdown *)

At(p) == place = p
Goto(p) == place' = p /\ UNCHANGED <<started, done, drainStarted, ctx, result>>
GiveUpGrace == Goto("force")

cleanCloseError == ~closeFails

(* The same step with or without success, in the forced phase *)
GotoAfter(p, ok) ==
  /\ place' = p
  /\ result' = [result EXCEPT !.complete = @ /\ ok]
  /\ UNCHANGED <<started, done, drainStarted, ctx>>

KeepRequests == UNCHANGED <<tracked, requests, baseDone, stopped>>
KeepHTTP == UNCHANGED <<http, callers>>

(* The owner shuts admission and turns away whoever waits. *)
drain ==
  /\ open' = FALSE
  /\ status' = [r \in Requests |-> IF status[r] = "waiting" THEN "turnedAway" ELSE status[r]]
  /\ UNCHANGED demand

GraceDrain ==
  /\ At("drain")
  /\ \/ /\ ctx["grace"] = "live" /\ drain
        /\ place' = "httpShutdown" /\ drainStarted' = TRUE
        /\ UNCHANGED <<started, done, ctx, result>>
     \/ ctx["grace"] = "ended" /\ UNCHANGED contract /\ GiveUpGrace
  /\ UNCHANGED <<tracked, cause, ended, gone, baseDone, stopped>> /\ KeepHTTP

(* http.Server.Shutdown closes the listeners it serves, then polls, and     *)
(* reports an error of the former only after the latter.                    *)
HTTPShutdown ==
  /\ At("httpShutdown")
  /\ inShutdown' = TRUE /\ listening' = (listening /\ serve # "serving")
  /\ Goto(IF serve = "serving" /\ ~cleanCloseError THEN "httpError" ELSE "httpWait")
  /\ UNCHANGED <<serve, broken, closeFails, callers>> /\ KeepRequests

HTTPWait ==
  /\ At("httpWait") \/ At("httpError")
  /\ \/ /\ \A r \in Requests : at[r] \notin {"calling", "inside"}
        /\ IF At("httpWait") THEN Goto("closeListener") ELSE GiveUpGrace
     \/ ctx["grace"] = "ended" /\ GiveUpGrace
  /\ KeepRequests /\ KeepHTTP

GraceCloseListener ==
  /\ At("closeListener")
  /\ listening' = FALSE
  /\ IF cleanCloseError THEN Goto("seal") ELSE GiveUpGrace
  /\ UNCHANGED <<serve, inShutdown, broken, closeFails, callers>> /\ KeepRequests

GraceSeal ==
  /\ At("seal") /\ Seal /\ Goto("waitHandlers")
  /\ UNCHANGED <<requests, baseDone, stopped>> /\ KeepHTTP

(* wait of the tracked handler and of the scheduler: a completed drain wins *)
(* a race with the deadline.                                                *)
wait(drained, k) == drained \/ ctx[k] = "ended"

GraceWaits ==
  /\ \/ /\ At("waitHandlers") /\ wait(closes > 0, "grace")
        /\ IF closes > 0 THEN Goto("waitDrained") ELSE GiveUpGrace
     \/ /\ At("waitDrained") /\ wait(schedulerDrained, "grace")
        /\ IF schedulerDrained THEN Goto("graceful") ELSE GiveUpGrace
  /\ KeepRequests /\ KeepHTTP

Graceful ==
  /\ At("graceful") /\ Seal
  /\ baseDone' = TRUE
  /\ place' = "close" /\ ctx' = [ctx EXCEPT !["final"] = "live"]
  /\ UNCHANGED <<started, done, drainStarted, result, requests, stopped>> /\ KeepHTTP

(* The scheduler's Close with a context of its own *)
FinalClose ==
  /\ At("close")
  /\ stopped' = (ctx["final"] = "live")
  /\ GotoAfter("end", ctx["final"] = "live")
  /\ UNCHANGED <<tracked, requests, baseDone>> /\ KeepHTTP

(* Fault: handlers are told before the scheduler knows who told them. *)
ForceSealCancels ==
  /\ At("force") /\ Seal
  /\ place' = IF drainStarted THEN "forceCancel" ELSE "forceDrain"
  /\ ctx' = [ctx EXCEPT !["force"] = "live"]
  /\ result' = [result EXCEPT !.forced = TRUE]
  /\ baseDone' = TRUE
  /\ UNCHANGED <<started, done, drainStarted, requests, stopped>> /\ KeepHTTP

ForceSeal ==
  /\ At("force") /\ Seal
  /\ place' = IF drainStarted THEN "forceCancel" ELSE "forceDrain"
  /\ ctx' = [ctx EXCEPT !["force"] = "live"]
  /\ result' = [result EXCEPT !.forced = TRUE]
  /\ UNCHANGED <<started, done, drainStarted, requests, baseDone, stopped>> /\ KeepHTTP

ForceDrain ==
  /\ At("forceDrain")
  /\ IF ctx["force"] = "live" THEN drain ELSE UNCHANGED contract
  /\ GotoAfter("forceCancel", ctx["force"] = "live")
  /\ UNCHANGED <<tracked, cause, ended, gone, baseDone, stopped>> /\ KeepHTTP

(* ForceCancelInflight drains too, if nothing else did. *)
ForceCancel ==
  /\ At("forceCancel")
  /\ IF ctx["force"] = "live"
     THEN /\ drain
          /\ cause' = [r \in Requests |->
                         IF status[r] # "serving" \/ cause[r] # "none" THEN cause[r]
                         ELSE IF requestDone(r) THEN "client" ELSE "shutdown"]
     ELSE UNCHANGED <<contract, cause>>
  /\ place' = "baseCancel"
  /\ result' = [result EXCEPT !.complete = @ /\ ctx["force"] = "live",
                              !.attributed = ctx["force"] = "live"]
  /\ UNCHANGED <<started, done, drainStarted, ctx, tracked, ended, gone, baseDone, stopped>>
  /\ KeepHTTP

BaseCancel ==
  /\ At("baseCancel") /\ baseDone' = TRUE /\ Goto("httpClose")
  /\ UNCHANGED <<tracked, requests, stopped>> /\ KeepHTTP

HTTPClose ==
  /\ At("httpClose")
  /\ inShutdown' = TRUE /\ listening' = (listening /\ serve # "serving")
  /\ GotoAfter("forceListener", serve = "serving" => cleanCloseError)
  /\ UNCHANGED <<serve, broken, closeFails, callers>> /\ KeepRequests

ForceCloseListener ==
  /\ At("forceListener")
  /\ listening' = FALSE
  /\ GotoAfter("forceHandlers", cleanCloseError)
  /\ UNCHANGED <<serve, inShutdown, broken, closeFails, callers>> /\ KeepRequests

(* Faults: a handler that did not come back is not reported; or is awaited  *)
(* for as long as it takes.                                                 *)
ForceHandlersOptimistic ==
  /\ At("forceHandlers")
  /\ closes > 0 \/ ctx["force"] = "ended"
  /\ GotoAfter("forceDrained", TRUE)
  /\ KeepRequests /\ KeepHTTP

ForceHandlersPatient ==
  /\ At("forceHandlers") /\ closes > 0
  /\ GotoAfter("forceDrained", TRUE)
  /\ KeepRequests /\ KeepHTTP

ForceHandlers ==
  /\ At("forceHandlers") /\ wait(closes > 0, "force")
  /\ GotoAfter("forceDrained", closes > 0)
  /\ KeepRequests /\ KeepHTTP

(* An undrained scheduler is closed with the context that has just ended,   *)
(* and Close refuses at once.                                               *)
ForceDrained ==
  /\ At("forceDrained") /\ wait(schedulerDrained, "force")
  /\ IF schedulerDrained
     THEN /\ place' = "close" /\ ctx' = [ctx EXCEPT !["final"] = "live"]
          /\ UNCHANGED <<started, done, drainStarted, result>>
     ELSE GotoAfter("end", FALSE)
  /\ KeepRequests /\ KeepHTTP

Publish ==
  /\ At("end") /\ ~done
  /\ done' = TRUE /\ place' = "over"
  /\ UNCHANGED <<started, drainStarted, ctx, result>> /\ KeepRequests /\ KeepHTTP

CtxEnds(k) ==
  /\ ctx[k] = "live" /\ ctx' = [ctx EXCEPT ![k] = "ended"]
  /\ UNCHANGED <<started, done, place, drainStarted, result>> /\ KeepRequests /\ KeepHTTP

-----------------------------------------------------------------------------
runShutdown ==
  \/ GraceDrain \/ HTTPShutdown \/ HTTPWait \/ GraceCloseListener \/ GraceSeal \/ GraceWaits
  \/ Graceful \/ FinalClose \/ ForceSeal \/ ForceDrain \/ ForceCancel \/ BaseCancel
  \/ HTTPClose \/ ForceCloseListener \/ ForceHandlers \/ ForceDrained \/ Publish

Next ==
  \/ runShutdown \/ StartServe \/ ListenerBreaks \/ ServeReturns
  \/ \E k \in DOMAIN ctx : CtxEnds(k)
  \/ \E p \in Callers : CallShutdown(p) \/ CallerReturns(p) \/ CallerGivesUp(p)
  \/ \E r \in Requests : Handling(r) \/ Depart(r) \/ Schedule(r) \/ ClientCancels(r)
                           \/ FinishPermit(r)

Spec == Init /\ [][Next]_vars

(* The clean-up goroutine and Serve run, and timeouts expire.  Handlers and *)
(* clients may hang for ever.                                               *)
FairSpec ==
  /\ Spec
  /\ WF_vars(runShutdown) /\ WF_vars(ServeReturns)
  /\ \A k \in {"grace", "force", "final"} : WF_vars(CtxEnds(k))

-----------------------------------------------------------------------------
(* Success means that nothing is left: once a shutdown has reported success *)
(* the listener is closed, no handler is inside and none can enter, the     *)
(* scheduler holds nothing and its owner has stopped, for ever after.       *)
CleanShutdown ==
  (done /\ result.complete) \/ (\E p \in Callers : caller[p] = "ok") =>
    /\ ~listening /\ ~accepting /\ active = 0
    /\ schedulerDrained /\ stopped /\ baseDone

(* A shutdown is forced, or reported incomplete, only for a reason: a       *)
(* deadline passed or the socket could not be closed.                       *)
NoFalseAlarm ==
  /\ result.forced => ctx["grace"] = "ended" \/ closeFails
  /\ ~result.complete => ctx["force"] = "ended" \/ ctx["final"] = "ended" \/ closeFails
  /\ done /\ ~stopped => ctx["force"] = "ended" \/ ctx["final"] = "ended"

(* The gateway does not blame its clients: unless ForceCancelInflight       *)
(* failed, a permit ends as cancelled by its client only if that client     *)
(* really left, although the base context cancels every request.            *)
ShutdownOwnsCancellation ==
  result.attributed => \A r \in Requests : ended[r] = "client" => r \in gone

(* Nobody is told a falsehood: success means clean, forced or incomplete    *)
(* has a reason, and Serve reports a failure only if the listener failed by *)
(* itself, however a shutdown races its accept loop.                        *)
VerdictsTrue == CleanShutdown /\ NoFalseAlarm /\ (serve = "failed" => broken)

(* The clean-up ends, although clients never leave and handlers never come  *)
(* back, as every wait of both phases is bounded; and an accept loop that   *)
(* failed by itself is cleaned up after without anybody calling Shutdown.   *)
CleanUpEnds == (started \/ serve = "failed") ~> done
=============================================================================
