-------------------------------- MODULE Relay --------------------------------
(***************************************************************************)
(* One dispatched request, from its permit to the return of the handler     *)
(* (serve in internal/httpapi/handler.go, relay.go): the call of the        *)
(* upstream, the validated relay of its answer and the report of the        *)
(* outcome, while four contexts, two context watches, the idle timer and    *)
(* the client act on their own.  The contexts of the client, the permit,    *)
(* the upstream call and the event are a chain; each ends before the next.  *)
(***************************************************************************)
EXTENDS SSEDecoder

CONSTANTS Streams, Bodies     \* what the upstream may send: event streams, JSON bodies

ASSUME UpstreamAssumption == Streams \subseteq Seq(Token) /\ Bodies \subseteq Seq({"json", "junk"})

VARIABLES
  mode, stream, rest,       \* the request's mode, the answer and its unread part
  client, permit, forced,   \* ended; forced: the drain has cut the permit off
  up, event,                \* contexts: "none", "live", "canceled" or "deadline"
  upWatch, eventWatch,      \* context.AfterFunc: "off", "armed", "started" or "done"
  timer, timedOut,          \* the timer of one Read and sseIdleReader.timedOut
  body,                     \* "none", "open", or closed: "clean" or "failed"
  resp, read,               \* results of Complete and of Read
  decoder, late,            \* the decoder; a failure was a timeout
  pc, after,                \* the handler's place, and where a context check returns to
  sent, committed, outcome, finished,
  fault, idleExpired        \* history: what the upstream did wrong; the timer won

ctxs == <<client, permit, forced, up, event>>
watches == <<upWatch, eventWatch>>
idle == <<timer, timedOut, idleExpired>>
answer == <<sent, committed, outcome>>
given == <<mode, stream>>
vars == <<given, rest, ctxs, watches, idle, body, resp, read, decoder, late, pc, after,
          answer, finished, fault>>

Failures == {"draining", "timeout", "bad", "internal"}
Ended(context) == context \in {"canceled", "deadline"}

Init ==
  /\ \/ mode = "streaming" /\ stream \in Streams
     \/ mode = "buffered" /\ stream \in Bodies
  /\ rest = stream
  /\ client = FALSE /\ permit = FALSE /\ forced = FALSE
  /\ up = "none" /\ event = "none"
  /\ upWatch = "off" /\ eventWatch = "off"
  /\ timer = "off" /\ timedOut = FALSE /\ idleExpired = FALSE
  /\ body = "none" /\ resp = "none" /\ read = [tokens |-> <<>>, err |-> "none"]
  /\ decoder = NewSSEDecoder /\ late = FALSE
  /\ pc = "permitted" /\ after = "none"
  /\ sent = <<>> /\ committed = FALSE /\ outcome = "InternalFailure" /\ finished = 0
  /\ fault = {}

-----------------------------------------------------------------------------
(* The contexts, which end on their own and then end their children. *)

ClientLeaves ==
  /\ ~client /\ client' = TRUE
  /\ UNCHANGED <<given, rest, permit, forced, up, event, watches, idle, body, resp, read,
                 decoder, late, pc, after, answer, finished, fault>>

ForceCancel ==
  /\ finished = 0 /\ ~permit /\ permit' = TRUE /\ forced' = TRUE
  /\ UNCHANGED <<given, rest, client, up, event, watches, idle, body, resp, read,
                 decoder, late, pc, after, answer, finished, fault>>

Propagate ==
  /\ \/ client /\ ~permit /\ permit' = TRUE /\ UNCHANGED <<up, event>>
     \/ permit /\ up = "live" /\ up' = "canceled" /\ UNCHANGED <<permit, event>>
     \/ Ended(up) /\ event = "live" /\ event' = up /\ UNCHANGED <<permit, up>>
  /\ UNCHANGED <<given, rest, client, forced, watches, idle, body, resp, read,
                 decoder, late, pc, after, answer, finished, fault>>

DeadlinePasses ==
  /\ \/ up = "live" /\ up' = "deadline" /\ UNCHANGED event
     \/ event = "live" /\ event' = "deadline" /\ UNCHANGED up
  /\ fault' = fault \cup {"slow"}
  /\ UNCHANGED <<given, rest, client, permit, forced, watches, idle, body, resp, read,
                 decoder, late, pc, after, answer, finished>>

-----------------------------------------------------------------------------
(* onceReadCloser: the first Close decides what every Close returns. *)
CloseBody == body' \in (IF body = "open" THEN {"clean", "failed"} ELSE {body})

(* Callbacks, each in a goroutine of its own. *)
WatchRuns ==
  /\ \/ upWatch = "armed" /\ Ended(up) /\ upWatch' = "started" /\ UNCHANGED <<eventWatch, body>>
     \/ eventWatch = "armed" /\ Ended(event) /\ eventWatch' = "started" /\ UNCHANGED <<upWatch, body>>
     \/ upWatch = "started" /\ upWatch' = "done" /\ CloseBody /\ UNCHANGED eventWatch
     \/ eventWatch = "started" /\ eventWatch' = "done" /\ CloseBody /\ UNCHANGED upWatch
  /\ UNCHANGED <<given, rest, ctxs, idle, resp, read, decoder, late, pc, after, answer,
                 finished, fault>>

TimerFires ==
  /\ timer = "armed" /\ timer' = "fired"
  /\ idleExpired' = TRUE /\ fault' = fault \cup {"slow"}
  /\ UNCHANGED <<given, rest, ctxs, watches, timedOut, body, resp, read, decoder, late, pc,
                 after, answer, finished>>

(* Fault: the callback closes the body and leaves no mark. *)
TimerRunsUnmarked ==
  /\ \/ timer = "fired" /\ timer' = "marked" /\ UNCHANGED <<timedOut, body>>
     \/ timer = "marked" /\ timer' = "done" /\ CloseBody /\ UNCHANGED timedOut
  /\ UNCHANGED <<given, rest, ctxs, watches, idleExpired, resp, read, decoder, late, pc,
                 after, answer, finished, fault>>

TimerRuns ==
  /\ \/ timer = "fired" /\ timer' = "marked" /\ timedOut' = TRUE /\ UNCHANGED body
     \/ timer = "marked" /\ timer' = "done" /\ CloseBody /\ UNCHANGED timedOut
  /\ UNCHANGED <<given, rest, ctxs, watches, idleExpired, resp, read, decoder, late, pc,
                 after, answer, finished, fault>>

-----------------------------------------------------------------------------
(* Steps of the handler *)

Goto(place) == pc' = place /\ UNCHANGED after
Resume == pc' = after /\ after' = "none"
Check(place) == pc' = "client" /\ after' = place

Exit == pc' = "unwind" /\ after' = "none"
Leave(result) == outcome' = result /\ Exit /\ UNCHANGED <<sent, committed>>

(* writeJSONReader: the response is committed whether or not it arrives. *)
Write(tokens, result) ==
  /\ committed' = TRUE
  /\ \/ sent' = sent \o tokens /\ outcome' = result
     \/ UNCHANGED sent /\ outcome' = "DownstreamFailed"
  /\ Exit

Quiet == UNCHANGED <<given, forced, permit, client, finished>>
NoIO == UNCHANGED <<rest, idle, read, decoder>>
NoUpstream == NoIO /\ UNCHANGED <<up, event, watches, body, resp, late, fault>>

Permitted ==
  /\ pc = "permitted"
  /\ IF client THEN Leave("Canceled") ELSE Check("begin") /\ UNCHANGED answer
  /\ Quiet /\ NoUpstream

(* handleUpstreamContext, one context at a time *)
CheckClient ==
  /\ pc \in {"client", "reclient"}
  /\ IF client THEN Leave("Canceled")
     ELSE Goto(IF pc = "client" THEN "permit" ELSE "repermit") /\ UNCHANGED answer
  /\ Quiet /\ NoUpstream

CheckPermit ==
  /\ pc \in {"permit", "repermit"}
  /\ Goto(IF permit THEN "drain" ELSE IF pc = "permit" THEN "up" ELSE "late")
  /\ Quiet /\ NoUpstream /\ UNCHANGED answer

AnswerDraining ==
  /\ pc = "drain" /\ Exit /\ outcome' = "Canceled"
  /\ \/ ~client /\ ~committed /\ committed' = TRUE /\ sent' \in {sent, <<"draining">>}
     \/ (client \/ committed) /\ UNCHANGED <<sent, committed>>
  /\ Quiet /\ NoUpstream

CheckDeadline ==
  /\ pc = "up"
  /\ IF up = "deadline" THEN Goto("reclient") ELSE Resume
  /\ Quiet /\ NoUpstream /\ UNCHANGED answer

AnswerLate ==
  /\ pc = "late"
  /\ IF committed THEN Leave("UpstreamFailed") ELSE Write(<<"timeout">>, "UpstreamFailed")
  /\ Quiet /\ NoUpstream

-----------------------------------------------------------------------------
(* HTTPUpstream.Complete.  The transport honours the context, so an error   *)
(* is the upstream's doing only while the context lives.                    *)

Begin ==
  /\ pc = "begin" /\ Goto("completing")
  /\ up' = IF permit THEN "canceled" ELSE "live"
  /\ Quiet /\ NoIO /\ UNCHANGED <<event, watches, body, resp, late, fault, answer>>

Complete ==
  /\ pc = "completing"
  /\ \/ /\ resp' \in {"good", "bad"} /\ body' = "open" /\ upWatch' = "armed" /\ Check("metadata")
        /\ fault' = IF resp' = "bad" THEN fault \cup {"transport"} ELSE fault
     \/ /\ resp' \in {"timeout", "error"} /\ ~Ended(up) /\ Check("metadata")
        /\ fault' = fault \cup {IF resp' = "timeout" THEN "slow" ELSE "transport"}
        /\ UNCHANGED <<body, upWatch>>
     \/ resp' = "error" /\ Ended(up) /\ Check("metadata") /\ UNCHANGED <<body, upWatch, fault>>
     \/ Goto("unwind") /\ resp' = "panic" /\ UNCHANGED <<body, upWatch, fault>>
  /\ Quiet /\ NoIO /\ UNCHANGED <<up, event, eventWatch, late, answer>>

Metadata ==
  /\ pc = "metadata"
  /\ \/ resp = "timeout" /\ Write(<<"timeout">>, "UpstreamFailed")
     \/ resp \in {"error", "bad"} /\ Write(<<"bad">>, "UpstreamFailed")
     \/ resp = "good" /\ Goto(IF mode = "streaming" THEN "next" ELSE "parse") /\ UNCHANGED answer
  /\ Quiet /\ NoUpstream

(* ResponseValidator.Parse reads to the end of the body and fails with the  *)
(* context.                                                                 *)
ParseResponse ==
  /\ pc = "parse"
  /\ \/ stream = <<"json">> /\ ~Ended(up) /\ Goto("close") /\ UNCHANGED <<fault, resp>>
     \/ (stream # <<"json">> \/ Ended(up)) /\ Check("failed") /\ UNCHANGED <<fault, resp>>
     \/ body = "open" /\ fault' = fault \cup {"transport"} /\ Check("failed") /\ UNCHANGED resp
     \/ Goto("unwind") /\ resp' = "panic" /\ UNCHANGED fault
  /\ Quiet /\ NoIO /\ UNCHANGED <<up, event, watches, body, late, answer>>

CloseResponse ==
  /\ pc = "close" /\ CloseBody
  /\ fault' = IF body = "open" /\ body' = "failed" THEN fault \cup {"transport"} ELSE fault
  /\ Check(IF body' = "clean" THEN "write" ELSE "failed")
  /\ Quiet /\ NoIO /\ UNCHANGED <<up, event, watches, resp, late, answer>>

(* The buffered response, or the retained terminal event. *)
WriteLast ==
  /\ pc = "write"
  /\ Write(IF mode = "streaming" THEN decoder.raw ELSE stream, "Completed")
  /\ Quiet /\ NoUpstream

(* finishSSEFailure and the failures of a buffered response, after the contexts *)
AnswerFailure ==
  /\ pc = "failed"
  /\ IF committed THEN Leave("UpstreamFailed")
     ELSE Write(<<IF late THEN "timeout" ELSE "bad">>, "UpstreamFailed")
  /\ Quiet /\ NoUpstream

-----------------------------------------------------------------------------
(* relaySSE *)

(* nextSSEEvent and verifySSEEOF begin alike: a context with a deadline of  *)
(* its own and a watch that closes the body.                                *)
NextEvent ==
  /\ pc \in {"next", "verify"}
  /\ event' = up /\ eventWatch' = "armed"
  /\ decoder' = IF pc = "next" THEN beginNext(decoder, Ended(up))
                ELSE IF Ended(up) THEN fail(decoder) ELSE decoder
  /\ Goto(IF decoder'.state = "failed" THEN "stop" ELSE "decode")
  /\ Quiet /\ UNCHANGED <<rest, idle, read, up, upWatch, body, resp, late, fault, answer>>

Settled(d) == d.state # "open" \/ EventReady(d)

(* A fragment is in the buffer: Next and VerifyEOF go on by themselves. *)
Decode ==
  /\ pc = "decode" /\ ~NeedsRead(decoder)
  /\ decoder' = IF WantsLine(decoder) THEN readSSELine(decoder, Ended(event))
                                      ELSE verifyEOF(decoder, Ended(event))
  /\ Goto(IF Settled(decoder') THEN "stop" ELSE "decode")
  /\ Quiet /\ UNCHANGED <<rest, idle, read, up, event, watches, body, resp, late, fault, answer>>

(* The buffer has to be filled.  sseIdleReader.Read refuses after a timeout *)
(* and otherwise sets a timer for this one read of the body.                *)
BeginRead ==
  /\ pc = "decode" /\ NeedsRead(decoder)
  /\ \/ decoder.left = 0 /\ decoder' = LimitReached(decoder) /\ Goto("decode") /\ UNCHANGED timer
     \/ /\ decoder.left > 0 /\ timedOut
        /\ decoder' = fill(decoder, <<>>, "failure") /\ Goto("decode") /\ UNCHANGED timer
     \/ decoder.left > 0 /\ ~timedOut /\ timer' = "armed" /\ Goto("read") /\ UNCHANGED decoder
  /\ Quiet /\ UNCHANGED <<rest, timedOut, idleExpired, read, up, event, watches, body, resp,
                          late, fault, answer>>

(* The body's Read returns: what has arrived, the end of the stream with or *)
(* after the last of it, or a failure.  On a closed body it fails, or still *)
(* brings what raced with Close.                                            *)
ReadBody ==
  /\ pc = "read"
  /\ \/ \E n \in 0..Room(decoder) \cap 0..Len(rest), err \in {"none", "EOF"} :
          /\ n > 0 \/ err = "EOF"
          /\ err = "EOF" => n = Len(rest)
          /\ read' = [tokens |-> SubSeq(rest, 1, n), err |-> err]
          /\ rest' = SubSeq(rest, n + 1, Len(rest))
          /\ Goto("readReturned") /\ UNCHANGED <<fault, resp>>
     \/ /\ read' = [tokens |-> <<>>, err |-> "failure"] /\ Goto("readReturned")
        /\ fault' = IF body = "open" THEN fault \cup {"transport"} ELSE fault
        /\ UNCHANGED <<rest, resp>>
     \/ Goto("unwind") /\ resp' = "panic" /\ UNCHANGED <<read, rest, fault>>
  /\ Quiet /\ UNCHANGED <<idle, decoder, up, event, watches, body, late, answer>>

(* Fault: the reader waits for a callback that was stopped in time. *)
EndReadAlwaysWaits ==
  /\ pc = "readReturned" /\ timer = "done" /\ timer' = "off"
  /\ decoder' = IF timedOut THEN fill(decoder, <<>>, "failure")
                            ELSE fill(decoder, read.tokens, read.err)
  /\ read' = [tokens |-> <<>>, err |-> "none"] /\ Goto("decode")
  /\ Quiet /\ UNCHANGED <<rest, timedOut, idleExpired, up, event, watches, body, resp, late,
                          fault, answer>>

(* The timer is stopped, or its callback awaited; once it has won, what was *)
(* read is dropped.                                                         *)
EndRead ==
  /\ pc = "readReturned" /\ timer \in {"armed", "done"} /\ timer' = "off"
  /\ decoder' = IF timedOut THEN fill(decoder, <<>>, "failure")
                            ELSE fill(decoder, read.tokens, read.err)
  /\ read' = [tokens |-> <<>>, err |-> "none"] /\ Goto("decode")
  /\ Quiet /\ UNCHANGED <<rest, timedOut, idleExpired, up, event, watches, body, resp, late,
                          fault, answer>>

(* Fault: a failure is answered before the contexts are looked at. *)
StopEventBlaming ==
  /\ pc = "stop" /\ eventWatch \in {"armed", "done"} /\ eventWatch' = "off"
  /\ LET failed == decoder.state = "failed" \/ eventWatch = "done"
         slow == timedOut \/ (failed /\ event = "deadline" /\ up = "live") IN
     /\ late' = (late \/ slow)
     /\ IF failed \/ timedOut THEN Goto("failed")
        ELSE IF decoder.state = "verified" THEN Goto("close")
        ELSE Check(IF decoder.state = "doneReturned" THEN "verify" ELSE "relay")
  /\ event' = "none"
  /\ Quiet /\ NoIO /\ UNCHANGED <<up, upWatch, body, resp, fault, answer>>

(* The watch is stopped, or its callback awaited and the event refused.     *)
(* relaySSE looks at the contexts again unless EOF was just verified.       *)
StopEvent ==
  /\ pc = "stop" /\ eventWatch \in {"armed", "done"} /\ eventWatch' = "off"
  /\ LET failed == decoder.state = "failed" \/ eventWatch = "done"
         slow == timedOut \/ (failed /\ event = "deadline" /\ up = "live") IN
     /\ late' = (late \/ slow)
     /\ IF failed \/ timedOut THEN Check("failed")
        ELSE IF decoder.state = "verified" THEN Goto("close")
        ELSE Check(IF decoder.state = "doneReturned" THEN "verify" ELSE "relay")
  /\ event' = "none"
  /\ Quiet /\ NoIO /\ UNCHANGED <<up, upWatch, body, resp, fault, answer>>

(* writeSSEEvent, with the flush. *)
RelayEvent ==
  /\ pc = "relay" /\ committed' = TRUE
  /\ \/ sent' = sent \o decoder.raw /\ Goto("next") /\ UNCHANGED outcome
     \/ UNCHANGED sent /\ outcome' = "DownstreamFailed" /\ Goto("unwind")
  /\ Quiet /\ NoUpstream

-----------------------------------------------------------------------------
(* The deferred calls, last first: the watch is stopped and the body        *)
(* closed, the upstream call canceled, the permit finished; ServeHTTP       *)
(* recovers from a panic after that.                                        *)

Unwind ==
  /\ pc = "unwind" /\ Goto("cancel")
  /\ upWatch' = IF upWatch = "armed" THEN "off" ELSE upWatch
  /\ CloseBody
  /\ Quiet /\ NoIO /\ UNCHANGED <<up, event, eventWatch, resp, late, fault, answer>>

CancelUpstream ==
  /\ pc = "cancel" /\ Goto("finish")
  /\ up' = IF up = "live" THEN "canceled" ELSE up
  /\ Quiet /\ NoIO /\ UNCHANGED <<event, watches, body, resp, late, fault, answer>>

FinishPermit ==
  /\ pc = "finish" /\ Goto(IF resp = "panic" THEN "recover" ELSE "returned")
  /\ finished' = finished + 1
  /\ NoUpstream /\ UNCHANGED <<given, client, permit, forced, answer>>

Recover ==
  /\ pc = "recover" /\ Goto("returned")
  /\ \/ ~client /\ ~committed /\ committed' = TRUE /\ sent' \in {sent, <<"internal">>}
     \/ (client \/ committed) /\ UNCHANGED <<sent, committed>>
  /\ Quiet /\ NoUpstream /\ UNCHANGED outcome

-----------------------------------------------------------------------------
(* The upstream decides when Complete, Parse and Read return; the rest of   *)
(* the handler does not wait for it.                                        *)
Waits == Complete \/ ParseResponse \/ ReadBody
Acts ==
  \/ Permitted \/ CheckClient \/ CheckPermit \/ AnswerDraining \/ CheckDeadline \/ AnswerLate
  \/ Begin \/ Metadata \/ CloseResponse \/ WriteLast \/ AnswerFailure
  \/ NextEvent \/ Decode \/ BeginRead \/ EndRead \/ StopEvent \/ RelayEvent
  \/ Unwind \/ CancelUpstream \/ FinishPermit \/ Recover

(* The model ends with the handler.  A callback that is still due finds the *)
(* body closed.                                                             *)
Surroundings ==
  /\ pc # "returned"
  /\ \/ ClientLeaves \/ ForceCancel \/ Propagate \/ DeadlinePasses
     \/ WatchRuns \/ TimerFires \/ TimerRuns
Returned == pc = "returned" /\ UNCHANGED vars

Next ==
  \/ Surroundings \/ Waits \/ Acts \/ Returned

(* Time passes and goroutines run.  The upstream may be silent for ever:    *)
(* what waits for it returns only once its context or its body is gone.     *)
GivenUp == (pc = "completing" /\ Ended(up)) \/ body \in {"clean", "failed"}
Fairness ==
  /\ WF_vars(Acts) /\ WF_vars(GivenUp /\ Waits)
  /\ WF_vars(pc # "returned" /\ Propagate) /\ WF_vars(pc # "returned" /\ DeadlinePasses)
  /\ WF_vars(pc # "returned" /\ WatchRuns) /\ WF_vars(pc # "returned" /\ TimerRuns)

Spec == Init /\ [][Next]_vars /\ Fairness

-----------------------------------------------------------------------------
(* Type invariant; DecoderType has the limits the decoder must keep within. *)
TypeOK ==
  /\ decoder \in DecoderType
  /\ \A c \in {client, permit, forced, timedOut, idleExpired, late, committed} : c \in BOOLEAN
  /\ {up, event} \subseteq {"none", "live", "canceled", "deadline"}
  /\ {upWatch, eventWatch} \subseteq {"off", "armed", "started", "done"}
  /\ timer \in {"off", "armed", "fired", "marked", "done"}
  /\ body \in {"none", "open", "clean", "failed"}
  /\ outcome \in {"Completed", "Canceled", "UpstreamFailed", "DownstreamFailed", "InternalFailure"}
  /\ sent = <<>> \/ (sent[1] \in Failures /\ Len(sent) = 1) \/ sent \in Seq(Token \cup {"json"})
  /\ finished \in 0..1 /\ fault \subseteq {"slow", "transport"}

(* relay.go keeps the terminal event back until "clean EOF and a successful *)
(* body close prove that the upstream did not append data after [DONE]": a  *)
(* client that sees it has the whole of a valid stream, ended where the     *)
(* upstream ended it, and no timeout was overlooked.                        *)
TerminalProven ==
  "done" \in ToSet(sent) =>
    sent = stream /\ stream \in ValidStreams /\ body = "clean" /\ ~idleExpired

(* However the stream is cut into reads and buffers, only whole validated   *)
(* chunk events reach the client, unchanged and in order, until the         *)
(* terminal event: never part of an event that is refused later, and within *)
(* the decoder's limits (TypeOK).                                           *)
RelaysWholeEvents ==
  /\ TypeOK
  /\ mode = "streaming" /\ sent # <<>> /\ sent[1] \notin Failures =>
       /\ IsPrefix(sent, stream)
       /\ \/ sent \in ValidStreams
          \/ \E chunks \in BoundedSeq(EventOf("chunk"), MaxEvents) : sent = FlattenSeq(chunks)

(* Once the idle timer has won against a Read, nothing that came with it or *)
(* after it is relayed, whatever the racing Read returned.                  *)
IdleTimeoutFinal ==
  [][idleExpired => sent' = sent \/ (sent = <<>> /\ sent'[1] \in Failures)]_vars

(* The outcome is what happened.  The upstream is blamed only for what it   *)
(* did, never for a read that failed because the client left or the drain   *)
(* closed the body; a whole answer is Completed and nothing else is; the    *)
(* client hears of a drain only if there is one, of a timeout only if time  *)
(* ran out.  And it is told, with the permit, only when the upstream's body *)
(* is closed and its context has ended: the worker slot is not reused while *)
(* the call it stands for still holds a connection.                         *)
Blameless == fault = {} /\ stream \in ValidStreams \cup {<<"json">>}
OutcomeHonest ==
  /\ finished = 1 => body # "open" /\ up # "live"
  /\ pc = "returned" =>
       /\ outcome = "UpstreamFailed" => ~Blameless
       /\ (outcome = "Completed") <=> (sent = stream /\ stream \in ValidStreams \cup {<<"json">>})
       /\ outcome = "Canceled" => client \/ permit
       /\ sent = <<"draining">> => forced
       /\ sent = <<"timeout">> => "slow" \in fault

(* A silent upstream does not keep the handler: the deadlines and the idle  *)
(* timer close the body under the blocked Read, and no wait for a callback  *)
(* is for one that never runs.                                              *)
HandlerEnds == <>(pc = "returned")
=============================================================================
