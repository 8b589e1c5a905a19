------------------------------ MODULE Scheduler ------------------------------
(***************************************************************************)
(* The callers' side of the admission scheduler                            *)
(* (internal/admission/scheduler.go and Permit in types.go): goroutines    *)
(* that call Acquire, Permit.Finish, Permit.RequestCancel, BeginDrain,     *)
(* ForceCancelInflight and Close exchange commands and replies with the    *)
(* owner goroutine through a bounded mailbox, and three things may end a   *)
(* wait: the reply, the caller's context, and the owner's done channel.    *)
(*                                                                         *)
(* The owner is represented by AdmissionContract, which OwnerRefinement    *)
(* shows OwnerState to implement: only when a request joins, starts and    *)
(* leaves matters here, not why.                                           *)
(*                                                                         *)
(* A select with several ready cases takes any of them, so each case is an *)
(* action.  Faults: see OwnerState.                                        *)
(***************************************************************************)
EXTENDS AdmissionContract, Sequences

CONSTANTS
  Drainers,       \* calls of BeginDrain, ForceCancelInflight and Close
  operation,      \* which of "drain", "force", "close" each of them is
  MailboxSize     \* capacity of the commands channel (64 in the code)

ASSUME CallerAssumption ==
  /\ operation \in [Drainers -> {"drain", "force", "close"}]
  /\ Requests \cap Drainers = {}
  /\ MailboxSize \in Nat

VARIABLES
  mailbox,      \* the commands channel
  reply,        \* what is in a caller's buffered response channel
  answer,       \* what is in a request's result channel: a permit or a refusal
  ctxDone,      \* the caller's context has ended
  drained, done,        \* the two channels the owner closes
  owner,        \* "select", "draining", "pump", "stopping", "stopped" or "panicked"
  pc,           \* where each caller is
  took,         \* the caller of Acquire holds the permit it was answered
  returned      \* what a caller was told

Callers == Requests \cup Drainers
channels == <<mailbox, reply, answer, drained, done, owner>>
callers  == <<pc, took, returned>>
vars     == <<contract, channels, ctxDone, callers>>

Init ==
  /\ CInit
  /\ mailbox = <<>>
  /\ reply = [p \in Callers |-> "none"]
  /\ answer = [r \in Requests |-> "none"]
  /\ ctxDone = [p \in Callers |-> FALSE]
  /\ drained = FALSE /\ done = FALSE /\ owner = "select"
  /\ pc = [p \in Callers |-> "start"]
  /\ took = [r \in Requests |-> FALSE]
  /\ returned = [p \in Callers |-> "none"]

(* A context is looked at in the first waits of a call and in WaitDrained; *)
(* when it ends later, nobody notices.                                     *)
LooksAtContext == {"start", "sending", "waiting", "beginning", "drainSent", "begun"}
CtxEnds(p) ==
  /\ ~ctxDone[p] /\ pc[p] \in LooksAtContext
  /\ ctxDone' = [ctxDone EXCEPT ![p] = TRUE]
  /\ UNCHANGED <<contract, channels, callers>>

-----------------------------------------------------------------------------
(* Steps every caller is made of *)

Goto(p, place) == pc' = [pc EXCEPT ![p] = place] /\ UNCHANGED returned
Return(p, what) ==
  pc' = [pc EXCEPT ![p] = "returned"] /\ returned' = [returned EXCEPT ![p] = what]

Cmd(op, p) == [op |-> op, id |-> p]

Send(p, op) ==
  /\ Len(mailbox) < MailboxSize
  /\ mailbox' = Append(mailbox, Cmd(op, p))

Local == UNCHANGED <<contract, channels, ctxDone, took>>
Sending == UNCHANGED <<contract, reply, answer, drained, done, owner, ctxDone, took>>

-----------------------------------------------------------------------------
(* Acquire *)

Call(r) ==
  /\ pc[r] = "start"
  /\ IF ctxDone[r] THEN Return(r, "canceled") ELSE Goto(r, "sending")
  /\ Local

SendAdmit(r) == pc[r] = "sending" /\ Send(r, "admit") /\ Goto(r, "waiting") /\ Sending

LeaveSending(r) ==
  /\ pc[r] = "sending"
  /\ \/ ctxDone[r] /\ Return(r, "canceled")
     \/ done /\ Return(r, "draining")
  /\ Local

(* The result arrives first.  A permit whose caller has gone is cancelled   *)
(* and finished at once; a closed scheduler does not look at the context.   *)
TakeResult(r) ==
  /\ pc[r] = "waiting" /\ answer[r] # "none"
  /\ took' = [took EXCEPT ![r] = answer[r] = "permit"]
  /\ \/ answer[r] = "permit" /\ ctxDone[r] /\ Goto(r, "canceling")
     \/ answer[r] = "permit" /\ (~ctxDone[r] \/ done) /\ Goto(r, "holding")
     \/ answer[r] # "permit" /\ Return(r, answer[r])
  /\ UNCHANGED <<contract, channels, ctxDone>>

ContextEnded(r) == pc[r] = "waiting" /\ ctxDone[r] /\ Goto(r, "canceling") /\ Local

(* Fault: nobody looks at done while waiting. *)
ClosedNeverSeen(r) == FALSE /\ Local /\ UNCHANGED <<pc, returned>>

ClosedWhileWaiting(r) ==
  /\ pc[r] = "waiting" /\ done /\ answer[r] = "none"
  /\ Return(r, "draining")
  /\ Local

(* cancel: used by Acquire and by Permit.RequestCancel *)
Cancelled(r) == Goto(r, IF took[r] THEN "finishing" ELSE "collecting")

SendCancel(r) == pc[r] = "canceling" /\ Send(r, "cancel") /\ Goto(r, "cancelSent") /\ Sending

CancelReplied(r) ==
  /\ \/ pc[r] = "cancelSent" /\ reply[r] = "cancel"
     \/ pc[r] \in {"canceling", "cancelSent"} /\ done
  /\ Cancelled(r)
  /\ Local

(* Fault: a permit that arrives after the context ended is dropped. *)
CollectDropsPermit(r) ==
  /\ pc[r] = "collecting"
  /\ \/ answer[r] # "none" /\ Return(r, "canceled")
     \/ answer[r] = "none" /\ done /\ Return(r, "canceled")
  /\ Local

(* The select after the cancel: the answer is there, or will never be. *)
Collect(r) ==
  /\ pc[r] = "collecting"
  /\ \/ answer[r] = "permit" /\ took' = [took EXCEPT ![r] = TRUE] /\ Goto(r, "finishing")
     \/ answer[r] \notin {"none", "permit"} /\ Return(r, answer[r]) /\ UNCHANGED took
     \/ answer[r] = "none" /\ done /\ Return(r, "canceled") /\ UNCHANGED took
  /\ UNCHANGED <<contract, channels, ctxDone>>

-----------------------------------------------------------------------------
(* The worker holding a permit: an optional RequestCancel, then Finish.     *)
(* finishOnce makes it the only finish of this permit.                      *)

WorkerCancels(r) == pc[r] = "holding" /\ Goto(r, "canceling") /\ Local
WorkerFinishes(r) == pc[r] = "holding" /\ Goto(r, "finishing") /\ Local

SendFinish(r) == pc[r] = "finishing" /\ Send(r, "finish") /\ Goto(r, "finishSent") /\ Sending

FinishReplied(r) ==
  /\ \/ pc[r] = "finishSent" /\ reply[r] \in {"released", "unreleased"} /\ Return(r, reply[r])
     \/ /\ \/ pc[r] = "finishing"
           \/ pc[r] = "finishSent" /\ reply[r] \notin {"released", "unreleased"}
        /\ done /\ Return(r, "unreleased")
  /\ Local

-----------------------------------------------------------------------------
(* BeginDrain and ForceCancelInflight, and Close, which begins with one.    *)
(* sendMutating looks at done and at the context before its select.         *)

Begun(d, what) ==
  IF operation[d] # "close" THEN Return(d, what)
  ELSE IF what = "context" THEN Return(d, what)
  ELSE Goto(d, "begun")

Begin(d) ==
  /\ pc[d] = "start"
  /\ IF done THEN IF operation[d] = "close" THEN Return(d, "ok") ELSE Return(d, "closed")
     ELSE IF ctxDone[d] THEN Return(d, "context")
     ELSE Goto(d, "beginning")
  /\ Local

SendDrain(d) ==
  /\ pc[d] = "beginning"
  /\ Send(d, IF operation[d] = "force" THEN "force" ELSE "drain")
  /\ Goto(d, "drainSent")
  /\ Sending

LeaveBeginning(d) ==
  /\ pc[d] = "beginning"
  /\ \/ ctxDone[d] /\ Begun(d, "context")
     \/ done /\ Begun(d, "closed")
  /\ Local

DrainReplied(d) ==
  /\ pc[d] = "drainSent"
  /\ \/ reply[d] = "drain" /\ Begun(d, "ok")
     \/ reply[d] # "drain" /\ done /\ Begun(d, "closed")
  /\ Local

(* Fault: the end of the context is taken for the end of the drain. *)
WaitDrainedGivesUp(d) ==
  /\ pc[d] = "begun"
  /\ \/ done /\ Return(d, "ok")
     \/ (drained \/ ctxDone[d]) /\ Goto(d, "drained")
  /\ Local

(* A completed drain wins a race with the context. *)
WaitDrained(d) ==
  /\ pc[d] = "begun"
  /\ \/ done /\ Return(d, "ok")
     \/ drained /\ Goto(d, "drained")
     \/ ctxDone[d] /\ ~drained /\ Return(d, "context")
  /\ Local

CheckClosed(d) ==
  /\ pc[d] = "drained"
  /\ IF done THEN Return(d, "ok") ELSE Goto(d, "stopping")
  /\ Local

SendStop(d) == pc[d] = "stopping" /\ Send(d, "stop") /\ Goto(d, "stopSent") /\ Sending

Stopped(d) ==
  /\ \/ pc[d] = "stopSent" /\ reply[d] = "stop"
     \/ pc[d] \in {"stopping", "stopSent"} /\ done
  /\ Return(d, "ok")
  /\ Local

-----------------------------------------------------------------------------
(* The owner: one command at a time.  A reply goes into a buffered channel   *)
(* and may be read at once, before the pump has run and before notifyDrained *)
(* ends the iteration; likewise the acknowledgement of stop, before run has *)
(* closed done.                                                             *)

Held == {r \in Requests : status[r] \in {"waiting", "serving"}}
Quiet == UNCHANGED <<ctxDone, callers>>

Answer(r, what) == answer' = [answer EXCEPT ![r] = what]
Reply(p, what) == reply' = [reply EXCEPT ![p] = what]

Next1 == owner = "select" /\ mailbox # <<>> /\ mailbox' = Tail(mailbox)
Handles(op, p) == Next1 /\ Head(mailbox) = Cmd(op, p)

(* admit: any reason to refuse is possible, but a closed door is certain. *)
HandleAdmit(r) ==
  /\ Handles("admit", r)
  /\ \/ Join(r) /\ UNCHANGED answer
     \/ TurnAway(r) /\ Answer(r, IF open THEN "refused" ELSE "draining")
  /\ owner' = "pump"
  /\ UNCHANGED <<reply, drained, done>> /\ Quiet

HandleCancel(r) ==
  /\ Handles("cancel", r)
  /\ Reply(r, "cancel")
  /\ \/ status[r] = "waiting" /\ TurnAway(r) /\ Answer(r, "canceled")
     \/ status[r] # "waiting" /\ UNCHANGED <<contract, answer>>
  /\ owner' = "pump"
  /\ UNCHANGED <<drained, done>> /\ Quiet

HandleFinish(r) ==
  /\ Handles("finish", r)
  /\ \/ Finish(r) /\ Reply(r, "released")
     \/ status[r] # "serving" /\ Reply(r, "unreleased") /\ UNCHANGED contract
  /\ owner' = "pump"
  /\ UNCHANGED <<answer, drained, done>> /\ Quiet

(* drain and force: admission is shut, then the queues are emptied. *)
HandleDrain(d) ==
  /\ Handles("drain", d) \/ Handles("force", d)
  /\ \/ Shut
     \/ ~open /\ UNCHANGED contract
  /\ owner' = "draining"
  /\ Reply(d, "drain pending")
  /\ UNCHANGED <<answer, drained, done>> /\ Quiet

DrainOne(r) ==
  /\ owner = "draining" /\ status[r] = "waiting"
  /\ TurnAway(r) /\ Answer(r, "shutdown")
  /\ UNCHANGED <<mailbox, reply, drained, done, owner>> /\ Quiet

DrainFinished(d) ==
  /\ owner = "draining" /\ reply[d] = "drain pending"
  /\ \A r \in Requests : status[r] # "waiting"
  /\ owner' = "pump"
  /\ Reply(d, "drain")
  /\ UNCHANGED <<contract, mailbox, answer, drained, done>> /\ Quiet

NotifyDrained ==
  /\ owner = "pump" /\ owner' = "select"
  /\ drained' = (drained \/ (~open /\ Held = {}))
  /\ UNCHANGED <<contract, mailbox, reply, answer, done>> /\ Quiet

(* close(acknowledged) *)
HandleStop(d) ==
  /\ Handles("stop", d)
  /\ IF Held = {}
     THEN owner' = "stopping" /\ Reply(d, "stop")
     ELSE owner' = "panicked" /\ UNCHANGED reply
  /\ UNCHANGED <<contract, answer, drained, done>> /\ Quiet

(* close(s.done), the last thing run does *)
CloseDone ==
  /\ owner = "stopping" /\ owner' = "stopped" /\ done' = TRUE
  /\ UNCHANGED <<contract, mailbox, reply, answer, drained>> /\ Quiet

(* expireReady, where the deadline may be the client's or the queue's, and  *)
(* the purge and the dispatches of the pump.  A pump that the timer starts  *)
(* is folded into "select": somebody waits, so admission is open and its    *)
(* notifyDrained does nothing.                                              *)
Pumping == owner \in {"select", "pump"}

Expire(r) ==
  /\ Pumping /\ status[r] = "waiting"
  /\ TurnAway(r) /\ \E what \in {"canceled", "expired"} : Answer(r, what)
  /\ UNCHANGED <<mailbox, reply, drained, done, owner>> /\ Quiet

Dispatch(r) ==
  /\ Pumping
  /\ Start(r) /\ Answer(r, "permit")
  /\ UNCHANGED <<mailbox, reply, drained, done, owner>> /\ Quiet

-----------------------------------------------------------------------------
Requesting(r) ==
  \/ SendAdmit(r) \/ LeaveSending(r) \/ TakeResult(r) \/ ContextEnded(r)
  \/ ClosedWhileWaiting(r) \/ SendCancel(r) \/ CancelReplied(r) \/ Collect(r)
  \/ SendFinish(r) \/ FinishReplied(r)

Closing(d) ==
  \/ SendDrain(d) \/ LeaveBeginning(d) \/ DrainReplied(d) \/ WaitDrained(d)
  \/ CheckClosed(d) \/ SendStop(d) \/ Stopped(d)

Handle ==
  \/ \E r \in Requests : HandleAdmit(r) \/ HandleCancel(r) \/ HandleFinish(r) \/ DrainOne(r)
  \/ \E d \in Drainers : HandleDrain(d) \/ DrainFinished(d) \/ HandleStop(d)
  \/ NotifyDrained \/ CloseDone

LeaveQueue(r) == Expire(r) \/ Dispatch(r)

Finished ==
  /\ \A p \in Callers : pc[p] = "returned"
  /\ UNCHANGED vars

Next ==
  \/ Handle \/ Finished
  \/ \E p \in Callers : CtxEnds(p)
  \/ \E r \in Requests : Call(r) \/ Requesting(r) \/ LeaveQueue(r)
                           \/ WorkerCancels(r) \/ WorkerFinishes(r)
  \/ \E d \in Drainers : Begin(d) \/ Closing(d)

Spec == Init /\ [][Next]_vars

(* Runnable goroutines run, a queued request leaves its queue (LeavesQueue  *)
(* of OwnerLiveness) and workers finish.  Nobody has to call anything, and  *)
(* no context has to end.                                                   *)
FairSpec ==
  /\ Spec
  /\ WF_vars(Handle)
  /\ \A r \in Requests : WF_vars(Requesting(r)) /\ WF_vars(LeaveQueue(r))
                           /\ WF_vars(WorkerFinishes(r))
  /\ \A d \in Drainers : WF_vars(Closing(d))

-----------------------------------------------------------------------------
Commands == [op : {"admit", "cancel", "finish"}, id : Requests]
              \cup [op : {"drain", "force", "stop"}, id : Drainers]

(* A command of p is in the mailbox. *)
Sent(op, p) == \E i \in 1..Len(mailbox) : mailbox[i] = Cmd(op, p)

(* Type invariant: the channels hold what their Go element types allow and  *)
(* the mailbox never holds more than its capacity.                          *)
TypeOK ==
  /\ status \in [Requests -> {"outside", "waiting", "serving", "finished", "turnedAway"}]
  /\ open \in BOOLEAN /\ drained \in BOOLEAN /\ done \in BOOLEAN
  /\ mailbox \in Seq(Commands) /\ Len(mailbox) <= MailboxSize
  /\ reply \in [Callers -> {"none", "cancel", "released", "unreleased",
                            "drain pending", "drain", "stop"}]
  /\ answer \in [Requests -> {"none", "permit", "refused", "draining", "canceled",
                              "expired", "shutdown"}]
  /\ owner \in {"select", "draining", "pump", "stopping", "stopped", "panicked"}
  /\ ctxDone \in [Callers -> BOOLEAN] /\ took \in [Requests -> BOOLEAN]

(* Nobody walks away from a permit or a place in the queue: once Acquire    *)
(* has returned without a permit, or Finish has returned, the owner holds   *)
(* nothing for that request and never will, whichever of reply, context and *)
(* done ended each of the waits; and Finish always reports its permit as    *)
(* released, as neither a cancel nor a Close gets in between.               *)
NothingLeftBehind ==
  /\ TypeOK
  /\ \A r \in Requests : pc[r] = "returned" =>
       /\ r \notin Held
       /\ ~done => ~Sent("admit", r)
       /\ returned[r] # "unreleased"

(* Several Close calls race each other, drains and workers, and still stop  *)
(* never reaches an owner that holds something.  What each of them is told  *)
(* is true, and stays true:                                                 *)
(*   - a Close that reports success leaves an owner that holds nothing and  *)
(*     handles nothing more, although done may not be closed yet; a drain   *)
(*     that reports success has shut admission and emptied the queues;      *)
(*   - who is told that the context ended has changed nothing and will not: *)
(*     its drain is neither done nor under way nor in the mailbox, or, for  *)
(*     a Close, its stop;                                                   *)
(*   - who is told that the scheduler is closed finds it closed, with its   *)
(*     own command undone for good.                                         *)
Ended == owner \in {"stopping", "stopped"}

ReportTrue(d) ==
  /\ returned[d] = "ok" =>
       IF operation[d] = "close" THEN Ended /\ ~open /\ Held = {}
       ELSE ~open /\ \A r \in Requests : status[r] # "waiting"
  /\ returned[d] = "context" =>
       /\ ~Sent("stop", d) /\ reply[d] # "stop"
       /\ operation[d] # "close" =>
            reply[d] = "none" /\ ~Sent("drain", d) /\ ~Sent("force", d)
  /\ returned[d] = "closed" => done /\ reply[d] # "drain"

(* A completed drain wins against the end of the context, once the drain    *)
(* has been acknowledged.                                                   *)
DrainWins(d) ==
  returned[d] = "none" /\ returned'[d] = "context" /\ reply[d] = "drain" => ~drained

CloseIsClean ==
  /\ [](owner # "panicked" /\ \A d \in Drainers : ReportTrue(d))
  /\ [][\A d \in Drainers : DrainWins(d)]_vars

(* Everybody comes back: an Acquire ends with a permit or a refusal, a      *)
(* Finish with an outcome, BeginDrain, ForceCancelInflight and Close with   *)
(* an answer, although the mailbox may be full and another Close may stop   *)
(* the owner with their commands still in it.  Each caller calls once, so   *)
(* if again and again nobody is inside a call, every call returns.          *)
CallsReturn == []<>(\A p \in Callers : pc[p] \in {"start", "returned"})
=============================================================================
