-------------------------- MODULE SchedulerTheorems --------------------------
(***************************************************************************)
(* For every number of callers, every mix of drains, forced drains and     *)
(* Close calls, every capacity of the mailbox and every configuration: no  *)
(* caller leaves a permit or a place in the queue behind, Finish always    *)
(* reports a release, stop never reaches an owner that holds something,    *)
(* and what a Close or a drain is told, an ended context included, is true *)
(* for good.                                                               *)
(***************************************************************************)
EXTENDS Scheduler, TLAPS

(* No command is in the mailbox twice. *)
SentOnce == \A i, j \in 1..Len(mailbox) : mailbox[i] = mailbox[j] => i = j

RequestPlaces == {"start", "sending", "waiting", "canceling", "cancelSent", "collecting",
                  "holding", "finishing", "finishSent", "returned"}
DrainerPlaces == {"start", "beginning", "drainSent", "begun", "drained", "stopping",
                  "stopSent", "returned"}
Reports == {"none", "canceled", "draining", "refused", "expired", "shutdown", "released",
            "unreleased", "context", "closed", "ok"}

CallerTypes ==
  /\ TypeOK
  /\ pc \in [Callers -> RequestPlaces \cup DrainerPlaces]
  /\ returned \in [Callers -> Reports]
  /\ \A r \in Requests : pc[r] \in RequestPlaces
  /\ \A d \in Drainers : pc[d] \in DrainerPlaces

(* The result channel tells what became of the request. *)
AnswerInv(r) ==
  /\ answer[r] = "none" <=> status[r] \in {"outside", "waiting"}
  /\ answer[r] = "permit" <=> status[r] \in {"serving", "finished"}

(* A command in the mailbox was sent by a caller that has not been told     *)
(* about it yet; only done lets a caller go without its reply.              *)
SentInv(r) ==
  /\ Sent("admit", r) => status[r] = "outside" /\ pc[r] \notin {"start", "sending"}
  /\ Sent("cancel", r) => \/ pc[r] = "cancelSent" /\ reply[r] = "none"
                          \/ done /\ pc[r] \in {"cancelSent", "collecting", "finishing",
                                                "finishSent", "returned"}
  /\ Sent("finish", r) => pc[r] = "finishSent" /\ status[r] = "serving"

(* Where the caller of Acquire is, and what the owner holds for it. *)
RequestInv(r) ==
  /\ pc[r] \in {"start", "sending"} => status[r] = "outside"
  /\ pc[r] \in {"start", "sending", "waiting", "holding", "canceling"} => reply[r] = "none"
  /\ took[r] => answer[r] = "permit"
  /\ pc[r] \in {"holding", "finishing", "finishSent"} => took[r]
  /\ pc[r] \notin {"finishSent", "returned"} => status[r] # "finished"
  /\ pc[r] = "finishSent" /\ status[r] # "serving" => reply[r] = "released"
  /\ reply[r] = "released" => status[r] = "finished"
  /\ reply[r] # "unreleased"
  /\ pc[r] = "returned" => /\ status[r] \notin {"waiting", "serving"}
                           /\ done \/ ~Sent("admit", r)
                           /\ returned[r] # "unreleased"

(* Where a caller of BeginDrain, ForceCancelInflight or Close is, and how   *)
(* far the owner has shut down.                                             *)
DrainerInv(d) ==
  /\ Sent("drain", d) \/ Sent("force", d) => pc[d] \notin {"start", "beginning"}
  /\ pc[d] \in {"start", "beginning"} => reply[d] = "none"
  /\ Sent("stop", d) \/ reply[d] = "stop" =>
       pc[d] = "stopSent" \/ returned[d] = "ok"
  /\ Sent("stop", d) \/ pc[d] \in {"drained", "stopping", "stopSent"} => drained
  /\ reply[d] = "stop" => Ended
  /\ reply[d] = "drain" => ~open /\ \A r \in Requests : status[r] # "waiting"
  /\ pc[d] # "returned" => returned[d] = "none"
  /\ pc[d] \in {"begun", "drained", "stopping", "stopSent"} => operation[d] = "close"
  /\ returned[d] = "ok" =>
       IF operation[d] = "close" THEN Ended ELSE ~open /\ \A r \in Requests : status[r] # "waiting"
  /\ returned[d] = "context" /\ operation[d] # "close" =>
       reply[d] = "none" /\ ~Sent("drain", d) /\ ~Sent("force", d)
  /\ returned[d] = "closed" => done /\ reply[d] # "drain"

(* The phases of the owner's shutdown: shut, empty, acknowledged, stopped. *)
OwnerInv ==
  /\ owner = "draining" => ~open
  /\ drained => ~open /\ Held = {}
  /\ Ended => drained
  /\ done => owner = "stopped"
  /\ owner # "panicked"

SInv ==
  /\ CallerTypes /\ SentOnce /\ OwnerInv
  /\ \A r \in Requests : AnswerInv(r) /\ SentInv(r) /\ RequestInv(r)
  /\ \A d \in Drainers : DrainerInv(d)

-----------------------------------------------------------------------------
(* The mailbox *)

(* A command that is not in the mailbox yet is appended. *)
LEMMA SendBox ==
  ASSUME mailbox \in Seq(Commands), Len(mailbox) <= MailboxSize, SentOnce,
         NEW p, NEW op, Cmd(op, p) \in Commands, ~Sent(op, p), Send(p, op)
  PROVE  /\ mailbox' \in Seq(Commands) /\ Len(mailbox') <= MailboxSize /\ SentOnce'
         /\ \A o, q : Sent(o, q)' <=> Sent(o, q) \/ (o = op /\ q = p)
<1>1. /\ mailbox' = Append(mailbox, Cmd(op, p)) /\ Len(mailbox) < MailboxSize
      /\ MailboxSize \in Nat
  BY CallerAssumption DEF Send, Cmd
<1>2. /\ mailbox' \in Seq(Commands) /\ Len(mailbox') = Len(mailbox) + 1
      /\ \A i \in 1..Len(mailbox) : mailbox'[i] = mailbox[i]
      /\ mailbox'[Len(mailbox) + 1] = Cmd(op, p)
  BY <1>1
<1>3. Len(mailbox) \in Nat
  OBVIOUS
<1>4. SentOnce'
  BY <1>2, <1>3 DEF SentOnce, Sent
<1>5. ASSUME NEW o, NEW q
      PROVE  Sent(o, q)' <=> Sent(o, q) \/ (o = op /\ q = p)
  <2>1. Sent(o, q)' <=> \E i \in 1..Len(mailbox) + 1 : mailbox'[i] = Cmd(o, q)
    BY <1>2 DEF Sent, Cmd
  <2>2. (\E i \in 1..Len(mailbox) + 1 : mailbox'[i] = Cmd(o, q))
          <=> \/ \E i \in 1..Len(mailbox) : mailbox[i] = Cmd(o, q)
              \/ Cmd(op, p) = Cmd(o, q)
    BY <1>2, <1>3
  <2>3. Cmd(op, p) = Cmd(o, q) <=> o = op /\ q = p
    BY DEF Cmd
  <2> QED
    BY <2>1, <2>2, <2>3 DEF Sent
<1> QED
  BY <1>1, <1>2, <1>4, <1>5

(* The owner takes the first command, which is then no longer in the        *)
(* mailbox.                                                                 *)
LEMMA HandleBox ==
  ASSUME mailbox \in Seq(Commands), Len(mailbox) <= MailboxSize, SentOnce,
         NEW p, NEW op, Handles(op, p)
  PROVE  /\ mailbox' \in Seq(Commands) /\ Len(mailbox') <= MailboxSize /\ SentOnce'
         /\ Sent(op, p) /\ owner = "select"
         /\ \A o, q : Sent(o, q)' <=> Sent(o, q) /\ ~(o = op /\ q = p)
<1>1. /\ mailbox' = Tail(mailbox) /\ mailbox # <<>> /\ MailboxSize \in Nat
      /\ Head(mailbox) = Cmd(op, p) /\ owner = "select"
  BY CallerAssumption DEF Handles, Next1, Cmd
<1>2. Len(mailbox) \in Nat \ {0} /\ mailbox[1] = Cmd(op, p)
  BY <1>1
<1>3. /\ mailbox' \in Seq(Commands) /\ Len(mailbox') = Len(mailbox) - 1
      /\ \A i \in 1..Len(mailbox) - 1 : mailbox'[i] = mailbox[i + 1]
  BY <1>1, <1>2
<1>4. SentOnce'
  BY <1>2, <1>3 DEF SentOnce
<1>5. Sent(op, p)
  BY <1>2 DEF Sent
<1>6. ASSUME NEW o, NEW q
      PROVE  Sent(o, q)' <=> Sent(o, q) /\ ~(o = op /\ q = p)
  <2>1. Sent(o, q)' <=> \E i \in 1..Len(mailbox) - 1 : mailbox[i + 1] = Cmd(o, q)
    BY <1>3 DEF Sent, Cmd
  <2>2. (\E i \in 1..Len(mailbox) - 1 : mailbox[i + 1] = Cmd(o, q))
          <=> \E j \in 2..Len(mailbox) : mailbox[j] = Cmd(o, q)
    <3>1. ASSUME NEW i \in 1..Len(mailbox) - 1 PROVE i + 1 \in 2..Len(mailbox)
      BY <1>2
    <3>2. ASSUME NEW j \in 2..Len(mailbox)
          PROVE  j - 1 \in 1..Len(mailbox) - 1 /\ (j - 1) + 1 = j
      BY <1>2
    <3> QED
      BY <3>1, <3>2
  <2>3. Cmd(op, p) = Cmd(o, q) <=> o = op /\ q = p
    BY DEF Cmd
  <2>4. \A j \in 1..Len(mailbox) : mailbox[j] = Cmd(op, p) => j = 1
    BY <1>2 DEF SentOnce
  <2>5. (\E j \in 2..Len(mailbox) : mailbox[j] = Cmd(o, q))
          <=> Sent(o, q) /\ Cmd(op, p) # Cmd(o, q)
    BY <1>2, <2>4 DEF Sent
  <2> QED
    BY <2>1, <2>2, <2>3, <2>5
<1> QED
  BY <1>1, <1>2, <1>3, <1>4, <1>5, <1>6

(* A step that leaves the mailbox alone. *)
LEMMA SameBox ==
  ASSUME UNCHANGED mailbox
  PROVE  /\ SentOnce' <=> SentOnce
         /\ \A o, q : Sent(o, q)' <=> Sent(o, q)
BY DEF Sent, SentOnce, Cmd

-----------------------------------------------------------------------------
(* Frames: what a step leaves true of the callers it is not about *)

(* Nothing of the request changes, except that the owner may stop. *)
LEMMA RequestStill ==
  ASSUME NEW r \in Requests, AnswerInv(r), SentInv(r), RequestInv(r),
         pc'[r] = pc[r], returned'[r] = returned[r], reply'[r] = reply[r],
         status'[r] = status[r], answer'[r] = answer[r], took'[r] = took[r],
         \A o : Sent(o, r)' <=> Sent(o, r),
         done => done'
  PROVE  AnswerInv(r)' /\ SentInv(r)' /\ RequestInv(r)'
<1>1. AnswerInv(r)'
  BY DEF AnswerInv
<1>2. SentInv(r)'
  BY DEF SentInv
<1>3. RequestInv(r)'
  BY DEF RequestInv
<1> QED
  BY <1>1, <1>2, <1>3

(* The shutdown only goes forward. *)
LEMMA DrainerStill ==
  ASSUME NEW d \in Drainers, DrainerInv(d),
         pc'[d] = pc[d], returned'[d] = returned[d], reply'[d] = reply[d],
         \A o : Sent(o, d)' <=> Sent(o, d),
         done => done', drained => drained', Ended => Ended',
         ~open => ~open' /\ \A r \in Requests : status'[r] = "waiting" => status[r] = "waiting"
  PROVE  DrainerInv(d)'
BY DEF DrainerInv

(* A step of one request, or of the owner for one request *)
LEMMA OneRequest ==
  ASSUME SInv, NEW r \in Requests, CallerTypes', SentOnce', OwnerInv',
         \A q \in Callers \ {r} : /\ pc'[q] = pc[q] /\ returned'[q] = returned[q]
                                  /\ reply'[q] = reply[q]
                                  /\ \A o : Sent(o, q)' <=> Sent(o, q),
         \A q \in Requests \ {r} : /\ status'[q] = status[q] /\ answer'[q] = answer[q]
                                   /\ took'[q] = took[q],
         done' = done, open' = open, drained => drained', Ended => Ended',
         ~open /\ status'[r] = "waiting" => status[r] = "waiting",
         AnswerInv(r)', SentInv(r)', RequestInv(r)'
  PROVE  SInv'
<1>1. ASSUME NEW q \in Requests PROVE AnswerInv(q)' /\ SentInv(q)' /\ RequestInv(q)'
  <2>1. CASE q = r
    BY <2>1
  <2>2. CASE q # r
    <3>1. q \in Callers \ {r} /\ q \in Requests \ {r}
      BY <2>2 DEF Callers
    <3>2. AnswerInv(q) /\ SentInv(q) /\ RequestInv(q)
      BY DEF SInv
    <3> QED
      BY <3>1, <3>2, RequestStill
  <2> QED
    BY <2>1, <2>2
<1>2. ASSUME NEW d \in Drainers PROVE DrainerInv(d)'
  <2>1. d \in Callers \ {r}
    BY CallerAssumption DEF Callers
  <2>2. DrainerInv(d)
    BY DEF SInv
  <2>3. ~open => ~open' /\ \A q \in Requests : status'[q] = "waiting" => status[q] = "waiting"
    OBVIOUS
  <2> QED
    BY <2>1, <2>2, <2>3, DrainerStill
<1> QED
  BY <1>1, <1>2 DEF SInv

(* A step of one drainer, or of the owner for one drainer *)
LEMMA OneDrainer ==
  ASSUME SInv, NEW d \in Drainers, CallerTypes', SentOnce', OwnerInv',
         \A q \in Callers \ {d} : /\ pc'[q] = pc[q] /\ returned'[q] = returned[q]
                                  /\ reply'[q] = reply[q]
                                  /\ \A o : Sent(o, q)' <=> Sent(o, q),
         UNCHANGED <<status, answer, took>>,
         done => done', drained => drained', Ended => Ended', ~open => ~open',
         DrainerInv(d)'
  PROVE  SInv'
<1>1. ASSUME NEW q \in Requests PROVE AnswerInv(q)' /\ SentInv(q)' /\ RequestInv(q)'
  <2>1. q \in Callers \ {d}
    BY CallerAssumption DEF Callers
  <2>2. AnswerInv(q) /\ SentInv(q) /\ RequestInv(q)
    BY DEF SInv
  <2> QED
    BY <2>1, <2>2, RequestStill
<1>2. ASSUME NEW e \in Drainers, e # d PROVE DrainerInv(e)'
  <2>1. e \in Callers \ {d}
    BY <1>2 DEF Callers
  <2>2. DrainerInv(e)
    BY DEF SInv
  <2> QED
    BY <2>1, <2>2, DrainerStill
<1> QED
  BY <1>1, <1>2 DEF SInv

(* The invariant holds at the start. *)
LEMMA SInit == Init => SInv
<1> SUFFICES ASSUME Init PROVE SInv
  OBVIOUS
<1>1. CallerTypes
  <2>1. mailbox \in Seq(Commands) /\ Len(mailbox) <= MailboxSize
    BY CallerAssumption DEF Init
  <2> QED
    BY <2>1 DEF Init, CInit, CallerTypes, TypeOK, Callers, RequestPlaces, DrainerPlaces, Reports
<1>2. SentOnce /\ \A o, q : ~Sent(o, q)
  BY DEF Init, SentOnce, Sent
<1>3. OwnerInv
  BY DEF Init, OwnerInv, Ended
<1>4. ASSUME NEW r \in Requests PROVE AnswerInv(r) /\ SentInv(r) /\ RequestInv(r)
  BY <1>2 DEF Init, CInit, AnswerInv, SentInv, RequestInv, Callers
<1>5. ASSUME NEW d \in Drainers PROVE DrainerInv(d)
  BY <1>2 DEF Init, CInit, DrainerInv, Callers
<1> QED
  BY <1>1, <1>2, <1>3, <1>4, <1>5 DEF SInv

-----------------------------------------------------------------------------
(* Steps of the callers of Acquire and Finish *)

(* A step that only moves the caller *)
LEMMA RequestMoves ==
  ASSUME SInv, NEW r \in Requests, UNCHANGED <<contract, channels, ctxDone>>,
         pc' \in [Callers -> RequestPlaces \cup DrainerPlaces], pc'[r] \in RequestPlaces,
         returned' \in [Callers -> Reports], took' \in [Requests -> BOOLEAN],
         \A q \in Callers \ {r} : pc'[q] = pc[q] /\ returned'[q] = returned[q],
         \A q \in Requests \ {r} : took'[q] = took[q],
         SentInv(r)', RequestInv(r)'
  PROVE  SInv'
<1>1. /\ UNCHANGED <<status, open, mailbox, reply, answer, drained, done, owner>>
      /\ AnswerInv(r) /\ CallerTypes /\ SentOnce /\ OwnerInv
  BY DEF contract, channels, SInv
<1>2. CallerTypes'
  <2>1. \A d \in Drainers : d \in Callers \ {r}
    BY CallerAssumption DEF Callers
  <2>2. \A q \in Requests : pc'[q] \in RequestPlaces
    BY <1>1 DEF CallerTypes, Callers
  <2> QED
    BY <1>1, <2>1, <2>2 DEF CallerTypes, TypeOK
<1>3. SentOnce' /\ \A o, q : Sent(o, q)' <=> Sent(o, q)
  BY <1>1, SameBox
<1>4. OwnerInv' /\ (Ended => Ended')
  BY <1>1 DEF OwnerInv, Held, Ended
<1>5. AnswerInv(r)'
  BY <1>1 DEF AnswerInv
<1> QED
  BY <1>1, <1>2, <1>3, <1>4, <1>5, OneRequest

(* A step that sends a command *)
LEMMA RequestSends ==
  ASSUME SInv, NEW r \in Requests, NEW op \in {"admit", "cancel", "finish"},
         NEW place \in RequestPlaces,
         ~Sent(op, r), Send(r, op), Goto(r, place), Sending,
         (\A o, q : Sent(o, q)' <=> Sent(o, q) \/ (o = op /\ q = r))
           => SentInv(r)' /\ RequestInv(r)'
  PROVE  SInv'
<1>1. /\ UNCHANGED <<status, open, reply, answer, drained, done, owner, ctxDone, took, returned>>
      /\ AnswerInv(r) /\ CallerTypes /\ SentOnce /\ OwnerInv /\ TypeOK
      /\ pc' = [pc EXCEPT ![r] = place]
  BY DEF Sending, Goto, contract, SInv, CallerTypes
<1>2. Cmd(op, r) \in Commands
  BY DEF Cmd, Commands
<1>3. /\ mailbox' \in Seq(Commands) /\ Len(mailbox') <= MailboxSize /\ SentOnce'
      /\ \A o, q : Sent(o, q)' <=> Sent(o, q) \/ (o = op /\ q = r)
  BY <1>1, <1>2, SendBox DEF TypeOK
<1>4. CallerTypes'
  <2>1. \A d \in Drainers : d # r
    BY CallerAssumption
  <2> QED
    BY <1>1, <1>3, <2>1 DEF CallerTypes, TypeOK, Callers
<1>5. OwnerInv' /\ (Ended => Ended')
  BY <1>1 DEF OwnerInv, Held, Ended
<1>6. AnswerInv(r)'
  BY <1>1 DEF AnswerInv
<1>7. SentInv(r)' /\ RequestInv(r)'
  BY <1>3
<1>8. \A q \in Callers \ {r} : /\ pc'[q] = pc[q] /\ returned'[q] = returned[q]
                               /\ reply'[q] = reply[q]
                               /\ \A o : Sent(o, q)' <=> Sent(o, q)
  BY <1>1, <1>3 DEF CallerTypes
<1> QED
  BY <1>1, <1>3, <1>4, <1>5, <1>6, <1>7, <1>8, OneRequest

(* What a caller of Acquire knows where it stands *)
LEMMA RequestFacts ==
  ASSUME SInv, NEW r \in Requests
  PROVE  /\ AnswerInv(r) /\ SentInv(r) /\ RequestInv(r)
         /\ pc \in [Callers -> RequestPlaces \cup DrainerPlaces]
         /\ returned \in [Callers -> Reports] /\ took \in [Requests -> BOOLEAN]
         /\ r \in Callers /\ pc[r] \in RequestPlaces
         /\ answer[r] \in {"none", "permit", "refused", "draining", "canceled", "expired", "shutdown"}
         /\ reply[r] \in {"none", "cancel", "released", "unreleased",
                          "drain pending", "drain", "stop"}
         /\ status[r] \in {"outside", "waiting", "serving", "finished", "turnedAway"}
         /\ done => status[r] \notin {"waiting", "serving"}
<1>1. done => Held = {}
  BY DEF SInv, OwnerInv, Ended
<1> QED
  BY <1>1 DEF SInv, CallerTypes, TypeOK, Callers, Held

(* The waits of Acquire, cancel, Collect and Finish, whichever of reply,    *)
(* context and done ends them                                               *)
LEMMA RequestMoveStep ==
  ASSUME SInv, NEW r \in Requests,
         \/ Call(r) \/ LeaveSending(r) \/ TakeResult(r) \/ ContextEnded(r)
         \/ ClosedWhileWaiting(r) \/ CancelReplied(r) \/ Collect(r)
         \/ WorkerCancels(r) \/ WorkerFinishes(r) \/ FinishReplied(r)
  PROVE  SInv'
<1> DEFINE Moves ==
      /\ UNCHANGED <<contract, channels, ctxDone>>
      /\ pc' \in [Callers -> RequestPlaces \cup DrainerPlaces] /\ pc'[r] \in RequestPlaces
      /\ returned' \in [Callers -> Reports] /\ took' \in [Requests -> BOOLEAN]
      /\ \A q \in Callers \ {r} : pc'[q] = pc[q] /\ returned'[q] = returned[q]
      /\ \A q \in Requests \ {r} : took'[q] = took[q]
    Known ==
      /\ AnswerInv(r) /\ SentInv(r) /\ RequestInv(r)
      /\ pc \in [Callers -> RequestPlaces \cup DrainerPlaces]
      /\ returned \in [Callers -> Reports] /\ took \in [Requests -> BOOLEAN]
      /\ r \in Callers /\ pc[r] \in RequestPlaces
      /\ answer[r] \in {"none", "permit", "refused", "draining", "canceled", "expired", "shutdown"}
      /\ reply[r] \in {"none", "cancel", "released", "unreleased",
                       "drain pending", "drain", "stop"}
      /\ status[r] \in {"outside", "waiting", "serving", "finished", "turnedAway"}
      /\ done => status[r] \notin {"waiting", "serving"}
<1>1. Known
  BY RequestFacts
<1>2. UNCHANGED <<contract, channels, ctxDone>>
  BY DEF Call, LeaveSending, TakeResult, ContextEnded, ClosedWhileWaiting, CancelReplied,
       Collect, WorkerCancels, WorkerFinishes, FinishReplied, Local
<1>3. /\ status' = status /\ answer' = answer /\ reply' = reply /\ done' = done
      /\ \A o, q : Sent(o, q)' <=> Sent(o, q)
  BY <1>2, SameBox DEF contract, channels
<1>4. CASE Call(r)
  <2>1. Moves
    BY <1>1, <1>2, <1>4 DEF Call, Goto, Return, Local, RequestPlaces, Reports
  <2>2. SentInv(r)'
    BY <1>1, <1>3, <1>4 DEF Call, Goto, Return, Local, AnswerInv, SentInv, RequestInv
  <2>3. RequestInv(r)'
    BY <1>1, <1>3, <1>4 DEF Call, Goto, Return, Local, AnswerInv, SentInv, RequestInv
  <2> QED
    BY <2>1, <2>2, <2>3, RequestMoves
<1>5. CASE LeaveSending(r)
  <2>1. Moves
    BY <1>1, <1>2, <1>5 DEF LeaveSending, Goto, Return, Local, RequestPlaces, Reports
  <2>2. SentInv(r)'
    BY <1>1, <1>3, <1>5 DEF LeaveSending, Goto, Return, Local, AnswerInv, SentInv, RequestInv
  <2>3. RequestInv(r)'
    BY <1>1, <1>3, <1>5 DEF LeaveSending, Goto, Return, Local, AnswerInv, SentInv, RequestInv
  <2> QED
    BY <2>1, <2>2, <2>3, RequestMoves
<1>6. CASE TakeResult(r)
  <2>1. Moves
    BY <1>1, <1>2, <1>6 DEF TakeResult, Goto, Return, Local, RequestPlaces, Reports
  <2>2. SentInv(r)'
    BY <1>1, <1>3, <1>6 DEF TakeResult, Goto, Return, Local, AnswerInv, SentInv, RequestInv
  <2>3. RequestInv(r)'
    BY <1>1, <1>3, <1>6 DEF TakeResult, Goto, Return, Local, AnswerInv, SentInv, RequestInv
  <2> QED
    BY <2>1, <2>2, <2>3, RequestMoves
<1>7. CASE ContextEnded(r)
  <2>1. Moves
    BY <1>1, <1>2, <1>7 DEF ContextEnded, Goto, Return, Local, RequestPlaces, Reports
  <2>2. SentInv(r)'
    BY <1>1, <1>3, <1>7 DEF ContextEnded, Goto, Return, Local, AnswerInv, SentInv, RequestInv
  <2>3. RequestInv(r)'
    BY <1>1, <1>3, <1>7 DEF ContextEnded, Goto, Return, Local, AnswerInv, SentInv, RequestInv
  <2> QED
    BY <2>1, <2>2, <2>3, RequestMoves
<1>8. CASE ClosedWhileWaiting(r)
  <2>1. Moves
    BY <1>1, <1>2, <1>8 DEF ClosedWhileWaiting, Goto, Return, Local, RequestPlaces, Reports
  <2>2. SentInv(r)'
    BY <1>1, <1>3, <1>8 DEF ClosedWhileWaiting, Goto, Return, Local, AnswerInv, SentInv, RequestInv
  <2>3. RequestInv(r)'
    BY <1>1, <1>3, <1>8 DEF ClosedWhileWaiting, Goto, Return, Local, AnswerInv, SentInv, RequestInv
  <2> QED
    BY <2>1, <2>2, <2>3, RequestMoves
<1>9. CASE CancelReplied(r)
  <2>1. Moves
    BY <1>1, <1>2, <1>9 DEF CancelReplied, Cancelled, Goto, Return, Local, RequestPlaces, Reports
  <2>2. SentInv(r)'
    BY <1>1, <1>3, <1>9 DEF CancelReplied, Cancelled, Goto, Return, Local, AnswerInv, SentInv, RequestInv
  <2>3. RequestInv(r)'
    BY <1>1, <1>3, <1>9 DEF CancelReplied, Cancelled, Goto, Return, Local, AnswerInv, SentInv, RequestInv
  <2> QED
    BY <2>1, <2>2, <2>3, RequestMoves
<1>10. CASE Collect(r)
  <2>1. Moves
    BY <1>1, <1>2, <1>10 DEF Collect, Goto, Return, Local, RequestPlaces, Reports
  <2>2. SentInv(r)'
    BY <1>1, <1>3, <1>10 DEF Collect, Goto, Return, Local, AnswerInv, SentInv, RequestInv
  <2>3. RequestInv(r)'
    BY <1>1, <1>3, <1>10 DEF Collect, Goto, Return, Local, AnswerInv, SentInv, RequestInv
  <2> QED
    BY <2>1, <2>2, <2>3, RequestMoves
<1>11. CASE WorkerCancels(r)
  <2>1. Moves
    BY <1>1, <1>2, <1>11 DEF WorkerCancels, Goto, Return, Local, RequestPlaces, Reports
  <2>2. SentInv(r)'
    BY <1>1, <1>3, <1>11 DEF WorkerCancels, Goto, Return, Local, AnswerInv, SentInv, RequestInv
  <2>3. RequestInv(r)'
    BY <1>1, <1>3, <1>11 DEF WorkerCancels, Goto, Return, Local, AnswerInv, SentInv, RequestInv
  <2> QED
    BY <2>1, <2>2, <2>3, RequestMoves
<1>12. CASE WorkerFinishes(r)
  <2>1. Moves
    BY <1>1, <1>2, <1>12 DEF WorkerFinishes, Goto, Return, Local, RequestPlaces, Reports
  <2>2. SentInv(r)'
    BY <1>1, <1>3, <1>12 DEF WorkerFinishes, Goto, Return, Local, AnswerInv, SentInv, RequestInv
  <2>3. RequestInv(r)'
    BY <1>1, <1>3, <1>12 DEF WorkerFinishes, Goto, Return, Local, AnswerInv, SentInv, RequestInv
  <2> QED
    BY <2>1, <2>2, <2>3, RequestMoves
<1>13. CASE FinishReplied(r)
  <2>1. Moves
    BY <1>1, <1>2, <1>13 DEF FinishReplied, Goto, Return, Local, RequestPlaces, Reports
  <2>2. SentInv(r)'
    BY <1>1, <1>3, <1>13 DEF FinishReplied, Goto, Return, Local, AnswerInv, SentInv, RequestInv
  <2>3. RequestInv(r)'
    BY <1>1, <1>3, <1>13 DEF FinishReplied, Goto, Return, Local, AnswerInv, SentInv, RequestInv
  <2> QED
    BY <2>1, <2>2, <2>3, RequestMoves
<1> QED
  BY <1>4, <1>5, <1>6, <1>7, <1>8, <1>9, <1>10, <1>11, <1>12, <1>13

(* The three commands of a request are sent once each. *)
LEMMA RequestSendStep ==
  ASSUME SInv, NEW r \in Requests, SendAdmit(r) \/ SendCancel(r) \/ SendFinish(r)
  PROVE  SInv'
<1>1. /\ AnswerInv(r) /\ SentInv(r) /\ RequestInv(r)
      /\ pc \in [Callers -> RequestPlaces \cup DrainerPlaces] /\ r \in Callers
      /\ status[r] \in {"outside", "waiting", "serving", "finished", "turnedAway"}
  BY RequestFacts
<1>2. Sending => UNCHANGED <<status, reply, answer, done, took>>
  BY DEF Sending, contract
<1>3. CASE SendAdmit(r)
  <2>1. ~Sent("admit", r) /\ Send(r, "admit") /\ Goto(r, "waiting") /\ Sending
    BY <1>1, <1>3 DEF SendAdmit, SentInv
  <2>2. ASSUME \A o, q : Sent(o, q)' <=> Sent(o, q) \/ (o = "admit" /\ q = r)
        PROVE  SentInv(r)' /\ RequestInv(r)'
    BY <1>1, <1>2, <1>3, <2>1, <2>2 DEF SendAdmit, Goto, AnswerInv, SentInv, RequestInv
  <2> QED
    BY <2>1, <2>2, RequestSends DEF RequestPlaces
<1>4. CASE SendCancel(r)
  <2>1. ~Sent("cancel", r) /\ Send(r, "cancel") /\ Goto(r, "cancelSent") /\ Sending
    BY <1>1, <1>4 DEF SendCancel, SentInv
  <2>2. ASSUME \A o, q : Sent(o, q)' <=> Sent(o, q) \/ (o = "cancel" /\ q = r)
        PROVE  SentInv(r)' /\ RequestInv(r)'
    BY <1>1, <1>2, <1>4, <2>1, <2>2 DEF SendCancel, Goto, AnswerInv, SentInv, RequestInv
  <2> QED
    BY <2>1, <2>2, RequestSends DEF RequestPlaces
<1>5. CASE SendFinish(r)
  <2>1. ~Sent("finish", r) /\ Send(r, "finish") /\ Goto(r, "finishSent") /\ Sending
    BY <1>1, <1>5 DEF SendFinish, SentInv
  <2>2. ASSUME \A o, q : Sent(o, q)' <=> Sent(o, q) \/ (o = "finish" /\ q = r)
        PROVE  SentInv(r)' /\ RequestInv(r)'
    BY <1>1, <1>2, <1>5, <2>1, <2>2 DEF SendFinish, Goto, AnswerInv, SentInv, RequestInv
  <2> QED
    BY <2>1, <2>2, RequestSends DEF RequestPlaces
<1> QED
  BY <1>3, <1>4, <1>5

-----------------------------------------------------------------------------
(* Steps of the owner for one request *)

Statuses == {"outside", "waiting", "serving", "finished", "turnedAway"}
Replies  == {"none", "cancel", "released", "unreleased", "drain pending", "drain", "stop"}
Answers  == {"none", "permit", "refused", "draining", "canceled", "expired", "shutdown"}

(* A command that is handled leaves the mailbox, and no other does. *)
LEMMA Handled ==
  ASSUME SInv, NEW p \in Callers, NEW op, Handles(op, p)
  PROVE  /\ mailbox' \in Seq(Commands) /\ Len(mailbox') <= MailboxSize /\ SentOnce'
         /\ owner = "select" /\ ~done /\ ~Ended /\ Sent(op, p)
         /\ \A o : Sent(o, p)' <=> Sent(o, p) /\ o # op
         /\ \A q \in Callers \ {p} : \A o : Sent(o, q)' <=> Sent(o, q)
<1>1. mailbox \in Seq(Commands) /\ Len(mailbox) <= MailboxSize /\ SentOnce /\ OwnerInv
  BY DEF SInv, CallerTypes, TypeOK
<1>2. /\ mailbox' \in Seq(Commands) /\ Len(mailbox') <= MailboxSize /\ SentOnce'
      /\ Sent(op, p) /\ owner = "select"
      /\ \A o, q : Sent(o, q)' <=> Sent(o, q) /\ ~(o = op /\ q = p)
  BY <1>1, HandleBox
<1>3. ~done /\ ~Ended
  BY <1>1, <1>2 DEF OwnerInv, Ended
<1> QED
  BY <1>2, <1>3

(* A step of the owner for one request: what it does to the request decides *)
(* whether the shutdown stays valid.                                        *)
LEMMA OwnerServes ==
  ASSUME SInv, NEW r \in Requests, ~Ended,
         owner' \in {owner, "pump"}, owner' = "draining" => owner = "draining",
         UNCHANGED <<drained, done, open>>, Quiet,
         status' \in [Requests -> Statuses], answer' \in [Requests -> Answers],
         reply' \in [Callers -> Replies],
         \A q \in Requests \ {r} : status'[q] = status[q] /\ answer'[q] = answer[q],
         \A q \in Callers \ {r} : reply'[q] = reply[q],
         status'[r] \in {"waiting", "serving"} => open \/ status'[r] = status[r],
         mailbox' \in Seq(Commands), Len(mailbox') <= MailboxSize, SentOnce',
         \A q \in Callers \ {r} : \A o : Sent(o, q)' <=> Sent(o, q),
         AnswerInv(r)', SentInv(r)', RequestInv(r)'
  PROVE  SInv'
<1>1. TypeOK /\ CallerTypes /\ OwnerInv /\ r \in Callers
  BY DEF SInv, CallerTypes, Callers
<1>2. UNCHANGED <<ctxDone, pc, took, returned>>
  BY DEF Quiet, callers
<1>3. CallerTypes'
  BY <1>1, <1>2 DEF CallerTypes, TypeOK, Statuses, Answers, Replies
<1>4. ~open /\ Held = {} => Held' = {}
  BY DEF Held
<1>5. OwnerInv'
  BY <1>1, <1>4 DEF OwnerInv, Ended
<1>6. \A q \in Callers \ {r} : /\ pc'[q] = pc[q] /\ returned'[q] = returned[q]
                               /\ reply'[q] = reply[q]
                               /\ \A o : Sent(o, q)' <=> Sent(o, q)
  BY <1>2
<1>7. /\ \A q \in Requests \ {r} : /\ status'[q] = status[q] /\ answer'[q] = answer[q]
                                   /\ took'[q] = took[q]
      /\ ~open /\ status'[r] = "waiting" => status[r] = "waiting"
  BY <1>2
<1> QED
  BY <1>3, <1>5, <1>6, <1>7, OneRequest

(* What the owner sees of a request *)
LEMMA OwnerFacts ==
  ASSUME SInv, NEW r \in Requests
  PROVE  /\ AnswerInv(r) /\ SentInv(r) /\ RequestInv(r) /\ r \in Callers
         /\ status \in [Requests -> Statuses] /\ answer \in [Requests -> Answers]
         /\ reply \in [Callers -> Replies]
BY DEF SInv, CallerTypes, TypeOK, Callers, Statuses, Answers, Replies

(* admit: the request joins or is turned away; the command is gone. *)
LEMMA HandleAdmitStep ==
  ASSUME SInv, NEW r \in Requests, HandleAdmit(r)
  PROVE  SInv'
<1>1. /\ AnswerInv(r) /\ SentInv(r) /\ RequestInv(r) /\ r \in Callers
      /\ status \in [Requests -> Statuses] /\ answer \in [Requests -> Answers]
      /\ reply \in [Callers -> Replies]
  BY OwnerFacts
<1>2. /\ Handles("admit", r) /\ Quiet /\ owner' = "pump"
      /\ UNCHANGED <<reply, drained, done, pc, took, returned, open>>
  BY DEF HandleAdmit, Quiet, callers, Join, TurnAway, Becomes
<1>3. /\ mailbox' \in Seq(Commands) /\ Len(mailbox') <= MailboxSize /\ SentOnce'
      /\ ~done /\ ~Ended /\ Sent("admit", r)
      /\ \A o : Sent(o, r)' <=> Sent(o, r) /\ o # "admit"
      /\ \A q \in Callers \ {r} : \A o : Sent(o, q)' <=> Sent(o, q)
  BY <1>1, <1>2, Handled
<1>4. PICK st \in {"waiting", "turnedAway"}, what \in {"none", "refused", "draining"} :
        /\ status' = [status EXCEPT ![r] = st] /\ answer' = [answer EXCEPT ![r] = what]
        /\ what = "none" <=> st = "waiting"
        /\ st = "waiting" => open
  <2>1. status[r] = "outside" /\ answer[r] = "none"
    BY <1>1, <1>3 DEF SentInv, AnswerInv
  <2>2. answer = [answer EXCEPT ![r] = "none"]
    BY <1>1, <2>1
  <2> QED
    BY <2>1, <2>2 DEF HandleAdmit, Join, TurnAway, Becomes, Answer
<1>5. AnswerInv(r)' /\ SentInv(r)' /\ RequestInv(r)'
  BY <1>1, <1>2, <1>3, <1>4 DEF AnswerInv, SentInv, RequestInv
<1>6. /\ status' \in [Requests -> Statuses] /\ answer' \in [Requests -> Answers]
      /\ \A q \in Requests \ {r} : status'[q] = status[q] /\ answer'[q] = answer[q]
      /\ status'[r] \in {"waiting", "serving"} => open
  BY <1>1, <1>4 DEF Statuses, Answers
<1> QED
  BY <1>1, <1>2, <1>3, <1>5, <1>6, OwnerServes

(* cancel: a waiting request is turned away, any other is left alone. *)
LEMMA HandleCancelStep ==
  ASSUME SInv, NEW r \in Requests, HandleCancel(r)
  PROVE  SInv'
<1>1. /\ AnswerInv(r) /\ SentInv(r) /\ RequestInv(r) /\ r \in Callers
      /\ status \in [Requests -> Statuses] /\ answer \in [Requests -> Answers]
      /\ reply \in [Callers -> Replies]
  BY OwnerFacts
<1>2. /\ Handles("cancel", r) /\ Quiet /\ owner' = "pump"
      /\ UNCHANGED <<drained, done, pc, took, returned, open>>
      /\ reply' = [reply EXCEPT ![r] = "cancel"]
  BY DEF HandleCancel, Quiet, callers, TurnAway, Becomes, Reply, contract
<1>3. /\ mailbox' \in Seq(Commands) /\ Len(mailbox') <= MailboxSize /\ SentOnce'
      /\ ~done /\ ~Ended /\ Sent("cancel", r)
      /\ \A o : Sent(o, r)' <=> Sent(o, r) /\ o # "cancel"
      /\ \A q \in Callers \ {r} : \A o : Sent(o, q)' <=> Sent(o, q)
  BY <1>1, <1>2, Handled
<1>4. \/ /\ status[r] = "waiting" /\ status' = [status EXCEPT ![r] = "turnedAway"]
         /\ answer' = [answer EXCEPT ![r] = "canceled"]
      \/ status' = status /\ answer' = answer
  BY DEF HandleCancel, TurnAway, Becomes, Answer, contract
<1>5. AnswerInv(r)' /\ SentInv(r)' /\ RequestInv(r)'
  BY <1>1, <1>2, <1>3, <1>4 DEF AnswerInv, SentInv, RequestInv
<1>6. /\ status' \in [Requests -> Statuses] /\ answer' \in [Requests -> Answers]
      /\ reply' \in [Callers -> Replies]
      /\ \A q \in Requests \ {r} : status'[q] = status[q] /\ answer'[q] = answer[q]
      /\ \A q \in Callers \ {r} : reply'[q] = reply[q]
      /\ status'[r] \in {"waiting", "serving"} => status'[r] = status[r]
  BY <1>1, <1>2, <1>4 DEF Statuses, Answers, Replies
<1> QED
  BY <1>2, <1>3, <1>5, <1>6, OwnerServes

(* finish: the request is being served when its finish arrives. *)
LEMMA HandleFinishStep ==
  ASSUME SInv, NEW r \in Requests, HandleFinish(r)
  PROVE  SInv'
<1>1. /\ AnswerInv(r) /\ SentInv(r) /\ RequestInv(r) /\ r \in Callers
      /\ status \in [Requests -> Statuses] /\ answer \in [Requests -> Answers]
      /\ reply \in [Callers -> Replies]
  BY OwnerFacts
<1>2. /\ Handles("finish", r) /\ Quiet /\ owner' = "pump"
      /\ UNCHANGED <<answer, drained, done, pc, took, returned, open>>
  BY DEF HandleFinish, Quiet, callers, Finish, Becomes, contract
<1>3. /\ mailbox' \in Seq(Commands) /\ Len(mailbox') <= MailboxSize /\ SentOnce'
      /\ ~done /\ ~Ended /\ Sent("finish", r)
      /\ \A o : Sent(o, r)' <=> Sent(o, r) /\ o # "finish"
      /\ \A q \in Callers \ {r} : \A o : Sent(o, q)' <=> Sent(o, q)
  BY <1>1, <1>2, Handled
<1>4. /\ status[r] = "serving" /\ status' = [status EXCEPT ![r] = "finished"]
      /\ reply' = [reply EXCEPT ![r] = "released"]
  BY <1>1, <1>3 DEF HandleFinish, SentInv, Finish, Becomes, Reply
<1>5. AnswerInv(r)' /\ SentInv(r)' /\ RequestInv(r)'
  BY <1>1, <1>2, <1>3, <1>4 DEF AnswerInv, SentInv, RequestInv
<1>6. /\ status' \in [Requests -> Statuses] /\ answer' \in [Requests -> Answers]
      /\ reply' \in [Callers -> Replies]
      /\ \A q \in Requests \ {r} : status'[q] = status[q] /\ answer'[q] = answer[q]
      /\ \A q \in Callers \ {r} : reply'[q] = reply[q]
      /\ status'[r] \notin {"waiting", "serving"}
  BY <1>1, <1>2, <1>4 DEF Statuses, Answers, Replies
<1> QED
  BY <1>2, <1>3, <1>5, <1>6, OwnerServes

(* A waiting request leaves its queue: drained, expired or dispatched. *)
LEMMA LeaveQueueStep ==
  ASSUME SInv, NEW r \in Requests, DrainOne(r) \/ Expire(r) \/ Dispatch(r)
  PROVE  SInv'
<1>1. /\ AnswerInv(r) /\ SentInv(r) /\ RequestInv(r) /\ r \in Callers
      /\ status \in [Requests -> Statuses] /\ answer \in [Requests -> Answers]
      /\ reply \in [Callers -> Replies]
  BY OwnerFacts
<1>2. /\ UNCHANGED <<mailbox, reply, drained, done, owner, pc, took, returned, open>> /\ Quiet
      /\ owner \in {"select", "pump", "draining"} /\ status[r] = "waiting"
  BY DEF DrainOne, Expire, Dispatch, Pumping, Quiet, callers, TurnAway, Start, Becomes
<1>3. /\ mailbox' \in Seq(Commands) /\ Len(mailbox') <= MailboxSize /\ SentOnce' /\ ~done
      /\ ~Ended /\ \A o, q : Sent(o, q)' <=> Sent(o, q)
  BY <1>2, SameBox DEF SInv, CallerTypes, TypeOK, OwnerInv, Ended
<1>4. PICK st \in {"turnedAway", "serving"},
           what \in {"shutdown", "canceled", "expired", "permit"} :
        /\ status' = [status EXCEPT ![r] = st] /\ answer' = [answer EXCEPT ![r] = what]
        /\ what = "permit" <=> st = "serving"
        /\ st = "serving" => open
  BY DEF DrainOne, Expire, Dispatch, TurnAway, Start, Becomes, Answer
<1>5. AnswerInv(r)' /\ SentInv(r)' /\ RequestInv(r)'
  BY <1>1, <1>2, <1>3, <1>4 DEF AnswerInv, SentInv, RequestInv
<1>6. /\ status' \in [Requests -> Statuses] /\ answer' \in [Requests -> Answers]
      /\ \A q \in Requests \ {r} : status'[q] = status[q] /\ answer'[q] = answer[q]
      /\ status'[r] \in {"waiting", "serving"} => open
  BY <1>1, <1>4 DEF Statuses, Answers
<1> QED
  BY <1>1, <1>2, <1>3, <1>5, <1>6, OwnerServes

-----------------------------------------------------------------------------
(* Steps of BeginDrain, ForceCancelInflight and Close *)

(* What such a caller knows where it stands *)
LEMMA DrainerFacts ==
  ASSUME SInv, NEW d \in Drainers
  PROVE  /\ DrainerInv(d) /\ OwnerInv
         /\ pc \in [Callers -> RequestPlaces \cup DrainerPlaces]
         /\ returned \in [Callers -> Reports]
         /\ d \in Callers /\ pc[d] \in DrainerPlaces
         /\ done => Ended
         /\ Ended => drained /\ ~open /\ \A r \in Requests : status[r] # "waiting"
BY DEF SInv, CallerTypes, Callers, OwnerInv, Held, Ended

(* A step that only moves the caller *)
LEMMA DrainerMoves ==
  ASSUME SInv, NEW d \in Drainers, Local,
         pc' \in [Callers -> RequestPlaces \cup DrainerPlaces], pc'[d] \in DrainerPlaces,
         returned' \in [Callers -> Reports],
         \A q \in Callers \ {d} : pc'[q] = pc[q] /\ returned'[q] = returned[q],
         DrainerInv(d)'
  PROVE  SInv'
<1>1. /\ UNCHANGED <<status, open, mailbox, reply, answer, drained, done, owner, took, ctxDone>>
      /\ CallerTypes /\ SentOnce /\ OwnerInv
  BY DEF Local, contract, channels, SInv
<1>2. CallerTypes'
  <2>1. \A r \in Requests : r \in Callers \ {d}
    BY CallerAssumption DEF Callers
  <2>2. \A e \in Drainers : pc'[e] \in DrainerPlaces
    BY <1>1 DEF CallerTypes, Callers
  <2> QED
    BY <1>1, <2>1, <2>2 DEF CallerTypes, TypeOK
<1>3. SentOnce' /\ \A o, q : Sent(o, q)' <=> Sent(o, q)
  BY <1>1, SameBox
<1>4. OwnerInv' /\ (Ended => Ended')
  BY <1>1 DEF OwnerInv, Held, Ended
<1> QED
  BY <1>1, <1>2, <1>3, <1>4, OneDrainer

(* The waits of BeginDrain, ForceCancelInflight and Close, whichever of     *)
(* reply, context, drained and done ends them                               *)
LEMMA DrainerMoveStep ==
  ASSUME SInv, NEW d \in Drainers,
         \/ Begin(d) \/ LeaveBeginning(d) \/ DrainReplied(d) \/ WaitDrained(d)
         \/ CheckClosed(d) \/ Stopped(d)
  PROVE  SInv'
<1>1. /\ DrainerInv(d) /\ OwnerInv
      /\ pc \in [Callers -> RequestPlaces \cup DrainerPlaces]
      /\ returned \in [Callers -> Reports]
      /\ d \in Callers /\ pc[d] \in DrainerPlaces
      /\ done => Ended
      /\ Ended => drained /\ ~open /\ \A r \in Requests : status[r] # "waiting"
  BY DrainerFacts
<1>2. Local
  BY DEF Begin, LeaveBeginning, DrainReplied, WaitDrained, CheckClosed, Stopped
<1>3. /\ status' = status /\ open' = open /\ reply' = reply /\ done' = done /\ drained' = drained
      /\ (Ended' <=> Ended) /\ \A o, q : Sent(o, q)' <=> Sent(o, q)
  BY <1>2, SameBox DEF Local, contract, channels, Ended
<1> DEFINE Moves ==
      /\ pc' \in [Callers -> RequestPlaces \cup DrainerPlaces] /\ pc'[d] \in DrainerPlaces
      /\ returned' \in [Callers -> Reports]
      /\ \A q \in Callers \ {d} : pc'[q] = pc[q] /\ returned'[q] = returned[q]
<1>4. CASE Begin(d)
  <2>1. Moves
    BY <1>1, <1>4 DEF Begin, Goto, Return, DrainerPlaces, Reports
  <2>2. DrainerInv(d)'
    BY <1>1, <1>3, <1>4 DEF Begin, Goto, Return, DrainerInv
  <2> QED
    BY <1>2, <2>1, <2>2, DrainerMoves
<1>5. CASE LeaveBeginning(d)
  <2>1. Moves
    BY <1>1, <1>5 DEF LeaveBeginning, Begun, Goto, Return, DrainerPlaces, Reports
  <2>2. DrainerInv(d)'
    BY <1>1, <1>3, <1>5 DEF LeaveBeginning, Begun, Goto, Return, DrainerInv
  <2> QED
    BY <1>2, <2>1, <2>2, DrainerMoves
<1>6. CASE DrainReplied(d)
  <2>1. Moves
    BY <1>1, <1>6 DEF DrainReplied, Begun, Goto, Return, DrainerPlaces, Reports
  <2>2. DrainerInv(d)'
    BY <1>1, <1>3, <1>6 DEF DrainReplied, Begun, Goto, Return, DrainerInv
  <2> QED
    BY <1>2, <2>1, <2>2, DrainerMoves
<1>7. CASE WaitDrained(d)
  <2>1. Moves
    BY <1>1, <1>7 DEF WaitDrained, Goto, Return, DrainerPlaces, Reports
  <2>2. DrainerInv(d)'
    BY <1>1, <1>3, <1>7 DEF WaitDrained, Goto, Return, DrainerInv
  <2> QED
    BY <1>2, <2>1, <2>2, DrainerMoves
<1>8. CASE CheckClosed(d)
  <2>1. Moves
    BY <1>1, <1>8 DEF CheckClosed, Goto, Return, DrainerPlaces, Reports
  <2>2. DrainerInv(d)'
    BY <1>1, <1>3, <1>8 DEF CheckClosed, Goto, Return, DrainerInv
  <2> QED
    BY <1>2, <2>1, <2>2, DrainerMoves
<1>9. CASE Stopped(d)
  <2>1. Moves
    BY <1>1, <1>9 DEF Stopped, Goto, Return, DrainerPlaces, Reports
  <2>2. DrainerInv(d)'
    BY <1>1, <1>3, <1>9 DEF Stopped, Goto, Return, DrainerInv
  <2> QED
    BY <1>2, <2>1, <2>2, DrainerMoves
<1> QED
  BY <1>4, <1>5, <1>6, <1>7, <1>8, <1>9

(* A drain, a forced drain or a stop is sent, each once. *)
LEMMA DrainerSends ==
  ASSUME SInv, NEW d \in Drainers, NEW op \in {"drain", "force", "stop"},
         NEW place \in DrainerPlaces,
         ~Sent(op, d), Send(d, op), Goto(d, place), Sending,
         (\A o, q : Sent(o, q)' <=> Sent(o, q) \/ (o = op /\ q = d)) => DrainerInv(d)'
  PROVE  SInv'
<1>1. /\ UNCHANGED <<status, open, reply, answer, drained, done, owner, ctxDone, took, returned>>
      /\ CallerTypes /\ SentOnce /\ OwnerInv /\ TypeOK
      /\ pc' = [pc EXCEPT ![d] = place]
  BY DEF Sending, Goto, contract, SInv, CallerTypes
<1>2. Cmd(op, d) \in Commands
  BY DEF Cmd, Commands
<1>3. /\ mailbox' \in Seq(Commands) /\ Len(mailbox') <= MailboxSize /\ SentOnce'
      /\ \A o, q : Sent(o, q)' <=> Sent(o, q) \/ (o = op /\ q = d)
  BY <1>1, <1>2, SendBox DEF TypeOK
<1>4. CallerTypes'
  <2>1. \A r \in Requests : r # d
    BY CallerAssumption
  <2> QED
    BY <1>1, <1>3, <2>1 DEF CallerTypes, TypeOK, Callers
<1>5. OwnerInv' /\ (Ended => Ended')
  BY <1>1 DEF OwnerInv, Held, Ended
<1>6. DrainerInv(d)'
  BY <1>3
<1>7. \A q \in Callers \ {d} : /\ pc'[q] = pc[q] /\ returned'[q] = returned[q]
                               /\ reply'[q] = reply[q]
                               /\ \A o : Sent(o, q)' <=> Sent(o, q)
  BY <1>1, <1>3 DEF CallerTypes
<1> QED
  BY <1>1, <1>3, <1>4, <1>5, <1>6, <1>7, OneDrainer

(* A stop is sent only after the drain is complete. *)
LEMMA DrainerSendStep ==
  ASSUME SInv, NEW d \in Drainers, SendDrain(d) \/ SendStop(d)
  PROVE  SInv'
<1>1. /\ DrainerInv(d) /\ pc \in [Callers -> RequestPlaces \cup DrainerPlaces] /\ d \in Callers
  BY DrainerFacts
<1>2. Sending => UNCHANGED <<status, open, reply, done, drained>> /\ (Ended' <=> Ended)
  BY DEF Sending, contract, Ended
<1>3. CASE SendDrain(d)
  <2>1. PICK op \in {"drain", "force"} : Send(d, op)
    BY <1>3 DEF SendDrain
  <2>2. ~Sent(op, d) /\ Goto(d, "drainSent") /\ Sending
    BY <1>1, <1>3 DEF SendDrain, DrainerInv
  <2>3. ASSUME \A o, q : Sent(o, q)' <=> Sent(o, q) \/ (o = op /\ q = d)
        PROVE  DrainerInv(d)'
    BY <1>1, <1>2, <1>3, <2>2, <2>3 DEF SendDrain, Goto, DrainerInv
  <2> QED
    BY <2>1, <2>2, <2>3, DrainerSends DEF DrainerPlaces
<1>4. CASE SendStop(d)
  <2>1. ~Sent("stop", d) /\ Send(d, "stop") /\ Goto(d, "stopSent") /\ Sending
    BY <1>1, <1>4 DEF SendStop, DrainerInv
  <2>2. ASSUME \A o, q : Sent(o, q)' <=> Sent(o, q) \/ (o = "stop" /\ q = d)
        PROVE  DrainerInv(d)'
    BY <1>1, <1>2, <1>4, <2>1, <2>2 DEF SendStop, Goto, DrainerInv
  <2> QED
    BY <2>1, <2>2, DrainerSends DEF DrainerPlaces
<1> QED
  BY <1>3, <1>4

-----------------------------------------------------------------------------
(* Steps of the owner for one drainer *)

(* Such a step changes no request: the shutdown advances by one phase. *)
LEMMA OwnerShuts ==
  ASSUME SInv, NEW d \in Drainers, Quiet, UNCHANGED <<status, answer>>,
         open' \in BOOLEAN, drained' \in BOOLEAN, done' \in BOOLEAN,
         done => done', drained => drained', Ended => Ended', ~open => ~open',
         owner' \in {"select", "draining", "pump", "stopping", "stopped"},
         reply' \in [Callers -> Replies],
         \A q \in Callers \ {d} : reply'[q] = reply[q],
         mailbox' \in Seq(Commands), Len(mailbox') <= MailboxSize, SentOnce',
         \A q \in Callers \ {d} : \A o : Sent(o, q)' <=> Sent(o, q),
         OwnerInv', DrainerInv(d)'
  PROVE  SInv'
<1>1. UNCHANGED <<ctxDone, pc, took, returned>>
  BY DEF Quiet, callers
<1>2. CallerTypes'
  BY <1>1 DEF SInv, CallerTypes, TypeOK, Replies
<1> QED
  BY <1>1, <1>2, OneDrainer

(* drain and force: admission is shut. *)
LEMMA HandleDrainStep ==
  ASSUME SInv, NEW d \in Drainers, HandleDrain(d)
  PROVE  SInv'
<1>1. /\ DrainerInv(d) /\ OwnerInv /\ d \in Callers /\ reply \in [Callers -> Replies]
      /\ open \in BOOLEAN /\ drained \in BOOLEAN /\ done \in BOOLEAN
  BY DrainerFacts DEF SInv, CallerTypes, TypeOK, Replies
<1>2. PICK op \in {"drain", "force"} : Handles(op, d)
  BY DEF HandleDrain
<1>3. /\ mailbox' \in Seq(Commands) /\ Len(mailbox') <= MailboxSize /\ SentOnce' /\ ~Ended
      /\ Sent(op, d) /\ ~done
      /\ \A o : Sent(o, d)' <=> Sent(o, d) /\ o # op
      /\ \A q \in Callers \ {d} : \A o : Sent(o, q)' <=> Sent(o, q)
  BY <1>1, <1>2, Handled, DrainerFacts
<1>4. /\ UNCHANGED <<status, answer, drained, done, pc, returned>> /\ Quiet /\ owner' = "draining"
      /\ open' = FALSE /\ reply' = [reply EXCEPT ![d] = "drain pending"]
  BY <1>1 DEF HandleDrain, Shut, contract, Reply, Quiet, callers
<1>5. reply' \in [Callers -> Replies] /\ \A q \in Callers \ {d} : reply'[q] = reply[q]
  BY <1>1, <1>4 DEF Replies
<1>6. OwnerInv' /\ ~Ended'
  BY <1>1, <1>3, <1>4 DEF OwnerInv, Held, Ended
<1>7. DrainerInv(d)'
  BY <1>1, <1>3, <1>4, <1>6 DEF DrainerInv
<1> QED
  BY <1>1, <1>3, <1>4, <1>5, <1>6, <1>7, OwnerShuts

(* The drain is acknowledged when nobody waits any more. *)
LEMMA DrainFinishedStep ==
  ASSUME SInv, NEW d \in Drainers, DrainFinished(d)
  PROVE  SInv'
<1>1. /\ DrainerInv(d) /\ OwnerInv /\ d \in Callers /\ reply \in [Callers -> Replies]
      /\ open \in BOOLEAN /\ drained \in BOOLEAN /\ done \in BOOLEAN
      /\ mailbox \in Seq(Commands) /\ Len(mailbox) <= MailboxSize /\ SentOnce
  BY DrainerFacts DEF SInv, CallerTypes, TypeOK, Replies
<1>2. /\ UNCHANGED <<status, open, answer, drained, done, mailbox, pc, returned>> /\ Quiet
      /\ owner' = "pump" /\ owner = "draining"
      /\ reply' = [reply EXCEPT ![d] = "drain"] /\ reply[d] = "drain pending"
      /\ \A r \in Requests : status[r] # "waiting"
  BY DEF DrainFinished, contract, Reply, Quiet, callers
<1>3. SentOnce' /\ \A o, q : Sent(o, q)' <=> Sent(o, q)
  BY <1>1, <1>2, SameBox
<1>4. ~open /\ ~done /\ ~Ended /\ ~Ended'
  BY <1>1, <1>2 DEF OwnerInv, Ended
<1>5. OwnerInv'
  BY <1>1, <1>2, <1>4 DEF OwnerInv, Held
<1>6. DrainerInv(d)'
  BY <1>1, <1>2, <1>3, <1>4 DEF DrainerInv
<1>7. reply' \in [Callers -> Replies] /\ \A q \in Callers \ {d} : reply'[q] = reply[q]
  BY <1>1, <1>2 DEF Replies
<1> QED
  BY <1>1, <1>2, <1>3, <1>4, <1>5, <1>6, <1>7, OwnerShuts

(* stop finds an owner that holds nothing. *)
LEMMA HandleStopStep ==
  ASSUME SInv, NEW d \in Drainers, HandleStop(d)
  PROVE  SInv'
<1>1. /\ DrainerInv(d) /\ OwnerInv /\ d \in Callers /\ reply \in [Callers -> Replies]
      /\ open \in BOOLEAN /\ drained \in BOOLEAN /\ done \in BOOLEAN
  BY DrainerFacts DEF SInv, CallerTypes, TypeOK, Replies
<1>2. /\ mailbox' \in Seq(Commands) /\ Len(mailbox') <= MailboxSize /\ SentOnce' /\ ~Ended
      /\ Sent("stop", d)
      /\ \A o : Sent(o, d)' <=> Sent(o, d) /\ o # "stop"
      /\ \A q \in Callers \ {d} : \A o : Sent(o, q)' <=> Sent(o, q)
  BY <1>1, Handled DEF HandleStop
<1>3. drained /\ ~open /\ Held = {}
  BY <1>1, <1>2 DEF DrainerInv, OwnerInv
<1>4. /\ UNCHANGED <<status, open, answer, drained, done, pc, returned>> /\ Quiet
      /\ owner' = "stopping" /\ Ended' /\ reply' = [reply EXCEPT ![d] = "stop"]
  BY <1>3 DEF HandleStop, contract, Reply, Quiet, callers, Ended
<1>5. reply' \in [Callers -> Replies] /\ \A q \in Callers \ {d} : reply'[q] = reply[q]
  BY <1>1, <1>4 DEF Replies
<1>6. ~done
  BY <1>1, <1>2 DEF OwnerInv, Ended
<1>7. OwnerInv'
  BY <1>1, <1>3, <1>4, <1>6 DEF OwnerInv, Held
<1>8. DrainerInv(d)'
  BY <1>1, <1>2, <1>3, <1>4, <1>6 DEF DrainerInv
<1> QED
  BY <1>1, <1>2, <1>4, <1>5, <1>6, <1>7, <1>8, OwnerShuts

(* Between two commands: drained is closed when admission is shut and       *)
(* nothing is held, and done once stop has been acknowledged.               *)
LEMMA OwnerAloneStep ==
  ASSUME SInv, NotifyDrained \/ CloseDone
  PROVE  SInv'
<1>1. /\ UNCHANGED <<status, open, mailbox, reply, answer, ctxDone, pc, took, returned>>
      /\ CallerTypes /\ SentOnce /\ OwnerInv
  BY DEF NotifyDrained, CloseDone, contract, Quiet, callers, SInv
<1>2. /\ drained' \in BOOLEAN /\ done' \in BOOLEAN /\ owner' \in {"select", "stopped"}
      /\ (drained => drained') /\ (done => done') /\ (Ended => Ended')
  <2>1. drained \in BOOLEAN /\ done \in BOOLEAN
    BY <1>1 DEF CallerTypes, TypeOK
  <2>2. CASE NotifyDrained
    BY <2>1, <2>2 DEF NotifyDrained, Ended
  <2>3. CASE CloseDone
    BY <2>1, <2>3 DEF CloseDone, Ended
  <2> QED
    BY <2>2, <2>3
<1>3. SentOnce' /\ \A o, q : Sent(o, q)' <=> Sent(o, q)
  BY <1>1, SameBox
<1>4. CallerTypes'
  BY <1>1, <1>2 DEF CallerTypes, TypeOK
<1>5. OwnerInv'
  <2>1. Held' = Held
    BY <1>1 DEF Held
  <2>2. CASE NotifyDrained
    BY <1>1, <2>1, <2>2 DEF NotifyDrained, OwnerInv, Ended
  <2>3. CASE CloseDone
    BY <1>1, <2>1, <2>3 DEF CloseDone, OwnerInv, Ended
  <2> QED
    BY <2>2, <2>3
<1>6. ASSUME NEW r \in Requests PROVE AnswerInv(r)' /\ SentInv(r)' /\ RequestInv(r)'
  BY <1>1, <1>2, <1>3, RequestStill DEF SInv
<1>7. ASSUME NEW d \in Drainers PROVE DrainerInv(d)'
  BY <1>1, <1>2, <1>3, DrainerStill DEF SInv
<1> QED
  BY <1>3, <1>4, <1>5, <1>6, <1>7 DEF SInv

-----------------------------------------------------------------------------
(* The end of a context, and no step, change nothing the invariant is about. *)
LEMMA ContextStep ==
  ASSUME SInv, \/ \E p \in Callers : CtxEnds(p)
               \/ UNCHANGED vars
  PROVE  SInv'
<1>1. /\ UNCHANGED <<status, open, mailbox, reply, answer, drained, done, owner, pc, took, returned>>
      /\ ctxDone' \in [Callers -> BOOLEAN]
  BY DEF CtxEnds, vars, contract, channels, callers, SInv, CallerTypes, TypeOK
<1>2. SentOnce' /\ \A o, q : Sent(o, q)' <=> Sent(o, q)
  BY <1>1, SameBox DEF SInv
<1>3. CallerTypes' /\ OwnerInv' /\ (Ended => Ended')
  BY <1>1 DEF SInv, CallerTypes, TypeOK, OwnerInv, Held, Ended
<1>4. ASSUME NEW r \in Requests PROVE AnswerInv(r)' /\ SentInv(r)' /\ RequestInv(r)'
  BY <1>1, <1>2, RequestStill DEF SInv
<1>5. ASSUME NEW d \in Drainers PROVE DrainerInv(d)'
  BY <1>1, <1>2, <1>3, DrainerStill DEF SInv
<1> QED
  BY <1>2, <1>3, <1>4, <1>5 DEF SInv

(* Every step keeps the invariant. *)
LEMMA SStep == SInv /\ [Next]_vars => SInv'
<1> SUFFICES ASSUME SInv, [Next]_vars PROVE SInv'
  OBVIOUS
<1>1. ASSUME NEW r \in Requests,
             \/ Call(r) \/ Requesting(r) \/ LeaveQueue(r) \/ WorkerCancels(r) \/ WorkerFinishes(r)
             \/ HandleAdmit(r) \/ HandleCancel(r) \/ HandleFinish(r) \/ DrainOne(r)
      PROVE  SInv'
  BY <1>1, RequestMoveStep, RequestSendStep, HandleAdmitStep, HandleCancelStep,
     HandleFinishStep, LeaveQueueStep, Zenon DEF Requesting, LeaveQueue
<1>2. ASSUME NEW d \in Drainers,
             \/ Begin(d) \/ Closing(d) \/ HandleDrain(d) \/ DrainFinished(d) \/ HandleStop(d)
      PROVE  SInv'
  BY <1>2, DrainerMoveStep, DrainerSendStep, HandleDrainStep, DrainFinishedStep,
     HandleStopStep, Zenon DEF Closing
<1>3. ASSUME \E p \in Callers : CtxEnds(p) PROVE SInv'
  BY <1>3, ContextStep
<1>4. ASSUME UNCHANGED vars PROVE SInv'
  BY <1>4, ContextStep
<1>5. ASSUME NotifyDrained \/ CloseDone PROVE SInv'
  BY <1>5, OwnerAloneStep
<1> QED
  BY <1>1, <1>2, <1>3, <1>4, <1>5, Zenon DEF Next, Handle, Finished

(* The inductive invariant of the callers and the owner's channels. *)
THEOREM SchedulerInv == Spec => []SInv
<1>1. Init => SInv
  BY SInit
<1>2. SInv /\ [Next]_vars => SInv'
  BY SStep
<1> QED
  BY <1>1, <1>2, PTL DEF Spec

(* No Acquire or Finish that has returned leaves anything with the owner,   *)
(* whichever of reply, context and done ended its waits, and Finish always  *)
(* reports its permit as released.                                          *)
THEOREM NothingStaysBehind == Spec => []NothingLeftBehind
<1>1. SInv => NothingLeftBehind
  <2> SUFFICES ASSUME SInv PROVE NothingLeftBehind
    OBVIOUS
  <2>1. TypeOK
    BY DEF SInv, CallerTypes
  <2>2. ASSUME NEW r \in Requests, pc[r] = "returned"
        PROVE  /\ r \notin Held
               /\ ~done => ~Sent("admit", r)
               /\ returned[r] # "unreleased"
    BY <2>2 DEF SInv, RequestInv, Held
  <2> QED
    BY <2>1, <2>2 DEF NothingLeftBehind
<1> QED
  BY <1>1, SchedulerInv, PTL

(* What the caller of a drain or of a Close reports is true. *)
LEMMA ReportsTrue == SInv => owner # "panicked" /\ \A d \in Drainers : ReportTrue(d)
<1> SUFFICES ASSUME SInv PROVE owner # "panicked" /\ \A d \in Drainers : ReportTrue(d)
  OBVIOUS
<1>1. owner # "panicked" /\ (Ended => ~open /\ Held = {})
  BY DEF SInv, OwnerInv
<1>2. ASSUME NEW d \in Drainers PROVE ReportTrue(d)
  <2>1. DrainerInv(d)
    BY DEF SInv
  <2>2. returned[d] = "context" => ~Sent("stop", d) /\ reply[d] # "stop"
    BY <2>1 DEF DrainerInv
  <2> QED
    BY <1>1, <2>1, <2>2 DEF DrainerInv, ReportTrue
<1> QED
  BY <1>1, <1>2

(* Only WaitDrained can report the end of the context after the drain was   *)
(* acknowledged, and it looks at drained again first.                       *)
LEMMA DrainWinsStep == SInv /\ [Next]_vars => [\A d \in Drainers : DrainWins(d)]_vars
<1> SUFFICES ASSUME SInv, Next, NEW d \in Drainers,
                    returned[d] = "none", returned'[d] = "context", reply[d] = "drain"
             PROVE  ~drained
  BY DEF DrainWins
<1>1. DrainerInv(d) /\ d \in Callers /\ returned \in [Callers -> Reports]
  BY DrainerFacts
<1>2. pc[d] \notin {"start", "beginning"}
  BY <1>1 DEF DrainerInv
<1>3. returned' # returned
  OBVIOUS
<1>4. ASSUME NEW r \in Requests,
             \/ Call(r) \/ Requesting(r) \/ WorkerCancels(r) \/ WorkerFinishes(r)
      PROVE  FALSE
  <2>1. r # d /\ r \in Callers
    BY CallerAssumption DEF Callers
  <2>2. returned'[d] = returned[d]
    BY <1>1, <1>4, <2>1 DEF Call, Requesting, SendAdmit, LeaveSending, TakeResult, ContextEnded,
       ClosedWhileWaiting, SendCancel, CancelReplied, Cancelled, Collect, SendFinish,
       FinishReplied, WorkerCancels, WorkerFinishes, Goto, Return
  <2> QED
    BY <2>2
<1>5. ~Handle /\ ~Finished /\ (\A p \in Callers : ~CtxEnds(p))
      /\ \A r \in Requests : ~LeaveQueue(r)
  BY <1>3 DEF Handle, HandleAdmit, HandleCancel, HandleFinish, DrainOne, HandleDrain,
     DrainFinished, HandleStop, NotifyDrained, CloseDone, Finished, CtxEnds, LeaveQueue,
     Expire, Dispatch, Quiet, callers, vars
<1>6. PICK e \in Drainers : Begin(e) \/ Closing(e)
  BY <1>4, <1>5, Zenon DEF Next
<1>7. e = d
  <2>1. e \in Callers
    BY DEF Callers
  <2>2. e # d => returned'[d] = returned[d]
    BY <1>1, <1>6, <2>1 DEF Begin, Closing, SendDrain, LeaveBeginning, DrainReplied,
       WaitDrained, CheckClosed, SendStop, Stopped, Begun, Goto, Return
  <2> QED
    BY <2>2
<1>8. WaitDrained(d)
  <2>1. ~Begin(d) /\ ~SendDrain(d) /\ ~LeaveBeginning(d)
    BY <1>2 DEF Begin, SendDrain, LeaveBeginning
  <2>2. DrainReplied(d) => returned'[d] # "context"
    BY <1>1 DEF DrainReplied, Begun, Goto, Return
  <2>3. CheckClosed(d) \/ SendStop(d) \/ Stopped(d) => returned'[d] # "context"
    BY <1>1 DEF CheckClosed, SendStop, Stopped, Goto, Return
  <2> QED
    BY <1>6, <1>7, <2>1, <2>2, <2>3 DEF Closing
<1> QED
  BY <1>1, <1>8 DEF WaitDrained, Goto, Return

(* However many Close calls race each other, drains and workers, stop never *)
(* reaches an owner that holds something, what each of them reports is true *)
(* for good, and a completed drain wins against the end of the context.     *)
THEOREM ClosesAreClean == Spec => CloseIsClean
<1>1. SInv => owner # "panicked" /\ \A d \in Drainers : ReportTrue(d)
  BY ReportsTrue
<1>2. SInv /\ [Next]_vars => [\A d \in Drainers : DrainWins(d)]_vars
  BY DrainWinsStep
<1>3. Spec => []SInv
  BY SchedulerInv
<1> QED
  BY <1>1, <1>2, <1>3, PTL DEF Spec, CloseIsClean
=============================================================================
