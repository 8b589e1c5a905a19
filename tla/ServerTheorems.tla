--------------------------- MODULE ServerTheorems ---------------------------
(***************************************************************************)
(* For every number of requests, handlers and callers of Shutdown:         *)
(*   - the handler count stays exact, first for TrackedHandler by itself,  *)
(*     then for Server, each of whose steps is one of TrackedHandler or    *)
(*     leaves the count alone;                                             *)
(*   - what Serve and Shutdown report is what happened, and a forced       *)
(*     shutdown is not blamed on clients (ServerInv: what has been done    *)
(*     when the clean-up is at a place).                                   *)
(***************************************************************************)
EXTENDS Server, FiniteSetTheorems, TLAPS

Inside == {h \in Handlers : at[h] = "inside"}

HandlersInv == HandlersType /\ HandlersExact

(* Moving one handler adds it to those inside, removes it, or does neither. *)
LEMMA MoveChangesInside ==
  ASSUME HandlersType, NEW h \in Handlers,
         NEW spot \in {"calling", "inside", "left"}, Move(h, spot)
  PROVE  /\ Inside' = IF spot = "inside" THEN Inside \cup {h} ELSE Inside \ {h}
         /\ at' \in [Handlers -> {"away", "calling", "inside", "left", "panicked"}]
BY DEF HandlersType, Move, Inside

(* The set of handlers inside is finite; taking a member out lowers its     *)
(* cardinality by one, putting an outsider in raises it by one.             *)
LEMMA InsideCounts ==
  /\ IsFiniteSet(Inside) /\ Cardinality(Inside) \in Nat
  /\ \A h \in Inside : Cardinality(Inside \ {h}) = Cardinality(Inside) - 1
  /\ \A h : h \notin Inside => Cardinality(Inside \cup {h}) = Cardinality(Inside) + 1
  /\ Cardinality(Inside) = 0 => Inside = {}
<1>1. IsFiniteSet(Inside)
  BY HandlersAssumption, FS_Subset DEF Inside
<1> QED
  BY <1>1, FS_CardinalityType, FS_RemoveElement, FS_AddElement, FS_EmptySet

(* A fresh trackedHandler counts nobody and has not closed drained. *)
LEMMA HandlersInitExact == HandlersInit => HandlersInv
<1> SUFFICES ASSUME HandlersInit PROVE HandlersInv
  OBVIOUS
<1>1. Inside = {}
  BY DEF HandlersInit, Inside
<1> QED
  BY <1>1, FS_EmptySet DEF HandlersInit, HandlersInv, HandlersType, HandlersExact, Inside

(* Every begin, finish and seal keeps the count exact and drained closed    *)
(* at most once.                                                            *)
LEMMA HandlersStepExact == HandlersInv /\ [HandlersNext]_tracked => HandlersInv'
<1> SUFFICES ASSUME HandlersInv, [HandlersNext]_tracked PROVE HandlersInv'
  OBVIOUS
<1> USE DEF HandlersInv
<1>0. active = Cardinality(Inside)
  BY DEF HandlersExact, Inside
<1>1. CASE UNCHANGED tracked
  BY <1>1 DEF tracked, HandlersType, HandlersExact
<1>2. CASE Seal
  <2>1. /\ accepting' = FALSE /\ UNCHANGED <<active, at>>
        /\ closes' = IF accepting /\ active = 0 THEN closes + 1 ELSE closes
    BY <1>2 DEF Seal, CloseDrained
  <2>2. HandlersType'
    <3>1. closes \in Nat /\ closes + 1 \in Nat
      BY DEF HandlersType
    <3> QED
      BY <2>1, <3>1, Zenon DEF HandlersType
  <2>3. closes' = IF ~accepting' /\ active' = 0 THEN 1 ELSE 0
    BY <2>1 DEF HandlersType, HandlersExact
  <2> QED
    BY <2>1, <2>2, <2>3 DEF HandlersExact
<1>3. ASSUME NEW h \in Handlers, Arrive(h) \/ TurnedBack(h) PROVE HandlersInv'
  <2>1. PICK spot \in {"calling", "left"} : Move(h, spot) /\ UNCHANGED <<accepting, active, closes>>
    BY <1>3 DEF Arrive, TurnedBack
  <2>2. at[h] # "inside"
    BY <1>3 DEF Arrive, TurnedBack
  <2>3. Inside' = Inside
    BY <2>1, <2>2, MoveChangesInside DEF Inside
  <2>4. HandlersType'
    BY <2>1, MoveChangesInside DEF HandlersType
  <2>5. \A g \in Handlers : at'[g] # "panicked"
    BY <2>1 DEF Move, HandlersType, HandlersExact
  <2> QED
    BY <2>1, <2>3, <2>4, <2>5, <1>0 DEF HandlersExact, Inside
<1>4. ASSUME NEW h \in Handlers, Enter(h) PROVE HandlersInv'
  <2>1. Move(h, "inside") /\ h \notin Inside
    BY <1>4 DEF Enter, Inside
  <2>2. Inside' = Inside \cup {h} /\ HandlersType'
    BY <1>4, <2>1, MoveChangesInside DEF Enter, HandlersType
  <2>3. active' = Cardinality(Inside')
    BY <1>0, <1>4, <2>1, <2>2, InsideCounts DEF Enter
  <2>4. \A g \in Handlers : at'[g] # "panicked"
    BY <2>1 DEF Move, HandlersType, HandlersExact
  <2>5. closes' = 0 /\ accepting'
    BY <1>4 DEF Enter, HandlersExact
  <2> QED
    BY <2>2, <2>3, <2>4, <2>5 DEF HandlersExact, Inside
<1>5. ASSUME NEW h \in Handlers, Leave(h) PROVE HandlersInv'
  <2>1. h \in Inside
    BY <1>5 DEF Leave, Inside
  <2>2. active # 0
    BY <1>0, <2>1, InsideCounts
  <2>3. /\ Move(h, "left") /\ active' = active - 1
        /\ CloseDrained(~accepting /\ active = 1) /\ UNCHANGED accepting
    BY <1>5, <2>2 DEF Leave
  <2>4. Inside' = Inside \ {h} /\ HandlersType'
    BY <2>2, <2>3, MoveChangesInside DEF HandlersType, CloseDrained
  <2>5. active' = Cardinality(Inside')
    BY <1>0, <2>1, <2>3, <2>4, InsideCounts
  <2>6. \A g \in Handlers : at'[g] # "panicked"
    BY <2>3 DEF Move, HandlersType, HandlersExact
  <2>7. closes' = IF ~accepting' /\ active' = 0 THEN 1 ELSE 0
    BY <2>2, <2>3 DEF CloseDrained, HandlersExact, HandlersType
  <2> QED
    BY <2>4, <2>5, <2>6, <2>7 DEF HandlersExact, Inside
<1> QED
  BY <1>1, <1>2, <1>3, <1>4, <1>5 DEF HandlersNext

(* The tracked handler by itself, called by any number of goroutines in any *)
(* order: the count is exact and drained is closed exactly once.            *)
THEOREM TrackedHandlerExact == HandlersSpec => []HandlersExact
<1>1. HandlersInv => HandlersExact
  BY DEF HandlersInv
<1> QED
  BY <1>1, HandlersInitExact, HandlersStepExact, PTL DEF HandlersSpec

(* Every step of the server is a step of its tracked handler or leaves the  *)
(* handler alone: nobody else touches accepting, active or drained.         *)
LEMMA ServerStepTracks == [Next]_vars => [HandlersNext]_tracked
<1> SUFFICES ASSUME [Next]_vars PROVE [HandlersNext]_tracked
  OBVIOUS
<1>1. CASE UNCHANGED vars
  BY <1>1 DEF vars
<1>2. CASE runShutdown
  BY <1>2 DEF runShutdown, GraceDrain, HTTPShutdown, HTTPWait, GraceCloseListener, GraceSeal,
       GraceWaits, Graceful, FinalClose, ForceSeal, ForceDrain, ForceCancel, BaseCancel, HTTPClose,
       ForceCloseListener, ForceHandlers, ForceDrained, Publish, KeepRequests, HandlersNext
<1>3. CASE StartServe \/ ListenerBreaks \/ ServeReturns \/ \E k \in DOMAIN ctx : CtxEnds(k)
  BY <1>3 DEF StartServe, ListenerBreaks, ServeReturns, CtxEnds, KeepRequests
<1>4. CASE \E p \in Callers : CallShutdown(p) \/ CallerReturns(p) \/ CallerGivesUp(p)
  BY <1>4 DEF CallShutdown, CallerReturns, CallerGivesUp, Waiting
<1>5. ASSUME NEW r \in Requests,
             Handling(r) \/ Depart(r) \/ Schedule(r) \/ ClientCancels(r) \/ FinishPermit(r)
      PROVE  [HandlersNext]_tracked
  BY <1>5, OneHandlerPerRequest
     DEF Handling, Depart, Schedule, ClientCancels, FinishPermit, HandlersNext
<1> QED
  BY <1>1, <1>2, <1>3, <1>4, <1>5 DEF Next

(* The whole server, graceful and forced shutdown included, uses its        *)
(* tracked handler as specified.                                            *)
THEOREM ServerTracks == Spec => HandlersSpec
<1>1. Init => HandlersInit
  BY DEF Init
<1> QED
  BY <1>1, ServerStepTracks, PTL DEF Spec, HandlersSpec

(* In the running server the handler count is exact and the drained channel *)
(* is closed exactly once, however requests, seals and clean-up interleave. *)
THEOREM ServerHandlersExact == Spec => []HandlersExact
BY ServerTracks, TrackedHandlerExact, PTL

-----------------------------------------------------------------------------
(* The verdicts of the shutdown.  The invariant says, for each place of     *)
(* runShutdown, what the clean-up has achieved when it is there.            *)

Graces == {"drain", "httpShutdown", "httpWait", "httpError", "closeListener", "seal",
           "waitHandlers", "waitDrained", "graceful"}
Forces == {"forceDrain", "forceCancel", "baseCancel", "httpClose", "forceListener",
           "forceHandlers", "forceDrained"}
Late   == {"close", "end", "over"}
Early  == Graces \cup {"none", "force"}

Results == [forced : BOOLEAN, complete : BOOLEAN, attributed : BOOLEAN]

ServerTypes ==
  /\ place \in Early \cup Forces \cup Late
  /\ started \in BOOLEAN /\ done \in BOOLEAN /\ drainStarted \in BOOLEAN
  /\ ctx \in [{"grace", "force", "final"} -> {"none", "live", "ended"}]
  /\ result \in Results
  /\ serve \in {"start", "serving", "nil", "failed"}
  /\ listening \in BOOLEAN /\ inShutdown \in BOOLEAN /\ broken \in BOOLEAN
  /\ closeFails \in BOOLEAN /\ baseDone \in BOOLEAN /\ stopped \in BOOLEAN /\ open \in BOOLEAN
  /\ status \in [Requests -> {"outside", "waiting", "serving", "finished", "turnedAway"}]
  /\ cause \in [Requests -> {"none", "client", "shutdown"}]
  /\ ended \in [Requests -> {"none", "client", "shutdown"}]
  /\ caller \in [Callers -> {"start", "waiting", "ok", "incomplete", "context"}]

(* One clean-up, with one context for each of its phases *)
PhaseInv ==
  /\ place = "none" <=> ~started
  /\ done <=> place = "over"
  /\ place = "none" => ctx["grace"] = "none"
  /\ place \in Early => /\ ctx["force"] = "none" /\ ctx["final"] = "none"
                        /\ ~result.forced /\ result.complete
  /\ place \in Early \cup {"forceDrain", "forceCancel"} => result.attributed
  /\ place \in Graces => ctx["grace"] # "none"
  /\ place \in Forces => ctx["force"] # "none" /\ ctx["final"] = "none"
  /\ place = "close" => ctx["final"] # "none"

(* Why the clean-up gave up grace, completeness or the scheduler *)
AlarmInv ==
  /\ place = "httpError" => closeFails
  /\ place = "force" \/ result.forced => ctx["grace"] = "ended" \/ closeFails
  /\ ~result.complete => ctx["force"] = "ended" \/ ctx["final"] = "ended" \/ closeFails
  /\ place \in {"end", "over"} /\ ~stopped => ctx["force"] = "ended" \/ ctx["final"] = "ended"

(* Who closed the listener *)
ListenInv ==
  /\ inShutdown => started
  /\ ~listening => inShutdown \/ serve \in {"nil", "failed"}
  /\ place \in (Graces \ {"drain", "httpShutdown"})
                 \cup {"forceListener", "forceHandlers", "forceDrained"} => inShutdown
  /\ serve = "failed" => broken

(* What is cleaned up *)
CleanInv ==
  /\ place \in {"seal", "waitHandlers", "waitDrained", "graceful", "forceHandlers",
                "forceDrained"} \cup Late => ~listening
  /\ place \in {"waitHandlers", "waitDrained", "graceful"} \cup Forces \cup Late => ~accepting
  /\ place \in {"waitDrained", "graceful"} => closes > 0
  /\ place \in {"forceDrained"} \cup Late /\ result.complete => closes > 0
  /\ place \in {"graceful", "close"} => schedulerDrained
  /\ place \in {"end", "over"} /\ result.complete => schedulerDrained /\ stopped
  /\ baseDone <=> place \in {"httpClose", "forceListener", "forceHandlers", "forceDrained"}
                              \cup Late

(* Who cancelled a permit: once the base context is about to be cancelled,  *)
(* the cause of every permit is settled.                                    *)
CauseInv ==
  result.attributed =>
    /\ \A r \in Requests : cause[r] = "client" \/ ended[r] = "client" => r \in gone
    /\ place = "baseCancel" \/ baseDone =>
         ~open /\ \A r \in Requests : status[r] = "serving" => cause[r] # "none"

ToldInv == \A p \in Callers : caller[p] = "ok" => done /\ result.complete

ServerInv ==
  /\ HandlersInv /\ ServerTypes /\ PhaseInv /\ AlarmInv /\ ListenInv /\ CleanInv
  /\ CauseInv /\ ToldInv

(* The invariant holds at the start. *)
LEMMA ServerInit == Init => ServerInv
<1> SUFFICES ASSUME Init PROVE ServerInv
  OBVIOUS
<1>1. HandlersInv
  BY HandlersInitExact DEF Init
<1>2. ServerTypes
  BY DEF Init, CInit, ServerTypes, Early, Graces, Results
<1>3. PhaseInv /\ AlarmInv /\ ListenInv /\ ToldInv
  BY DEF Init, PhaseInv, AlarmInv, ListenInv, ToldInv, Early, Graces, Forces
<1>4. CleanInv
  BY DEF Init, CleanInv, Forces, Late
<1>5. CauseInv
  BY DEF Init, CauseInv
<1> QED
  BY <1>1, <1>2, <1>3, <1>4, <1>5 DEF ServerInv

(* Nothing reopens: not the entrance, nor admission once it is shut, and an *)
(* empty scheduler stays empty.                                             *)
LEMMA NothingReopens ==
  ASSUME ServerInv, [Next]_vars
  PROVE  /\ HandlersInv'
         /\ ~accepting => ~accepting'
         /\ closes > 0 => closes' > 0
<1>1. HandlersInv' /\ [HandlersNext]_tracked
  BY HandlersStepExact, ServerStepTracks DEF ServerInv
<1>2. ~accepting => ~accepting'
  BY <1>1 DEF HandlersNext, tracked, Seal, Arrive, Enter, TurnedBack, Leave
<1>3. closes' = closes \/ closes' = closes + 1
  BY <1>1 DEF HandlersNext, tracked, Seal, Arrive, Enter, TurnedBack, Leave, CloseDrained
<1> QED
  BY <1>1, <1>2, <1>3 DEF ServerInv, HandlersInv, HandlersType

(* A step under which the places, verdicts and sockets stay as they are, at *)
(* most admission is shut and requests leave, keeps what was cleaned up.    *)
LEMMA StaysClean ==
  ASSUME ServerInv, [Next]_vars, UNCHANGED <<place, result, baseDone, stopped>>,
         ~listening => ~listening', schedulerDrained => schedulerDrained'
  PROVE  CleanInv'
BY NothingReopens DEF ServerInv, CleanInv

-----------------------------------------------------------------------------
(* Requests, handlers and clients *)
LEMMA RequestStep ==
  ASSUME ServerInv, [Next]_vars, NEW r \in Requests,
         Handling(r) \/ Depart(r) \/ Schedule(r) \/ ClientCancels(r) \/ FinishPermit(r)
  PROVE  ServerInv'
<1> USE DEF ServerInv
<1>1. UNCHANGED <<baseDone, stopped, serve, inShutdown, listening, broken, closeFails, started,
                  done, place, drainStarted, ctx, result, caller>>
  BY DEF Handling, Depart, Schedule, ClientCancels, FinishPermit, Requesting, http, cleanup, callers
<1>2. /\ HandlersInv'
  BY NothingReopens
<1>3. /\ PhaseInv' /\ AlarmInv' /\ ListenInv' /\ ToldInv'
  BY <1>1 DEF PhaseInv, AlarmInv, ListenInv, ToldInv
<1>4. /\ open' = open /\ gone \subseteq gone'
      /\ status' \in [Requests -> {"outside", "waiting", "serving", "finished", "turnedAway"}]
      /\ \A q \in Requests : status'[q] = "serving" => status[q] = "serving" \/ open
      /\ \A q \in Requests : status'[q] = "waiting" => status[q] = "waiting" \/ open
  BY DEF Handling, Depart, Schedule, ClientCancels, FinishPermit, requests, contract,
       Join, Start, TurnAway, Finish, Becomes, ServerTypes
<1>5. schedulerDrained => schedulerDrained'
  BY <1>4 DEF schedulerDrained, Held, ServerTypes
<1>6. CleanInv'
  BY <1>1, <1>5, StaysClean
<1> DEFINE settled == \A q \in Requests : status[q] = "serving" => cause[q] # "none"
<1>7. /\ cause' \in [Requests -> {"none", "client", "shutdown"}]
      /\ ended' \in [Requests -> {"none", "client", "shutdown"}]
  BY DEF Handling, Depart, Schedule, ClientCancels, FinishPermit, requests, ServerTypes
<1>8. ServerTypes'
  BY <1>1, <1>4, <1>7 DEF ServerTypes
<1>9. ASSUME result.attributed
      PROVE  \A q \in Requests : cause'[q] = "client" \/ ended'[q] = "client" => q \in gone'
  <2>1. \A q \in Requests : cause[q] = "client" \/ ended[q] = "client" => q \in gone
    BY <1>9 DEF CauseInv
  <2>2. \A q \in Requests : status[q] = "serving" /\ cause[q] = "none" /\ requestDone(q) => q \in gone
    BY <1>9 DEF CauseInv, requestDone
  <2>3. CASE Handling(r) \/ Depart(r) \/ Schedule(r)
    BY <1>4, <2>1, <2>3 DEF Handling, Depart, Schedule, requests
  <2>4. CASE ClientCancels(r)
    BY <1>4, <2>1, <2>2, <2>4 DEF ClientCancels, ServerTypes
  <2>5. CASE FinishPermit(r)
    BY <1>4, <2>1, <2>2, <2>5 DEF FinishPermit, Finish, ServerTypes
  <2> QED
    BY <2>3, <2>4, <2>5
<1>10. ASSUME result.attributed, place = "baseCancel" \/ baseDone
       PROVE  ~open' /\ \A q \in Requests : status'[q] = "serving" => cause'[q] # "none"
  <2>1. ~open /\ settled
    BY <1>10 DEF CauseInv
  <2>2. \A q \in Requests : cause[q] # "none" => cause'[q] # "none"
    BY DEF Handling, Depart, Schedule, ClientCancels, FinishPermit, requests, ServerTypes
  <2> QED
    BY <1>4, <2>1, <2>2
<1>11. CauseInv'
  BY <1>1, <1>9, <1>10 DEF CauseInv
<1> QED
  BY <1>2, <1>3, <1>6, <1>8, <1>11

-----------------------------------------------------------------------------
(* Serve, the callers of Shutdown, and the contexts *)

(* A step that leaves the requests alone keeps the attribution, and an      *)
(* empty scheduler empty.                                                   *)
LEMMA RequestsAlone ==
  ASSUME ServerInv, UNCHANGED <<requests, result, place, baseDone>>
  PROVE  CauseInv' /\ (schedulerDrained => schedulerDrained')
BY DEF ServerInv, CauseInv, schedulerDrained, Held, requests, contract

(* The start of the clean-up is one of its places. *)
LEMMA StartTypes ==
  ASSUME ServerTypes, startShutdown
  PROVE  /\ place' \in Early \cup Forces \cup Late /\ started' \in BOOLEAN
         /\ ctx' \in [{"grace", "force", "final"} -> {"none", "live", "ended"}]
<1>1. CASE started
  BY <1>1 DEF startShutdown, ServerTypes
<1>2. CASE ~started
  BY <1>2 DEF startShutdown, ServerTypes, Early, Graces
<1> QED
  BY <1>1, <1>2

(* The start of the clean-up changes nothing it has to answer for. *)
LEMMA StartStep ==
  ASSUME ServerInv, [Next]_vars, startShutdown,
         UNCHANGED <<requests, baseDone, stopped, inShutdown, broken, closeFails, done,
                     drainStarted, result>>,
         ~listening => ~listening',
         ListenInv', ServerTypes', ToldInv'
  PROVE  ServerInv'
<1> USE DEF ServerInv
<1>1. HandlersInv'
  BY NothingReopens
<1>2. CASE started
  <2>1. UNCHANGED <<started, place, ctx>>
    BY <1>2 DEF startShutdown
  <2>2. PhaseInv' /\ AlarmInv'
    BY <2>1 DEF PhaseInv, AlarmInv
  <2>3. CauseInv' /\ CleanInv'
    BY <2>1, RequestsAlone, StaysClean
  <2> QED
    BY <1>1, <2>2, <2>3
<1>3. CASE ~started
  <2>1. /\ started' = TRUE /\ place' = "drain" /\ place = "none"
        /\ ctx' = [ctx EXCEPT !["grace"] = "live"]
    BY <1>3 DEF startShutdown, PhaseInv
  <2>2. PhaseInv'
    BY <2>1 DEF PhaseInv, ServerTypes, Early, Graces, Forces
  <2>3. AlarmInv'
    BY <2>1 DEF PhaseInv, AlarmInv, ServerTypes, Early
  <2>4. CleanInv'
    BY <2>1 DEF CleanInv, Forces, Late
  <2>5. CauseInv'
    BY <2>1 DEF CauseInv, requests, contract
  <2> QED
    BY <1>1, <2>2, <2>3, <2>4, <2>5
<1> QED
  BY <1>2, <1>3 DEF ServerTypes

(* Serve begins, its listener breaks, or it returns. *)
LEMMA ServeStep ==
  ASSUME ServerInv, [Next]_vars, StartServe \/ ListenerBreaks \/ ServeReturns
  PROVE  ServerInv'
<1> USE DEF ServerInv
<1>1. CASE StartServe \/ ListenerBreaks
  <2>1. /\ UNCHANGED <<requests, baseDone, stopped, inShutdown, listening, closeFails, started,
                       done, place, drainStarted, ctx, result, caller>>
    BY <1>1 DEF StartServe, ListenerBreaks, cleanup, callers
  <2>2. ServerTypes'
    <3>1. /\ serve' \in {"start", "serving", "nil", "failed"}
          /\ broken' \in BOOLEAN
      BY <1>1 DEF StartServe, ListenerBreaks, ServerTypes
    <3> QED
      BY <2>1, <3>1 DEF ServerTypes, requests, contract
  <2>3. PhaseInv' /\ AlarmInv' /\ ToldInv'
    BY <2>1 DEF PhaseInv, AlarmInv, ToldInv
  <2>4. ListenInv'
    BY <1>1, <2>1 DEF StartServe, ListenerBreaks, ListenInv, ServerTypes
  <2>5. CauseInv' /\ CleanInv'
    BY <2>1, RequestsAlone, StaysClean
  <2> QED
    BY <2>2, <2>3, <2>4, <2>5, NothingReopens
<1>2. CASE ServeReturns
  <2>1. /\ UNCHANGED <<requests, baseDone, stopped, inShutdown, broken, closeFails, done,
                       drainStarted, result, caller>>
        /\ listening' = FALSE
    BY <1>2 DEF ServeReturns, callers
  <2>2. startShutdown
    BY <1>2 DEF ServeReturns, startShutdown
  <2>3. ServerTypes'
    <3>1. serve' \in {"nil", "failed"}
      BY <1>2 DEF ServeReturns
    <3>2. /\ started' \in BOOLEAN /\ place' \in Early \cup Forces \cup Late
          /\ ctx' \in [{"grace", "force", "final"} -> {"none", "live", "ended"}]
      <4>1. CASE started
        BY <2>2, <4>1 DEF startShutdown, ServerTypes
      <4>2. CASE ~started
        BY <2>2, <4>2 DEF startShutdown, ServerTypes, Early, Graces
      <4> QED
        BY <4>1, <4>2
    <3> QED
      BY <2>1, <3>1, <3>2 DEF ServerTypes, requests, contract
  <2>4. /\ serve' \in {"nil", "failed"}
        /\ serve' = "failed" => broken
        /\ inShutdown' => started'
    BY <1>2, <2>1 DEF ServeReturns, startShutdown, ListenInv, ServerTypes
  <2>5. place' = place \/ place' = "drain"
    BY <2>2 DEF startShutdown
  <2>6. ListenInv'
    BY <2>1, <2>4, <2>5 DEF ListenInv, Graces
  <2>7. ToldInv'
    BY <2>1 DEF ToldInv
  <2> QED
    BY <2>1, <2>2, <2>3, <2>6, <2>7, StartStep
<1> QED
  BY <1>1, <1>2

(* A caller of Shutdown starts the clean-up, gives up, or is told. *)
LEMMA CallerStep ==
  ASSUME ServerInv, [Next]_vars, NEW p \in Callers,
         CallShutdown(p) \/ CallerReturns(p) \/ CallerGivesUp(p)
  PROVE  ServerInv'
<1> USE DEF ServerInv
<1>1. UNCHANGED <<requests, baseDone, stopped, serve, inShutdown, listening, broken, closeFails,
                  done, drainStarted, result>>
  BY DEF CallShutdown, CallerReturns, CallerGivesUp, Waiting, http, cleanup
<1>2. /\ \A q \in Callers : caller'[q] = "ok" => caller[q] = "ok" \/ (done /\ result.complete)
      /\ caller' \in [Callers -> {"start", "waiting", "ok", "incomplete", "context"}]
  BY DEF CallShutdown, CallerReturns, CallerGivesUp, Told, verdict, ServerTypes
<1>3. ToldInv'
  BY <1>1, <1>2 DEF ToldInv
<1>4. CASE startShutdown
  <2>1. ServerTypes'
    BY <1>1, <1>2, <1>4, StartTypes DEF ServerTypes, requests, contract
  <2>2. ListenInv'
    BY <1>1, <1>4 DEF startShutdown, ListenInv, Graces
  <2> QED
    BY <1>1, <1>3, <1>4, <2>1, <2>2, StartStep
<1>5. CASE UNCHANGED <<started, place, ctx>>
  <2>1. ServerTypes'
    BY <1>1, <1>2, <1>5 DEF ServerTypes, requests, contract
  <2>2. PhaseInv' /\ AlarmInv' /\ ListenInv'
    BY <1>1, <1>5 DEF PhaseInv, AlarmInv, ListenInv
  <2>3. CauseInv' /\ CleanInv'
    BY <1>1, <1>5, RequestsAlone, StaysClean
  <2> QED
    BY <1>3, <2>1, <2>2, <2>3, NothingReopens
<1> QED
  BY <1>4, <1>5 DEF CallShutdown, CallerReturns, CallerGivesUp, cleanup

(* A deadline passes. *)
LEMMA DeadlineStep ==
  ASSUME ServerInv, [Next]_vars, NEW k \in DOMAIN ctx, CtxEnds(k)
  PROVE  ServerInv'
<1> USE DEF ServerInv
<1>1. /\ UNCHANGED <<requests, baseDone, stopped, serve, inShutdown, listening, broken, closeFails,
                     started, done, place, drainStarted, result, caller>>
      /\ k \in {"grace", "force", "final"} /\ ctx[k] = "live"
      /\ ctx' = [ctx EXCEPT ![k] = "ended"]
  BY DEF CtxEnds, KeepRequests, KeepHTTP, http, callers, ServerTypes
<1>2. ServerTypes'
  BY <1>1 DEF ServerTypes, requests, contract
<1>3. ListenInv' /\ ToldInv'
  BY <1>1 DEF ListenInv, ToldInv
<1>4. PhaseInv' /\ AlarmInv'
  BY <1>1 DEF PhaseInv, AlarmInv, ServerTypes
<1>5. CauseInv' /\ CleanInv'
  BY <1>1, RequestsAlone, StaysClean
<1> QED
  BY <1>2, <1>3, <1>4, <1>5, NothingReopens

-----------------------------------------------------------------------------
(* The clean-up *)

(* What no step of runShutdown touches, and which way the others go *)
LEMMA CleanUpFrame ==
  ASSUME ServerInv, runShutdown
  PROVE  /\ UNCHANGED <<caller, serve, broken, closeFails, started, gone, ended>>
         /\ ToldInv'
         /\ started /\ place # "over" /\ place # "none"
         /\ ~listening => ~listening'
         /\ inShutdown => inShutdown'
<1>1. /\ UNCHANGED <<caller, serve, broken, closeFails, started, gone, ended>>
      /\ place # "over" /\ place # "none"
      /\ ~listening => ~listening'
      /\ inShutdown => inShutdown'
  <2>1. place # "over" /\ place # "none"
    BY DEF runShutdown, GraceDrain, HTTPShutdown, HTTPWait, GraceCloseListener, GraceSeal,
         GraceWaits, Graceful, FinalClose, ForceSeal, ForceDrain, ForceCancel, BaseCancel, HTTPClose,
         ForceCloseListener, ForceHandlers, ForceDrained, Publish, At
  <2>2. CASE HTTPShutdown \/ GraceCloseListener \/ HTTPClose \/ ForceCloseListener
    <3>1. /\ UNCHANGED <<caller, serve, broken, closeFails, started, gone, ended>>
          /\ listening' = FALSE \/ listening' = (listening /\ serve # "serving")
          /\ inShutdown' = TRUE \/ inShutdown' = inShutdown
      BY <2>2 DEF HTTPShutdown, GraceCloseListener, HTTPClose, ForceCloseListener,
           KeepRequests, Goto, GotoAfter, GiveUpGrace, callers, requests
    <3>2. ~listening => ~listening'
      BY <3>1, Zenon
    <3>3. inShutdown => inShutdown'
      BY <3>1, Zenon
    <3> QED
      BY <2>1, <3>1, <3>2, <3>3, Zenon
  <2>3. CASE ~(HTTPShutdown \/ GraceCloseListener \/ HTTPClose \/ ForceCloseListener)
    <3>1. UNCHANGED <<caller, serve, broken, closeFails, started, gone, ended, listening, inShutdown>>
      BY <2>3 DEF runShutdown, GraceDrain, HTTPShutdown, HTTPWait, GraceCloseListener, GraceSeal,
         GraceWaits, Graceful, FinalClose, ForceSeal, ForceDrain, ForceCancel, BaseCancel, HTTPClose,
         ForceCloseListener, ForceHandlers, ForceDrained, Publish,
           KeepRequests, KeepHTTP, Goto, GotoAfter, GiveUpGrace, http, callers, requests
    <3> QED
      BY <2>1, <3>1
  <2> QED
    BY <2>2, <2>3
<1>2. started /\ ~done
  BY <1>1 DEF ServerInv, PhaseInv, ServerTypes
<1>3. ToldInv'
  BY <1>1, <1>2 DEF ServerInv, ToldInv
<1> QED
  BY <1>1, <1>2, <1>3

(* A failed step of the forced phase makes the result incomplete. *)
LEMMA AfterResult ==
  ASSUME ServerTypes, NEW ok \in BOOLEAN, NEW p, GotoAfter(p, ok)
  PROVE  /\ result' \in Results
         /\ place' = p /\ UNCHANGED <<started, done, drainStarted, ctx>>
<1>1. result.complete \in BOOLEAN /\ (result.complete /\ ok) \in BOOLEAN
  BY DEF ServerTypes, Results
<1> DEFINE c == result.complete /\ ok
<1>2. c \in BOOLEAN /\ result' = [result EXCEPT !.complete = c]
  BY <1>1 DEF GotoAfter
<1> HIDE DEF c
<1>3. result' \in Results
  BY <1>2 DEF ServerTypes, Results
<1> QED
  BY <1>3 DEF GotoAfter

(* Steps that leave the requests and the handlers alone *)
LEMMA WaitSteps ==
  ASSUME ServerInv, [Next]_vars, runShutdown,
         \/ HTTPWait \/ GraceWaits \/ ForceHandlers \/ ForceDrained \/ Publish \/ FinalClose
         \/ HTTPShutdown \/ GraceCloseListener \/ HTTPClose \/ ForceCloseListener \/ BaseCancel
  PROVE  ServerInv'
<1> USE DEF ServerInv
<1>1. /\ UNCHANGED <<caller, serve, broken, closeFails, started, gone, ended>>
      /\ ToldInv' /\ started /\ place # "over"
      /\ ~listening => ~listening'
      /\ inShutdown => inShutdown'
      /\ HandlersInv'
      /\ ~accepting => ~accepting'
      /\ closes > 0 => closes' > 0
  BY CleanUpFrame, NothingReopens
<1>2. UNCHANGED <<tracked, requests>>
  BY DEF HTTPWait, GraceWaits, ForceHandlers, ForceDrained, Publish, FinalClose, HTTPShutdown,
       GraceCloseListener, HTTPClose, ForceCloseListener, BaseCancel, KeepRequests
<1>3. /\ UNCHANGED <<status, open, cause, closes, accepting>>
      /\ schedulerDrained' = schedulerDrained
  BY <1>2 DEF requests, contract, tracked, schedulerDrained, Held
<1>4. closes > 0 => ~accepting
  BY DEF HandlersInv, HandlersExact
<1>5. CASE HTTPWait
  <2>1. ServerTypes'
    BY <1>1, <1>3, <1>5 DEF HTTPWait, At, Goto, GotoAfter, GiveUpGrace, KeepRequests, KeepHTTP, http, ServerTypes,
         Early, Graces, Forces, Late, Results
  <2>2. PhaseInv'
    BY <1>1, <1>5 DEF HTTPWait, At, Goto, GotoAfter, GiveUpGrace, KeepRequests, KeepHTTP, http, ServerTypes, Results,
         PhaseInv, Early, Graces, Forces
  <2>3. AlarmInv'
    BY <1>1, <1>5 DEF HTTPWait, At, Goto, GotoAfter, GiveUpGrace, KeepRequests, KeepHTTP, http, ServerTypes, Results,
         PhaseInv, AlarmInv, Forces
  <2>4. ListenInv'
    BY <1>1, <1>5 DEF HTTPWait, At, Goto, GotoAfter, GiveUpGrace, KeepRequests, KeepHTTP, http, ListenInv, Graces
  <2>5. CleanInv'
    BY <1>1, <1>3, <1>4, <1>5 DEF HTTPWait, At, Goto, GotoAfter, GiveUpGrace, KeepRequests, KeepHTTP, http, ServerTypes, Results, CleanInv,
         Forces, Late
  <2>6. CauseInv'
    BY <1>1, <1>3, <1>5 DEF HTTPWait, At, Goto, GotoAfter, GiveUpGrace, KeepRequests, KeepHTTP, http, ServerTypes, Results,
         CauseInv, CleanInv, Late
  <2> QED
    BY <1>1, <2>1, <2>2, <2>3, <2>4, <2>5, <2>6
<1>6. CASE GraceWaits
  <2>1. ServerTypes'
    BY <1>1, <1>3, <1>6 DEF GraceWaits, At, Goto, GotoAfter, GiveUpGrace, KeepRequests, KeepHTTP, http, wait, ServerTypes,
         Early, Graces, Forces, Late, Results
  <2>2. PhaseInv'
    BY <1>1, <1>6 DEF GraceWaits, At, Goto, GotoAfter, GiveUpGrace, KeepRequests, KeepHTTP, http, wait, ServerTypes, Results,
         PhaseInv, Early, Graces, Forces
  <2>3. AlarmInv'
    BY <1>1, <1>6 DEF GraceWaits, At, Goto, GotoAfter, GiveUpGrace, KeepRequests, KeepHTTP, http, wait, ServerTypes, Results,
         PhaseInv, AlarmInv, Forces
  <2>4. ListenInv'
    BY <1>1, <1>6 DEF GraceWaits, At, Goto, GotoAfter, GiveUpGrace, KeepRequests, KeepHTTP, http, wait, ListenInv, Graces
  <2>5. CleanInv'
    BY <1>1, <1>3, <1>4, <1>6 DEF GraceWaits, At, Goto, GotoAfter, GiveUpGrace, KeepRequests, KeepHTTP, http, wait, ServerTypes, Results, CleanInv,
         Forces, Late
  <2>6. CauseInv'
    BY <1>1, <1>3, <1>6 DEF GraceWaits, At, Goto, GotoAfter, GiveUpGrace, KeepRequests, KeepHTTP, http, wait, ServerTypes, Results,
         CauseInv, CleanInv, Late
  <2> QED
    BY <1>1, <2>1, <2>2, <2>3, <2>4, <2>5, <2>6
<1>7. CASE ForceHandlers
  <2>1. ServerTypes'
    <3>1. /\ UNCHANGED <<stopped, listening, inShutdown, baseDone>>
          /\ GotoAfter("forceDrained", closes > 0)
      BY <1>7 DEF ForceHandlers, KeepRequests, KeepHTTP, http
    <3>2. result' \in Results /\ place' = "forceDrained" /\ UNCHANGED <<started, done, drainStarted, ctx>>
      <4>1. (closes > 0) \in BOOLEAN
        OBVIOUS
      <4> QED
        BY <3>1, <4>1, AfterResult, Zenon
    <3> QED
      BY <1>1, <1>3, <3>1, <3>2 DEF ServerTypes, Forces
  <2>2. PhaseInv'
    BY <1>1, <1>7 DEF ForceHandlers, At, Goto, GotoAfter, GiveUpGrace, KeepRequests, KeepHTTP, http, wait, ServerTypes, Results,
         PhaseInv, Early, Graces, Forces
  <2>3. AlarmInv'
    BY <1>1, <1>7 DEF ForceHandlers, At, Goto, GotoAfter, GiveUpGrace, KeepRequests, KeepHTTP, http, wait, ServerTypes, Results,
         PhaseInv, AlarmInv, Forces
  <2>4. ListenInv'
    BY <1>1, <1>7 DEF ForceHandlers, At, Goto, GotoAfter, GiveUpGrace, KeepRequests, KeepHTTP, http, wait, ListenInv, Graces
  <2>5. CleanInv'
    BY <1>1, <1>3, <1>4, <1>7 DEF ForceHandlers, At, Goto, GotoAfter, GiveUpGrace, KeepRequests, KeepHTTP, http, wait, ServerTypes, Results, CleanInv,
         Forces, Late
  <2>6. CauseInv'
    BY <1>1, <1>3, <1>7 DEF ForceHandlers, At, Goto, GotoAfter, GiveUpGrace, KeepRequests, KeepHTTP, http, wait, ServerTypes, Results,
         CauseInv, CleanInv, Late
  <2> QED
    BY <1>1, <2>1, <2>2, <2>3, <2>4, <2>5, <2>6
<1>8. CASE ForceDrained
  <2>1. ServerTypes'
    <3>1. UNCHANGED <<stopped, listening, inShutdown, baseDone>>
      BY <1>8 DEF ForceDrained, KeepRequests, KeepHTTP, http
    <3>2. CASE schedulerDrained
      BY <1>1, <1>3, <1>8, <3>1, <3>2 DEF ForceDrained, ServerTypes, Late
    <3>3. CASE GotoAfter("end", FALSE)
      <4>1. result' \in Results /\ place' = "end" /\ UNCHANGED <<done, drainStarted, ctx>>
        BY <1>1, <3>3, AfterResult
      <4> QED
        BY <1>1, <1>3, <3>1, <4>1 DEF ServerTypes, Late
    <3> QED
      BY <1>8, <3>2, <3>3 DEF ForceDrained
  <2>2. PhaseInv'
    BY <1>1, <1>8 DEF ForceDrained, At, Goto, GotoAfter, GiveUpGrace, KeepRequests, KeepHTTP, http, wait, ServerTypes, Results,
         PhaseInv, Early, Graces, Forces
  <2>3. AlarmInv'
    BY <1>1, <1>8 DEF ForceDrained, At, Goto, GotoAfter, GiveUpGrace, KeepRequests, KeepHTTP, http, wait, ServerTypes, Results,
         PhaseInv, AlarmInv, Forces
  <2>4. ListenInv'
    BY <1>1, <1>8 DEF ForceDrained, At, Goto, GotoAfter, GiveUpGrace, KeepRequests, KeepHTTP, http, wait, ListenInv, Graces
  <2>5. CleanInv'
    BY <1>1, <1>3, <1>4, <1>8 DEF ForceDrained, At, Goto, GotoAfter, GiveUpGrace, KeepRequests, KeepHTTP, http, wait, ServerTypes, Results, CleanInv,
         Forces, Late
  <2>6. CauseInv'
    BY <1>1, <1>3, <1>8 DEF ForceDrained, At, Goto, GotoAfter, GiveUpGrace, KeepRequests, KeepHTTP, http, wait, ServerTypes, Results,
         CauseInv, CleanInv, Late
  <2> QED
    BY <1>1, <2>1, <2>2, <2>3, <2>4, <2>5, <2>6
<1>9. CASE Publish
  <2>1. ServerTypes'
    <3>1. /\ done' = TRUE /\ place' = "over" /\ inShutdown' = inShutdown
          /\ UNCHANGED <<drainStarted, ctx, result, stopped, listening, baseDone>>
      BY <1>9 DEF Publish, KeepRequests, KeepHTTP, http
    <3> QED
      BY <1>1, <1>3, <3>1 DEF ServerTypes, Late
  <2>2. PhaseInv'
    BY <1>1, <1>9 DEF Publish, At, Goto, GotoAfter, GiveUpGrace, KeepRequests, KeepHTTP, http, ServerTypes, Results,
         PhaseInv, Early, Graces, Forces
  <2>3. AlarmInv'
    BY <1>1, <1>9 DEF Publish, At, Goto, GotoAfter, GiveUpGrace, KeepRequests, KeepHTTP, http, ServerTypes, Results,
         PhaseInv, AlarmInv, Forces
  <2>4. ListenInv'
    BY <1>1, <1>9 DEF Publish, At, Goto, GotoAfter, GiveUpGrace, KeepRequests, KeepHTTP, http, ListenInv, Graces
  <2>5. CleanInv'
    BY <1>1, <1>3, <1>4, <1>9 DEF Publish, At, Goto, GotoAfter, GiveUpGrace, KeepRequests, KeepHTTP, http, ServerTypes, Results, CleanInv,
         Forces, Late
  <2>6. CauseInv'
    BY <1>1, <1>3, <1>9 DEF Publish, At, Goto, GotoAfter, GiveUpGrace, KeepRequests, KeepHTTP, http, ServerTypes, Results,
         CauseInv, CleanInv, Late
  <2> QED
    BY <1>1, <2>1, <2>2, <2>3, <2>4, <2>5, <2>6
<1>10. CASE FinalClose
  <2>1. ServerTypes'
    <3>1. /\ UNCHANGED <<listening, inShutdown, baseDone>>
          /\ stopped' = (ctx["final"] = "live") /\ GotoAfter("end", ctx["final"] = "live")
      BY <1>10 DEF FinalClose, KeepHTTP, http
    <3>2. stopped' \in BOOLEAN
      BY <3>1
    <3>3. result' \in Results /\ place' = "end" /\ UNCHANGED <<done, drainStarted, ctx>>
      BY <1>1, <3>1, AfterResult
    <3> QED
      BY <1>1, <1>3, <3>1, <3>2, <3>3 DEF ServerTypes, Late
  <2>2. PhaseInv'
    BY <1>1, <1>10 DEF FinalClose, At, Goto, GotoAfter, GiveUpGrace, KeepRequests, KeepHTTP, http, ServerTypes, Results,
         PhaseInv, Early, Graces, Forces
  <2>3. AlarmInv'
    BY <1>1, <1>10 DEF FinalClose, At, Goto, GotoAfter, GiveUpGrace, KeepRequests, KeepHTTP, http, ServerTypes, Results,
         PhaseInv, AlarmInv, Forces
  <2>4. ListenInv'
    BY <1>1, <1>10 DEF FinalClose, At, Goto, GotoAfter, GiveUpGrace, KeepRequests, KeepHTTP, http, ListenInv, Graces
  <2>5. CleanInv'
    BY <1>1, <1>3, <1>4, <1>10 DEF FinalClose, At, Goto, GotoAfter, GiveUpGrace, KeepRequests, KeepHTTP, http, ServerTypes, Results, CleanInv,
         Forces, Late
  <2>6. CauseInv'
    BY <1>1, <1>3, <1>10 DEF FinalClose, At, Goto, GotoAfter, GiveUpGrace, KeepRequests, KeepHTTP, http, ServerTypes, Results,
         CauseInv, CleanInv, Late
  <2> QED
    BY <1>1, <2>1, <2>2, <2>3, <2>4, <2>5, <2>6
<1>11. CASE HTTPShutdown
  <2>1. ServerTypes'
    <3>1. /\ UNCHANGED <<done, drainStarted, stopped, baseDone, ctx, result>>
          /\ place' \in Graces /\ inShutdown' = TRUE
          /\ listening' = (listening /\ serve # "serving")
      BY <1>11 DEF HTTPShutdown, Goto, KeepRequests, Graces
    <3>2. listening' \in BOOLEAN
      BY <3>1
    <3> QED
      BY <1>1, <1>3, <3>1, <3>2 DEF ServerTypes, Early
  <2>2. PhaseInv'
    BY <1>1, <1>11 DEF HTTPShutdown, At, Goto, GotoAfter, GiveUpGrace, KeepRequests, KeepHTTP, http, cleanCloseError, ServerTypes, Results,
         PhaseInv, Early, Graces, Forces
  <2>3. AlarmInv'
    BY <1>1, <1>11 DEF HTTPShutdown, At, Goto, GotoAfter, GiveUpGrace, KeepRequests, KeepHTTP, http, cleanCloseError, ServerTypes, Results,
         PhaseInv, AlarmInv, Forces
  <2>4. ListenInv'
    BY <1>1, <1>11 DEF HTTPShutdown, At, Goto, GotoAfter, GiveUpGrace, KeepRequests, KeepHTTP, http, cleanCloseError, ListenInv, Graces
  <2>5. CleanInv'
    BY <1>1, <1>3, <1>4, <1>11 DEF HTTPShutdown, At, Goto, GotoAfter, GiveUpGrace, KeepRequests, KeepHTTP, http, cleanCloseError, ServerTypes, Results, CleanInv,
         Forces, Late
  <2>6. CauseInv'
    BY <1>1, <1>3, <1>11 DEF HTTPShutdown, At, Goto, GotoAfter, GiveUpGrace, KeepRequests, KeepHTTP, http, cleanCloseError, ServerTypes, Results,
         CauseInv, CleanInv, Late
  <2> QED
    BY <1>1, <2>1, <2>2, <2>3, <2>4, <2>5, <2>6
<1>12. CASE GraceCloseListener
  <2>1. ServerTypes'
    <3>1. /\ UNCHANGED <<done, drainStarted, ctx, result, stopped, baseDone, inShutdown>>
          /\ listening' = FALSE /\ place' \in Early
      BY <1>12 DEF GraceCloseListener, Goto, GiveUpGrace, KeepRequests, Early, Graces
    <3> QED
      BY <1>1, <1>3, <3>1 DEF ServerTypes
  <2>2. PhaseInv'
    BY <1>1, <1>12 DEF GraceCloseListener, At, Goto, GotoAfter, GiveUpGrace, KeepRequests, KeepHTTP, http, cleanCloseError, ServerTypes, Results,
         PhaseInv, Early, Graces, Forces
  <2>3. AlarmInv'
    BY <1>1, <1>12 DEF GraceCloseListener, At, Goto, GotoAfter, GiveUpGrace, KeepRequests, KeepHTTP, http, cleanCloseError, ServerTypes, Results,
         PhaseInv, AlarmInv, Forces
  <2>4. ListenInv'
    BY <1>1, <1>12 DEF GraceCloseListener, At, Goto, GotoAfter, GiveUpGrace, KeepRequests, KeepHTTP, http, cleanCloseError, ListenInv, Graces
  <2>5. CleanInv'
    BY <1>1, <1>3, <1>4, <1>12 DEF GraceCloseListener, At, Goto, GotoAfter, GiveUpGrace, KeepRequests, KeepHTTP, http, cleanCloseError, ServerTypes, Results, CleanInv,
         Forces, Late
  <2>6. CauseInv'
    BY <1>1, <1>3, <1>12 DEF GraceCloseListener, At, Goto, GotoAfter, GiveUpGrace, KeepRequests, KeepHTTP, http, cleanCloseError, ServerTypes, Results,
         CauseInv, CleanInv, Late
  <2> QED
    BY <1>1, <2>1, <2>2, <2>3, <2>4, <2>5, <2>6
<1>13. CASE HTTPClose
  <2>1. ServerTypes'
    <3>1. /\ UNCHANGED <<stopped, baseDone>> /\ inShutdown' = TRUE
          /\ listening' = (listening /\ serve # "serving")
          /\ GotoAfter("forceListener", serve = "serving" => cleanCloseError)
      BY <1>13 DEF HTTPClose, KeepRequests
    <3>2. listening' \in BOOLEAN
      BY <3>1
    <3>3. result' \in Results /\ place' = "forceListener" /\ UNCHANGED <<done, drainStarted, ctx>>
      BY <1>1, <3>1, AfterResult
    <3> QED
      BY <1>1, <1>3, <3>1, <3>2, <3>3 DEF ServerTypes, Forces
  <2>2. PhaseInv'
    BY <1>1, <1>13 DEF HTTPClose, At, Goto, GotoAfter, GiveUpGrace, KeepRequests, KeepHTTP, http, cleanCloseError, ServerTypes, Results,
         PhaseInv, Early, Graces, Forces
  <2>3. AlarmInv'
    BY <1>1, <1>13 DEF HTTPClose, At, Goto, GotoAfter, GiveUpGrace, KeepRequests, KeepHTTP, http, cleanCloseError, ServerTypes, Results,
         PhaseInv, AlarmInv, Forces
  <2>4. ListenInv'
    BY <1>1, <1>13 DEF HTTPClose, At, Goto, GotoAfter, GiveUpGrace, KeepRequests, KeepHTTP, http, cleanCloseError, ListenInv, Graces
  <2>5. CleanInv'
    BY <1>1, <1>3, <1>4, <1>13 DEF HTTPClose, At, Goto, GotoAfter, GiveUpGrace, KeepRequests, KeepHTTP, http, cleanCloseError, ServerTypes, Results, CleanInv,
         Forces, Late
  <2>6. CauseInv'
    BY <1>1, <1>3, <1>13 DEF HTTPClose, At, Goto, GotoAfter, GiveUpGrace, KeepRequests, KeepHTTP, http, cleanCloseError, ServerTypes, Results,
         CauseInv, CleanInv, Late
  <2> QED
    BY <1>1, <2>1, <2>2, <2>3, <2>4, <2>5, <2>6
<1>14. CASE ForceCloseListener
  <2>1. ServerTypes'
    <3>1. /\ UNCHANGED <<stopped, baseDone, inShutdown>> /\ listening' = FALSE
          /\ GotoAfter("forceHandlers", cleanCloseError)
      BY <1>14 DEF ForceCloseListener, KeepRequests
    <3>2. cleanCloseError \in BOOLEAN
      BY DEF cleanCloseError
    <3>3. result' \in Results /\ place' = "forceHandlers" /\ UNCHANGED <<done, drainStarted, ctx>>
      BY <1>1, <3>1, <3>2, AfterResult
    <3> QED
      BY <1>1, <1>3, <3>1, <3>2, <3>3 DEF ServerTypes, Forces
  <2>2. PhaseInv'
    BY <1>1, <1>14 DEF ForceCloseListener, At, Goto, GotoAfter, GiveUpGrace, KeepRequests, KeepHTTP, http, cleanCloseError, ServerTypes, Results,
         PhaseInv, Early, Graces, Forces
  <2>3. AlarmInv'
    BY <1>1, <1>14 DEF ForceCloseListener, At, Goto, GotoAfter, GiveUpGrace, KeepRequests, KeepHTTP, http, cleanCloseError, ServerTypes, Results,
         PhaseInv, AlarmInv, Forces
  <2>4. ListenInv'
    BY <1>1, <1>14 DEF ForceCloseListener, At, Goto, GotoAfter, GiveUpGrace, KeepRequests, KeepHTTP, http, cleanCloseError, ListenInv, Graces
  <2>5. CleanInv'
    BY <1>1, <1>3, <1>4, <1>14 DEF ForceCloseListener, At, Goto, GotoAfter, GiveUpGrace, KeepRequests, KeepHTTP, http, cleanCloseError, ServerTypes, Results, CleanInv,
         Forces, Late
  <2>6. CauseInv'
    BY <1>1, <1>3, <1>14 DEF ForceCloseListener, At, Goto, GotoAfter, GiveUpGrace, KeepRequests, KeepHTTP, http, cleanCloseError, ServerTypes, Results,
         CauseInv, CleanInv, Late
  <2> QED
    BY <1>1, <2>1, <2>2, <2>3, <2>4, <2>5, <2>6
<1>15. CASE BaseCancel
  <2>1. ServerTypes'
    <3>1. /\ baseDone' = TRUE /\ place' = "httpClose" /\ inShutdown' = inShutdown
          /\ UNCHANGED <<done, drainStarted, ctx, result, stopped, listening>>
      BY <1>15 DEF BaseCancel, Goto, KeepHTTP, http
    <3> QED
      BY <1>1, <1>3, <3>1 DEF ServerTypes, Forces
  <2>2. PhaseInv'
    BY <1>1, <1>15 DEF BaseCancel, At, Goto, GotoAfter, GiveUpGrace, KeepRequests, KeepHTTP, http, ServerTypes, Results,
         PhaseInv, Early, Graces, Forces
  <2>3. AlarmInv'
    BY <1>1, <1>15 DEF BaseCancel, At, Goto, GotoAfter, GiveUpGrace, KeepRequests, KeepHTTP, http, ServerTypes, Results,
         PhaseInv, AlarmInv, Forces
  <2>4. ListenInv'
    BY <1>1, <1>15 DEF BaseCancel, At, Goto, GotoAfter, GiveUpGrace, KeepRequests, KeepHTTP, http, ListenInv, Graces
  <2>5. CleanInv'
    BY <1>1, <1>3, <1>4, <1>15 DEF BaseCancel, At, Goto, GotoAfter, GiveUpGrace, KeepRequests, KeepHTTP, http, ServerTypes, Results, CleanInv,
         Forces, Late
  <2>6. CauseInv'
    BY <1>1, <1>3, <1>15 DEF BaseCancel, At, Goto, GotoAfter, GiveUpGrace, KeepRequests, KeepHTTP, http, ServerTypes, Results,
         CauseInv, CleanInv, Late
  <2> QED
    BY <1>1, <2>1, <2>2, <2>3, <2>4, <2>5, <2>6
<1> QED
  BY <1>5, <1>6, <1>7, <1>8, <1>9, <1>10, <1>11, <1>12, <1>13, <1>14, <1>15

(* Steps that seal the entrance and leave the requests alone *)
LEMMA SealSteps ==
  ASSUME ServerInv, [Next]_vars, runShutdown, GraceSeal \/ Graceful \/ ForceSeal
  PROVE  ServerInv'
<1> USE DEF ServerInv
<1>1. /\ UNCHANGED <<caller, serve, broken, closeFails, started, gone, ended>>
      /\ ToldInv' /\ started /\ place # "over"
      /\ HandlersInv'
      /\ closes > 0 => closes' > 0
  BY CleanUpFrame, NothingReopens
<1>2. /\ UNCHANGED <<requests, listening, inShutdown, stopped, done, drainStarted>>
      /\ accepting' = FALSE
  BY DEF GraceSeal, Graceful, ForceSeal, Seal, KeepHTTP, http, Goto
<1>3. /\ UNCHANGED <<status, open, cause>> /\ schedulerDrained' = schedulerDrained
  BY <1>2 DEF requests, contract, schedulerDrained, Held
<1>4. CASE GraceSeal
  <2>1. /\ place = "seal" /\ place' = "waitHandlers" /\ UNCHANGED <<ctx, result, baseDone>>
    BY <1>4 DEF GraceSeal, Goto, At
  <2>2. ServerTypes'
    BY <1>1, <1>2, <1>3, <2>1 DEF ServerTypes, Early, Graces
  <2>3. PhaseInv'
    BY <1>1, <1>2, <2>1 DEF PhaseInv, Early, Graces, Forces
  <2>4. AlarmInv' /\ ListenInv'
    BY <1>1, <1>2, <2>1 DEF AlarmInv, ListenInv, Graces
  <2>5. CleanInv'
    BY <1>2, <1>3, <2>1 DEF CleanInv, Late
  <2>6. CauseInv'
    BY <1>1, <1>3, <2>1 DEF CauseInv
  <2> QED
    BY <1>1, <2>2, <2>3, <2>4, <2>5, <2>6
<1>5. CASE Graceful
  <2>1. /\ place = "graceful" /\ place' = "close" /\ UNCHANGED result /\ baseDone' = TRUE
        /\ ctx' = [ctx EXCEPT !["final"] = "live"]
    BY <1>5 DEF Graceful, At
  <2>2. ServerTypes'
    BY <1>1, <1>2, <1>3, <2>1 DEF ServerTypes, Late
  <2>3. PhaseInv'
    BY <1>1, <1>2, <2>1 DEF PhaseInv, ServerTypes, Early, Graces, Forces
  <2>4. AlarmInv' /\ ListenInv'
    BY <1>1, <1>2, <2>1 DEF PhaseInv, AlarmInv, ListenInv, ServerTypes, Early, Graces
  <2>5. CleanInv'
    BY <1>1, <1>2, <1>3, <2>1 DEF CleanInv, Late
  <2>6. CauseInv'
    BY <1>1, <1>3, <2>1 DEF CauseInv, CleanInv, schedulerDrained, Held
  <2> QED
    BY <1>1, <2>2, <2>3, <2>4, <2>5, <2>6
<1>6. CASE ForceSeal
  <2>1. /\ place = "force" /\ place' \in {"forceCancel", "forceDrain"} /\ UNCHANGED baseDone
        /\ ctx' = [ctx EXCEPT !["force"] = "live"] /\ result' = [result EXCEPT !.forced = TRUE]
    BY <1>6 DEF ForceSeal, At
  <2>2. /\ result' \in Results /\ result'.forced
        /\ result'.complete = result.complete /\ result'.attributed = result.attributed
    BY <2>1 DEF ServerTypes, Results
  <2>3. ServerTypes'
    BY <1>1, <1>2, <1>3, <2>1, <2>2 DEF ServerTypes, Forces
  <2>4. PhaseInv'
    BY <1>1, <1>2, <2>1, <2>2 DEF PhaseInv, ServerTypes, Early, Graces, Forces
  <2>5. AlarmInv' /\ ListenInv'
    BY <1>1, <1>2, <2>1, <2>2 DEF PhaseInv, AlarmInv, ListenInv, ServerTypes, Early, Graces
  <2>6. CleanInv'
    BY <1>1, <1>2, <1>3, <2>1, <2>2 DEF CleanInv, Forces, Late
  <2>7. CauseInv'
    BY <1>1, <1>3, <2>1, <2>2 DEF CauseInv
  <2> QED
    BY <1>1, <2>3, <2>4, <2>5, <2>6, <2>7
<1> QED
  BY <1>4, <1>5, <1>6

(* The scheduler's drain leaves nobody waiting and changes no permit. *)
LEMMA DrainFacts ==
  ASSUME ServerTypes, drain
  PROVE  /\ open' = FALSE
         /\ status' \in [Requests -> {"outside", "waiting", "serving", "finished", "turnedAway"}]
         /\ \A r \in Requests : status'[r] = "serving" <=> status[r] = "serving"
         /\ schedulerDrained => schedulerDrained'
BY DEF drain, ServerTypes, schedulerDrained, Held

(* Steps that shut admission: the drain of either phase, and the forced     *)
(* cancellation, after which the cause of every permit is settled.          *)
LEMMA DrainSteps ==
  ASSUME ServerInv, [Next]_vars, runShutdown, GraceDrain \/ ForceDrain \/ ForceCancel
  PROVE  ServerInv'
<1> USE DEF ServerInv
<1>1. /\ UNCHANGED <<caller, serve, broken, closeFails, started, gone, ended>>
      /\ ToldInv' /\ started /\ place # "over" /\ HandlersInv'
  BY CleanUpFrame, NothingReopens
<1>2. /\ UNCHANGED <<tracked, baseDone, stopped, listening, inShutdown, done>>
      /\ drain \/ UNCHANGED contract
  BY DEF GraceDrain, ForceDrain, ForceCancel, KeepHTTP, http, GiveUpGrace, Goto, GotoAfter
<1>3. /\ status' \in [Requests -> {"outside", "waiting", "serving", "finished", "turnedAway"}]
      /\ open' \in BOOLEAN /\ (~open => ~open')
      /\ \A r \in Requests : status'[r] = "serving" <=> status[r] = "serving"
      /\ schedulerDrained => schedulerDrained'
  <2>1. CASE drain
    BY <2>1, DrainFacts
  <2>2. CASE UNCHANGED contract
    BY <2>2 DEF contract, ServerTypes, schedulerDrained, Held
  <2> QED
    BY <1>2, <2>1, <2>2
<1>4. UNCHANGED <<accepting, closes>>
  BY <1>2 DEF tracked
<1>5. CASE GraceDrain
  <2>1. /\ place = "drain" /\ UNCHANGED <<ctx, result, cause>>
        /\ place' = "httpShutdown" \/ (place' = "force" /\ ctx["grace"] = "ended")
        /\ drainStarted' \in BOOLEAN
    BY <1>5 DEF GraceDrain, GiveUpGrace, Goto, At, ServerTypes
  <2>2. ServerTypes'
    BY <1>1, <1>2, <1>3, <2>1 DEF ServerTypes, Early, Graces
  <2>3. PhaseInv'
    BY <1>1, <1>2, <2>1 DEF PhaseInv, Early, Graces, Forces
  <2>4. AlarmInv' /\ ListenInv'
    BY <1>1, <1>2, <2>1 DEF AlarmInv, ListenInv, Graces
  <2>5. CleanInv'
    BY <1>2, <2>1 DEF CleanInv, Forces, Late
  <2>6. CauseInv'
    BY <1>1, <1>2, <1>3, <2>1 DEF CauseInv
  <2> QED
    BY <1>1, <2>2, <2>3, <2>4, <2>5, <2>6
<1>6. CASE ForceDrain
  <2>1. /\ place = "forceDrain" /\ UNCHANGED cause
        /\ GotoAfter("forceCancel", ctx["force"] = "live")
    BY <1>6 DEF ForceDrain, At
  <2>2. /\ result' \in Results /\ place' = "forceCancel" /\ UNCHANGED <<started, done, drainStarted, ctx>>
    BY <2>1, AfterResult
  <2>3. /\ result'.attributed = result.attributed /\ result'.forced = result.forced
        /\ ~result'.complete => ~result.complete \/ ctx["force"] # "live"
        /\ result'.complete => result.complete
    BY <2>1 DEF GotoAfter, ServerTypes, Results
  <2>4. ServerTypes'
    BY <1>1, <1>2, <1>3, <2>1, <2>2 DEF ServerTypes, Forces
  <2>5. PhaseInv'
    BY <1>1, <1>2, <2>1, <2>2, <2>3 DEF PhaseInv, Early, Graces, Forces
  <2>6. AlarmInv' /\ ListenInv'
    BY <1>1, <1>2, <2>1, <2>2, <2>3 DEF PhaseInv, AlarmInv, ListenInv, ServerTypes, Graces, Forces
  <2>7. CleanInv'
    BY <1>2, <1>4, <2>1, <2>2 DEF CleanInv, Forces, Late
  <2>8. CauseInv'
    BY <1>1, <1>2, <1>3, <2>1, <2>2, <2>3 DEF CauseInv
  <2> QED
    BY <1>1, <2>4, <2>5, <2>6, <2>7, <2>8
<1>7. CASE ForceCancel
  <2>1. /\ place = "forceCancel" /\ place' = "baseCancel" /\ UNCHANGED <<ctx, drainStarted>>
        /\ result' = [result EXCEPT !.complete = @ /\ ctx["force"] = "live",
                                    !.attributed = ctx["force"] = "live"]
    BY <1>7 DEF ForceCancel, At
  <2>2. /\ result'.forced = result.forced
        /\ ~result'.complete => ~result.complete \/ ctx["force"] # "live"
        /\ result'.complete => result.complete
        /\ result'.attributed => ctx["force"] = "live"
    BY <2>1 DEF ServerTypes, Results
  <2>3. result' \in Results
    <3> DEFINE live == ctx["force"] = "live"
               c == result.complete /\ live
    <3>1. /\ live \in BOOLEAN /\ c \in BOOLEAN
          /\ result' = [result EXCEPT !.complete = c, !.attributed = live]
      BY <2>1 DEF ServerTypes, Results
    <3> HIDE DEF live, c
    <3> QED
      BY <3>1 DEF ServerTypes, Results
  <2>4. ~baseDone
    BY <2>1 DEF CleanInv, Late
  <2>5. cause' \in [Requests -> {"none", "client", "shutdown"}]
    BY <1>7 DEF ForceCancel, ServerTypes
  <2>6. ServerTypes'
    BY <1>1, <1>2, <1>3, <2>1, <2>3, <2>5 DEF ServerTypes, Forces
  <2>7. PhaseInv'
    BY <1>1, <1>2, <2>1, <2>2 DEF PhaseInv, Early, Graces, Forces
  <2>8. AlarmInv' /\ ListenInv'
    BY <1>1, <1>2, <2>1, <2>2 DEF PhaseInv, AlarmInv, ListenInv, ServerTypes, Graces, Forces
  <2>9. CleanInv'
    BY <1>2, <1>4, <2>1 DEF CleanInv, Forces, Late
  <2>10. ASSUME ctx["force"] = "live"
         PROVE  /\ ~open'
                /\ \A r \in Requests : status'[r] = "serving" => cause'[r] # "none"
                /\ \A r \in Requests : cause'[r] = "client" \/ ended'[r] = "client" => r \in gone'
    <3>1. /\ drain
          /\ cause' = [r \in Requests |->
                         IF status[r] # "serving" \/ cause[r] # "none" THEN cause[r]
                         ELSE IF requestDone(r) THEN "client" ELSE "shutdown"]
      BY <1>7, <2>10 DEF ForceCancel
    <3>2. ~open'
      BY <3>1, DrainFacts
    <3>3. \A r \in Requests : status'[r] = "serving" => cause'[r] # "none"
      BY <1>3, <3>1
    <3>4. \A r \in Requests : requestDone(r) => r \in gone
      BY <2>4 DEF requestDone
    <3>5. \A r \in Requests : cause[r] = "client" \/ ended[r] = "client" => r \in gone
      BY <2>1 DEF PhaseInv, CauseInv
    <3> QED
      BY <1>1, <3>1, <3>2, <3>3, <3>4, <3>5
  <2>11. CauseInv'
    BY <2>2, <2>10 DEF CauseInv
  <2> QED
    BY <1>1, <2>6, <2>7, <2>8, <2>9, <2>11
<1> QED
  BY <1>5, <1>6, <1>7

-----------------------------------------------------------------------------
(* Every step of the server keeps the invariant. *)
LEMMA ServerStep == ServerInv /\ [Next]_vars => ServerInv'
<1> SUFFICES ASSUME ServerInv, [Next]_vars PROVE ServerInv'
  OBVIOUS
<1>1. CASE UNCHANGED vars
  <2>1. UNCHANGED <<requests, baseDone, stopped, serve, inShutdown, listening, broken, closeFails,
                    started, done, place, drainStarted, ctx, result, caller>>
    BY <1>1 DEF vars, http, cleanup, callers
  <2>2. ServerTypes'
    BY <2>1 DEF ServerInv, ServerTypes, requests, contract
  <2>3. PhaseInv' /\ AlarmInv' /\ ListenInv' /\ ToldInv'
    BY <2>1 DEF ServerInv, PhaseInv, AlarmInv, ListenInv, ToldInv
  <2>4. CauseInv' /\ CleanInv'
    BY <2>1, RequestsAlone, StaysClean
  <2> QED
    BY <2>2, <2>3, <2>4, NothingReopens DEF ServerInv
<1>2. CASE runShutdown
  BY <1>2, WaitSteps, SealSteps, DrainSteps, Zenon DEF runShutdown
<1>3. CASE StartServe \/ ListenerBreaks \/ ServeReturns
  BY <1>3, ServeStep
<1>4. CASE \E k \in DOMAIN ctx : CtxEnds(k)
  BY <1>4, DeadlineStep
<1>5. CASE \E p \in Callers : CallShutdown(p) \/ CallerReturns(p) \/ CallerGivesUp(p)
  BY <1>5, CallerStep
<1>6. CASE \E r \in Requests : Handling(r) \/ Depart(r) \/ Schedule(r) \/ ClientCancels(r)
                                 \/ FinishPermit(r)
  BY <1>6, RequestStep
<1> QED
  BY <1>1, <1>2, <1>3, <1>4, <1>5, <1>6, Zenon DEF Next

(* The inductive invariant of the server's life. *)
THEOREM ServerInvariant == Spec => []ServerInv
BY ServerInit, ServerStep, PTL DEF Spec

(* Success means clean, a forced or incomplete shutdown has a reason, and   *)
(* Serve reports a failure only of a listener that failed by itself.        *)
THEOREM VerdictsAreTrue == Spec => []VerdictsTrue
<1>1. ServerInv => VerdictsTrue
  <2> SUFFICES ASSUME ServerInv PROVE VerdictsTrue
    OBVIOUS
  <2> USE DEF ServerInv
  <2>1. CleanShutdown
    <3> SUFFICES ASSUME (done /\ result.complete) \/ (\E p \in Callers : caller[p] = "ok")
                 PROVE  /\ ~listening /\ ~accepting /\ active = 0
                        /\ schedulerDrained /\ stopped /\ baseDone
      BY DEF CleanShutdown
    <3>1. place = "over" /\ result.complete
      BY DEF ToldInv, PhaseInv
    <3>2. ~listening /\ ~accepting /\ closes > 0 /\ schedulerDrained /\ stopped /\ baseDone
      BY <3>1 DEF CleanInv, Late
    <3>3. active = 0
      BY <3>2 DEF HandlersInv, HandlersExact
    <3> QED
      BY <3>2, <3>3
  <2>2. NoFalseAlarm
    BY DEF NoFalseAlarm, AlarmInv, PhaseInv
  <2>3. serve = "failed" => broken
    BY DEF ListenInv
  <2> QED
    BY <2>1, <2>2, <2>3 DEF VerdictsTrue
<1> QED
  BY <1>1, ServerInvariant, PTL

(* Unless ForceCancelInflight failed, a permit ends as cancelled by its     *)
(* client only if that client really left.                                  *)
THEOREM CancellationIsOwned == Spec => []ShutdownOwnsCancellation
<1>1. ServerInv => ShutdownOwnsCancellation
  BY DEF ServerInv, CauseInv, ShutdownOwnsCancellation
<1> QED
  BY <1>1, ServerInvariant, PTL
=============================================================================
