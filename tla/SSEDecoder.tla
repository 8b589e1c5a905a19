----------------------------- MODULE SSEDecoder ------------------------------
(***************************************************************************)
(* contract.SSEDecoder (internal/contract/sse.go) as operators on a record: *)
(* a strict event stream is cut into lines out of a bufio.Reader over a     *)
(* LimitReader.  A token stands for bytes that no limit or line break       *)
(* separates: a data field with a valid chunk, the field "data: [DONE]",    *)
(* any other text, and the two characters of a line ending.                 *)
(***************************************************************************)
EXTENDS Naturals, Sequences, SequencesExt

CONSTANTS
  MaxTotalBytes, MaxEventBytes, MaxEvents,   \* SSELimits, in tokens
  sseReadBufferBytes

Text == {"chunk", "done", "junk"}
Token == Text \cup {"cr", "lf"}

(* The smallest valid event and stream are three and six tokens long. *)
ValidateSSELimits ==
  /\ MaxEventBytes <= MaxTotalBytes
  /\ MaxEventBytes >= 3 /\ MaxTotalBytes >= 6
  /\ MaxEvents >= 2

ASSUME SSELimitsAssumption ==
  /\ {MaxTotalBytes, MaxEventBytes, MaxEvents, sseReadBufferBytes} \subseteq Nat \ {0}
  /\ ValidateSSELimits

Smallest(a, b) == IF a < b THEN a ELSE b
BufferSize == Smallest(sseReadBufferBytes, MaxEventBytes + 1)

(* Fault: the limit itself looks like the end of the stream. *)
NewSSEDecoderTight ==
  [state |-> "open", left |-> MaxTotalBytes, buffer |-> <<>>, readErr |-> "none",
   raw |-> <<>>, line |-> 0, total |-> 0, events |-> 0, chunks |-> 0]

(* left is what LimitReader still lets through, line the place in raw where *)
(* the line being read starts.                                              *)
NewSSEDecoder ==
  [state |-> "open", left |-> MaxTotalBytes + 1, buffer |-> <<>>, readErr |-> "none",
   raw |-> <<>>, line |-> 0, total |-> 0, events |-> 0, chunks |-> 0]

DecoderType ==
  [state : {"open", "doneReturned", "verified", "failed"}, left : 0..MaxTotalBytes + 1,
   buffer : BoundedSeq(Token, BufferSize), readErr : {"none", "EOF", "failure"},
   raw : BoundedSeq(Token, MaxEventBytes), line : 0..MaxEventBytes, total : 0..MaxTotalBytes,
   events : 0..MaxEvents, chunks : 0..MaxEvents]

-----------------------------------------------------------------------------
(* bufio.Reader.  ReadSlice and ReadByte fill the buffer until they find    *)
(* what they look for, the buffer is full, or a read has failed.            *)

Room(d) == Smallest(BufferSize - Len(d.buffer), d.left)

(* fill: a read brings tokens and an error, which is kept for later. *)
fill(d, tokens, err) ==
  [d EXCEPT !.buffer = @ \o tokens, !.left = @ - Len(tokens), !.readErr = err]

(* LimitReader answers without the stream when nothing may pass. *)
LimitReached(d) == fill(d, <<>>, "EOF")

WantsLine(d) == d.state = "open"
NeedsRead(d) ==
  /\ d.readErr = "none"
  /\ IF WantsLine(d) THEN "lf" \notin ToSet(d.buffer) /\ Len(d.buffer) < BufferSize
                     ELSE d.buffer = <<>>

(* The fragment ReadSlice returns. *)
Fragment(d) ==
  IF "lf" \in ToSet(d.buffer) THEN SubSeq(d.buffer, 1, SelectInSeq(d.buffer, LAMBDA x : x = "lf"))
                              ELSE d.buffer

-----------------------------------------------------------------------------
fail(d) == [d EXCEPT !.state = "failed"]

accountBytes(d, n) == d.total + n <= MaxTotalBytes
accountEvent(d, n) == accountBytes(d, n) /\ Len(d.raw) + n <= MaxEventBytes

(* The line without its ending, which is LF or CRLF. *)
LineContent(d) ==
  LET body == SubSeq(d.raw, d.line + 1, Len(d.raw) - 1) IN
  IF body # <<>> /\ Last(body) = "cr" THEN Front(body) ELSE body

(* The first line is a single data field; anything else fails at once. *)
firstLine(d) ==
  LET content == LineContent(d) IN
  IF "cr" \in ToSet(content) \/ content = <<>> \/ Head(content) \notin {"chunk", "done"}
  THEN fail(d) ELSE [d EXCEPT !.line = Len(d.raw)]

(* Fault: [DONE] may follow anything. *)
validEventLoose(d, payload) == payload \in {<<"chunk">>, <<"done">>}

(* validateSSEChunk, and the order of the terminal event. *)
validEvent(d, payload) ==
  \/ payload = <<"done">> /\ d.chunks > 0
  \/ payload = <<"chunk">>

(* The second line is empty and ends the event.  The event is left in raw.  *)
secondLine(d) ==
  LET field == SubSeq(d.raw, 1, d.line - 1)
      payload == IF Last(field) = "cr" THEN Front(field) ELSE field IN
  IF LineContent(d) # <<>> \/ ~validEvent(d, payload) THEN fail(d)
  ELSE [d EXCEPT !.events = @ + 1,
                 !.chunks = IF payload = <<"chunk">> THEN @ + 1 ELSE @,
                 !.state = IF payload = <<"done">> THEN "doneReturned" ELSE @]

EventReady(d) == d.state # "failed" /\ d.line > 0 /\ Len(d.raw) > d.line /\ Last(d.raw) = "lf"

(* readSSELine, from a ReadSlice that returned to the next one or to the    *)
(* end of the line; ended says whether the context has ended.               *)
readSSELine(d, ended) ==
  LET fragment == Fragment(d)
      taken == [d EXCEPT !.buffer = SubSeq(@, Len(fragment) + 1, Len(@)),
                         !.raw = @ \o fragment, !.total = @ + Len(fragment)] IN
  IF ~accountEvent(d, Len(fragment)) \/ ended THEN fail(d)
  ELSE IF "lf" \in ToSet(fragment)
       THEN IF d.line = 0 THEN firstLine(taken) ELSE secondLine(taken)
       ELSE IF Len(d.buffer) >= BufferSize /\ d.readErr = "none" THEN taken ELSE fail(d)

(* Next begins: an event too many fails before anything is read. *)
beginNext(d, ended) ==
  IF ended \/ d.events >= MaxEvents THEN fail(d)
  ELSE [d EXCEPT !.raw = <<>>, !.line = 0]

(* VerifyEOF, once ReadByte has returned. *)
verifyEOF(d, ended) ==
  IF d.buffer # <<>> \/ ended \/ d.readErr # "EOF" THEN fail(d)
  ELSE [d EXCEPT !.state = "verified"]

-----------------------------------------------------------------------------
(* The reference: what a stream is, event by event. *)
Endings == {<<"lf">>, <<"cr", "lf">>}
EventOf(text) ==
  {e \in {<<text>> \o a \o b : a \in Endings, b \in Endings} : Len(e) <= MaxEventBytes}
ValidStreams ==
  {s \in {FlattenSeq(chunks) \o end :
            chunks \in BoundedSeq(EventOf("chunk"), MaxEvents - 1) \ {<<>>}, end \in EventOf("done")} :
     Len(s) <= MaxTotalBytes}
=============================================================================
