---------------------------- MODULE RelayTheorems ----------------------------
(***************************************************************************)
(* What the client may receive from the relay, proved for every upstream   *)
(* stream, every way the reads cut it up and every limit of the decoder    *)
(* that SSELimitsAssumption allows.                                        *)
(*                                                                         *)
(* The argument follows the tokens.  The stream is, at every step, what    *)
(* the decoder has consumed, what it has buffered, what a Read is bringing *)
(* and what is still to come (Feed, DecoderInv).  What the client has is   *)
(* whole events up to the one being read (Sent, Behind), and Phase says,   *)
(* place by place of the handler, how far that one is.  So what is relayed *)
(* next is the next event of the stream, and what has been relayed when    *)
(* the handler completes is the stream.                                    *)
(*                                                                         *)
(* The other direction, that nothing valid is refused, follows the cut of  *)
(* a valid stream into its events (Cut, Track), and everything that could  *)
(* end the relay early back to its cause (Stressed).                       *)
(***************************************************************************)
EXTENDS Relay, SequenceTheorems, WellFoundedInduction, TLAPS

(* w is the part of s that follows its first k tokens. *)
Window(w, s, k) ==
  /\ k + Len(w) <= Len(s)
  /\ \A i \in 1..Len(w) : w[i] = s[k + i]

(* The places of the handler (what pc may be), by what it is doing there *)
Exits == {"unwind", "cancel", "finish", "recover", "returned"}
Canceled == {"finish", "recover", "returned"}
Looks == {"client", "permit", "up", "reclient", "repermit", "late", "drain"}
Early == {"permitted", "begin", "completing", "metadata"}
Reads == {"decode", "read", "readReturned"}
Relaying == Reads \cup {"next", "stop", "relay", "verify"}
Places == Exits \cup Early \cup Relaying \cup {"parse", "close", "write", "failed"}
Returns == {"begin", "metadata", "failed", "write", "verify", "relay"}

(* Where the handler is, or goes back to when it has looked at the contexts *)
Here == IF pc \in Looks THEN after ELSE pc

(* Where the handler may be, and what it has not done yet when it is there *)
ControlInv ==
  /\ pc \in Looks => after \in Returns
  /\ pc \notin Looks => after = "none" /\ pc \in Places
  /\ mode \in {"streaming", "buffered"}
  /\ Here = "parse" => mode = "buffered"
  /\ Here \in Relaying => mode = "streaming"
  /\ Here \in {"close", "write"} /\ mode = "buffered" => stream = <<"json">>
  /\ Here \notin Exits => outcome = "InternalFailure" /\ finished = 0
  /\ pc \in {"recover", "returned"} <=> finished = 1
  /\ finished \in 0..1
  /\ pc \in Canceled \cup {"cancel"} => body # "open"
  /\ Here = "write" => body = "clean"
  /\ ~committed => sent = <<>>
  /\ Here \in Early \/ (mode = "buffered" /\ Here \notin Exits) => ~committed

(* The idle timer runs during a Read only, and an expiry is never           *)
(* forgotten: every place from which something can still be sent is out of  *)
(* its reach.                                                               *)
IdleInv ==
  /\ timer # "off" => pc \in {"read", "readReturned"} \cup Exits
  /\ timer = "armed" => ~idleExpired
  /\ timer = "fired" => idleExpired
  /\ timer \in {"marked", "done"} => timedOut
  /\ idleExpired => timedOut \/ timer = "fired"
  /\ timedOut => idleExpired
  /\ Here \in Early \cup {"parse", "next", "relay", "verify", "close", "write"} => ~idleExpired

(* What the decoder's fields range over, whatever it has read *)
DecoderRecord ==
  [state : {"open", "doneReturned", "verified", "failed"}, left : Nat, buffer : Seq(Token),
   readErr : {"none", "EOF", "failure"}, raw : Seq(Token), line : Nat, total : Nat,
   events : Nat, chunks : Nat]

(* Where in the stream the event being read starts *)
Start(d) == d.total - Len(d.raw)

(* The limits the decoder keeps, and what of the stream s it holds *)
DecoderInv(d, s) ==
  /\ Len(d.buffer) <= BufferSize /\ Len(d.raw) <= MaxEventBytes
  /\ d.line <= Len(d.raw) /\ Len(d.raw) <= d.total /\ d.total <= MaxTotalBytes
  /\ d.chunks <= d.events /\ d.events <= MaxEvents
  /\ d.left + d.total + Len(d.buffer) = MaxTotalBytes + 1
  /\ Window(d.buffer, s, d.total) /\ Window(d.raw, s, Start(d))

(* part of an event has been read *)
PartInv(d) ==
  /\ d.events = d.chunks /\ d.events < MaxEvents
  /\ IF d.line = 0 THEN "lf" \notin ToSet(d.raw)
     ELSE d.line >= 2 /\ \A i \in 1..Len(d.raw) : d.raw[i] = "lf" <=> i = d.line

(* The stream is what the decoder has consumed, what it has buffered, what  *)
(* the Read that returns carries and what is still to come.                 *)
NoRead == [tokens |-> <<>>, err |-> "none"]
Feed(p, s, r, rd, d) ==
  /\ s \in Seq(Token) /\ r \in Seq(Token)
  /\ Len(r) <= Len(s) /\ Window(r, s, Len(s) - Len(r))
  /\ rd \in [tokens : Seq(Token), err : {"none", "EOF", "failure"}]
  /\ p # "readReturned" => rd = NoRead
  /\ Len(rd.tokens) <= Room(d) /\ Window(rd.tokens, s, d.total + Len(d.buffer))
  /\ rd.err = "EOF" => r = <<>>
  /\ d.readErr # "failure" => d.total + Len(d.buffer) + Len(rd.tokens) + Len(r) = Len(s)
  /\ d.readErr = "EOF" => d.left = 0 \/ r = <<>>
  /\ p \in {"read", "readReturned"} => d.readErr = "none"

(* The client has exactly the first m events, all chunks *)
Sent(m, w, s) ==
  /\ Window(w, s, 0) /\ w \in Seq({"chunk", "cr", "lf"})
  /\ \E cs \in [1..m -> EventOf("chunk")] : w = FlattenSeq(cs)

(* ... and the event being read follows them. *)
Behind(m, k, w, s) == Sent(m, w, s) /\ Len(w) = k

(* What holds at the place h of the handler when the client has w *)
Phase(h, d, w, s) ==
  /\ h \in Early => d = NewSSEDecoder /\ w = <<>>
  /\ h = "next" => d.state = "open" /\ d.events = d.chunks /\ Behind(d.chunks, d.total, w, s)
  /\ h \in Reads =>
       /\ d.state \in {"open", "doneReturned"}
       /\ d.state = "open" => PartInv(d) /\ Behind(d.chunks, Start(d), w, s)
  /\ h \in {"stop", "relay"} /\ d.state = "open" =>
       /\ d.raw \in EventOf("chunk") /\ d.events = d.chunks /\ d.chunks > 0
       /\ Behind(d.chunks - 1, Start(d), w, s)
  /\ h = "relay" => d.state = "open"
  /\ h = "verify" => d.state = "doneReturned"
  /\ h \in {"close", "write"} => d.state = "verified"
  /\ d.state \in {"doneReturned", "verified"} /\ h \notin Exits =>
       /\ d.raw \in EventOf("done") /\ d.chunks > 0 /\ d.chunks < MaxEvents
       /\ Behind(d.chunks, Start(d), w, s)
  /\ d.state = "verified" => d.total = Len(s)
  /\ h \notin Exits => \E m \in 0..MaxEvents : Sent(m, w, s)

(* The three together: the decoder, the reads that feed it and the handler *)
StreamInv ==
  mode = "streaming" =>
    /\ decoder \in DecoderRecord /\ DecoderInv(decoder, stream)
    /\ Feed(pc, stream, rest, read, decoder)
    /\ Phase(Here, decoder, sent, stream)

(* A buffered answer uses no decoder and is written in one piece. *)
BufferedInv ==
  mode = "buffered" => decoder = NewSSEDecoder /\ (Here \notin Exits => sent = <<>>)

(* What the client has when the handler is on its way out *)
FinalInv ==
  Here \in Exits =>
    \/ /\ outcome = "Completed" /\ committed /\ sent = stream /\ stream \in ValidStreams
       /\ body = "clean" /\ ~idleExpired /\ timer = "off" /\ mode = "streaming"
    \/ /\ outcome = "Completed" /\ committed /\ sent = stream
       /\ stream = <<"json">> /\ mode = "buffered"
    \/ outcome # "Completed" /\ sent = <<>>
    \/ outcome # "Completed" /\ \E f \in Failures : sent = <<f>>
    \/ outcome # "Completed" /\ mode = "streaming" /\ \E m \in 0..MaxEvents : Sent(m, sent, stream)

(* A set of numbers has a least one; inductions below go through it. *)
LEMMA NatLeast ==
  ASSUME NEW T \in SUBSET Nat, T # {}
  PROVE  \E x \in T : \A y \in T : x <= y
<1> DEFINE R == OpToRel(<, Nat)
<1>1. IsWellFoundedOn(R, Nat)
  BY NatLessThanWellFounded
<1>2. \A x, y \in Nat : y < x => <<y, x>> \in R
  BY DEF OpToRel
<1> HIDE DEF R
<1>3. PICK x \in T : \A y \in T : ~(<<y, x>> \in R)
  BY <1>1, WFMin
<1>4. \A y \in T : ~(y < x)
  BY <1>2, <1>3, Zenon
<1> QED
  BY <1>4

(* The places at which a sequence of sequences has been flattened so far *)
Flattens(cs, n, f) ==
  f = [i \in 1..n |-> IF i = 1 THEN cs[i] ELSE f[i - 1] \o cs[i]]

(* FlattenSeq is defined by a recursive function: such a function exists    *)
(* for every sequence of sequences,                                         *)
LEMMA FlattenExists ==
  ASSUME NEW cs
  PROVE  \A n \in Nat : \E f : Flattens(cs, n, f)
<1> DEFINE T == {n \in Nat : ~ \E f : Flattens(cs, n, f)}
<1> SUFFICES ASSUME T # {} PROVE FALSE
  OBVIOUS
<1>1. PICK n \in T : \A y \in T : n <= y
  BY NatLeast
<1>2. n # 0
  <2>1. Flattens(cs, 0, [i \in 1..0 |-> 0])
    BY DEF Flattens
  <2> QED
    BY <1>1, <2>1
<1>3. n - 1 \in Nat /\ n \in Nat /\ n - 1 \notin T
  BY <1>1, <1>2
<1>4. PICK f : Flattens(cs, n - 1, f)
  BY <1>3
<1> DEFINE g == [i \in 1..n |-> IF i < n THEN f[i] ELSE IF i = 1 THEN cs[i] ELSE f[i - 1] \o cs[i]]
<1>5. Flattens(cs, n, g)
  <2>1. \A i \in 1..n : g[i] = IF i = 1 THEN cs[i] ELSE g[i - 1] \o cs[i]
    <3> SUFFICES ASSUME NEW i \in 1..n PROVE g[i] = IF i = 1 THEN cs[i] ELSE g[i - 1] \o cs[i]
      OBVIOUS
    <3>1. CASE i = n
      BY <1>3, <3>1
    <3>2. CASE i # n
      <4>1. i \in 1..n - 1 /\ (i # 1 => i - 1 \in 1..n - 1)
        BY <1>3, <3>2
      <4>2. g[i] = f[i] /\ (i # 1 => g[i - 1] = f[i - 1])
        BY <1>3, <4>1
      <4>3. f[i] = IF i = 1 THEN cs[i] ELSE f[i - 1] \o cs[i]
        BY <1>4, <4>1 DEF Flattens
      <4> QED
        BY <4>2, <4>3
    <3> QED
      BY <3>1, <3>2
  <2>2. g = [i \in 1..n |-> g[i]]
    OBVIOUS
  <2> HIDE DEF g
  <2> QED
    BY <2>1, <2>2 DEF Flattens
<1> QED
  BY <1>1, <1>5

(* ... FlattenSeq is its last value, *)
LEMMA FlattenValue ==
  ASSUME NEW S, NEW n \in Nat \ {0}, NEW cs \in [1..n -> S]
  PROVE  \E f : Flattens(cs, n, f) /\ FlattenSeq(cs) = f[n]
<1>1. Len(cs) = n
  OBVIOUS
<1> DEFINE f == CHOOSE g : g = [i \in 1..Len(cs) |-> IF i = 1 THEN cs[i] ELSE g[i - 1] \o cs[i]]
<1>2. Flattens(cs, n, f)
  BY <1>1, FlattenExists DEF Flattens
<1>3. FlattenSeq(cs) = f[n]
  BY <1>1 DEF FlattenSeq
<1> QED
  BY <1>2, <1>3

(* ... and one sequence more is flattened behind the others. *)
LEMMA FlattenAppend ==
  ASSUME NEW S, NEW n \in Nat, NEW cs \in [1..n -> Seq(S)], NEW e \in Seq(S), FlattenSeq(cs) \in Seq(S)
  PROVE  FlattenSeq(Append(cs, e)) = FlattenSeq(cs) \o e
<1>a. PICK ds : ds = Append(cs, e)
  OBVIOUS
<1>1. /\ ds \in [1..n + 1 -> Seq(S)] /\ Len(ds) = n + 1 /\ Len(cs) = n
      /\ ds[n + 1] = e /\ \A i \in 1..n : cs[i] = ds[i]
  <2>1. cs \in Seq(Seq(S)) /\ Len(cs) = n
    OBVIOUS
  <2>2. /\ ds \in Seq(Seq(S)) /\ Len(ds) = n + 1
        /\ ds[n + 1] = e /\ \A i \in 1..n : cs[i] = ds[i]
    BY <1>a, <2>1, AppendProperties
  <2>3. ds \in [1..n + 1 -> Seq(S)]
    <3>1. DOMAIN ds = 1..n + 1 /\ \A i \in 1..n + 1 : ds[i] \in Seq(S)
      BY <2>2, ElementOfSeq, LenProperties
    <3>2. ds = [i \in DOMAIN ds |-> ds[i]]
      BY <2>2, LenProperties
    <3> QED
      BY <3>1, <3>2
  <2> QED
    BY <2>1, <2>2, <2>3
<1>0. n + 1 \in Nat \ {0}
  OBVIOUS
<1>2. PICK g : Flattens(ds, n + 1, g) /\ FlattenSeq(ds) = g[n + 1]
  BY <1>0, <1>1, FlattenValue
<1>3. CASE n = 0
  <2>1. g[1] = e
    BY <1>1, <1>2, <1>3 DEF Flattens
  <2>2. cs = <<>> /\ FlattenSeq(cs) = <<>>
    BY <1>1, <1>3 DEF FlattenSeq
  <2> QED
    BY <1>a, <1>2, <1>3, <2>1, <2>2
<1>4. CASE n # 0
  <2>0. n \in Nat \ {0} /\ n <= n + 1 /\ n \in 1..n
    BY <1>4
  <2>1. PICK f : Flattens(cs, n, f) /\ FlattenSeq(cs) = f[n]
    BY <2>0, FlattenValue
  <2>2. f[n] = g[n]
    <3> DEFINE T == {i \in 1..n : f[i] # g[i]}
    <3>1. ASSUME T # {} PROVE FALSE
      <4>1. T \in SUBSET Nat
        OBVIOUS
      <4>2. PICK i \in T : \A y \in T : i <= y
        BY <3>1, <4>1, NatLeast
      <4>3. i \in 1..n /\ i \in 1..n + 1 /\ f[i] # g[i] /\ i \in Nat
        BY <4>2
      <4>4. /\ f[i] = IF i = 1 THEN cs[i] ELSE f[i - 1] \o cs[i]
            /\ g[i] = IF i = 1 THEN ds[i] ELSE g[i - 1] \o ds[i]
        BY <1>2, <2>1, <4>3 DEF Flattens
      <4>5. cs[i] = ds[i]
        BY <1>1, <4>3
      <4>6. i # 1
        BY <4>3, <4>4, <4>5
      <4>7. i - 1 \in 1..n /\ i - 1 \notin T
        BY <4>2, <4>3, <4>6
      <4>8. f[i - 1] = g[i - 1]
        BY <4>7
      <4> QED
        BY <4>3, <4>4, <4>5, <4>6, <4>8
    <3>2. \A i \in 1..n : f[i] = g[i]
      BY <3>1
    <3> QED
      BY <2>0, <3>2
  <2>3. g[n + 1] = g[n] \o ds[n + 1]
    <3>1. n + 1 \in 1..n + 1 /\ n + 1 # 1 /\ (n + 1) - 1 = n
      BY <1>4
    <3> DEFINE k == n + 1
    <3>2. k \in 1..k /\ g = [i \in 1..k |-> IF i = 1 THEN ds[i] ELSE g[i - 1] \o ds[i]]
      BY <1>2, <3>1 DEF Flattens
    <3> HIDE DEF k
    <3>3. g[k] = IF k = 1 THEN ds[k] ELSE g[k - 1] \o ds[k]
      BY <3>2
    <3> QED
      BY <3>1, <3>3 DEF k
  <2> QED
    BY <1>a, <1>1, <1>2, <2>1, <2>2, <2>3
<1> QED
  BY <1>3, <1>4

(* Nothing flattens to nothing. *)
LEMMA FlattenEmpty == FlattenSeq(<<>>) = <<>>
BY DEF FlattenSeq

(* Where ReadSlice finds the end of the line *)
LineEnd(b) == Min({i \in 1..Len(b) : b[i] = "lf"})

(* ... which is the first LF of the buffer. *)
LEMMA FindsLF ==
  ASSUME NEW S, NEW b \in Seq(S), "lf" \in ToSet(b)
  PROVE  LineEnd(b) \in 1..Len(b) /\ b[LineEnd(b)] = "lf" /\ \A i \in 1..LineEnd(b) - 1 : b[i] # "lf"
<1> DEFINE I == {i \in 1..Len(b) : b[i] = "lf"}
<1>1. I # {} /\ I \in SUBSET Nat
  BY DEF ToSet
<1>2. \E x \in I : \A y \in I : x <= y
  BY <1>1, NatLeast
<1>3. Min(I) \in I /\ \A y \in I : Min(I) <= y
  BY <1>2 DEF Min
<1>4. LineEnd(b) = Min(I)
  BY DEF LineEnd
<1>5. Min(I) \in 1..Len(b) /\ b[Min(I)] = "lf"
  BY <1>3
<1>6. ASSUME NEW i \in 1..Min(I) - 1 PROVE b[i] # "lf"
  <2>1. i \in 1..Len(b) /\ i < Min(I) /\ Min(I) \in Nat
    BY <1>5
  <2>2. i \notin I
    BY <1>3, <2>1
  <2> QED
    BY <2>1, <2>2
<1> QED
  BY <1>4, <1>5, <1>6

(* What SelectInSeq and SubSeq make of the buffer *)
LEMMA FragmentIs ==
  ASSUME NEW d, d.buffer \in Seq(Token)
  PROVE  Fragment(d) = IF "lf" \in ToSet(d.buffer) THEN SubSeq(d.buffer, 1, LineEnd(d.buffer)) ELSE d.buffer
<1>1. ASSUME "lf" \in ToSet(d.buffer)
      PROVE  {i \in 1..Len(d.buffer) : d.buffer[i] = "lf"} # {}
  BY <1>1 DEF ToSet
<1> QED
  BY <1>1 DEF Fragment, SelectInSeq, LineEnd

(* Two windows of which one follows the other make one. *)
LEMMA WindowJoin ==
  ASSUME NEW S, NEW s \in Seq(S), NEW v \in Seq(S), NEW w \in Seq(S), NEW k \in Nat,
         Window(v, s, k), Window(w, s, k + Len(v))
  PROVE  v \o w \in Seq(S) /\ Len(v \o w) = Len(v) + Len(w) /\ Window(v \o w, s, k)
<1>1. /\ v \o w \in Seq(S) /\ Len(v \o w) = Len(v) + Len(w)
      /\ \A i \in 1..Len(v) + Len(w) : (v \o w)[i] = IF i <= Len(v) THEN v[i] ELSE w[i - Len(v)]
  BY ConcatProperties
<1>2. Len(v) \in Nat /\ Len(w) \in Nat /\ Len(s) \in Nat
  OBVIOUS
<1>3. PICK x : x = v \o w
  OBVIOUS
<1>4. ASSUME NEW i \in 1..Len(v) + Len(w) PROVE x[i] = s[k + i]
  <2>1. CASE i <= Len(v)
    BY <1>1, <1>2, <1>3, <2>1 DEF Window
  <2>2. CASE ~(i <= Len(v))
    <3>1. i - Len(v) \in 1..Len(w) /\ (k + Len(v)) + (i - Len(v)) = k + i
      BY <1>2, <2>2
    <3>2. w[i - Len(v)] = s[(k + Len(v)) + (i - Len(v))]
      BY <3>1 DEF Window
    <3> QED
      BY <1>1, <1>3, <2>2, <3>1, <3>2
  <2> QED
    BY <2>1, <2>2
<1>5. k + (Len(v) + Len(w)) <= Len(s)
  BY <1>2 DEF Window
<1>6. Window(x, s, k)
  BY <1>1, <1>3, <1>4, <1>5 DEF Window
<1> QED
  BY <1>1, <1>3, <1>6

(* A part of a window is a window. *)
LEMMA WindowPart ==
  ASSUME NEW S, NEW w \in Seq(S), NEW a \in Nat, NEW b \in Nat, a <= b, b <= Len(w)
  PROVE  /\ SubSeq(w, a + 1, b) \in Seq(S) /\ Len(SubSeq(w, a + 1, b)) = b - a
         /\ \A i \in 1..b - a : SubSeq(w, a + 1, b)[i] = w[a + i]
         /\ \A s, k : s \in Seq(S) /\ k \in Nat /\ Window(w, s, k) =>
               Window(SubSeq(w, a + 1, b), s, k + a)
<1>1. PICK x : x = SubSeq(w, a + 1, b)
  OBVIOUS
<1>2. Len(w) \in Nat
  OBVIOUS
<1>3. /\ x \in Seq(S) /\ Len(x) = b - a
      /\ \A i \in 1..b - a : x[i] = w[a + i]
  BY <1>1, <1>2, SubSeqProperties
<1>4. ASSUME NEW s \in Seq(S), NEW k \in Nat, Window(w, s, k) PROVE Window(x, s, k + a)
  <2>1. k + Len(w) <= Len(s) /\ Len(s) \in Nat /\ \A i \in 1..Len(w) : w[i] = s[k + i]
    BY <1>4 DEF Window
  <2>2. (k + a) + Len(x) <= Len(s)
    BY <1>2, <1>3, <2>1
  <2>3. ASSUME NEW i \in 1..Len(x) PROVE x[i] = s[(k + a) + i]
    <3>1. a + i \in 1..Len(w) /\ k + (a + i) = (k + a) + i
      BY <1>2, <1>3
    <3>2. x[i] = w[a + i] /\ w[a + i] = s[k + (a + i)]
      BY <1>3, <2>1, <3>1
    <3> QED
      BY <3>1, <3>2
  <2> QED
    BY <2>2, <2>3 DEF Window
<1> QED
  BY <1>1, <1>3, <1>4

(* The same, without the sequence it is a window of *)
LEMMA SubPart ==
  ASSUME NEW S, NEW w \in Seq(S), NEW a \in Nat, NEW b \in Nat, a <= b, b <= Len(w)
  PROVE  /\ SubSeq(w, a + 1, b) \in Seq(S) /\ Len(SubSeq(w, a + 1, b)) = b - a
         /\ \A i \in 1..b - a : SubSeq(w, a + 1, b)[i] = w[a + i]
BY WindowPart

(* A window as long as the sequence is the sequence. *)
LEMMA WindowWhole ==
  ASSUME NEW S, NEW s \in Seq(S), NEW w \in Seq(S), Window(w, s, 0), Len(w) = Len(s)
  PROVE  w = s
<1>1. \A i \in 1..Len(w) : w[i] = s[i]
  BY DEF Window
<1> QED
  BY <1>1, SeqEqual

(* A window at the start is a prefix. *)
LEMMA WindowPrefix ==
  ASSUME NEW S, NEW s \in Seq(S), NEW w \in Seq(S), Window(w, s, 0)
  PROVE  IsPrefix(w, s)
<1>1. Len(w) <= Len(s) /\ Len(w) \in Nat /\ Len(s) \in Nat /\ \A i \in 1..Len(w) : w[i] = s[i]
  BY DEF Window
<1>2. PICK x, y : x = SubSeq(w, 1, Len(w)) /\ y = SubSeq(s, 1, Len(w))
  OBVIOUS
<1>3. x \in Seq(S) /\ Len(x) = Len(w) /\ \A i \in 1..Len(w) : x[i] = w[i]
  BY <1>1, <1>2, SubSeqProperties
<1>4. y \in Seq(S) /\ Len(y) = Len(w) /\ \A i \in 1..Len(w) : y[i] = s[i]
  BY <1>1, <1>2, SubSeqProperties
<1>5. x = y
  BY <1>1, <1>3, <1>4, SeqEqual
<1> QED
  BY <1>1, <1>2, <1>5 DEF IsPrefix

(* The places of an event: its field, the end of its first line, j, and its *)
(* end.                                                                     *)
Shaped(e, text, j) ==
  /\ j \in {2, 3} /\ Len(e) \in {j + 1, j + 2}
  /\ e[1] = text /\ e[j] = "lf" /\ e[Len(e)] = "lf"
  /\ j = 3 => e[2] = "cr"
  /\ Len(e) = j + 2 => e[j + 1] = "cr"

(* An event, token by token *)
LEMMA EventPoints ==
  ASSUME NEW text, NEW a \in Endings, NEW b \in Endings
  PROVE  \E x \in Seq({text, "cr", "lf"}) :
           x = <<text>> \o a \o b /\ Len(x) = 1 + Len(a) + Len(b) /\ Shaped(x, text, 1 + Len(a))
<1> DEFINE S == {text, "cr", "lf"}
<1>0. \A z \in Endings :
        /\ z \in Seq(S)
        /\ (Len(z) = 1 /\ z[1] = "lf") \/ (Len(z) = 2 /\ z[1] = "cr" /\ z[2] = "lf")
  <2>1. <<"lf">> \in Seq(S) /\ <<"cr", "lf">> \in Seq(S)
    OBVIOUS
  <2> SUFFICES ASSUME NEW z \in Endings
               PROVE  /\ z \in Seq(S)
                      /\ (Len(z) = 1 /\ z[1] = "lf") \/ (Len(z) = 2 /\ z[1] = "cr" /\ z[2] = "lf")
    OBVIOUS
  <2>2. CASE z = <<"lf">>
    BY <2>1, <2>2
  <2>3. CASE z = <<"cr", "lf">>
    BY <2>1, <2>3
  <2> QED
    BY <2>2, <2>3 DEF Endings
<1>1. /\ <<text>> \in Seq(S) /\ a \in Seq(S) /\ b \in Seq(S)
      /\ Len(<<text>>) = 1 /\ <<text>>[1] = text
  BY <1>0
<1>2. /\ (Len(a) = 1 /\ a[1] = "lf") \/ (Len(a) = 2 /\ a[1] = "cr" /\ a[2] = "lf")
      /\ (Len(b) = 1 /\ b[1] = "lf") \/ (Len(b) = 2 /\ b[1] = "cr" /\ b[2] = "lf")
  BY <1>0
<1> HIDE DEF S
<1>3. PICK y : y = <<text>> \o a
  OBVIOUS
<1>4. PICK x : x = y \o b
  OBVIOUS
<1>5. /\ y \in Seq(S) /\ Len(y) = 1 + Len(a)
      /\ y[1] = text /\ y[2] = a[1] /\ (Len(a) = 2 => y[3] = a[2])
  BY <1>1, <1>2, <1>3, ConcatProperties
<1>6. /\ x \in Seq(S) /\ Len(x) = 1 + Len(a) + Len(b)
      /\ \A i \in 1..1 + Len(a) : x[i] = y[i]
      /\ x[2 + Len(a)] = b[1] /\ (Len(b) = 2 => x[3 + Len(a)] = b[2])
  <2>1. /\ x \in Seq(S) /\ Len(x) = Len(y) + Len(b)
        /\ \A i \in 1..Len(y) + Len(b) : x[i] = IF i <= Len(y) THEN y[i] ELSE b[i - Len(y)]
    BY <1>1, <1>4, <1>5, ConcatProperties
  <2> QED
    BY <1>2, <1>5, <2>1
<1>7. Shaped(x, text, 1 + Len(a))
  <2>1. CASE Len(a) = 1
    <3>1. x[1] = text /\ x[2] = "lf" /\ x[3] = b[1] /\ (Len(b) = 2 => x[4] = b[2])
      BY <1>2, <1>5, <1>6, <2>1
    <3>2. 1 + Len(a) = 2 /\ Len(x) = 2 + Len(b) /\ Len(b) \in {1, 2}
      BY <1>2, <1>6, <2>1
    <3>3. Shaped(x, text, 2)
      <4>1. CASE Len(b) = 1
        BY <1>2, <3>1, <3>2, <4>1 DEF Shaped
      <4>2. CASE Len(b) = 2
        BY <1>2, <3>1, <3>2, <4>2 DEF Shaped
      <4> QED
        BY <3>2, <4>1, <4>2
    <3> QED
      BY <3>2, <3>3
  <2>2. CASE Len(a) = 2
    <3>1. /\ x[1] = text /\ x[2] = "cr" /\ x[3] = "lf" /\ x[4] = b[1]
          /\ Len(b) = 2 => x[5] = b[2]
      BY <1>2, <1>5, <1>6, <2>2
    <3>2. 1 + Len(a) = 3 /\ Len(x) = 3 + Len(b) /\ Len(b) \in {1, 2}
      BY <1>2, <1>6, <2>2
    <3>3. Shaped(x, text, 3)
      <4>1. CASE Len(b) = 1
        BY <1>2, <3>1, <3>2, <4>1 DEF Shaped
      <4>2. CASE Len(b) = 2
        BY <1>2, <3>1, <3>2, <4>2 DEF Shaped
      <4> QED
        BY <3>2, <4>1, <4>2
    <3> QED
      BY <3>2, <3>3
  <2> QED
    BY <1>2, <2>1, <2>2
<1> QED
  BY <1>3, <1>4, <1>6, <1>7 DEF S

(* An event has the two line ends of its shape, *)
LEMMA EventShape ==
  ASSUME NEW text, NEW e \in EventOf(text)
  PROVE  /\ e \in Seq({text, "cr", "lf"}) /\ Len(e) <= MaxEventBytes
         /\ \E j \in {2, 3} : Shaped(e, text, j)
<1>1. PICK a \in Endings, b \in Endings : e = <<text>> \o a \o b /\ Len(e) <= MaxEventBytes
  BY DEF EventOf
<1>2. e \in Seq({text, "cr", "lf"}) /\ Shaped(e, text, 1 + Len(a))
  BY <1>1, EventPoints
<1> QED
  BY <1>1, <1>2 DEF Shaped

(* EventOf once more, as a set of its own *)
Joined(text) == {<<text>> \o c \o d : c \in Endings, d \in Endings}

(* An event is put together from its text and two line ends. *)
LEMMA EventJoined ==
  ASSUME NEW text, NEW a \in Endings, NEW b \in Endings
  PROVE  <<text>> \o a \o b \in Joined(text)
BY DEF Joined

(* Joined is EventOf. *)
LEMMA EventMember ==
  ASSUME NEW text, NEW e \in Joined(text), Len(e) <= MaxEventBytes
  PROVE  e \in EventOf(text)
BY DEF EventOf, Joined

(* ... and what has the shape is an event. *)
LEMMA ShapeEvent ==
  ASSUME NEW S, NEW text, NEW e \in Seq(S), NEW j \in {2, 3}, Shaped(e, text, j),
         Len(e) <= MaxEventBytes
  PROVE  e \in EventOf(text)
<1>1. PICK a \in Endings, b \in Endings : Len(a) = j - 1 /\ Len(b) = Len(e) - j
  <2>1. <<"lf">> \in Endings /\ <<"cr", "lf">> \in Endings /\ Len(<<"lf">>) = 1 /\ Len(<<"cr", "lf">>) = 2
    BY DEF Endings
  <2>2. j - 1 \in {1, 2} /\ Len(e) - j \in {1, 2}
    BY DEF Shaped
  <2> QED
    BY <2>1, <2>2
<1>2. PICK x \in Seq({text, "cr", "lf"}) :
        x = <<text>> \o a \o b /\ Len(x) = 1 + Len(a) + Len(b) /\ Shaped(x, text, 1 + Len(a))
  BY EventPoints
<1>3. Len(x) = Len(e) /\ 1 + Len(a) = j
  BY <1>1, <1>2 DEF Endings, Shaped
<1>4. \A i \in 1..Len(e) : x[i] = e[i]
  BY <1>2, <1>3 DEF Shaped
<1>5. x = e
  <2>1. x \in Seq({text, "cr", "lf"} \cup S) /\ e \in Seq({text, "cr", "lf"} \cup S)
    BY SeqMonotonic
  <2> QED
    BY <1>3, <1>4, <2>1, SeqEqual
<1>6. e = <<text>> \o a \o b
  BY <1>2, <1>5
<1>7. e \in Joined(text)
  BY <1>6, EventJoined, Zenon
<1> QED
  BY <1>7, EventMember, Zenon

-----------------------------------------------------------------------------
(* The decoder *)

(* The decoder's limits are numbers. *)
LEMMA Sizes ==
  /\ MaxTotalBytes \in Nat /\ MaxEventBytes \in Nat /\ MaxEvents \in Nat /\ BufferSize \in Nat
  /\ BufferSize > 0 /\ MaxEvents >= 2 /\ MaxEventBytes >= 3
BY SSELimitsAssumption DEF ValidateSSELimits, BufferSize, Smallest

(* A line without the CR of its ending. *)
Strip(w) == IF w # <<>> /\ Last(w) = "cr" THEN Front(w) ELSE w

(* What Strip returns, by what it is given *)
LEMMA StripIs ==
  ASSUME NEW w \in Seq(Token)
  PROVE  /\ Strip(w) \in Seq(Token)
         /\ Len(Strip(w)) = 0 <=> Len(w) = 0 \/ (Len(w) = 1 /\ w[1] = "cr")
         /\ Len(Strip(w)) = 1 <=> \/ Len(w) = 1 /\ w[1] # "cr"
                                  \/ Len(w) = 2 /\ w[2] = "cr"
         /\ Len(Strip(w)) > 0 => Strip(w)[1] = w[1]
<1>1. w = <<>> <=> Len(w) = 0
  OBVIOUS
<1>2. Len(w) \in Nat
  OBVIOUS
<1>3. PICK x : x = Strip(w)
  OBVIOUS
<1>4. CASE w # <<>> /\ w[Len(w)] = "cr"
  <2>1. x = SubSeq(w, 1, Len(w) - 1)
    BY <1>3, <1>4 DEF Strip, Last, Front
  <2>2. Len(w) - 1 \in Nat /\ 0 <= Len(w) - 1 /\ Len(w) - 1 <= Len(w) /\ 0 + 1 = 1 /\ (Len(w) - 1) - 0 = Len(w) - 1
    BY <1>1, <1>2, <1>4
  <2>3. x \in Seq(Token) /\ Len(x) = Len(w) - 1 /\ \A i \in 1..Len(w) - 1 : x[i] = w[i]
    BY <2>1, <2>2, WindowPart
  <2> QED
    BY <1>1, <1>2, <1>3, <1>4, <2>3
<1>5. CASE ~(w # <<>> /\ w[Len(w)] = "cr")
  <2>1. x = w
    BY <1>3, <1>5 DEF Strip, Last
  <2> QED
    BY <1>1, <1>2, <1>3, <1>5, <2>1
<1> QED
  BY <1>4, <1>5

(* A sequence of one token *)
LEMMA OneToken ==
  ASSUME NEW w \in Seq(Token), NEW text \in Token
  PROVE  w = <<text>> <=> Len(w) = 1 /\ w[1] = text
<1>1. <<text>> \in Seq(Token) /\ Len(<<text>>) = 1 /\ <<text>>[1] = text
  OBVIOUS
<1>2. w = <<text>> => Len(w) = 1 /\ w[1] = text
  BY <1>1
<1>3. Len(w) = 1 /\ w[1] = text => w = <<text>>
  BY <1>1, SeqEqual
<1> QED
  BY <1>2, <1>3

(* What ReadSlice returns: the buffer up to the first LF, or all of it. *)
LEMMA FragmentFacts ==
  ASSUME NEW d, d.buffer \in Seq(Token)
  PROVE  /\ Fragment(d) \in Seq(Token) /\ Len(Fragment(d)) <= Len(d.buffer)
         /\ \A i \in 1..Len(Fragment(d)) : Fragment(d)[i] = d.buffer[i]
         /\ "lf" \in ToSet(d.buffer) =>
              /\ Len(Fragment(d)) > 0 /\ d.buffer[Len(Fragment(d))] = "lf"
              /\ \A i \in 1..Len(Fragment(d)) - 1 : d.buffer[i] # "lf"
              /\ "lf" \in ToSet(Fragment(d))
         /\ "lf" \notin ToSet(d.buffer) =>
              /\ Fragment(d) = d.buffer /\ "lf" \notin ToSet(Fragment(d))
              /\ \A i \in 1..Len(d.buffer) : d.buffer[i] # "lf"
<1> DEFINE b == d.buffer
           f == Fragment(d)
<1>1. CASE "lf" \in ToSet(b)
  <2>1. f = SubSeq(b, 1, LineEnd(b))
    BY <1>1, FragmentIs
  <2>2. LineEnd(b) \in 1..Len(b) /\ b[LineEnd(b)] = "lf" /\ \A i \in 1..LineEnd(b) - 1 : b[i] # "lf"
    BY <1>1, FindsLF
  <2>3. PICK n \in 1..Len(b) : n = LineEnd(b)
    BY <2>2
  <2>4. n \in Nat /\ 0 <= n /\ n <= Len(b) /\ 0 + 1 = 1 /\ n - 0 = n /\ n > 0
    BY <2>3
  <2>5. f \in Seq(Token) /\ Len(f) = n /\ \A i \in 1..n : f[i] = b[i]
    <3>1. f = SubSeq(b, 0 + 1, n)
      BY <2>1, <2>3, <2>4
    <3> QED
      BY <2>4, <3>1, WindowPart
  <2>6. "lf" \in ToSet(f)
    BY <2>2, <2>3, <2>4, <2>5 DEF ToSet
  <2> QED
    BY <1>1, <2>2, <2>3, <2>4, <2>5, <2>6
<1>2. CASE "lf" \notin ToSet(b)
  <2>1. f = b
    BY <1>2, FragmentIs
  <2>2. \A i \in 1..Len(b) : b[i] # "lf"
    BY <1>2 DEF ToSet
  <2> QED
    BY <1>2, <2>1, <2>2
<1> QED
  BY <1>1, <1>2

(* The decoder once it has taken the fragment off the buffer *)
Taken(d) ==
  [d EXCEPT !.buffer = SubSeq(@, Len(Fragment(d)) + 1, Len(@)),
            !.raw = @ \o Fragment(d), !.total = @ + Len(Fragment(d))]

(* Taking a fragment moves it from the buffer to the event. *)
LEMMA TakenFacts ==
  ASSUME NEW d \in DecoderRecord, NEW s \in Seq(Token), DecoderInv(d, s),
         accountEvent(d, Len(Fragment(d)))
  PROVE  /\ Taken(d) \in DecoderRecord /\ DecoderInv(Taken(d), s)
         /\ Start(Taken(d)) = Start(d)
         /\ \A i \in 1..Len(d.raw) : Taken(d).raw[i] = d.raw[i]
         /\ \A i \in 1..Len(Fragment(d)) : Taken(d).raw[Len(d.raw) + i] = d.buffer[i]
         /\ Len(Taken(d).raw) = Len(d.raw) + Len(Fragment(d))
         /\ Taken(d).total = d.total + Len(Fragment(d))
<1> DEFINE b == d.buffer
           f == Fragment(d)
           n == Len(f)
           t == Taken(d)
<1>1. /\ b \in Seq(Token) /\ d.raw \in Seq(Token) /\ d.total \in Nat /\ Len(b) \in Nat /\ Len(d.raw) \in Nat
      /\ d.left \in Nat /\ d.line \in Nat /\ Len(s) \in Nat
  BY DEF DecoderRecord
<1>2. /\ f \in Seq(Token) /\ n = Len(f) /\ n \in Nat /\ n <= Len(b)
      /\ \A i \in 1..n : f[i] = b[i]
  BY <1>1, FragmentFacts
<1>3. /\ t.buffer = SubSeq(b, n + 1, Len(b)) /\ t.raw = d.raw \o f /\ t.total = d.total + n
      /\ t.left = d.left /\ t.line = d.line /\ t.chunks = d.chunks /\ t.events = d.events
      /\ t.state = d.state /\ t.readErr = d.readErr
  BY DEF Taken, DecoderRecord
<1>0. t = [d EXCEPT !.buffer = t.buffer, !.raw = t.raw, !.total = t.total]
  BY DEF Taken, DecoderRecord
<1>a. d.total + n <= MaxTotalBytes /\ Len(d.raw) + n <= MaxEventBytes
  BY DEF accountEvent, accountBytes
<1> HIDE DEF b, f, n, t
<1>4. t.buffer \in Seq(Token) /\ Len(t.buffer) = Len(b) - n /\ Window(t.buffer, s, d.total + n)
  <2>1. Window(b, s, d.total)
    BY DEF DecoderInv, b
  <2>2. PICK k \in Nat : k = Len(b) /\ n <= k /\ k <= Len(b)
    BY <1>1, <1>2
  <2>3. /\ SubSeq(b, n + 1, k) \in Seq(Token) /\ Len(SubSeq(b, n + 1, k)) = k - n
        /\ Window(SubSeq(b, n + 1, k), s, d.total + n)
    BY <1>1, <1>2, <2>1, <2>2, WindowPart
  <2> QED
    BY <1>3, <2>2, <2>3, Zenon
<1>5. Len(d.raw) <= d.total /\ Start(d) \in Nat /\ Start(d) + Len(d.raw) = d.total
  BY <1>1 DEF DecoderInv, Start
<1>6. Window(f, s, d.total)
  <2>1. Window(b, s, d.total)
    BY DEF DecoderInv, b
  <2>2. PICK lb, ls \in Nat : lb = Len(b) /\ ls = Len(s)
    BY <1>1, Zenon
  <2>3. d.total + lb <= ls /\ n <= lb /\ d.total \in Nat /\ n \in Nat
    BY <1>1, <1>2, <2>1, <2>2, Zenon DEF Window
  <2>4. d.total + n <= ls /\ 1..n \subseteq 1..lb
    BY <2>3
  <2>5. ASSUME NEW i \in 1..n PROVE f[i] = s[d.total + i]
    BY <1>2, <2>1, <2>2, <2>4, Zenon DEF Window
  <2> QED
    BY <1>2, <2>2, <2>4, <2>5, Zenon DEF Window
<1>7. /\ t.raw \in Seq(Token) /\ Len(t.raw) = Len(d.raw) + n /\ Window(t.raw, s, Start(d))
  <2>1. Window(d.raw, s, Start(d)) /\ Window(f, s, Start(d) + Len(d.raw))
    BY <1>5, <1>6 DEF DecoderInv
  <2> QED
    BY <1>1, <1>2, <1>3, <1>5, <2>1, WindowJoin, SMTT(30)
<1>8. \A i \in 1..Len(d.raw) + n : t.raw[i] = IF i <= Len(d.raw) THEN d.raw[i] ELSE f[i - Len(d.raw)]
  BY <1>1, <1>2, <1>3, ConcatProperties
<1>9. Start(t) = Start(d)
  <2>1. PICK lr, m, k \in Nat : lr = Len(d.raw) /\ m = d.total /\ k = n
    BY <1>1, <1>2, Zenon
  <2>2. (m + k) - (lr + k) = m - lr
    OBVIOUS
  <2> QED
    BY <1>3, <1>7, <2>1, <2>2, Zenon DEF Start
<1>10. t \in DecoderRecord
  <2>1. t.total \in Nat
    BY <1>1, <1>2, <1>3
  <2> QED
    BY <1>0, <1>4, <1>7, <2>1 DEF DecoderRecord
<1>11. DecoderInv(t, s)
  <2>1. Len(b) <= BufferSize /\ d.line <= Len(d.raw) /\ d.left + d.total + Len(b) = MaxTotalBytes + 1
    BY DEF DecoderInv, b
  <2>2. /\ Len(t.buffer) <= BufferSize /\ Len(t.raw) <= MaxEventBytes
        /\ t.line <= Len(t.raw) /\ Len(t.raw) <= t.total /\ t.total <= MaxTotalBytes
        /\ t.left + t.total + Len(t.buffer) = MaxTotalBytes + 1
    <3>1. PICK lb, lr \in Nat : lb = Len(b) /\ lr = Len(d.raw)
      BY <1>1, Zenon
    <3>2. /\ Len(t.buffer) = lb - n /\ Len(t.raw) = lr + n /\ t.total = d.total + n
          /\ t.line = d.line /\ t.left = d.left
          /\ lr <= d.total /\ lb <= BufferSize /\ d.line <= lr /\ n <= lb
          /\ d.left + d.total + lb = MaxTotalBytes + 1
          /\ d.total + n <= MaxTotalBytes /\ lr + n <= MaxEventBytes
      BY <1>a, <1>2, <1>3, <1>4, <1>5, <1>7, <2>1, <3>1, Zenon
    <3>3. n \in Nat /\ d.total \in Nat /\ d.line \in Nat /\ d.left \in Nat
      BY <1>1, <1>2, Zenon
    <3>4. /\ lb - n <= BufferSize /\ d.line <= lr + n /\ lr + n <= d.total + n
          /\ d.left + (d.total + n) + (lb - n) = MaxTotalBytes + 1
      <4>1. /\ lr <= d.total /\ lb <= BufferSize /\ d.line <= lr /\ n <= lb
            /\ d.left + d.total + lb = MaxTotalBytes + 1
        BY <3>2, Zenon
      <4> QED
        BY <3>3, <4>1, Sizes, SMTT(60)
    <3> QED
      BY <3>2, <3>4, Zenon
  <2>3. t.chunks <= t.events /\ t.events <= MaxEvents
    BY <1>3 DEF DecoderInv
  <2> QED
    BY <1>3, <1>4, <1>7, <1>9, <2>2, <2>3 DEF DecoderInv
<1>12. /\ \A i \in 1..Len(d.raw) : t.raw[i] = d.raw[i]
       /\ \A i \in 1..n : t.raw[Len(d.raw) + i] = b[i]
  <2>1. ASSUME NEW i \in 1..Len(d.raw) PROVE t.raw[i] = d.raw[i]
    <3>0. PICK l \in Nat : l = Len(d.raw)
      BY <1>1, Zenon
    <3>1. i \in 1..l + n /\ i <= l
      BY <1>2, <3>0
    <3> QED
      BY <1>8, <3>0, <3>1, Zenon
  <2>2. ASSUME NEW i \in 1..n PROVE t.raw[Len(d.raw) + i] = b[i]
    <3>0. PICK l \in Nat : l = Len(d.raw)
      BY <1>1, Zenon
    <3>1. PICK k \in 1..l + n : k = l + i /\ k - l = i /\ ~(k <= l)
      BY <1>2
    <3>2. t.raw[k] = f[i]
      BY <1>8, <3>0, <3>1, Zenon
    <3> QED
      BY <1>2, <3>0, <3>1, <3>2, Zenon
  <2> QED
    BY <2>1, <2>2, Zenon
<1> QED
  BY <1>3, <1>7, <1>9, <1>10, <1>11, <1>12 DEF b, f, n, t

(* Arithmetic for LineIs *)
LEMMA LessOne ==
  ASSUME NEW m \in Nat, NEW n \in Nat, m < n
  PROVE  n - 1 \in Nat /\ m <= n - 1 /\ n - 1 <= n /\ n - 1 - m = (n - 1) - m
OBVIOUS

(* The line behind place l, without its LF *)
LEMMA LineIs ==
  ASSUME NEW r \in Seq(Token), NEW l \in Nat, l < Len(r)
  PROVE  \E w \in Seq(Token) :
           /\ w = SubSeq(r, l + 1, Len(r) - 1) /\ Len(w) = Len(r) - 1 - l
           /\ \A i \in 1..Len(w) : w[i] = r[l + i]
<1>1. PICK k \in Nat : k = Len(r) - 1 /\ l <= k /\ k <= Len(r)
  <2>1. Len(r) \in Nat
    OBVIOUS
  <2> QED
    BY <2>1, LessOne, Zenon
<1>2. /\ SubSeq(r, l + 1, k) \in Seq(Token) /\ Len(SubSeq(r, l + 1, k)) = k - l
      /\ \A i \in 1..k - l : SubSeq(r, l + 1, k)[i] = r[l + i]
  <2>1. l <= k /\ k <= Len(r)
    BY <1>1, Zenon
  <2> QED
    BY <2>1, SubPart
<1> QED
  BY <1>1, <1>2, Zenon

(* What LineContent looks at *)
LEMMA ContentIs ==
  ASSUME NEW d \in DecoderRecord, d.line < Len(d.raw)
  PROVE  \E w \in Seq(Token) :
           /\ LineContent(d) = Strip(w) /\ Len(w) = Len(d.raw) - 1 - d.line
           /\ \A i \in 1..Len(w) : w[i] = d.raw[d.line + i]
<1>1. d.raw \in Seq(Token) /\ d.line \in Nat
  BY DEF DecoderRecord
<1>2. PICK w \in Seq(Token) :
        /\ w = SubSeq(d.raw, d.line + 1, Len(d.raw) - 1) /\ Len(w) = Len(d.raw) - 1 - d.line
        /\ \A i \in 1..Len(w) : w[i] = d.raw[d.line + i]
  BY <1>1, LineIs, Zenon
<1>3. LineContent(d) = Strip(w)
  BY <1>2, Zenon DEF LineContent, Strip
<1> QED
  BY <1>2, <1>3, Zenon

(* Failing leaves everything else alone. *)
LEMMA FailFacts ==
  ASSUME NEW d \in DecoderRecord, NEW s, DecoderInv(d, s)
  PROVE  /\ fail(d) \in DecoderRecord /\ DecoderInv(fail(d), s) /\ Start(fail(d)) = Start(d)
         /\ fail(d).state = "failed" /\ fail(d).left = d.left /\ fail(d).readErr = d.readErr
<1>1. /\ fail(d) \in DecoderRecord /\ fail(d).state = "failed"
      /\ fail(d).left = d.left /\ fail(d).buffer = d.buffer /\ fail(d).readErr = d.readErr
      /\ fail(d).raw = d.raw /\ fail(d).line = d.line /\ fail(d).total = d.total
      /\ fail(d).events = d.events /\ fail(d).chunks = d.chunks
  BY DEF fail, DecoderRecord
<1> QED
  BY <1>1 DEF DecoderInv, Start

(* Arithmetic for the first line *)
LEMMA SmallLine ==
  ASSUME NEW k \in Nat, k = 2 \/ k = 3
  PROVE  /\ 1 \in 1..k - 1 /\ k - 1 \in Nat /\ 0 + 1 = 1 /\ 0 + 2 = 2
         /\ k = 3 => 2 \in 1..k - 1
OBVIOUS

(* A sequence of one token is told by that token. *)
LEMMA OneHead ==
  ASSUME NEW c \in Seq(Token), Len(c) = 1
  PROVE  c # <<>> /\ Head(c) = c[1] /\ (c[1] # "cr" => "cr" \notin ToSet(c))
<1>1. c # <<>>
  OBVIOUS
<1>2. ToSet(c) = {c[1]}
  BY DEF ToSet
<1> QED
  BY <1>1, <1>2

(* The first line is complete: it is accepted as a field or refused. *)
LEMMA FirstLineFacts ==
  ASSUME NEW t \in DecoderRecord, NEW s, DecoderInv(t, s), t.state = "open", t.line = 0,
         t.events = t.chunks, t.events < MaxEvents, Len(t.raw) > 0,
         \A i \in 1..Len(t.raw) : t.raw[i] = "lf" <=> i = Len(t.raw)
  PROVE  /\ firstLine(t) \in DecoderRecord /\ DecoderInv(firstLine(t), s)
         /\ Start(firstLine(t)) = Start(t)
         /\ firstLine(t).left = t.left /\ firstLine(t).readErr = t.readErr
         /\ \/ firstLine(t).state = "failed"
            \/ /\ firstLine(t).state = "open" /\ PartInv(firstLine(t)) /\ ~EventReady(firstLine(t))
               /\ firstLine(t).chunks = t.chunks /\ firstLine(t).total = t.total
         /\ /\ t.raw[1] \in {"chunk", "done"}
            /\ Len(t.raw) = 2 \/ (Len(t.raw) = 3 /\ t.raw[2] = "cr")
            => firstLine(t).state = "open"
<1> DEFINE e == [t EXCEPT !.line = Len(t.raw)]
           bad == "cr" \in ToSet(LineContent(t)) \/ LineContent(t) = <<>>
                    \/ Head(LineContent(t)) \notin {"chunk", "done"}
<1>1. t.raw \in Seq(Token) /\ Len(t.raw) \in Nat /\ t.line < Len(t.raw)
  BY DEF DecoderRecord
<1>2. PICK w \in Seq(Token) :
        /\ LineContent(t) = Strip(w) /\ Len(w) = Len(t.raw) - 1 - t.line
        /\ \A i \in 1..Len(w) : w[i] = t.raw[t.line + i]
  BY <1>1, ContentIs
<1>3. /\ e \in DecoderRecord /\ e.line = Len(t.raw) /\ e.raw = t.raw /\ e.state = t.state
      /\ e.left = t.left /\ e.buffer = t.buffer /\ e.readErr = t.readErr /\ e.total = t.total
      /\ e.events = t.events /\ e.chunks = t.chunks
  BY <1>1 DEF DecoderRecord
<1>4. firstLine(t) = IF bad THEN fail(t) ELSE e
  BY DEF firstLine
<1>5. PICK k \in Nat : k = Len(t.raw) /\ k > 0 /\ Len(w) = k - 1
  <2>1. PICK k \in Nat : k = Len(t.raw)
    BY <1>1, Zenon
  <2>2. k > 0 /\ k - 1 - 0 = k - 1
    BY <2>1
  <2> QED
    BY <1>2, <2>1, <2>2, Zenon
<1> HIDE DEF e
<1>6. CASE bad
  <2>1. ~(/\ t.raw[1] \in {"chunk", "done"}
          /\ Len(t.raw) = 2 \/ (Len(t.raw) = 3 /\ t.raw[2] = "cr"))
    <3> SUFFICES ASSUME t.raw[1] \in {"chunk", "done"}, k = 2 \/ (k = 3 /\ t.raw[2] = "cr")
                 PROVE  FALSE
      BY <1>5, Zenon
    <3>1. /\ 1 \in 1..k - 1 /\ k - 1 \in Nat /\ 0 + 1 = 1 /\ 0 + 2 = 2
          /\ k = 3 => 2 \in 1..k - 1
      BY <1>5, SmallLine, Zenon
    <3>2. w[1] = t.raw[1] /\ (k = 3 => w[2] = t.raw[2])
      BY <1>2, <1>5, <3>1, ZenonT(60)
    <3>3. Strip(w) \in Seq(Token) /\ Len(Strip(w)) = 1 /\ Strip(w)[1] = w[1]
      <4>1. \/ Len(w) = 1 /\ w[1] # "cr"
            \/ Len(w) = 2 /\ w[2] = "cr"
        BY <1>5, <3>2
      <4> QED
        BY <4>1, StripIs
    <3>4. PICK c \in Seq(Token) : c = LineContent(t) /\ Len(c) = 1 /\ c[1] \in {"chunk", "done"}
      BY <1>2, <3>2, <3>3, Zenon
    <3>5. c # <<>> /\ Head(c) = c[1] /\ "cr" \notin ToSet(c)
      <4>1. c[1] # "cr"
        BY <3>4
      <4> QED
        BY <3>4, <4>1, OneHead, Zenon
    <3> QED
      BY <1>6, <3>4, <3>5
  <2> QED
    BY <1>4, <1>6, <2>1, FailFacts
<1>7. CASE ~bad
  <2>1. firstLine(t) = e
    BY <1>4, <1>7
  <2>2. Len(w) # 0
    <3>1. Strip(w) \in Seq(Token) /\ Strip(w) # <<>>
      BY <1>2, <1>7, StripIs
    <3> QED
      BY <3>1, StripIs
  <2>3. k >= 2
    <3>1. k - 1 # 0 /\ k > 0
      BY <1>5, <2>2, Zenon
    <3> QED
      BY <3>1
  <2>4. DecoderInv(e, s) /\ Start(e) = Start(t)
    <3>1. e.line <= Len(e.raw)
      BY <1>1, <1>3
    <3> QED
      BY <1>3, <3>1, Zenon DEF DecoderInv, Start
  <2>5. PartInv(e)
    <3>1. e.line = k /\ k # 0 /\ Len(e.raw) = k
      BY <1>3, <1>5
    <3>2. \A i \in 1..k : e.raw[i] = "lf" <=> i = k
      BY <1>3, <1>5, Zenon
    <3> QED
      BY <1>3, <2>3, <3>1, <3>2 DEF PartInv
  <2>6. ~EventReady(e)
    BY <1>1, <1>3 DEF EventReady
  <2> QED
    BY <1>3, <2>1, <2>4, <2>5, <2>6, Zenon
<1> QED
  BY <1>6, <1>7

(* The two lines of a well-formed event, by their lengths *)
LEMMA ShapeArith ==
  ASSUME NEW l \in Nat, NEW n \in Nat, l >= 2, l < n
  PROVE  /\ l - 1 = 1 <=> l = 2
         /\ l - 1 = 2 <=> l = 3
         /\ n - 1 - l = 0 <=> n = l + 1
         /\ n - 1 - l = 1 <=> n = l + 2
         /\ ~(l = 2 /\ l = 3) /\ ~(n = l + 1 /\ n = l + 2)
OBVIOUS

(* The first line, which ends at place l, without its LF *)
LEMMA FieldIs ==
  ASSUME NEW r \in Seq(Token), NEW l \in Nat, l >= 2, l < Len(r)
  PROVE  \E w \in Seq(Token) :
           /\ w = SubSeq(r, 1, l - 1) /\ Len(w) = l - 1 /\ w # <<>>
           /\ w[1] = r[1] /\ (l = 3 => w[2] = r[2])
<1>1. /\ l - 1 \in Nat /\ 0 <= l - 1 /\ l - 1 <= Len(r) /\ 0 + 1 = 1 /\ (l - 1) - 0 = l - 1
      /\ 1 \in 1..l - 1 /\ 0 \in Nat /\ 0 + 2 = 2 /\ l - 1 > 0
      /\ l = 3 => 2 \in 1..l - 1
  <2>1. PICK k \in Nat : k = Len(r) /\ l < k
    BY Zenon, LenProperties
  <2> QED
    BY <2>1
<1>2. PICK w : w = SubSeq(r, 0 + 1, l - 1)
  OBVIOUS
<1>3. w \in Seq(Token) /\ Len(w) = (l - 1) - 0 /\ \A i \in 1..(l - 1) - 0 : w[i] = r[0 + i]
  <2>1. PICK k \in Nat : k = l - 1 /\ 0 <= k /\ k <= Len(r)
    BY <1>1, Zenon
  <2>2. /\ SubSeq(r, 0 + 1, k) \in Seq(Token) /\ Len(SubSeq(r, 0 + 1, k)) = k - 0
        /\ \A i \in 1..k - 0 : SubSeq(r, 0 + 1, k)[i] = r[0 + i]
    BY <2>1, WindowPart
  <2> QED
    BY <1>2, <2>1, <2>2, Zenon
<1>4. w[1] = r[1] /\ (l = 3 => w[2] = r[2])
  <2>1. \A i \in 1..l - 1 : w[i] = r[0 + i]
    BY <1>1, <1>3, Zenon
  <2>2. w[1] = r[0 + 1] /\ (l = 3 => w[2] = r[0 + 2])
    BY <1>1, <2>1, Zenon
  <2>3. 0 + 1 = 1 /\ 0 + 2 = 2
    OBVIOUS
  <2> QED
    BY <2>2, <2>3, Zenon
<1>5. w # <<>>
  <2>1. PICK k \in Nat : k = Len(w) /\ k > 0
    BY <1>1, <1>3, Zenon
  <2>2. Len(w) # 0
    BY <2>1
  <2> QED
    BY <1>3, <2>2, EmptySeq
<1> QED
  BY <1>1, <1>2, <1>3, <1>4, <1>5, Zenon

(* That line, without its LF *)
Field(d) == SubSeq(d.raw, 1, d.line - 1)

(* An empty second line behind a field of this text makes an event. *)
LEMMA SecondShape ==
  ASSUME NEW t \in DecoderRecord, t.line >= 2, t.line < Len(t.raw),
         \A i \in 1..Len(t.raw) : t.raw[i] = "lf" <=> i = t.line \/ i = Len(t.raw),
         NEW text \in Token, text # "cr"
  PROVE  LineContent(t) = <<>> /\ Strip(Field(t)) = <<text>> <=> Shaped(t.raw, text, t.line)
<1>1. PICK r \in Seq(Token), l \in Nat, n \in Nat :
        r = t.raw /\ l = t.line /\ n = Len(r) /\ l >= 2 /\ l < n
  BY DEF DecoderRecord
<1>2. PICK v \in Seq(Token) :
        /\ LineContent(t) = Strip(v) /\ Len(v) = n - 1 - l
        /\ \A i \in 1..Len(v) : v[i] = r[l + i]
  BY <1>1, ContentIs, Zenon
<1>3. PICK w \in Seq(Token) :
        /\ w = Field(t) /\ Len(w) = l - 1 /\ w[1] = r[1] /\ (l = 3 => w[2] = r[2])
  BY <1>1, FieldIs, ZenonT(60) DEF Field
<1>4. LineContent(t) = <<>> <=> n - 1 - l = 0 \/ (n - 1 - l = 1 /\ r[l + 1] = "cr")
  <2>1. LineContent(t) = <<>> <=> Len(v) = 0 \/ (Len(v) = 1 /\ v[1] = "cr")
    <3>1. PICK x \in Seq(Token) : x = Strip(v) /\ (Len(x) = 0 <=> Len(v) = 0 \/ (Len(v) = 1 /\ v[1] = "cr"))
      BY StripIs, Zenon
    <3>2. x = <<>> <=> Len(x) = 0
      OBVIOUS
    <3> QED
      BY <1>2, <3>1, <3>2, Zenon
  <2>2. Len(v) = 1 => v[1] = r[l + 1]
    <3>1. 1 \in 1..1
      OBVIOUS
    <3> QED
      BY <1>2, <3>1, Zenon
  <2> QED
    BY <1>2, <2>1, <2>2, Zenon
<1>5. Strip(Field(t)) = <<text>> <=> /\ \/ l - 1 = 1 /\ r[1] # "cr"
                                        \/ l - 1 = 2 /\ r[2] = "cr"
                                     /\ r[1] = text
  <2>1. PICK x \in Seq(Token) :
          /\ x = Strip(w) /\ (Len(x) > 0 => x[1] = w[1])
          /\ Len(x) = 1 <=> (Len(w) = 1 /\ w[1] # "cr") \/ (Len(w) = 2 /\ w[2] = "cr")
    BY StripIs
  <2>2. x = <<text>> <=> Len(x) = 1 /\ x[1] = text
    BY OneToken
  <2>3. Len(x) = 1 => x[1] = w[1]
    BY <2>1
  <2>4. l - 1 = 2 => l = 3
    BY <1>1
  <2> QED
    BY <1>3, <2>1, <2>2, <2>3, <2>4, Zenon
<1>6. r[1] # "lf" /\ r[l] = "lf" /\ r[n] = "lf"
  <2>1. 1 \in 1..n /\ l \in 1..n /\ n \in 1..n /\ 1 # l /\ 1 # n
    BY <1>1
  <2> QED
    BY <1>1, <2>1, Zenon
<1>7. Shaped(r, text, l) <=>
        /\ l \in {2, 3} /\ n \in {l + 1, l + 2} /\ r[1] = text
        /\ l = 3 => r[2] = "cr"
        /\ n = l + 2 => r[l + 1] = "cr"
  BY <1>1, <1>6, Zenon DEF Shaped
<1>8. /\ \/ l - 1 = 1 /\ r[1] # "cr"
         \/ l - 1 = 2 /\ r[2] = "cr"
      /\ r[1] = text
      /\ n - 1 - l = 0 \/ (n - 1 - l = 1 /\ r[l + 1] = "cr")
      <=> /\ l \in {2, 3} /\ n \in {l + 1, l + 2} /\ r[1] = text
          /\ l = 3 => r[2] = "cr"
          /\ n = l + 2 => r[l + 1] = "cr"
  <2>1. /\ l - 1 = 1 <=> l = 2
        /\ l - 1 = 2 <=> l = 3
        /\ n - 1 - l = 0 <=> n = l + 1
        /\ n - 1 - l = 1 <=> n = l + 2
        /\ ~(l = 2 /\ l = 3) /\ ~(n = l + 1 /\ n = l + 2)
    BY <1>1, ShapeArith, ZenonT(60)
  <2>2. r[1] = text => r[1] # "cr"
    OBVIOUS
  <2>3. (l \in {2, 3} <=> l = 2 \/ l = 3) /\ (n \in {l + 1, l + 2} <=> n = l + 1 \/ n = l + 2)
    BY Zenon
  <2>4. PICK one, two, next : one = r[1] /\ two = r[2] /\ next = r[l + 1]
    OBVIOUS
  <2> QED
    BY <2>1, <2>2, <2>3, <2>4, Zenon
<1> QED
  BY <1>1, <1>4, <1>5, <1>7, <1>8, Zenon

(* The event once its second line is complete *)
Accepted(d, text) ==
  [d EXCEPT !.events = @ + 1,
            !.chunks = IF text = "chunk" THEN @ + 1 ELSE @,
            !.state = IF text = "done" THEN "doneReturned" ELSE @]

(* What accepting an event keeps *)
LEMMA AcceptedFacts ==
  ASSUME NEW t \in DecoderRecord, NEW s, DecoderInv(t, s), t.state = "open",
         t.events = t.chunks, t.events < MaxEvents, NEW text \in {"chunk", "done"}
  PROVE  /\ Accepted(t, text) \in DecoderRecord /\ DecoderInv(Accepted(t, text), s)
         /\ Start(Accepted(t, text)) = Start(t)
         /\ Accepted(t, text).left = t.left /\ Accepted(t, text).readErr = t.readErr
         /\ Accepted(t, text).total = t.total /\ Accepted(t, text).raw = t.raw
         /\ Accepted(t, text).line = t.line /\ Accepted(t, text).buffer = t.buffer
         /\ Accepted(t, text).state = IF text = "chunk" THEN "open" ELSE "doneReturned"
         /\ Accepted(t, text).chunks = IF text = "chunk" THEN t.chunks + 1 ELSE t.chunks
         /\ Accepted(t, text).events = t.chunks + 1
<1> DEFINE e == Accepted(t, text)
<1>1. PICK n \in Nat : n = t.chunks /\ n = t.events /\ n < MaxEvents
  <2>1. t.chunks \in Nat
    BY DEF DecoderRecord
  <2> QED
    BY <2>1, Zenon
<1>2. /\ e \in DecoderRecord
      /\ e.left = t.left /\ e.readErr = t.readErr /\ e.total = t.total /\ e.raw = t.raw
      /\ e.line = t.line /\ e.buffer = t.buffer
  <2>1. CASE text = "chunk"
    <3>0. PICK m \in Nat : m = n + 1
      OBVIOUS
    <3>a. t.state = "open" /\ n = t.chunks /\ n = t.events
      BY <1>1, Zenon
    <3>1. e = [t EXCEPT !.events = m, !.chunks = m, !.state = "open"]
      BY <3>0, <3>a, <2>1 DEF Accepted, DecoderRecord
    <3> HIDE DEF e
    <3> QED
      BY <3>1 DEF DecoderRecord
  <2>2. CASE text = "done"
    <3>0. PICK m \in Nat : m = n + 1
      OBVIOUS
    <3>a. n = t.chunks /\ n = t.events
      BY <1>1, Zenon
    <3>1. e = [t EXCEPT !.events = m, !.chunks = n, !.state = "doneReturned"]
      BY <3>0, <3>a, <2>2 DEF Accepted, DecoderRecord
    <3> HIDE DEF e
    <3> QED
      BY <3>1 DEF DecoderRecord
  <2> QED
    BY <2>1, <2>2
<1>3. /\ e.state = IF text = "chunk" THEN "open" ELSE "doneReturned"
      /\ e.chunks = IF text = "chunk" THEN n + 1 ELSE n
      /\ e.events = n + 1
  <2>1. CASE text = "chunk"
    BY <1>1, <2>1 DEF Accepted, DecoderRecord
  <2>2. CASE text = "done"
    BY <1>1, <2>2 DEF Accepted, DecoderRecord
  <2> QED
    BY <2>1, <2>2
<1> HIDE DEF e
<1>4. e.chunks <= e.events /\ e.events <= MaxEvents
  <2>1. n <= n + 1 /\ n + 1 <= n + 1 /\ n + 1 <= MaxEvents
    BY <1>1, Sizes
  <2> QED
    BY <1>3, <2>1, Zenon
<1>5. Start(e) = Start(t)
  BY <1>2, Zenon DEF Start
<1>6. DecoderInv(e, s)
  BY <1>2, <1>4, <1>5, Zenon DEF DecoderInv
<1> QED
  BY <1>1, <1>2, <1>3, <1>5, <1>6, Zenon DEF e

(* secondLine, by what the two lines hold *)
LEMMA SecondLineIs ==
  ASSUME NEW t \in DecoderRecord, t.line >= 2, t.line < Len(t.raw)
  PROVE  secondLine(t) =
           IF LineContent(t) = <<>> /\ Strip(Field(t)) = <<"chunk">> THEN Accepted(t, "chunk")
           ELSE IF LineContent(t) = <<>> /\ Strip(Field(t)) = <<"done">> /\ t.chunks > 0
                THEN Accepted(t, "done") ELSE fail(t)
<1> DEFINE field == SubSeq(t.raw, 1, t.line - 1)
           payload == IF Last(field) = "cr" THEN Front(field) ELSE field
<1>1. field # <<>>
  <2>1. PICK r \in Seq(Token), l \in Nat : r = t.raw /\ l = t.line /\ l >= 2 /\ l < Len(r)
    BY DEF DecoderRecord
  <2>2. \E w \in Seq(Token) : w = SubSeq(r, 1, l - 1) /\ w # <<>>
    BY <2>1, FieldIs, Zenon
  <2> QED
    BY <2>1, <2>2, Zenon
<1>2. payload = Strip(Field(t))
  BY <1>1, Zenon DEF Strip, Field
<1>3. secondLine(t) =
        IF LineContent(t) # <<>> \/ ~validEvent(t, payload) THEN fail(t)
        ELSE [t EXCEPT !.events = @ + 1,
                       !.chunks = IF payload = <<"chunk">> THEN @ + 1 ELSE @,
                       !.state = IF payload = <<"done">> THEN "doneReturned" ELSE @]
  BY DEF secondLine
<1>4. validEvent(t, payload) <=> (payload = <<"done">> /\ t.chunks > 0) \/ payload = <<"chunk">>
  BY Zenon DEF validEvent
<1>5. <<"chunk">> # <<"done">>
  OBVIOUS
<1>6. CASE LineContent(t) = <<>> /\ payload = <<"chunk">>
  <2>1. secondLine(t) = [t EXCEPT !.events = @ + 1, !.chunks = @ + 1, !.state = @]
    BY <1>3, <1>4, <1>5, <1>6, Zenon
  <2>2. Accepted(t, "chunk") = [t EXCEPT !.events = @ + 1, !.chunks = @ + 1, !.state = @]
    BY DEF Accepted
  <2> QED
    BY <1>2, <1>6, <2>1, <2>2, Zenon
<1>7. CASE LineContent(t) = <<>> /\ payload = <<"done">> /\ t.chunks > 0
  <2>1. secondLine(t) = [t EXCEPT !.events = @ + 1, !.chunks = @, !.state = "doneReturned"]
    BY <1>3, <1>4, <1>5, <1>7, Zenon
  <2>2. Accepted(t, "done") = [t EXCEPT !.events = @ + 1, !.chunks = @, !.state = "doneReturned"]
    BY DEF Accepted
  <2> QED
    BY <1>2, <1>5, <1>7, <2>1, <2>2, Zenon
<1>8. CASE /\ ~(LineContent(t) = <<>> /\ payload = <<"chunk">>)
           /\ ~(LineContent(t) = <<>> /\ payload = <<"done">> /\ t.chunks > 0)
  BY <1>2, <1>3, <1>4, <1>8, Zenon
<1> QED
  BY <1>6, <1>7, <1>8, Zenon

(* The event is complete, or refused. *)
LEMMA SecondLineFacts ==
  ASSUME NEW t \in DecoderRecord, NEW s, DecoderInv(t, s), t.state = "open",
         t.events = t.chunks, t.events < MaxEvents, t.line >= 2, t.line < Len(t.raw),
         \A i \in 1..Len(t.raw) : t.raw[i] = "lf" <=> i = t.line \/ i = Len(t.raw)
  PROVE  \/ secondLine(t) = fail(t) /\ ~Shaped(t.raw, "chunk", t.line)
            /\ (t.chunks > 0 => ~Shaped(t.raw, "done", t.line))
         \/ secondLine(t) = Accepted(t, "chunk") /\ t.raw \in EventOf("chunk")
            /\ EventReady(Accepted(t, "chunk"))
         \/ secondLine(t) = Accepted(t, "done") /\ t.raw \in EventOf("done") /\ t.chunks > 0
<1>1. \A text \in {"chunk", "done"} :
        LineContent(t) = <<>> /\ Strip(Field(t)) = <<text>> <=> Shaped(t.raw, text, t.line)
  <2> SUFFICES ASSUME NEW text \in {"chunk", "done"}
               PROVE  LineContent(t) = <<>> /\ Strip(Field(t)) = <<text>> <=> Shaped(t.raw, text, t.line)
    OBVIOUS
  <2>1. text \in Token /\ text # "cr"
    BY DEF Token, Text
  <2> QED
    BY <2>1, SecondShape, Zenon
<1>2. \A text \in {"chunk", "done"} : Shaped(t.raw, text, t.line) => t.raw \in EventOf(text)
  <2> SUFFICES ASSUME NEW text \in {"chunk", "done"}, Shaped(t.raw, text, t.line)
               PROVE  t.raw \in EventOf(text)
    OBVIOUS
  <2>1. t.raw \in Seq(Token) /\ t.line \in {2, 3} /\ Len(t.raw) <= MaxEventBytes
    BY Zenon DEF DecoderRecord, Shaped, DecoderInv
  <2> QED
    BY <2>1, ShapeEvent, Zenon
<1>3. EventReady(Accepted(t, "chunk"))
  <2>1. /\ Accepted(t, "chunk").state = "open" /\ Accepted(t, "chunk").line = t.line
        /\ Accepted(t, "chunk").raw = t.raw
    BY AcceptedFacts
  <2>2. t.line > 0 /\ Len(t.raw) > t.line
    BY DEF DecoderRecord
  <2>3. Last(t.raw) = "lf"
    <3>1. PICK n \in Nat : n = Len(t.raw) /\ n \in 1..n
      BY DEF DecoderRecord
    <3> QED
      BY <3>1, Zenon DEF Last
  <2>4. "open" # "failed"
    OBVIOUS
  <2> QED
    BY <2>1, <2>2, <2>3, <2>4, Zenon DEF EventReady
<1>4. secondLine(t) =
        IF LineContent(t) = <<>> /\ Strip(Field(t)) = <<"chunk">> THEN Accepted(t, "chunk")
        ELSE IF LineContent(t) = <<>> /\ Strip(Field(t)) = <<"done">> /\ t.chunks > 0
             THEN Accepted(t, "done") ELSE fail(t)
  BY SecondLineIs
<1>5. /\ LineContent(t) = <<>> /\ Strip(Field(t)) = <<"chunk">> <=> Shaped(t.raw, "chunk", t.line)
      /\ LineContent(t) = <<>> /\ Strip(Field(t)) = <<"done">> <=> Shaped(t.raw, "done", t.line)
      /\ Shaped(t.raw, "chunk", t.line) => t.raw \in EventOf("chunk")
      /\ Shaped(t.raw, "done", t.line) => t.raw \in EventOf("done")
  BY <1>1, <1>2, Zenon
<1> QED
  BY <1>3, <1>4, <1>5, Zenon

(* Where the line feeds are once a fragment has been taken *)
LEMMA TakenLines ==
  ASSUME NEW d \in DecoderRecord, NEW s \in Seq(Token), DecoderInv(d, s),
         accountEvent(d, Len(Fragment(d)))
  PROVE  \A i \in 1..Len(Taken(d).raw) :
           Taken(d).raw[i] = "lf" <=>
             \/ i <= Len(d.raw) /\ d.raw[i] = "lf"
             \/ i = Len(Taken(d).raw) /\ "lf" \in ToSet(d.buffer)
<1>a. PICK t, b : t = Taken(d) /\ b = d.buffer
  BY Zenon
<1>b. d.raw \in Seq(Token) /\ b \in Seq(Token)
  BY <1>a DEF DecoderRecord
<1>c. Len(d.raw) \in Nat /\ Len(Fragment(d)) \in Nat
  <2>1. Fragment(d) \in Seq(Token)
    BY <1>a, <1>b, FragmentFacts, Zenon
  <2> QED
    BY <1>b, <2>1
<1>1. PICK l, n \in Nat : l = Len(d.raw) /\ n = Len(Fragment(d))
  BY <1>c, Zenon
<1>2. /\ \A i \in 1..l : t.raw[i] = d.raw[i]
      /\ \A i \in 1..n : t.raw[l + i] = b[i]
      /\ Len(t.raw) = l + n
  BY <1>a, <1>1, TakenFacts, Zenon
<1>3. /\ n <= Len(b)
      /\ "lf" \in ToSet(b) => n > 0 /\ b[n] = "lf" /\ \A i \in 1..n - 1 : b[i] # "lf"
      /\ "lf" \notin ToSet(b) => n = Len(b) /\ \A i \in 1..Len(b) : b[i] # "lf"
  BY <1>a, <1>b, <1>1, FragmentFacts, Zenon
<1> SUFFICES ASSUME NEW i \in 1..l + n
             PROVE  t.raw[i] = "lf" <=> \/ i <= l /\ d.raw[i] = "lf"
                                        \/ i = l + n /\ "lf" \in ToSet(b)
  BY <1>a, <1>1, <1>2, Zenon
<1>4. CASE i <= l
  <2>1. i \in 1..l /\ (i = l + n => ~(n > 0))
    BY <1>4
  <2>2. i = l + n => "lf" \notin ToSet(b)
    BY <1>3, <2>1, Zenon
  <2> QED
    BY <1>2, <1>4, <2>1, <2>2, Zenon
<1>5. CASE ~(i <= l)
  <2>1. PICK j \in 1..n : i = l + j /\ (i = l + n <=> j = n) /\ (j # n => j \in 1..n - 1)
    <3>1. /\ i - l \in 1..n /\ i = l + (i - l) /\ (i = l + n <=> i - l = n)
          /\ (i - l # n => i - l \in 1..n - 1)
      BY <1>5
    <3> QED
      BY <3>1, Zenon
  <2>2. t.raw[i] = b[j]
    BY <1>2, <2>1, Zenon
  <2>3. CASE "lf" \in ToSet(b)
    BY <1>3, <1>5, <2>1, <2>2, <2>3, Zenon
  <2>4. CASE "lf" \notin ToSet(b)
    BY <1>3, <1>5, <2>1, <2>2, <2>4, Zenon
  <2> QED
    BY <2>3, <2>4
<1> QED
  BY <1>4, <1>5

(* readLine, by whether the fragment ends a line *)
LEMMA ReadLineIs ==
  ASSUME NEW d, d.buffer \in Seq(Token), NEW ended
  PROVE  readSSELine(d, ended) =
           IF ~accountEvent(d, Len(Fragment(d))) \/ ended THEN fail(d)
           ELSE IF "lf" \in ToSet(d.buffer)
                THEN IF d.line = 0 THEN firstLine(Taken(d)) ELSE secondLine(Taken(d))
                ELSE IF Len(d.buffer) >= BufferSize /\ d.readErr = "none" THEN Taken(d) ELSE fail(d)
<1>1. "lf" \in ToSet(Fragment(d)) <=> "lf" \in ToSet(d.buffer)
  BY FragmentFacts, Zenon
<1> QED
  BY <1>1, Zenon DEF readSSELine, Taken

(* What reading on leaves alone, and where it leads. *)
Keeps(d, e, s) ==
  /\ e \in DecoderRecord /\ DecoderInv(e, s) /\ Start(e) = Start(d)
  /\ e.left = d.left /\ e.readErr = d.readErr

(* ... in the state it is in: the event goes on, or is a chunk, or is       *)
(* [DONE], or is refused.                                                   *)
Outcomes(d, e) ==
  \/ e.state = "failed"
  \/ e.state = "open" /\ PartInv(e) /\ ~EventReady(e) /\ e.chunks = d.chunks
  \/ /\ e.state = "open" /\ EventReady(e) /\ e.raw \in EventOf("chunk")
     /\ e.events = e.chunks /\ e.chunks = d.chunks + 1
  \/ /\ e.state = "doneReturned" /\ e.raw \in EventOf("done")
     /\ e.chunks = d.chunks /\ d.chunks > 0 /\ d.chunks < MaxEvents

(* The event after a fragment: one LF more at its end, or none *)
LEMMA TakenOutcome ==
  ASSUME NEW d \in DecoderRecord, NEW s \in Seq(Token), DecoderInv(d, s),
         accountEvent(d, Len(Fragment(d))), d.state = "open", PartInv(d)
  PROVE  /\ Keeps(d, Taken(d), s)
         /\ Taken(d).state = "open" /\ Taken(d).line = d.line
         /\ Taken(d).chunks = d.chunks /\ Taken(d).events = d.chunks /\ d.chunks < MaxEvents
         /\ d.line = 0 /\ "lf" \in ToSet(d.buffer) =>
              /\ Len(Taken(d).raw) > 0
              /\ \A i \in 1..Len(Taken(d).raw) : Taken(d).raw[i] = "lf" <=> i = Len(Taken(d).raw)
         /\ d.line # 0 /\ "lf" \in ToSet(d.buffer) =>
              /\ d.line >= 2 /\ d.line < Len(Taken(d).raw)
              /\ \A i \in 1..Len(Taken(d).raw) :
                   Taken(d).raw[i] = "lf" <=> i = d.line \/ i = Len(Taken(d).raw)
         /\ "lf" \notin ToSet(d.buffer) => PartInv(Taken(d)) /\ ~EventReady(Taken(d))
<1>a. PICK t : t = Taken(d)
  BY Zenon
<1>1. /\ t.state = "open" /\ t.line = d.line /\ t.chunks = d.chunks /\ t.events = d.events
      /\ t.left = d.left /\ t.readErr = d.readErr
  BY <1>a DEF Taken, DecoderRecord
<1>2. d.events = d.chunks /\ d.events < MaxEvents
  BY Zenon DEF PartInv
<1>3. d.raw \in Seq(Token) /\ d.buffer \in Seq(Token) /\ t.raw \in Seq(Token) /\ d.line \in Nat
  <2>1. t \in DecoderRecord
    BY <1>a, TakenFacts, Zenon
  <2> QED
    BY <2>1 DEF DecoderRecord
<1>4. PICK l, n, k \in Nat : l = Len(d.raw) /\ n = Len(Fragment(d)) /\ k = Len(t.raw)
  <2>1. Fragment(d) \in Seq(Token)
    BY <1>3, FragmentFacts, Zenon
  <2>2. Len(d.raw) \in Nat /\ Len(Fragment(d)) \in Nat /\ Len(t.raw) \in Nat
    BY <1>3, <2>1
  <2> QED
    BY <2>2, Zenon
<1>5. k = l + n /\ ("lf" \in ToSet(d.buffer) => n > 0) /\ d.line <= l
  BY <1>a, <1>3, <1>4, TakenFacts, FragmentFacts, Zenon DEF DecoderInv
<1>6. \A i \in 1..k : t.raw[i] = "lf" <=> \/ i <= l /\ d.raw[i] = "lf"
                                          \/ i = k /\ "lf" \in ToSet(d.buffer)
  BY <1>a, <1>4, TakenLines, Zenon
<1>7. Keeps(d, t, s)
  BY <1>a, <1>1, TakenFacts, Zenon DEF Keeps
<1>8. d.line = 0 => \A i \in 1..l : d.raw[i] # "lf"
  <2>1. d.line = 0 => "lf" \notin ToSet(d.raw)
    BY Zenon DEF PartInv
  <2> QED
    BY <1>4, <2>1 DEF ToSet
<1>9. d.line # 0 => d.line >= 2 /\ \A i \in 1..l : d.raw[i] = "lf" <=> i = d.line
  BY <1>4, Zenon DEF PartInv
<1>10. \A i \in 1..k : i <= l => i \in 1..l
  BY <1>4
<1>11. ASSUME d.line = 0, "lf" \in ToSet(d.buffer)
       PROVE  k > 0 /\ \A i \in 1..k : t.raw[i] = "lf" <=> i = k
  <2>1. k > 0
    BY <1>5, <1>11
  <2> QED
    BY <1>6, <1>8, <1>10, <1>11, <2>1, Zenon
<1>12. ASSUME d.line # 0
       PROVE  /\ d.line \in 1..l /\ d.line >= 2 /\ (n > 0 => d.line < k) /\ ~(k > d.line /\ k = d.line)
              /\ \A i \in 1..k : i = d.line => i <= l
  <2>1. PICK x \in Nat : x = d.line /\ x >= 2 /\ x <= l
    BY <1>3, <1>5, <1>9, <1>12, Zenon
  <2>2. x \in 1..l /\ (n > 0 => x < k) /\ ~(k > x /\ k = x)
    BY <1>5, <2>1
  <2> QED
    BY <2>1, <2>2, Zenon
<1>13. ASSUME d.line # 0, "lf" \in ToSet(d.buffer)
       PROVE  d.line >= 2 /\ d.line < k /\ \A i \in 1..k : t.raw[i] = "lf" <=> i = d.line \/ i = k
  BY <1>5, <1>6, <1>9, <1>10, <1>12, <1>13, Zenon
<1>14. ASSUME "lf" \notin ToSet(d.buffer)
       PROVE  PartInv(t) /\ ~EventReady(t)
  <2>1. CASE d.line = 0
    <3>1. \A i \in 1..k : t.raw[i] # "lf"
      BY <1>6, <1>8, <1>10, <1>14, <2>1, Zenon
    <3>2. "lf" \notin ToSet(t.raw)
      BY <1>4, <3>1 DEF ToSet
    <3>3. ~(t.line > 0)
      BY <1>1, <2>1
    <3> QED
      BY <1>1, <1>2, <2>1, <3>2, <3>3, Zenon DEF PartInv, EventReady
  <2>2. CASE d.line # 0
    <3>1. \A i \in 1..k : t.raw[i] = "lf" <=> i = d.line
      BY <1>6, <1>9, <1>10, <1>12, <1>14, <2>2, Zenon
    <3>2. k > d.line => k \in 1..k /\ k # d.line
      BY <1>3
    <3>3. k > d.line => Last(t.raw) # "lf"
      BY <1>4, <3>1, <3>2, Zenon DEF Last
    <3> QED
      BY <1>1, <1>2, <1>4, <1>9, <2>2, <3>1, <3>3, Zenon DEF PartInv, EventReady
  <2> QED
    BY <2>1, <2>2
<1> QED
  BY <1>a, <1>1, <1>2, <1>4, <1>7, <1>11, <1>13, <1>14, Zenon

(* One step of Next through a fragment that is in the buffer *)
LEMMA ReadLineFacts ==
  ASSUME NEW d \in DecoderRecord, NEW s \in Seq(Token), DecoderInv(d, s),
         d.state = "open", PartInv(d), NEW ended \in BOOLEAN
  PROVE  Keeps(d, readSSELine(d, ended), s) /\ Outcomes(d, readSSELine(d, ended))
<1>a. PICK e, t : e = readSSELine(d, ended) /\ t = Taken(d)
  BY Zenon
<1>0. d.buffer \in Seq(Token) /\ d.chunks \in Nat
  BY DEF DecoderRecord
<1>1. e = IF ~accountEvent(d, Len(Fragment(d))) \/ ended THEN fail(d)
          ELSE IF "lf" \in ToSet(d.buffer)
               THEN IF d.line = 0 THEN firstLine(t) ELSE secondLine(t)
               ELSE IF Len(d.buffer) >= BufferSize /\ d.readErr = "none" THEN t ELSE fail(d)
  BY <1>a, <1>0, ReadLineIs, Zenon
<1>2. CASE e = fail(d)
  <2>1. /\ e \in DecoderRecord /\ DecoderInv(e, s) /\ Start(e) = Start(d)
        /\ e.state = "failed" /\ e.left = d.left /\ e.readErr = d.readErr
    BY <1>2, FailFacts
  <2> QED
    BY <1>a, <2>1, Zenon DEF Keeps, Outcomes
<1>3. CASE e # fail(d)
  <2>1. accountEvent(d, Len(Fragment(d)))
    BY <1>1, <1>3, Zenon
  <2>a. /\ Keeps(d, t, s)
        /\ t.state = "open" /\ t.line = d.line
        /\ t.chunks = d.chunks /\ t.events = d.chunks /\ d.chunks < MaxEvents
        /\ d.line = 0 /\ "lf" \in ToSet(d.buffer) =>
              /\ Len(t.raw) > 0
              /\ \A i \in 1..Len(t.raw) : t.raw[i] = "lf" <=> i = Len(t.raw)
        /\ d.line # 0 /\ "lf" \in ToSet(d.buffer) =>
              /\ d.line >= 2 /\ d.line < Len(t.raw)
              /\ \A i \in 1..Len(t.raw) : t.raw[i] = "lf" <=> i = d.line \/ i = Len(t.raw)
        /\ "lf" \notin ToSet(d.buffer) => PartInv(t) /\ ~EventReady(t)
    BY <1>a, <2>1, TakenOutcome
  <2>2. /\ t \in DecoderRecord /\ DecoderInv(t, s) /\ Start(t) = Start(d)
        /\ t.left = d.left /\ t.readErr = d.readErr
        /\ t.state = "open" /\ t.line = d.line
        /\ t.chunks = d.chunks /\ t.events = d.chunks /\ d.chunks < MaxEvents
        /\ d.line = 0 /\ "lf" \in ToSet(d.buffer) =>
              /\ Len(t.raw) > 0
              /\ \A i \in 1..Len(t.raw) : t.raw[i] = "lf" <=> i = Len(t.raw)
        /\ d.line # 0 /\ "lf" \in ToSet(d.buffer) =>
              /\ t.line >= 2 /\ t.line < Len(t.raw)
              /\ \A i \in 1..Len(t.raw) : t.raw[i] = "lf" <=> i = t.line \/ i = Len(t.raw)
        /\ "lf" \notin ToSet(d.buffer) => PartInv(t) /\ ~EventReady(t)
    BY <2>a, Zenon DEF Keeps
  <2>3. CASE "lf" \notin ToSet(d.buffer)
    <3>1. e = t
      BY <1>1, <1>3, <2>1, <2>3, Zenon
    <3> QED
      BY <1>a, <2>2, <2>3, <3>1, Zenon DEF Keeps, Outcomes
  <2>4. CASE "lf" \in ToSet(d.buffer) /\ d.line = 0
    <3>1. e = firstLine(t)
      BY <1>1, <1>3, <2>1, <2>4, Zenon
    <3>2. /\ e \in DecoderRecord /\ DecoderInv(e, s) /\ Start(e) = Start(t)
          /\ e.left = t.left /\ e.readErr = t.readErr
          /\ \/ e.state = "failed"
             \/ e.state = "open" /\ PartInv(e) /\ ~EventReady(e) /\ e.chunks = t.chunks
      <4>1. /\ t.state = "open" /\ t.line = 0 /\ t.events = t.chunks /\ t.events < MaxEvents
            /\ Len(t.raw) > 0 /\ \A i \in 1..Len(t.raw) : t.raw[i] = "lf" <=> i = Len(t.raw)
        BY <2>2, <2>4, Zenon
      <4> QED
        BY <2>2, <3>1, <4>1, FirstLineFacts, Zenon
    <3> QED
      BY <1>a, <2>2, <3>2, Zenon DEF Keeps, Outcomes
  <2>5. CASE "lf" \in ToSet(d.buffer) /\ d.line # 0
    <3>1. e = secondLine(t)
      BY <1>1, <1>3, <2>1, <2>5, Zenon
    <3>2. /\ t.state = "open" /\ t.events = t.chunks /\ t.events < MaxEvents
          /\ t.line >= 2 /\ t.line < Len(t.raw)
          /\ \A i \in 1..Len(t.raw) : t.raw[i] = "lf" <=> i = t.line \/ i = Len(t.raw)
      BY <2>2, <2>5, Zenon
    <3>3. \/ e = fail(t)
          \/ e = Accepted(t, "chunk") /\ t.raw \in EventOf("chunk") /\ EventReady(Accepted(t, "chunk"))
          \/ e = Accepted(t, "done") /\ t.raw \in EventOf("done") /\ t.chunks > 0
      BY <2>2, <3>1, <3>2, SecondLineFacts, Zenon
    <3>4. CASE e = fail(t)
      <4>1. Keeps(t, e, s) /\ e.state = "failed"
        BY <2>2, <3>4, FailFacts, Zenon DEF Keeps
      <4> QED
        BY <1>a, <2>2, <4>1, Zenon DEF Keeps, Outcomes
    <3>5. CASE e = Accepted(t, "chunk") /\ t.raw \in EventOf("chunk") /\ EventReady(Accepted(t, "chunk"))
      <4>1. /\ Keeps(t, e, s) /\ e.raw = t.raw
            /\ e.state = "open" /\ e.chunks = t.chunks + 1 /\ e.events = t.chunks + 1
        <5>1. "chunk" \in {"chunk", "done"}
          OBVIOUS
        <5> QED
          BY <2>2, <3>2, <3>5, <5>1, AcceptedFacts, Zenon DEF Keeps
      <4>2. e.raw \in EventOf("chunk") /\ EventReady(e) /\ e.events = e.chunks /\ e.chunks = d.chunks + 1
        BY <2>2, <3>5, <4>1, Zenon
      <4> QED
        BY <1>a, <2>2, <4>1, <4>2, Zenon DEF Keeps, Outcomes
    <3>6. CASE e = Accepted(t, "done") /\ t.raw \in EventOf("done") /\ t.chunks > 0
      <4>1. Keeps(t, e, s) /\ e.raw = t.raw /\ e.state = "doneReturned" /\ e.chunks = t.chunks
        <5>1. "done" \in {"chunk", "done"} /\ "done" # "chunk"
          OBVIOUS
        <5> QED
          BY <2>2, <3>2, <3>6, <5>1, AcceptedFacts, Zenon DEF Keeps
      <4>2. e.raw \in EventOf("done") /\ e.chunks = d.chunks /\ d.chunks > 0
        BY <2>2, <3>6, <4>1, Zenon
      <4> QED
        BY <1>a, <2>2, <4>1, <4>2, Zenon DEF Keeps, Outcomes
    <3> QED
      BY <3>3, <3>4, <3>5, <3>6
  <2> QED
    BY <2>3, <2>4, <2>5
<1> QED
  BY <1>2, <1>3

(* A read brings more of the stream, or nothing. *)
LEMMA FillFacts ==
  ASSUME NEW d \in DecoderRecord, NEW s \in Seq(Token), DecoderInv(d, s),
         NEW tokens \in Seq(Token), Len(tokens) <= Room(d),
         Window(tokens, s, d.total + Len(d.buffer)), NEW err \in {"none", "EOF", "failure"}
  PROVE  /\ fill(d, tokens, err) \in DecoderRecord /\ DecoderInv(fill(d, tokens, err), s)
         /\ fill(d, tokens, err).left = d.left - Len(tokens)
         /\ fill(d, tokens, err).readErr = err
         /\ Len(fill(d, tokens, err).buffer) = Len(d.buffer) + Len(tokens)
         /\ fill(d, tokens, err).state = d.state /\ fill(d, tokens, err).raw = d.raw
         /\ fill(d, tokens, err).line = d.line /\ fill(d, tokens, err).total = d.total
         /\ fill(d, tokens, err).chunks = d.chunks /\ fill(d, tokens, err).events = d.events
<1>a. PICK e : e = fill(d, tokens, err)
  BY Zenon
<1>1. /\ d.buffer \in Seq(Token) /\ d.raw \in Seq(Token) /\ d.left \in Nat /\ d.total \in Nat
      /\ Len(d.buffer) \in Nat /\ Len(tokens) \in Nat
  BY DEF DecoderRecord
<1>2. /\ e.left = d.left - Len(tokens) /\ e.readErr = err /\ e.buffer = d.buffer \o tokens
      /\ e.state = d.state /\ e.raw = d.raw /\ e.line = d.line /\ e.total = d.total
      /\ e.chunks = d.chunks /\ e.events = d.events
      /\ e = [d EXCEPT !.buffer = d.buffer \o tokens, !.left = d.left - Len(tokens), !.readErr = err]
  BY <1>a DEF fill, DecoderRecord
<1>3. Window(d.buffer, s, d.total)
  BY Zenon DEF DecoderInv
<1>4. PICK x : x = d.buffer \o tokens
  BY Zenon
<1>5. x \in Seq(Token) /\ Len(x) = Len(d.buffer) + Len(tokens) /\ Window(x, s, d.total)
  BY <1>1, <1>3, <1>4, WindowJoin
<1>6. PICK b, n, l \in Nat : b = Len(d.buffer) /\ n = Len(tokens) /\ l = d.left
  BY <1>1, Zenon
<1>7. n <= l /\ b + n <= BufferSize
  <2>1. b <= BufferSize /\ n <= Smallest(BufferSize - b, l)
    BY <1>6, Zenon DEF DecoderInv, Room
  <2>2. PICK z \in Nat : z = BufferSize /\ b <= z /\ n <= Smallest(z - b, l)
    BY <2>1, Sizes, Zenon
  <2>3. n <= l /\ b + n <= z
    BY <2>2 DEF Smallest
  <2> QED
    BY <2>2, <2>3, Zenon
<1>8. PICK m \in Nat : m = d.left - Len(tokens) /\ l = m + n
  <2>1. l - n \in Nat /\ l = (l - n) + n
    BY <1>7
  <2> QED
    BY <1>6, <2>1, Zenon
<1>9. e \in DecoderRecord
  BY <1>2, <1>4, <1>5, <1>8 DEF DecoderRecord
<1>10. e.left + e.total + Len(e.buffer) = MaxTotalBytes + 1
  <2>1. PICK t \in Nat : t = d.total /\ l + t + b = MaxTotalBytes + 1
    BY <1>1, <1>6, Zenon DEF DecoderInv
  <2>2. m + t + (b + n) = l + t + b
    BY <1>8
  <2> QED
    BY <1>2, <1>4, <1>5, <1>6, <1>8, <2>1, <2>2, Zenon
<1>11. DecoderInv(e, s)
  <2>1. Start(e) = Start(d)
    BY <1>2, Zenon DEF Start
  <2>2. Len(e.buffer) <= BufferSize
    BY <1>2, <1>4, <1>5, <1>6, <1>7, Zenon
  <2> QED
    BY <1>2, <1>4, <1>5, <1>10, <2>1, <2>2, Zenon DEF DecoderInv
<1> QED
  BY <1>a, <1>2, <1>4, <1>5, <1>9, <1>11, Zenon


(* The actions one by one, with the guard of the surroundings dropped *)
Steps ==
  \/ ClientLeaves \/ ForceCancel \/ Propagate \/ DeadlinePasses \/ WatchRuns \/ TimerFires \/ TimerRuns
  \/ Permitted \/ CheckClient \/ CheckPermit \/ AnswerDraining \/ CheckDeadline \/ AnswerLate
  \/ Begin \/ Complete \/ Metadata \/ ParseResponse \/ CloseResponse \/ WriteLast \/ AnswerFailure
  \/ NextEvent \/ Decode \/ BeginRead \/ ReadBody \/ EndRead \/ StopEvent \/ RelayEvent
  \/ Unwind \/ CancelUpstream \/ FinishPermit \/ Recover

(* Every step is one of them. *)
LEMMA StepCases == [Next]_vars => Steps \/ UNCHANGED vars
BY DEF Next, Surroundings, Waits, Acts, Returned, Steps

(* Each action keeps ControlInv. *)
LEMMA ControlStep == ControlInv /\ [Next]_vars => ControlInv'
<1> SUFFICES ASSUME ControlInv, Steps \/ UNCHANGED vars PROVE ControlInv'
  BY StepCases
<1> USE DEF ControlInv, Here, Exits, Canceled, Looks, Early, Reads, Relaying, Places, Returns
<1>0. CASE UNCHANGED vars
  BY <1>0 DEF vars, given, answer
<1>1. CASE ClientLeaves
  BY <1>1 DEF ClientLeaves, given, answer
<1>2. CASE ForceCancel
  BY <1>2 DEF ForceCancel, given, answer
<1>3. CASE Propagate
  BY <1>3 DEF Propagate, given, answer
<1>4. CASE DeadlinePasses
  BY <1>4 DEF DeadlinePasses, given, answer
<1>5. CASE WatchRuns
  BY <1>5 DEF WatchRuns, given, answer, CloseBody
<1>6. CASE TimerFires
  BY <1>6 DEF TimerFires, given, answer
<1>7. CASE TimerRuns
  BY <1>7 DEF TimerRuns, given, answer, CloseBody
<1>8. CASE Permitted
  BY <1>8 DEF Permitted, given, answer, Quiet, NoIO, NoUpstream, Goto, Resume, Check,
     Exit, Leave, Write, CloseBody
<1>9. CASE CheckClient
  BY <1>9 DEF CheckClient, given, answer, Quiet, NoIO, NoUpstream, Goto, Resume, Check,
     Exit, Leave, Write, CloseBody
<1>10. CASE CheckPermit
  BY <1>10 DEF CheckPermit, given, answer, Quiet, NoIO, NoUpstream, Goto, Resume, Check,
     Exit, Leave, Write, CloseBody
<1>11. CASE AnswerDraining
  BY <1>11 DEF AnswerDraining, given, answer, Quiet, NoIO, NoUpstream, Goto, Resume,
     Check, Exit, Leave, Write, CloseBody
<1>12. CASE CheckDeadline
  BY <1>12 DEF CheckDeadline, given, answer, Quiet, NoIO, NoUpstream, Goto, Resume,
     Check, Exit, Leave, Write, CloseBody
<1>13. CASE AnswerLate
  BY <1>13 DEF AnswerLate, given, answer, Quiet, NoIO, NoUpstream, Goto, Resume, Check,
     Exit, Leave, Write, CloseBody
<1>14. CASE Begin
  BY <1>14 DEF Begin, given, answer, Quiet, NoIO, NoUpstream, Goto, Resume, Check, Exit,
     Leave, Write, CloseBody
<1>15. CASE Complete
  BY <1>15 DEF Complete, given, answer, Quiet, NoIO, NoUpstream, Goto, Resume, Check,
     Exit, Leave, Write, CloseBody
<1>16. CASE Metadata
  BY <1>16 DEF Metadata, given, answer, Quiet, NoIO, NoUpstream, Goto, Resume, Check,
     Exit, Leave, Write, CloseBody
<1>17. CASE ParseResponse
  BY <1>17 DEF ParseResponse, given, answer, Quiet, NoIO, NoUpstream, Goto, Resume,
     Check, Exit, Leave, Write, CloseBody
<1>18. CASE CloseResponse
  BY <1>18 DEF CloseResponse, given, answer, Quiet, NoIO, NoUpstream, Goto, Resume,
     Check, Exit, Leave, Write, CloseBody
<1>19. CASE WriteLast
  BY <1>19 DEF WriteLast, given, answer, Quiet, NoIO, NoUpstream, Goto, Resume, Check,
     Exit, Leave, Write, CloseBody
<1>20. CASE AnswerFailure
  BY <1>20 DEF AnswerFailure, given, answer, Quiet, NoIO, NoUpstream, Goto, Resume,
     Check, Exit, Leave, Write, CloseBody
<1>21. CASE NextEvent
  BY <1>21 DEF NextEvent, given, answer, Quiet, NoIO, NoUpstream, Goto, Resume, Check,
     Exit, Leave, Write, CloseBody
<1>22. CASE Decode
  BY <1>22 DEF Decode, given, answer, Quiet, NoIO, NoUpstream, Goto, Resume, Check,
     Exit, Leave, Write, CloseBody
<1>23. CASE BeginRead
  BY <1>23 DEF BeginRead, given, answer, Quiet, NoIO, NoUpstream, Goto, Resume, Check,
     Exit, Leave, Write, CloseBody
<1>24. CASE ReadBody
  BY <1>24 DEF ReadBody, given, answer, Quiet, NoIO, NoUpstream, Goto, Resume, Check,
     Exit, Leave, Write, CloseBody
<1>25. CASE EndRead
  BY <1>25 DEF EndRead, given, answer, Quiet, NoIO, NoUpstream, Goto, Resume, Check,
     Exit, Leave, Write, CloseBody
<1>26. CASE StopEvent
  BY <1>26 DEF StopEvent, given, answer, Quiet, NoIO, NoUpstream, Goto, Resume, Check,
     Exit, Leave, Write, CloseBody
<1>27. CASE RelayEvent
  BY <1>27 DEF RelayEvent, given, answer, Quiet, NoIO, NoUpstream, Goto, Resume, Check,
     Exit, Leave, Write, CloseBody
<1>28. CASE Unwind
  BY <1>28 DEF Unwind, given, answer, Quiet, NoIO, NoUpstream, Goto, Resume, Check,
     Exit, Leave, Write, CloseBody
<1>29. CASE CancelUpstream \/ FinishPermit
  BY <1>29 DEF CancelUpstream, FinishPermit, given, answer, Quiet, NoIO, NoUpstream, Goto, Resume,
     Check, Exit, Leave, Write, CloseBody
<1>30. CASE Recover
  BY <1>30 DEF Recover, given, answer, Quiet, NoIO, NoUpstream, Goto, Resume, Check,
     Exit, Leave, Write, CloseBody
<1> QED
  BY <1>0, <1>1, <1>2, <1>3, <1>4, <1>5, <1>6, <1>7, <1>8, <1>9, <1>10, <1>11, <1>12,
     <1>13, <1>14, <1>15, <1>16, <1>17, <1>18, <1>19, <1>20, <1>21, <1>22, <1>23, <1>24,
     <1>25, <1>26, <1>27, <1>28, <1>29, <1>30 DEF Steps

(* Each action keeps IdleInv. *)
LEMMA IdleStep == ControlInv /\ IdleInv /\ [Next]_vars => IdleInv'
<1> SUFFICES ASSUME ControlInv, IdleInv, Steps \/ UNCHANGED vars PROVE IdleInv'
  BY StepCases
<1> USE DEF ControlInv, IdleInv, Here, Exits, Canceled, Looks, Early, Reads, Relaying, Places, Returns
<1>0. CASE UNCHANGED vars
  BY <1>0 DEF vars, idle
<1>1. CASE ClientLeaves
  BY <1>1 DEF ClientLeaves, idle
<1>2. CASE ForceCancel
  BY <1>2 DEF ForceCancel, idle
<1>3. CASE Propagate
  BY <1>3 DEF Propagate, idle
<1>4. CASE DeadlinePasses
  BY <1>4 DEF DeadlinePasses, idle
<1>5. CASE WatchRuns
  BY <1>5 DEF WatchRuns, idle
<1>6. CASE TimerFires
  BY <1>6 DEF TimerFires, idle
<1>7. CASE TimerRuns
  <2>0. UNCHANGED <<pc, after, idleExpired>>
    BY <1>7 DEF TimerRuns
  <2>1. CASE timer = "fired" /\ timer' = "marked" /\ timedOut' = TRUE
    <3>1. timedOut' /\ idleExpired' /\ pc' \in {"read", "readReturned"} \cup Exits
      <4>1. idleExpired
        BY <2>1
      <4>2. pc \in {"read", "readReturned"} \cup Exits
        BY <2>1
      <4> QED
        BY <2>0, <2>1, <4>1, <4>2, Zenon
    <3> QED
      BY <2>0, <2>1, <3>1
  <2>2. CASE timer = "marked" /\ timer' = "done" /\ UNCHANGED timedOut
    BY <1>7, <2>2 DEF TimerRuns
  <2> QED
    BY <1>7, <2>1, <2>2, Zenon DEF TimerRuns
<1>8. CASE Permitted
  BY <1>8 DEF Permitted, idle, Quiet, NoIO, NoUpstream, Goto, Resume, Check, Exit,
     Leave, Write
<1>9. CASE CheckClient
  BY <1>9 DEF CheckClient, idle, Quiet, NoIO, NoUpstream, Goto, Resume, Check, Exit,
     Leave, Write
<1>10. CASE CheckPermit
  BY <1>10 DEF CheckPermit, idle, Quiet, NoIO, NoUpstream, Goto, Resume, Check, Exit,
     Leave, Write
<1>11. CASE AnswerDraining
  BY <1>11 DEF AnswerDraining, idle, Quiet, NoIO, NoUpstream, Goto, Resume, Check, Exit,
     Leave, Write
<1>12. CASE CheckDeadline
  BY <1>12 DEF CheckDeadline, idle, Quiet, NoIO, NoUpstream, Goto, Resume, Check, Exit,
     Leave, Write
<1>13. CASE AnswerLate
  BY <1>13 DEF AnswerLate, idle, Quiet, NoIO, NoUpstream, Goto, Resume, Check, Exit,
     Leave, Write
<1>14. CASE Begin
  BY <1>14 DEF Begin, idle, Quiet, NoIO, NoUpstream, Goto, Resume, Check, Exit, Leave,
     Write
<1>15. CASE Complete
  BY <1>15 DEF Complete, idle, Quiet, NoIO, NoUpstream, Goto, Resume, Check, Exit,
     Leave, Write
<1>16. CASE Metadata
  BY <1>16 DEF Metadata, idle, Quiet, NoIO, NoUpstream, Goto, Resume, Check, Exit,
     Leave, Write
<1>17. CASE ParseResponse
  BY <1>17 DEF ParseResponse, idle, Quiet, NoIO, NoUpstream, Goto, Resume, Check, Exit,
     Leave, Write
<1>18. CASE CloseResponse
  BY <1>18 DEF CloseResponse, idle, Quiet, NoIO, NoUpstream, Goto, Resume, Check, Exit,
     Leave, Write
<1>19. CASE WriteLast
  BY <1>19 DEF WriteLast, idle, Quiet, NoIO, NoUpstream, Goto, Resume, Check, Exit,
     Leave, Write
<1>20. CASE AnswerFailure
  BY <1>20 DEF AnswerFailure, idle, Quiet, NoIO, NoUpstream, Goto, Resume, Check, Exit,
     Leave, Write
<1>21. CASE NextEvent
  BY <1>21 DEF NextEvent, idle, Quiet, NoIO, NoUpstream, Goto, Resume, Check, Exit,
     Leave, Write
<1>22. CASE Decode
  BY <1>22 DEF Decode, idle, Quiet, NoIO, NoUpstream, Goto, Resume, Check, Exit, Leave,
     Write
<1>23. CASE BeginRead
  BY <1>23 DEF BeginRead, idle, Quiet, NoIO, NoUpstream, Goto, Resume, Check, Exit,
     Leave, Write
<1>24. CASE ReadBody
  BY <1>24 DEF ReadBody, idle, Quiet, NoIO, NoUpstream, Goto, Resume, Check, Exit,
     Leave, Write
<1>25. CASE EndRead
  BY <1>25 DEF EndRead, idle, Quiet, NoIO, NoUpstream, Goto, Resume, Check, Exit, Leave,
     Write
<1>26. CASE StopEvent
  BY <1>26 DEF StopEvent, idle, Quiet, NoIO, NoUpstream, Goto, Resume, Check, Exit,
     Leave, Write
<1>27. CASE RelayEvent
  BY <1>27 DEF RelayEvent, idle, Quiet, NoIO, NoUpstream, Goto, Resume, Check, Exit,
     Leave, Write
<1>28. CASE Unwind
  BY <1>28 DEF Unwind, idle, Quiet, NoIO, NoUpstream, Goto, Resume, Check, Exit, Leave,
     Write
<1>29. CASE CancelUpstream \/ FinishPermit
  BY <1>29 DEF CancelUpstream, FinishPermit, idle, Quiet, NoIO, NoUpstream, Goto, Resume, Check, Exit,
     Leave, Write
<1>30. CASE Recover
  BY <1>30 DEF Recover, idle, Quiet, NoIO, NoUpstream, Goto, Resume, Check, Exit, Leave,
     Write
<1> QED
  BY <1>0, <1>1, <1>2, <1>3, <1>4, <1>5, <1>6, <1>7, <1>8, <1>9, <1>10, <1>11, <1>12,
     <1>13, <1>14, <1>15, <1>16, <1>17, <1>18, <1>19, <1>20, <1>21, <1>22, <1>23, <1>24,
     <1>25, <1>26, <1>27, <1>28, <1>29, <1>30 DEF Steps

(* The types that do not concern the decoder or what the client received *)
Flags ==
  /\ client \in BOOLEAN /\ permit \in BOOLEAN /\ forced \in BOOLEAN /\ timedOut \in BOOLEAN
  /\ idleExpired \in BOOLEAN /\ late \in BOOLEAN /\ committed \in BOOLEAN

(* ... and those that are not Boolean *)
Values ==
  /\ up \in {"none", "live", "canceled", "deadline"} /\ event \in {"none", "live", "canceled", "deadline"}
  /\ upWatch \in {"off", "armed", "started", "done"} /\ eventWatch \in {"off", "armed", "started", "done"}
  /\ timer \in {"off", "armed", "fired", "marked", "done"}
  /\ body \in {"none", "open", "clean", "failed"}
  /\ outcome \in {"Completed", "Canceled", "UpstreamFailed", "DownstreamFailed", "InternalFailure"}
  /\ fault \subseteq {"slow", "transport"}

(* Each action keeps the Boolean types. *)
LEMMA FlagStep == Flags /\ [Next]_vars => Flags'
<1> SUFFICES ASSUME Flags, Steps \/ UNCHANGED vars PROVE Flags'
  BY StepCases
<1> USE DEF Flags
<1>0. CASE UNCHANGED vars
  BY <1>0 DEF vars, ctxs, idle, answer
<1>1. CASE ClientLeaves
  BY <1>1 DEF ClientLeaves, ctxs, idle, answer
<1>2. CASE ForceCancel
  BY <1>2 DEF ForceCancel, ctxs, idle, answer
<1>3. CASE Propagate
  BY <1>3 DEF Propagate, ctxs, idle, answer
<1>4. CASE DeadlinePasses
  BY <1>4 DEF DeadlinePasses, ctxs, idle, answer
<1>5. CASE WatchRuns
  BY <1>5 DEF WatchRuns, ctxs, idle, answer
<1>6. CASE TimerFires
  BY <1>6 DEF TimerFires, ctxs, idle, answer
<1>7. CASE TimerRuns
  BY <1>7 DEF TimerRuns, ctxs, idle, answer
<1>8. CASE Permitted
  BY <1>8 DEF Permitted, ctxs, idle, answer, Quiet, NoIO, NoUpstream, Goto, Resume,
     Check, Exit, Leave, Write
<1>9. CASE CheckClient
  BY <1>9 DEF CheckClient, ctxs, idle, answer, Quiet, NoIO, NoUpstream, Goto, Resume,
     Check, Exit, Leave, Write
<1>10. CASE CheckPermit
  BY <1>10 DEF CheckPermit, ctxs, idle, answer, Quiet, NoIO, NoUpstream, Goto, Resume,
     Check, Exit, Leave, Write
<1>11. CASE AnswerDraining
  BY <1>11 DEF AnswerDraining, ctxs, idle, answer, Quiet, NoIO, NoUpstream, Goto,
     Resume, Check, Exit, Leave, Write
<1>12. CASE CheckDeadline
  BY <1>12 DEF CheckDeadline, ctxs, idle, answer, Quiet, NoIO, NoUpstream, Goto, Resume,
     Check, Exit, Leave, Write
<1>13. CASE AnswerLate
  BY <1>13 DEF AnswerLate, ctxs, idle, answer, Quiet, NoIO, NoUpstream, Goto, Resume,
     Check, Exit, Leave, Write
<1>14. CASE Begin
  BY <1>14 DEF Begin, ctxs, idle, answer, Quiet, NoIO, NoUpstream, Goto, Resume, Check,
     Exit, Leave, Write
<1>15. CASE Complete
  BY <1>15 DEF Complete, ctxs, idle, answer, Quiet, NoIO, NoUpstream, Goto, Resume,
     Check, Exit, Leave, Write
<1>16. CASE Metadata
  BY <1>16 DEF Metadata, ctxs, idle, answer, Quiet, NoIO, NoUpstream, Goto, Resume,
     Check, Exit, Leave, Write
<1>17. CASE ParseResponse
  BY <1>17 DEF ParseResponse, ctxs, idle, answer, Quiet, NoIO, NoUpstream, Goto, Resume,
     Check, Exit, Leave, Write
<1>18. CASE CloseResponse
  BY <1>18 DEF CloseResponse, ctxs, idle, answer, Quiet, NoIO, NoUpstream, Goto, Resume,
     Check, Exit, Leave, Write
<1>19. CASE WriteLast
  BY <1>19 DEF WriteLast, ctxs, idle, answer, Quiet, NoIO, NoUpstream, Goto, Resume,
     Check, Exit, Leave, Write
<1>20. CASE AnswerFailure
  BY <1>20 DEF AnswerFailure, ctxs, idle, answer, Quiet, NoIO, NoUpstream, Goto, Resume,
     Check, Exit, Leave, Write
<1>21. CASE NextEvent
  BY <1>21 DEF NextEvent, ctxs, idle, answer, Quiet, NoIO, NoUpstream, Goto, Resume,
     Check, Exit, Leave, Write
<1>22. CASE Decode
  BY <1>22 DEF Decode, ctxs, idle, answer, Quiet, NoIO, NoUpstream, Goto, Resume, Check,
     Exit, Leave, Write
<1>23. CASE BeginRead
  BY <1>23 DEF BeginRead, ctxs, idle, answer, Quiet, NoIO, NoUpstream, Goto, Resume,
     Check, Exit, Leave, Write
<1>24. CASE ReadBody
  BY <1>24 DEF ReadBody, ctxs, idle, answer, Quiet, NoIO, NoUpstream, Goto, Resume,
     Check, Exit, Leave, Write
<1>25. CASE EndRead
  BY <1>25 DEF EndRead, ctxs, idle, answer, Quiet, NoIO, NoUpstream, Goto, Resume,
     Check, Exit, Leave, Write
<1>26. CASE StopEvent
  BY <1>26 DEF StopEvent, ctxs, idle, answer, Quiet, NoIO, NoUpstream, Goto, Resume,
     Check, Exit, Leave, Write
<1>27. CASE RelayEvent
  BY <1>27 DEF RelayEvent, ctxs, idle, answer, Quiet, NoIO, NoUpstream, Goto, Resume,
     Check, Exit, Leave, Write
<1>28. CASE Unwind
  BY <1>28 DEF Unwind, ctxs, idle, answer, Quiet, NoIO, NoUpstream, Goto, Resume, Check,
     Exit, Leave, Write
<1>29. CASE CancelUpstream \/ FinishPermit
  BY <1>29 DEF CancelUpstream, FinishPermit, ctxs, idle, answer, Quiet, NoIO, NoUpstream, Goto, Resume,
     Check, Exit, Leave, Write
<1>30. CASE Recover
  BY <1>30 DEF Recover, ctxs, idle, answer, Quiet, NoIO, NoUpstream, Goto, Resume,
     Check, Exit, Leave, Write
<1> QED
  BY <1>0, <1>1, <1>2, <1>3, <1>4, <1>5, <1>6, <1>7, <1>8, <1>9, <1>10, <1>11, <1>12,
     <1>13, <1>14, <1>15, <1>16, <1>17, <1>18, <1>19, <1>20, <1>21, <1>22, <1>23, <1>24,
     <1>25, <1>26, <1>27, <1>28, <1>29, <1>30 DEF Steps

(* Each action keeps the other types. *)
LEMMA ValueStep == Values /\ [Next]_vars => Values'
<1> SUFFICES ASSUME Values, Steps \/ UNCHANGED vars PROVE Values'
  BY StepCases
<1> USE DEF Values
<1>0. CASE UNCHANGED vars
  BY <1>0 DEF vars, ctxs, watches, idle, answer
<1>1. CASE ClientLeaves
  BY <1>1 DEF ClientLeaves, ctxs, watches, idle, answer
<1>2. CASE ForceCancel
  BY <1>2 DEF ForceCancel, ctxs, watches, idle, answer
<1>3. CASE Propagate
  BY <1>3 DEF Propagate, ctxs, watches, idle, answer
<1>4. CASE DeadlinePasses
  BY <1>4 DEF DeadlinePasses, ctxs, watches, idle, answer
<1>5. CASE WatchRuns
  BY <1>5 DEF WatchRuns, ctxs, watches, idle, answer, CloseBody
<1>6. CASE TimerFires
  BY <1>6 DEF TimerFires, ctxs, watches, idle, answer
<1>7. CASE TimerRuns
  BY <1>7 DEF TimerRuns, ctxs, watches, idle, answer, CloseBody
<1>8. CASE Permitted
  BY <1>8 DEF Permitted, ctxs, watches, idle, answer, Quiet, NoIO, NoUpstream, Goto,
     Resume, Check, Exit, Leave, Write
<1>9. CASE CheckClient
  BY <1>9 DEF CheckClient, ctxs, watches, idle, answer, Quiet, NoIO, NoUpstream, Goto,
     Resume, Check, Exit, Leave, Write
<1>10. CASE CheckPermit
  BY <1>10 DEF CheckPermit, ctxs, watches, idle, answer, Quiet, NoIO, NoUpstream, Goto,
     Resume, Check, Exit, Leave, Write
<1>11. CASE AnswerDraining
  BY <1>11 DEF AnswerDraining, ctxs, watches, idle, answer, Quiet, NoIO, NoUpstream,
     Goto, Resume, Check, Exit, Leave, Write
<1>12. CASE CheckDeadline
  BY <1>12 DEF CheckDeadline, ctxs, watches, idle, answer, Quiet, NoIO, NoUpstream,
     Goto, Resume, Check, Exit, Leave, Write
<1>13. CASE AnswerLate
  BY <1>13 DEF AnswerLate, ctxs, watches, idle, answer, Quiet, NoIO, NoUpstream, Goto,
     Resume, Check, Exit, Leave, Write
<1>14. CASE Begin
  BY <1>14 DEF Begin, ctxs, watches, idle, answer, Quiet, NoIO, NoUpstream, Goto,
     Resume, Check, Exit, Leave, Write
<1>15. CASE Complete
  <2>1. \/ fault' = fault
        \/ fault' = fault \cup {"slow"}
        \/ fault' = fault \cup {"transport"}
    BY <1>15, Zenon DEF Complete
  <2>2. fault' \subseteq {"slow", "transport"}
    BY <2>1
  <2>3. UNCHANGED <<up, event, eventWatch, timer, outcome>> /\ body' \in {body, "open"} /\ upWatch' \in {upWatch, "armed"}
    BY <1>15, Zenon DEF Complete, idle, answer, NoIO
  <2> QED
    BY <2>2, <2>3
<1>16. CASE Metadata
  BY <1>16 DEF Metadata, ctxs, watches, idle, answer, Quiet, NoIO, NoUpstream, Goto,
     Resume, Check, Exit, Leave, Write
<1>17. CASE ParseResponse
  <2>1. \/ fault' = fault
        \/ fault' = fault \cup {"slow"}
        \/ fault' = fault \cup {"transport"}
    BY <1>17, Zenon DEF ParseResponse
  <2>2. fault' \subseteq {"slow", "transport"}
    BY <2>1
  <2>3. UNCHANGED <<up, event, upWatch, eventWatch, timer, body, outcome>>
    BY <1>17, Zenon DEF ParseResponse, watches, idle, answer, NoIO
  <2> QED
    BY <2>2, <2>3
<1>18. CASE CloseResponse
  BY <1>18 DEF CloseResponse, ctxs, watches, idle, answer, Quiet, NoIO, NoUpstream,
     Goto, Resume, Check, Exit, Leave, Write, CloseBody
<1>19. CASE WriteLast
  BY <1>19 DEF WriteLast, ctxs, watches, idle, answer, Quiet, NoIO, NoUpstream, Goto,
     Resume, Check, Exit, Leave, Write
<1>20. CASE AnswerFailure
  BY <1>20 DEF AnswerFailure, ctxs, watches, idle, answer, Quiet, NoIO, NoUpstream,
     Goto, Resume, Check, Exit, Leave, Write
<1>21. CASE NextEvent
  BY <1>21 DEF NextEvent, ctxs, watches, idle, answer, Quiet, NoIO, NoUpstream, Goto,
     Resume, Check, Exit, Leave, Write
<1>22. CASE Decode
  BY <1>22 DEF Decode, ctxs, watches, idle, answer, Quiet, NoIO, NoUpstream, Goto,
     Resume, Check, Exit, Leave, Write
<1>23. CASE BeginRead
  BY <1>23 DEF BeginRead, ctxs, watches, idle, answer, Quiet, NoIO, NoUpstream, Goto,
     Resume, Check, Exit, Leave, Write
<1>24. CASE ReadBody
  <2>1. \/ fault' = fault
        \/ fault' = fault \cup {"slow"}
        \/ fault' = fault \cup {"transport"}
    BY <1>24, Zenon DEF ReadBody
  <2>2. fault' \subseteq {"slow", "transport"}
    BY <2>1
  <2>3. UNCHANGED <<up, event, upWatch, eventWatch, timer, body, outcome>>
    BY <1>24, Zenon DEF ReadBody, watches, idle, answer
  <2> QED
    BY <2>2, <2>3
<1>25. CASE EndRead
  BY <1>25 DEF EndRead, ctxs, watches, idle, answer, Quiet, NoIO, NoUpstream, Goto,
     Resume, Check, Exit, Leave, Write
<1>26. CASE StopEvent
  BY <1>26 DEF StopEvent, ctxs, watches, idle, answer, Quiet, NoIO, NoUpstream, Goto,
     Resume, Check, Exit, Leave, Write
<1>27. CASE RelayEvent
  BY <1>27 DEF RelayEvent, ctxs, watches, idle, answer, Quiet, NoIO, NoUpstream, Goto,
     Resume, Check, Exit, Leave, Write
<1>28. CASE Unwind
  BY <1>28 DEF Unwind, ctxs, watches, idle, answer, Quiet, NoIO, NoUpstream, Goto,
     Resume, Check, Exit, Leave, Write, CloseBody
<1>29. CASE CancelUpstream \/ FinishPermit
  <2>1. CASE CancelUpstream
    BY <2>1 DEF CancelUpstream, ctxs, watches, idle, answer, Quiet, NoIO, Goto
  <2>2. CASE FinishPermit
    BY <2>2 DEF FinishPermit, ctxs, watches, idle, answer, NoIO, NoUpstream, Goto
  <2> QED
    BY <1>29, <2>1, <2>2
<1>30. CASE Recover
  BY <1>30 DEF Recover, ctxs, watches, idle, answer, Quiet, NoIO, NoUpstream, Goto,
     Resume, Check, Exit, Leave, Write
<1> QED
  BY <1>0, <1>1, <1>2, <1>3, <1>4, <1>5, <1>6, <1>7, <1>8, <1>9, <1>10, <1>11, <1>12,
     <1>13, <1>14, <1>15, <1>16, <1>17, <1>18, <1>19, <1>20, <1>21, <1>22, <1>23, <1>24,
     <1>25, <1>26, <1>27, <1>28, <1>29, <1>30 DEF Steps

(* An error answer is one token. *)
LEMMA FirstOf ==
  ASSUME NEW f \in Failures
  PROVE  <<>> \o <<f>> = <<f>> /\ <<f>>[1] \in Failures /\ <<f>>[1] = f /\ Len(<<f>>) = 1
OBVIOUS

(* They hold initially. *)
LEMMA InitControl == Init => ControlInv /\ IdleInv /\ Flags /\ Values
<1> SUFFICES ASSUME Init PROVE ControlInv /\ IdleInv /\ Flags /\ Values
  OBVIOUS
<1>1. Here = "permitted" /\ pc = "permitted" /\ after = "none"
  BY DEF Init, Here, Looks
<1>2. ControlInv
  BY <1>1 DEF Init, ControlInv, Looks, Exits, Early, Relaying, Reads, Places
<1>3. IdleInv
  BY <1>1 DEF Init, IdleInv, Early, Exits
<1>4. Flags
  BY DEF Init, Flags
<1>5. Values
  BY DEF Init, Values
<1> QED
  BY <1>2, <1>3, <1>4, <1>5

(* How a step changes what the client has received *)
LEMMA SentStep ==
  ASSUME ControlInv, [Next]_vars
  PROVE  \/ sent' = sent
         \/ sent = <<>> /\ \E f \in Failures : sent' = <<f>>
         \/ WriteLast \/ RelayEvent
<1> SUFFICES ASSUME Steps \/ UNCHANGED vars
             PROVE  \/ sent' = sent
                    \/ sent = <<>> /\ \E f \in Failures : sent' = <<f>>
                    \/ WriteLast \/ RelayEvent
  BY StepCases
<1>1. ~committed => sent = <<>>
  BY DEF ControlInv
<1>2. pc = "metadata" => ~committed
  BY DEF ControlInv, Here, Early, Looks
<1>3. {"timeout", "bad", "draining", "internal"} \subseteq Failures
  BY DEF Failures
<1>4. CASE AnswerDraining
  BY <1>1, <1>3, <1>4, Zenon DEF AnswerDraining
<1>5. CASE Recover
  BY <1>1, <1>3, <1>5, Zenon DEF Recover
<1>6. ASSUME NEW f \in Failures, NEW r, Write(<<f>>, r), sent = <<>>
      PROVE  sent' = sent \/ \E g \in Failures : sent' = <<g>>
  BY <1>6, FirstOf DEF Write
<1>7. CASE AnswerLate
  BY <1>1, <1>3, <1>6, <1>7 DEF AnswerLate, Leave
<1>8. CASE Metadata
  BY <1>1, <1>2, <1>3, <1>6, <1>8 DEF Metadata, answer
<1>9. CASE AnswerFailure
  <2>1. (IF late THEN "timeout" ELSE "bad") \in Failures
    BY <1>3
  <2> QED
    BY <1>1, <1>6, <1>9, <2>1 DEF AnswerFailure, Leave
<1>11. CASE UNCHANGED vars
  BY <1>11 DEF vars, answer
<1>12. ClientLeaves \/ ForceCancel \/ Propagate \/ DeadlinePasses \/ WatchRuns \/ TimerFires \/ TimerRuns
       => UNCHANGED sent
  BY DEF ClientLeaves, ForceCancel, Propagate, DeadlinePasses, WatchRuns, TimerFires,
     TimerRuns, answer
<1>13. Permitted \/ CheckClient \/ CheckPermit \/ CheckDeadline \/ Begin => UNCHANGED sent
  BY DEF Permitted, CheckClient, CheckPermit, CheckDeadline, Begin, Leave, answer
<1>14. Complete \/ ParseResponse \/ CloseResponse \/ NextEvent \/ Decode \/ BeginRead => UNCHANGED sent
  BY DEF Complete, ParseResponse, CloseResponse, NextEvent, Decode, BeginRead, answer
<1>15. ReadBody \/ EndRead \/ StopEvent \/ Unwind \/ CancelUpstream \/ FinishPermit => UNCHANGED sent
  BY DEF ReadBody, EndRead, StopEvent, Unwind, CancelUpstream, FinishPermit, answer
<1> QED
  BY <1>4, <1>5, <1>7, <1>8, <1>9, <1>11, <1>12, <1>13, <1>14, <1>15 DEF Steps

(* Once the idle timer has won against a Read (sseIdleReader, relay.go),    *)
(* neither the event it belongs to nor a later one reaches the client.      *)
THEOREM IdleTimeoutIsFinal == Spec => IdleTimeoutFinal
<1>1. ControlInv /\ IdleInv /\ [Next]_vars =>
        [idleExpired => sent' = sent \/ (sent = <<>> /\ sent'[1] \in Failures)]_vars
  <2> SUFFICES ASSUME ControlInv, IdleInv, [Next]_vars, idleExpired
               PROVE  sent' = sent \/ (sent = <<>> /\ sent'[1] \in Failures)
    OBVIOUS
  <2>1. ~WriteLast /\ ~RelayEvent
    BY DEF WriteLast, RelayEvent, IdleInv, Here, Looks
  <2>2. sent' = sent \/ (sent = <<>> /\ \E f \in Failures : sent' = <<f>>)
    BY <2>1, SentStep
  <2> QED
    BY <2>2, FirstOf
<1> QED
  BY <1>1, InitControl, ControlStep, IdleStep, PTL DEF Spec, IdleTimeoutFinal

-----------------------------------------------------------------------------
(* From place to place: what holds at h holds at the place that follows. *)

(* The handler leaves. *)
LEMMA PhaseExit ==
  ASSUME NEW h, NEW d, NEW w, NEW s, Phase(h, d, w, s), NEW g \in Exits, NEW v
  PROVE  Phase(g, d, v, s)
BY DEF Phase, Exits, Early, Reads

(* The upstream has failed: an error answer follows. *)
LEMMA PhaseFailed ==
  ASSUME NEW h, NEW d, NEW w, NEW s, Phase(h, d, w, s), h \notin Exits
  PROVE  Phase("failed", d, w, s)
BY DEF Phase, Exits, Early, Reads

(* The decoder has refused the event. *)
LEMMA PhaseRefused ==
  ASSUME NEW h, NEW d, NEW w, NEW s, Phase(h, d, w, s), h \notin Exits, NEW e, e.state = "failed"
  PROVE  Phase("stop", e, w, s)
BY DEF Phase, Exits, Early, Reads

(* Nothing has been read yet. *)
LEMMA PhaseEarly ==
  ASSUME NEW h \in Early, NEW d, NEW w, NEW s, Phase(h, d, w, s), NEW g \in Early
  PROVE  Phase(g, d, w, s)
BY DEF Phase, Exits, Early, Reads

(* Nothing sent is no event sent. *)
LEMMA NothingSent ==
  ASSUME NEW s \in Seq(Token)
  PROVE  Behind(0, 0, <<>>, s)
<1>1. <<>> \in Seq({"chunk", "cr", "lf"}) /\ Len(<<>>) = 0
  OBVIOUS
<1>2. Window(<<>>, s, 0)
  BY DEF Window
<1>3. <<>> \in [1..0 -> EventOf("chunk")]
  OBVIOUS
<1> QED
  BY <1>1, <1>2, <1>3, FlattenEmpty DEF Behind, Sent

(* The response is accepted: the events follow. *)
LEMMA PhaseMetadata ==
  ASSUME NEW d, NEW w, NEW s \in Seq(Token), Phase("metadata", d, w, s)
  PROVE  Phase("next", d, w, s)
<1>1. d = NewSSEDecoder /\ w = <<>>
  BY DEF Phase, Early
<1>2. d.state = "open" /\ d.events = 0 /\ d.chunks = 0 /\ d.total = 0
  BY <1>1 DEF NewSSEDecoder
<1>3. Behind(d.chunks, d.total, w, s) /\ Sent(0, w, s)
  BY <1>1, <1>2, NothingSent, Zenon DEF Behind
<1>4. 0 \in 0..MaxEvents
  BY Sizes
<1>5. "next" \notin Early \cup Reads \cup Exits \cup {"stop", "relay", "verify", "close", "write"}
  BY DEF Early, Reads, Exits
<1> QED
  BY <1>2, <1>3, <1>4, <1>5 DEF Phase

(* stopEvent has let the event pass. *)
LEMMA PhaseStop ==
  ASSUME NEW d, NEW w, NEW s, Phase("stop", d, w, s)
  PROVE  /\ d.state = "open" => Phase("relay", d, w, s)
         /\ d.state = "doneReturned" => Phase("verify", d, w, s)
         /\ d.state = "verified" => Phase("close", d, w, s)
BY DEF Phase, Exits, Early, Reads

(* The end of the stream is verified. *)
LEMMA PhaseClose ==
  ASSUME NEW d, NEW w, NEW s, Phase("close", d, w, s)
  PROVE  Phase("write", d, w, s)
BY DEF Phase, Exits, Early, Reads

(* From one place of a read to another *)
LEMMA PhaseReads ==
  ASSUME NEW h \in Reads, NEW d, NEW w, NEW s, Phase(h, d, w, s), NEW g \in Reads
  PROVE  Phase(g, d, w, s)
BY DEF Phase, Exits, Early, Reads

(* [DONE] has been read; VerifyEOF reads on. *)
LEMMA PhaseVerify ==
  ASSUME NEW d, NEW w, NEW s, Phase("verify", d, w, s)
  PROVE  Phase("decode", d, w, s)
BY DEF Phase, Exits, Early, Reads

(* fill changes nothing that Phase is about. *)
LEMMA PhaseFill ==
  ASSUME NEW h \in Reads, NEW d, NEW w, NEW s, Phase(h, d, w, s), NEW e,
         e.state = d.state, e.raw = d.raw, e.line = d.line, e.total = d.total,
         e.chunks = d.chunks, e.events = d.events
  PROVE  Phase("decode", e, w, s)
<1>1. Phase("decode", d, w, s)
  BY PhaseReads DEF Reads
<1>2. Start(e) = Start(d) /\ (PartInv(e) <=> PartInv(d))
  BY DEF Start, PartInv
<1>3. "decode" \notin Early /\ "decode" \in Reads
  BY DEF Early, Reads
<1> QED
  BY <1>1, <1>2, <1>3 DEF Phase

(* The decoder when Next begins another event *)
Begun(d) == [d EXCEPT !.raw = <<>>, !.line = 0]

(* Beginning an event keeps the limits and what is buffered. *)
LEMMA BegunFacts ==
  ASSUME NEW d \in DecoderRecord, NEW s \in Seq(Token), DecoderInv(d, s)
  PROVE  /\ Begun(d) \in DecoderRecord /\ DecoderInv(Begun(d), s) /\ Start(Begun(d)) = d.total
         /\ Begun(d).left = d.left /\ Begun(d).readErr = d.readErr /\ Begun(d).total = d.total
         /\ Begun(d).buffer = d.buffer /\ Begun(d).state = d.state
         /\ Begun(d).events = d.events /\ Begun(d).chunks = d.chunks
         /\ Begun(d).line = 0 /\ Begun(d).raw = <<>>
<1>a. PICK e : e = Begun(d)
  BY Zenon
<1>1. /\ e \in DecoderRecord
      /\ e.left = d.left /\ e.readErr = d.readErr /\ e.total = d.total
      /\ e.buffer = d.buffer /\ e.state = d.state
      /\ e.events = d.events /\ e.chunks = d.chunks /\ e.line = 0 /\ e.raw = <<>>
  <2>1. PICK z \in Seq(Token) : z = <<>>
    BY EmptySeq
  <2>2. e = [d EXCEPT !.raw = z, !.line = 0]
    BY <1>a, <2>1 DEF Begun
  <2>3. /\ e \in DecoderRecord
        /\ e.left = d.left /\ e.readErr = d.readErr /\ e.total = d.total
        /\ e.buffer = d.buffer /\ e.state = d.state
        /\ e.events = d.events /\ e.chunks = d.chunks /\ e.line = 0 /\ e.raw = z
    BY <2>2 DEF DecoderRecord
  <2> QED
    BY <2>1, <2>3, Zenon
<1>2. d.total \in Nat /\ Len(d.buffer) \in Nat /\ Len(s) \in Nat
  BY DEF DecoderRecord
<1>3. d.total <= Len(s) /\ 0 <= d.total
  <2>1. PICK t, b, l \in Nat : t = d.total /\ b = Len(d.buffer) /\ l = Len(s)
    BY <1>2, Zenon
  <2>2. t + b <= l
    BY <2>1, Zenon DEF DecoderInv, Window
  <2>3. t <= l /\ 0 <= t
    BY <2>2
  <2> QED
    BY <2>1, <2>3, Zenon
<1>4. Len(e.raw) = 0
  BY <1>1
<1>5. Start(e) = d.total
  <2>1. d.total - 0 = d.total
    BY <1>2
  <2> QED
    BY <1>1, <1>4, <2>1, Zenon DEF Start
<1>6. Window(e.raw, s, d.total)
  <2>1. d.total + 0 <= Len(s)
    BY <1>2, <1>3
  <2>2. \A i \in 1..0 : e.raw[i] = s[d.total + i]
    OBVIOUS
  <2> QED
    BY <1>4, <2>1, <2>2, Zenon DEF Window
<1>7. 0 <= MaxEventBytes /\ 0 <= 0
  BY Sizes
<1>8. DecoderInv(e, s)
  BY <1>1, <1>3, <1>4, <1>5, <1>6, <1>7, Zenon DEF DecoderInv
<1> QED
  BY <1>a, <1>1, <1>5, <1>8, Zenon

(* Next begins another event. *)
LEMMA PhaseNext ==
  ASSUME NEW d \in DecoderRecord, NEW w, NEW s \in Seq(Token), DecoderInv(d, s),
         Phase("next", d, w, s), d.events < MaxEvents
  PROVE  Phase("decode", Begun(d), w, s)
<1>a. PICK e : e = Begun(d)
  BY Zenon
<1>1. /\ Start(e) = d.total /\ e.state = d.state /\ e.total = d.total
      /\ e.events = d.events /\ e.chunks = d.chunks /\ e.line = 0 /\ e.raw = <<>>
  BY <1>a, BegunFacts, Zenon
<1>2. d.state = "open" /\ d.events = d.chunks /\ Behind(d.chunks, d.total, w, s)
  BY DEF Phase
<1>3. "next" \notin Exits /\ "decode" \notin Early /\ "decode" \notin {"next", "stop", "relay", "verify", "close", "write"}
  BY DEF Exits, Early
<1>4. \E m \in 0..MaxEvents : Sent(m, w, s)
  BY <1>3, Zenon DEF Phase
<1>5. "lf" \notin ToSet(e.raw)
  BY <1>1 DEF ToSet
<1>6. PartInv(e) /\ Behind(e.chunks, Start(e), w, s)
  BY <1>1, <1>2, <1>5, Zenon DEF PartInv
<1>7. e.state = "open"
  BY <1>1, <1>2
<1> QED
  BY <1>a, <1>3, <1>4, <1>6, <1>7 DEF Phase

(* Next has taken a fragment out of the buffer. *)
LEMMA PhaseDecode ==
  ASSUME NEW d \in DecoderRecord, NEW w, NEW s, Phase("decode", d, w, s), d.state = "open",
         NEW e \in DecoderRecord, Start(e) = Start(d), Outcomes(d, e)
  PROVE  Phase(IF Settled(e) THEN "stop" ELSE "decode", e, w, s)
<1>1. Behind(d.chunks, Start(e), w, s) /\ \E m \in 0..MaxEvents : Sent(m, w, s)
  BY DEF Phase, Reads, Exits
<1>2. CASE e.state = "failed"
  BY <1>2, PhaseRefused DEF Settled, Exits
<1>3. CASE e.state = "open" /\ PartInv(e) /\ ~EventReady(e) /\ e.chunks = d.chunks
  <2>1. ~Settled(e)
    BY <1>3 DEF Settled
  <2>2. Phase("decode", e, w, s)
    BY <1>1, <1>3 DEF Phase, Reads, Early, Exits
  <2> QED
    BY <2>1, <2>2
<1>4. CASE /\ e.state = "open" /\ EventReady(e) /\ e.raw \in EventOf("chunk")
           /\ e.events = e.chunks /\ e.chunks = d.chunks + 1
  <2>1. Settled(e)
    BY <1>4 DEF Settled
  <2>2. e.chunks > 0 /\ e.chunks - 1 = d.chunks
    <3>1. PICK n \in Nat : n = d.chunks
      BY DEF DecoderRecord
    <3>2. n + 1 > 0 /\ (n + 1) - 1 = n
      OBVIOUS
    <3> QED
      BY <1>4, <3>1, <3>2, Zenon
  <2>3. Behind(e.chunks - 1, Start(e), w, s)
    BY <1>1, <2>2, Zenon
  <2>4. Phase("stop", e, w, s)
    BY <1>1, <1>4, <2>2, <2>3 DEF Phase, Reads, Early, Exits
  <2> QED
    BY <2>1, <2>4
<1>5. CASE /\ e.state = "doneReturned" /\ e.raw \in EventOf("done")
           /\ e.chunks = d.chunks /\ d.chunks > 0 /\ d.chunks < MaxEvents
  <2>1. Settled(e)
    BY <1>5 DEF Settled
  <2>2. Phase("stop", e, w, s)
    BY <1>1, <1>5 DEF Phase, Reads, Early, Exits
  <2> QED
    BY <2>1, <2>2
<1> QED
  BY <1>2, <1>3, <1>4, <1>5 DEF Outcomes

(* VerifyEOF has seen the end of the stream, which is all of it. *)
LEMMA PhaseVerified ==
  ASSUME NEW d \in DecoderRecord, NEW w, NEW s, Phase("decode", d, w, s), d.state # "open",
         d.total = Len(s)
  PROVE  Phase("stop", [d EXCEPT !.state = "verified"], w, s)
<1>a. PICK e : e = [d EXCEPT !.state = "verified"]
  BY Zenon
<1>1. e.state = "verified" /\ e.raw = d.raw /\ e.chunks = d.chunks /\ e.total = d.total
  BY <1>a DEF DecoderRecord
<1>2. Start(e) = Start(d)
  BY <1>1, Zenon DEF Start
<1>3. d.state = "doneReturned" /\ \E m \in 0..MaxEvents : Sent(m, w, s)
  BY DEF Phase, Reads, Exits
<1>4. /\ d.raw \in EventOf("done") /\ d.chunks > 0 /\ d.chunks < MaxEvents
      /\ Behind(d.chunks, Start(d), w, s)
  BY <1>3 DEF Phase, Exits
<1>5. Phase("stop", e, w, s)
  BY <1>1, <1>2, <1>3, <1>4 DEF Phase, Reads, Early, Exits
<1> QED
  BY <1>a, <1>5, Zenon

(* The tokens chunk events consist of *)
Marks == {"chunk", "cr", "lf"}

(* Events of a text, put behind what has been sent. *)
LEMMA JoinEvent ==
  ASSUME NEW w, NEW s \in Seq(Token), NEW m \in Nat, NEW text \in {"chunk", "done"},
         NEW e \in EventOf(text), NEW k \in Nat, Behind(m, k, w, s), Window(e, s, k)
  PROVE  /\ w \in Seq(Marks) /\ w \in Seq(Token) /\ e \in Seq(Token)
         /\ Window(w \o e, s, 0) /\ w \o e \in Seq(Token) /\ Len(w \o e) = k + Len(e)
<1>1. w \in Seq(Marks) /\ Len(w) = k /\ Window(w, s, 0)
  BY DEF Behind, Sent, Marks
<1>2. Marks \subseteq Token /\ {text, "cr", "lf"} \subseteq Token
  BY DEF Marks, Token, Text
<1>3. w \in Seq(Token)
  BY <1>1, <1>2, SeqMonotonic
<1>4. e \in Seq({text, "cr", "lf"})
  BY EventShape
<1>5. e \in Seq(Token)
  BY <1>2, <1>4, SeqMonotonic
<1>6. Window(e, s, 0 + Len(w)) /\ 0 \in Nat
  BY <1>1
<1>7. w \o e \in Seq(Token) /\ Len(w \o e) = Len(w) + Len(e) /\ Window(w \o e, s, 0)
  BY <1>1, <1>3, <1>5, <1>6, WindowJoin
<1> QED
  BY <1>1, <1>3, <1>5, <1>7, Zenon

(* One event more behind m events *)
LEMMA AppendEvent ==
  ASSUME NEW S, NEW m \in Nat, NEW cs \in [1..m -> S], NEW e \in S
  PROVE  Append(cs, e) \in [1..m + 1 -> S]
<1>1. cs \in Seq(S) /\ Len(cs) = m
  OBVIOUS
<1>2. PICK x : x = Append(cs, e)
  OBVIOUS
<1>3. x \in Seq(S) /\ Len(x) = m + 1
  BY <1>1, <1>2, AppendProperties
<1>4. DOMAIN x = 1..m + 1 /\ \A i \in 1..m + 1 : x[i] \in S
  BY <1>3, ElementOfSeq, LenProperties
<1>5. x = [i \in DOMAIN x |-> x[i]]
  BY <1>3, LenProperties
<1> QED
  BY <1>2, <1>4, <1>5

(* The client has one event more. *)
LEMMA SentMore ==
  ASSUME NEW w, NEW s \in Seq(Token), NEW m \in Nat, NEW e \in EventOf("chunk"), NEW k \in Nat,
         Behind(m, k, w, s), Window(e, s, k)
  PROVE  Behind(m + 1, k + Len(e), w \o e, s)
<1>1. /\ w \in Seq(Marks) /\ w \in Seq(Token) /\ e \in Seq(Token)
      /\ Window(w \o e, s, 0) /\ w \o e \in Seq(Token) /\ Len(w \o e) = k + Len(e)
  BY JoinEvent
<1>2. e \in Seq(Marks)
  BY EventShape DEF Marks
<1>3. PICK x : x = w \o e
  BY Zenon
<1>4. x \in Seq(Marks)
  BY <1>1, <1>2, <1>3, ConcatProperties
<1>5. PICK cs \in [1..m -> EventOf("chunk")] : w = FlattenSeq(cs)
  BY Zenon DEF Behind, Sent
<1>6. Append(cs, e) \in [1..m + 1 -> EventOf("chunk")]
  BY AppendEvent
<1>7. x = FlattenSeq(Append(cs, e))
  <2>1. EventOf("chunk") \subseteq Seq(Marks)
    BY EventShape DEF Marks
  <2>2. cs \in [1..m -> Seq(Marks)]
    BY <2>1
  <2> QED
    BY <1>1, <1>2, <1>3, <1>5, <2>2, FlattenAppend
<1> QED
  BY <1>1, <1>3, <1>4, <1>6, <1>7 DEF Behind, Sent, Marks

(* The event has reached the client. *)
LEMMA PhaseRelay ==
  ASSUME NEW d \in DecoderRecord, NEW w, NEW s \in Seq(Token), DecoderInv(d, s),
         Phase("relay", d, w, s)
  PROVE  Phase("next", d, w \o d.raw, s)
<1>1. /\ d.state = "open" /\ d.raw \in EventOf("chunk") /\ d.events = d.chunks /\ d.chunks > 0
      /\ Behind(d.chunks - 1, Start(d), w, s)
  BY DEF Phase
<1>2. Window(d.raw, s, Start(d)) /\ Start(d) \in Nat /\ Start(d) + Len(d.raw) = d.total
  <2>1. d.raw \in Seq(Token) /\ d.total \in Nat
    BY DEF DecoderRecord
  <2>2. PICK r, t \in Nat : r = Len(d.raw) /\ t = d.total /\ r <= t
    BY <2>1, Zenon, LenProperties DEF DecoderInv
  <2>3. t - r \in Nat /\ (t - r) + r = t
    BY <2>2
  <2> QED
    BY <2>2, <2>3, Zenon DEF DecoderInv, Start
<1>3. PICK m \in Nat : m = d.chunks - 1 /\ m + 1 = d.chunks /\ m + 1 \in 0..MaxEvents
  <2>1. PICK n \in Nat : n = d.chunks /\ n <= MaxEvents /\ n > 0
    <3>1. d.chunks \in Nat /\ d.chunks <= MaxEvents
      BY <1>1 DEF DecoderRecord, DecoderInv
    <3> QED
      BY <1>1, <3>1, Zenon
  <2>2. n - 1 \in Nat /\ (n - 1) + 1 = n /\ n \in 0..MaxEvents
    BY <2>1, Sizes
  <2> QED
    BY <2>1, <2>2, Zenon
<1>4. Behind(m + 1, Start(d) + Len(d.raw), w \o d.raw, s)
  <2>1. Behind(m, Start(d), w, s)
    BY <1>1, <1>3, Zenon
  <2> QED
    BY <1>1, <1>2, <2>1, SentMore, Zenon
<1>5. Behind(d.chunks, d.total, w \o d.raw, s) /\ \E n \in 0..MaxEvents : Sent(n, w \o d.raw, s)
  BY <1>2, <1>3, <1>4, Zenon DEF Behind
<1>6. "next" \notin Early \cup Reads \cup Exits \cup {"stop", "relay", "verify", "close", "write"}
  BY DEF Early, Reads, Exits
<1> QED
  BY <1>1, <1>5, <1>6 DEF Phase

(* ValidStreams once more, as a set of its own *)
Terminated ==
  {FlattenSeq(cs) \o e : cs \in BoundedSeq(EventOf("chunk"), MaxEvents - 1) \ {<<>>},
                         e \in EventOf("done")}

(* Chunks and a [DONE] make a terminated stream. *)
LEMMA StreamJoined ==
  ASSUME NEW cs \in BoundedSeq(EventOf("chunk"), MaxEvents - 1) \ {<<>>}, NEW e \in EventOf("done")
  PROVE  FlattenSeq(cs) \o e \in Terminated
BY DEF Terminated

(* Terminated is ValidStreams. *)
LEMMA StreamMember ==
  ASSUME NEW s \in Terminated, Len(s) <= MaxTotalBytes
  PROVE  s \in ValidStreams
BY DEF Terminated, ValidStreams

(* The terminal event completes a valid stream. *)
LEMMA WholeStream ==
  ASSUME NEW d \in DecoderRecord, NEW w, NEW s \in Seq(Token), DecoderInv(d, s),
         Phase("write", d, w, s)
  PROVE  w \o d.raw = s /\ s \in ValidStreams
<1>1. /\ d.state = "verified" /\ d.total = Len(s) /\ d.raw \in EventOf("done")
      /\ d.chunks > 0 /\ d.chunks < MaxEvents /\ Behind(d.chunks, Start(d), w, s)
  BY DEF Phase, Exits
<1>2. Window(d.raw, s, Start(d)) /\ Start(d) \in Nat /\ Start(d) + Len(d.raw) = d.total
  <2>1. d.raw \in Seq(Token) /\ d.total \in Nat
    BY DEF DecoderRecord
  <2>2. PICK r, t \in Nat : r = Len(d.raw) /\ t = d.total /\ r <= t
    BY <2>1, Zenon, LenProperties DEF DecoderInv
  <2>3. t - r \in Nat /\ (t - r) + r = t
    BY <2>2
  <2> QED
    BY <2>2, <2>3, Zenon DEF DecoderInv, Start
<1>3. d.chunks \in Nat /\ "done" \in {"chunk", "done"}
  BY DEF DecoderRecord
<1>4. /\ Window(w \o d.raw, s, 0) /\ w \o d.raw \in Seq(Token)
      /\ Len(w \o d.raw) = Start(d) + Len(d.raw)
  <2>1. PICK m, k \in Nat : m = d.chunks /\ k = Start(d)
    BY <1>2, <1>3, Zenon
  <2>a. PICK text \in {"chunk", "done"} : d.raw \in EventOf(text)
    BY <1>1, <1>3, Zenon
  <2>2. PICK e \in EventOf(text) : e = d.raw
    BY <2>a, Zenon
  <2>3. Behind(m, k, w, s) /\ Window(e, s, k)
    BY <1>1, <1>2, <2>1, <2>2, Zenon
  <2>4. Window(w \o e, s, 0) /\ w \o e \in Seq(Token) /\ Len(w \o e) = k + Len(e)
    BY <2>3, JoinEvent, ZenonT(60)
  <2> QED
    BY <2>1, <2>2, <2>4, Zenon
<1>5. w \o d.raw = s
  BY <1>1, <1>2, <1>4, WindowWhole, Zenon
<1>6. PICK cs \in [1..d.chunks -> EventOf("chunk")] : w = FlattenSeq(cs)
  BY <1>1, Zenon DEF Behind, Sent
<1>7. cs \in BoundedSeq(EventOf("chunk"), MaxEvents - 1) \ {<<>>}
  <2>1. d.chunks \in 0..MaxEvents - 1
    BY <1>1, <1>3, Sizes
  <2>2. cs \in BoundedSeq(EventOf("chunk"), MaxEvents - 1)
    BY <2>1, Zenon DEF BoundedSeq, SeqOf
  <2>3. cs # <<>>
    BY <1>1, <1>3
  <2> QED
    BY <2>2, <2>3
<1>8. Len(s) <= MaxTotalBytes
  BY <1>1 DEF DecoderInv
<1>9. s \in Terminated
  BY <1>1, <1>5, <1>6, <1>7, StreamJoined, Zenon
<1> QED
  BY <1>5, <1>8, <1>9, StreamMember, Zenon

-----------------------------------------------------------------------------
(* The reads *)

(* Feed tells only the places of a read apart. *)
LEMMA FeedPlace ==
  ASSUME NEW p, NEW s, NEW r, NEW rd, NEW d, Feed(p, s, r, rd, d), NEW q,
         q = p \/ (p # "readReturned" /\ q \notin {"read", "readReturned"})
  PROVE  Feed(q, s, r, rd, d)
BY DEF Feed

(* Where the decoder's buffer ends in the stream *)
Reach(d) == d.total + Len(d.buffer)

(* ... which is what the limit has let through. *)
LEMMA ReachFacts ==
  ASSUME NEW d \in DecoderRecord, NEW s \in Seq(Token), DecoderInv(d, s)
  PROVE  /\ Reach(d) \in Nat /\ Reach(d) <= Len(s) /\ Room(d) \in Nat /\ d.left \in Nat
         /\ Reach(d) = (MaxTotalBytes + 1) - d.left
         /\ Window(NoRead.tokens, s, Reach(d)) /\ Len(NoRead.tokens) <= Room(d)
         /\ NoRead \in [tokens : Seq(Token), err : {"none", "EOF", "failure"}]
         /\ NoRead.err = "none" /\ NoRead.tokens = <<>> /\ Len(NoRead.tokens) = 0
<1>1. d.total \in Nat /\ d.left \in Nat /\ Len(d.buffer) \in Nat /\ Len(s) \in Nat
  BY DEF DecoderRecord
<1>2. PICK t, l, b, n, z, k \in Nat :
        t = d.total /\ l = d.left /\ b = Len(d.buffer) /\ n = Len(s) /\ z = BufferSize /\ k = MaxTotalBytes
  BY <1>1, Sizes, Zenon
<1>3. t + b <= n /\ b <= z /\ l + t + b = k + 1
  BY <1>2, Zenon DEF DecoderInv, Window
<1>4. t + b \in Nat /\ Smallest(z - b, l) \in Nat /\ t + b = (k + 1) - l
  BY <1>3 DEF Smallest
<1>5. Reach(d) = t + b /\ Room(d) = Smallest(z - b, l)
  BY <1>2, Zenon DEF Reach, Room
<1>6. /\ NoRead \in [tokens : Seq(Token), err : {"none", "EOF", "failure"}]
      /\ NoRead.err = "none" /\ NoRead.tokens = <<>> /\ Len(NoRead.tokens) = 0
  BY DEF NoRead
<1>7. Window(NoRead.tokens, s, Reach(d)) /\ Len(NoRead.tokens) <= Room(d)
  <2>1. (t + b) + 0 <= n /\ \A i \in 1..0 : FALSE
    BY <1>3
  <2>2. 0 <= Smallest(z - b, l)
    BY <1>4
  <2>3. Window(NoRead.tokens, s, Reach(d))
    BY <1>2, <1>5, <1>6, <2>1, Zenon DEF Window
  <2> QED
    BY <1>5, <1>6, <2>2, <2>3, Zenon
<1> QED
  BY <1>1, <1>2, <1>3, <1>4, <1>5, <1>6, <1>7, Zenon

(* What the decoder does with its buffer reads nothing. *)
LEMMA FeedKeeps ==
  ASSUME NEW p, NEW s \in Seq(Token), NEW r, NEW rd, NEW d \in DecoderRecord, DecoderInv(d, s),
         Feed(p, s, r, rd, d), p \notin {"read", "readReturned"},
         NEW e \in DecoderRecord, DecoderInv(e, s), e.left = d.left, e.readErr = d.readErr,
         NEW q, q \notin {"read", "readReturned"}
  PROVE  Feed(q, s, r, rd, e)
<1>1. /\ r \in Seq(Token) /\ Len(r) <= Len(s) /\ Window(r, s, Len(s) - Len(r))
      /\ rd = NoRead
      /\ d.readErr # "failure" => Reach(d) + Len(rd.tokens) + Len(r) = Len(s)
      /\ d.readErr = "EOF" => d.left = 0 \/ r = <<>>
  BY DEF Feed, Reach
<1>2. /\ Window(rd.tokens, s, Reach(e)) /\ Len(rd.tokens) <= Room(e)
      /\ rd \in [tokens : Seq(Token), err : {"none", "EOF", "failure"}]
      /\ rd.err # "EOF"
  <2>1. "none" # "EOF"
    OBVIOUS
  <2> QED
    BY <1>1, <2>1, ReachFacts, Zenon
<1>3. Reach(e) = Reach(d)
  BY ReachFacts, Zenon
<1>4. e.readErr # "failure" => Reach(e) + Len(rd.tokens) + Len(r) = Len(s)
  BY <1>1, <1>3, Zenon
<1> QED
  BY <1>1, <1>2, <1>4, Zenon DEF Feed, Reach

(* A Read that refuses, or that the limit answers *)
LEMMA FeedNothing ==
  ASSUME NEW p, NEW s \in Seq(Token), NEW r, NEW rd, NEW d \in DecoderRecord, DecoderInv(d, s),
         Feed(p, s, r, rd, d), NEW err, err = "failure" \/ (err = "EOF" /\ d.left = 0 /\ p = "decode" /\ d.readErr = "none")
  PROVE  /\ fill(d, <<>>, err) \in DecoderRecord /\ DecoderInv(fill(d, <<>>, err), s)
         /\ Feed("decode", s, r, NoRead, fill(d, <<>>, err))
<1>a. PICK e : e = fill(d, <<>>, err)
  BY Zenon
<1>0. err \in {"none", "EOF", "failure"}
  OBVIOUS
<1>1. /\ NoRead.tokens = <<>> /\ Len(NoRead.tokens) <= Room(d) /\ Window(NoRead.tokens, s, d.total + Len(d.buffer))
      /\ NoRead.tokens \in Seq(Token) /\ Len(NoRead.tokens) = 0 /\ d.left \in Nat
  BY ReachFacts, EmptySeq DEF Reach
<1>2. /\ e \in DecoderRecord /\ DecoderInv(e, s) /\ e.left = d.left - Len(NoRead.tokens) /\ e.readErr = err
  <2>1. PICK x \in Seq(Token) : x = NoRead.tokens /\ e = fill(d, x, err)
    BY <1>a, <1>1, Zenon
  <2>2. Len(x) <= Room(d) /\ Window(x, s, d.total + Len(d.buffer)) /\ e = fill(d, x, err)
    BY <1>1, <2>1, Zenon
  <2>3. e \in DecoderRecord /\ DecoderInv(e, s) /\ e.left = d.left - Len(x) /\ e.readErr = err
    BY <1>0, <2>2, FillFacts
  <2> QED
    BY <2>1, <2>3, Zenon
<1>3. e.left = d.left
  <2>1. d.left - 0 = d.left
    BY <1>1
  <2> QED
    BY <1>1, <1>2, <2>1, Zenon
<1>4. /\ r \in Seq(Token) /\ Len(r) <= Len(s) /\ Window(r, s, Len(s) - Len(r))
      /\ d.readErr # "failure" => Reach(d) + Len(rd.tokens) + Len(r) = Len(s)
      /\ p = "decode" => rd = NoRead
  BY DEF Feed, Reach
<1>5. /\ Window(NoRead.tokens, s, Reach(e)) /\ Len(NoRead.tokens) <= Room(e)
      /\ NoRead \in [tokens : Seq(Token), err : {"none", "EOF", "failure"}]
      /\ NoRead.err = "none" /\ Reach(e) = Reach(d)
  BY <1>2, <1>3, ReachFacts, Zenon
<1>6. e.readErr # "failure" => Reach(e) + Len(NoRead.tokens) + Len(r) = Len(s)
  BY <1>2, <1>4, <1>5
<1>7. Feed("decode", s, r, NoRead, e)
  BY <1>2, <1>3, <1>4, <1>5, <1>6 DEF Feed, Reach
<1> QED
  BY <1>a, <1>2, <1>7, Zenon

(* What a Read brought goes into the buffer. *)
LEMMA FeedTokens ==
  ASSUME NEW s \in Seq(Token), NEW r, NEW rd, NEW d \in DecoderRecord, DecoderInv(d, s),
         Feed("readReturned", s, r, rd, d)
  PROVE  /\ fill(d, rd.tokens, rd.err) \in DecoderRecord /\ DecoderInv(fill(d, rd.tokens, rd.err), s)
         /\ Feed("decode", s, r, NoRead, fill(d, rd.tokens, rd.err))
<1>a. PICK e, x, err : e = fill(d, rd.tokens, rd.err) /\ x = rd.tokens /\ err = rd.err
  BY Zenon
<1>1. /\ x \in Seq(Token) /\ err \in {"none", "EOF", "failure"}
      /\ Len(x) <= Room(d) /\ Window(x, s, d.total + Len(d.buffer))
      /\ r \in Seq(Token) /\ Len(r) <= Len(s) /\ Window(r, s, Len(s) - Len(r))
      /\ err = "EOF" => r = <<>>
      /\ Reach(d) + Len(x) + Len(r) = Len(s)
  BY <1>a DEF Feed, Reach
<1>2. /\ e \in DecoderRecord /\ DecoderInv(e, s) /\ e.readErr = err
      /\ e.total = d.total /\ Len(e.buffer) = Len(d.buffer) + Len(x)
  <2>1. e = fill(d, x, err)
    BY <1>a, Zenon
  <2> QED
    BY <1>1, <2>1, FillFacts
<1>3. /\ Window(NoRead.tokens, s, Reach(e)) /\ Len(NoRead.tokens) <= Room(e)
      /\ NoRead \in [tokens : Seq(Token), err : {"none", "EOF", "failure"}]
      /\ NoRead.err = "none" /\ Len(NoRead.tokens) = 0
  BY <1>2, ReachFacts, Zenon
<1>4. Reach(e) + Len(NoRead.tokens) + Len(r) = Len(s)
  <2>1. d.total \in Nat /\ Len(d.buffer) \in Nat /\ Len(x) \in Nat /\ Len(r) \in Nat
    BY <1>1 DEF DecoderRecord
  <2>2. PICK t, b, n, m \in Nat : t = d.total /\ b = Len(d.buffer) /\ n = Len(x) /\ m = Len(r)
    BY <2>1, Zenon
  <2>3. (t + (b + n)) + 0 + m = (t + b) + n + m
    OBVIOUS
  <2>4. Reach(e) = t + (b + n) /\ Reach(d) = t + b
    BY <1>2, <2>2, Zenon DEF Reach
  <2> QED
    BY <1>1, <1>3, <2>2, <2>3, <2>4, Zenon
<1>5. Feed("decode", s, r, NoRead, e)
  BY <1>1, <1>2, <1>3, <1>4 DEF Feed, Reach
<1> QED
  BY <1>a, <1>2, <1>5, Zenon

(* The body's Read takes n tokens off what is still to come. *)
LEMMA FeedRead ==
  ASSUME NEW s \in Seq(Token), NEW r, NEW rd, NEW d \in DecoderRecord, DecoderInv(d, s),
         Feed("read", s, r, rd, d), NEW n \in Nat, n <= Room(d), n <= Len(r),
         NEW err \in {"none", "EOF"}, err = "EOF" => n = Len(r)
  PROVE  Feed("readReturned", s, SubSeq(r, n + 1, Len(r)), [tokens |-> SubSeq(r, 1, n), err |-> err], d)
<1>1. /\ r \in Seq(Token) /\ Len(r) <= Len(s) /\ Window(r, s, Len(s) - Len(r))
      /\ rd = NoRead /\ d.readErr = "none" /\ Reach(d) + Len(rd.tokens) + Len(r) = Len(s)
  BY DEF Feed, Reach
<1>2. Len(rd.tokens) = 0 /\ Reach(d) \in Nat /\ Len(r) \in Nat /\ Len(s) \in Nat
  BY <1>1, ReachFacts
<1>3. PICK a, b, c \in Nat : a = Reach(d) /\ b = Len(r) /\ c = Len(s) /\ a + b = c /\ n <= b
  <2>1. PICK a, b, c \in Nat : a = Reach(d) /\ b = Len(r) /\ c = Len(s)
    BY <1>2, Zenon
  <2>2. a + 0 + b = c /\ n <= b
    BY <1>1, <1>2, <2>1, Zenon
  <2>3. a + b = c
    BY <2>2
  <2> QED
    BY <2>1, <2>2, <2>3, Zenon
<1>4. Window(r, s, a)
  <2>1. c - b = a
    BY <1>3
  <2> QED
    BY <1>1, <1>3, <2>1, Zenon
<1>5. PICK x, y : x = SubSeq(r, 1, n) /\ y = SubSeq(r, n + 1, Len(r))
  BY Zenon
<1>6. x \in Seq(Token) /\ Len(x) = n /\ Window(x, s, a)
  <2>1. 0 \in Nat /\ 0 + 1 = 1 /\ 0 <= n /\ n - 0 = n /\ a + 0 = a
    BY <1>3
  <2>2. /\ SubSeq(r, 0 + 1, n) \in Seq(Token) /\ Len(SubSeq(r, 0 + 1, n)) = n - 0
        /\ Window(SubSeq(r, 0 + 1, n), s, a + 0)
    BY <1>1, <1>4, <2>1, WindowPart, ZenonT(60)
  <2> QED
    BY <1>5, <2>1, <2>2, Zenon
<1>7. y \in Seq(Token) /\ Len(y) = b - n /\ Window(y, s, a + n)
  <2>2. /\ SubSeq(r, n + 1, b) \in Seq(Token) /\ Len(SubSeq(r, n + 1, b)) = b - n
        /\ Window(SubSeq(r, n + 1, b), s, a + n)
    <3>1. b <= Len(r) /\ n <= b
      BY <1>3
    <3> QED
      BY <1>1, <1>4, <3>1, WindowPart, ZenonT(60)
  <2> QED
    BY <1>3, <1>5, <2>2, Zenon
<1>8. /\ b - n <= c /\ c - (b - n) = a + n /\ a + n + (b - n) = c
  BY <1>3
<1>9. err = "EOF" => y = <<>>
  <2>1. err = "EOF" => b - n = 0
    BY <1>3
  <2> QED
    BY <1>7, <2>1, EmptySeq
<1>10. PICK q : q = [tokens |-> x, err |-> err]
  BY Zenon
<1>11. q.tokens = x /\ q.err = err /\ q \in [tokens : Seq(Token), err : {"none", "EOF", "failure"}]
  BY <1>6, <1>10
<1>12. /\ Len(y) <= Len(s) /\ Window(y, s, Len(s) - Len(y))
       /\ Reach(d) + Len(x) + Len(y) = Len(s)
  BY <1>3, <1>6, <1>7, <1>8, Zenon
<1>13. Len(q.tokens) <= Room(d) /\ Window(q.tokens, s, Reach(d))
  BY <1>3, <1>6, <1>11, Zenon
<1>14. Feed("readReturned", s, y, q, d)
  BY <1>1, <1>7, <1>9, <1>11, <1>12, <1>13 DEF Feed, Reach
<1> QED
  BY <1>5, <1>10, <1>14, Zenon

(* ... or fails. *)
LEMMA FeedFailure ==
  ASSUME NEW s \in Seq(Token), NEW r, NEW rd, NEW d \in DecoderRecord, DecoderInv(d, s),
         Feed("read", s, r, rd, d)
  PROVE  Feed("readReturned", s, r, [tokens |-> <<>>, err |-> "failure"], d)
<1>1. PICK q : q = [tokens |-> <<>>, err |-> "failure"]
  BY Zenon
<1>2. q.tokens = <<>> /\ q.err = "failure" /\ q \in [tokens : Seq(Token), err : {"none", "EOF", "failure"}]
  BY <1>1
<1>3. rd = NoRead /\ NoRead.tokens = <<>>
  BY DEF Feed, NoRead
<1>4. q.tokens = rd.tokens
  BY <1>2, <1>3, Zenon
<1>5. Feed("readReturned", s, r, q, d)
  BY <1>2, <1>4 DEF Feed
<1> QED
  BY <1>1, <1>5, Zenon

(* VerifyEOF sees the end of the stream, not the limit. *)
LEMMA FeedEnd ==
  ASSUME NEW s \in Seq(Token), NEW r, NEW rd, NEW d \in DecoderRecord, DecoderInv(d, s),
         Feed("decode", s, r, rd, d), d.buffer = <<>>, d.readErr = "EOF"
  PROVE  d.total = Len(s)
<1>1. rd = NoRead /\ Reach(d) + Len(rd.tokens) + Len(r) = Len(s) /\ (d.left = 0 \/ r = <<>>)
  BY DEF Feed, Reach
<1>2. Len(rd.tokens) = 0 /\ Reach(d) = (MaxTotalBytes + 1) - d.left /\ Len(d.buffer) = 0 /\ Len(<<>>) = 0
  BY <1>1, ReachFacts
<1>3. PICK t, k \in Nat : t = d.total /\ k = MaxTotalBytes /\ t <= k
  BY Sizes DEF DecoderRecord, DecoderInv
<1>4. Reach(d) = t + 0 /\ t + 0 = t /\ t + 0 + 0 = t
  BY <1>2, <1>3 DEF Reach
<1>5. d.left # 0
  <2>1. ASSUME d.left = 0 PROVE FALSE
    <3>1. t + 0 = (k + 1) - 0
      BY <1>2, <1>3, <1>4, <2>1, Zenon
    <3> QED
      BY <1>3, <3>1
  <2> QED
    BY <2>1
<1>6. (t + 0) + 0 + 0 = Len(s)
  BY <1>1, <1>2, <1>4, <1>5, Zenon
<1>7. (t + 0) + 0 + 0 = t
  OBVIOUS
<1> QED
  BY <1>3, <1>6, <1>7, Zenon


-----------------------------------------------------------------------------
(* What the upstream will answer and the mode are given once. *)
LEMMA GivenStep ==
  ASSUME Steps \/ UNCHANGED vars
  PROVE  mode' = mode /\ stream' = stream
<1>1. CASE ClientLeaves
  BY <1>1 DEF ClientLeaves, given
<1>2. CASE ForceCancel
  BY <1>2 DEF ForceCancel, given
<1>3. CASE Propagate
  BY <1>3 DEF Propagate, given
<1>4. CASE DeadlinePasses
  BY <1>4 DEF DeadlinePasses, given
<1>5. CASE WatchRuns
  BY <1>5 DEF WatchRuns, given
<1>6. CASE TimerFires
  BY <1>6 DEF TimerFires, given
<1>7. CASE TimerRuns
  BY <1>7 DEF TimerRuns, given
<1>8. CASE Permitted
  BY <1>8 DEF Permitted, given, Quiet
<1>9. CASE CheckClient
  BY <1>9 DEF CheckClient, given, Quiet
<1>10. CASE CheckPermit
  BY <1>10 DEF CheckPermit, given, Quiet
<1>11. CASE AnswerDraining
  BY <1>11 DEF AnswerDraining, given, Quiet
<1>12. CASE CheckDeadline
  BY <1>12 DEF CheckDeadline, given, Quiet
<1>13. CASE AnswerLate
  BY <1>13 DEF AnswerLate, given, Quiet
<1>14. CASE Begin
  BY <1>14 DEF Begin, given, Quiet
<1>15. CASE Complete
  BY <1>15 DEF Complete, given, Quiet
<1>16. CASE Metadata
  BY <1>16 DEF Metadata, given, Quiet
<1>17. CASE ParseResponse
  BY <1>17 DEF ParseResponse, given, Quiet
<1>18. CASE CloseResponse
  BY <1>18 DEF CloseResponse, given, Quiet
<1>19. CASE WriteLast
  BY <1>19 DEF WriteLast, given, Quiet
<1>20. CASE AnswerFailure
  BY <1>20 DEF AnswerFailure, given, Quiet
<1>21. CASE NextEvent
  BY <1>21 DEF NextEvent, given, Quiet
<1>22. CASE Decode
  BY <1>22 DEF Decode, given, Quiet
<1>23. CASE BeginRead
  BY <1>23 DEF BeginRead, given, Quiet
<1>24. CASE ReadBody
  BY <1>24 DEF ReadBody, given, Quiet
<1>25. CASE EndRead
  BY <1>25 DEF EndRead, given, Quiet
<1>26. CASE StopEvent
  BY <1>26 DEF StopEvent, given, Quiet
<1>27. CASE RelayEvent
  BY <1>27 DEF RelayEvent, given, Quiet
<1>28. CASE Unwind
  BY <1>28 DEF Unwind, given, Quiet
<1>29. CASE CancelUpstream \/ FinishPermit
  BY <1>29 DEF CancelUpstream, FinishPermit, given, Quiet
<1>30. CASE Recover
  BY <1>30 DEF Recover, given, Quiet
<1> QED
  BY <1>1, <1>2, <1>3, <1>4, <1>5, <1>6, <1>7, <1>8, <1>9, <1>10, <1>11, <1>12, <1>13,
     <1>14, <1>15, <1>16, <1>17, <1>18, <1>19, <1>20, <1>21, <1>22, <1>23, <1>24, <1>25,
     <1>26, <1>27, <1>28, <1>29, <1>30 DEF Steps, vars, given

(* The steps that neither read nor decode *)
LEMMA FrameStep ==
  ASSUME ControlInv, Steps \/ UNCHANGED vars
  PROVE  \/ NextEvent \/ Decode \/ BeginRead \/ ReadBody \/ EndRead
         \/ /\ UNCHANGED <<rest, read, decoder>>
            /\ pc' = pc \/ (pc # "readReturned" /\ pc' \notin {"read", "readReturned"})
<1>0. pc = "up" => after \notin {"read", "readReturned"}
  BY DEF ControlInv, Looks, Returns
<1>1. CASE ClientLeaves
  BY <1>0, <1>1 DEF ClientLeaves, answer, given
<1>2. CASE ForceCancel
  BY <1>0, <1>2 DEF ForceCancel, answer, given
<1>3. CASE Propagate
  BY <1>0, <1>3 DEF Propagate, answer, given
<1>4. CASE DeadlinePasses
  BY <1>0, <1>4 DEF DeadlinePasses, answer, given
<1>5. CASE WatchRuns
  BY <1>0, <1>5 DEF WatchRuns, answer, given
<1>6. CASE TimerFires
  BY <1>0, <1>6 DEF TimerFires, answer, given
<1>7. CASE TimerRuns
  BY <1>0, <1>7 DEF TimerRuns, answer, given
<1>8. CASE Permitted
  BY <1>0, <1>8 DEF Permitted, answer, given, NoIO, NoUpstream, Goto, Resume, Check,
     Exit, Leave, Write
<1>9. CASE CheckClient
  BY <1>0, <1>9 DEF CheckClient, answer, given, NoIO, NoUpstream, Goto, Resume, Check,
     Exit, Leave, Write
<1>10. CASE CheckPermit
  BY <1>0, <1>10 DEF CheckPermit, answer, given, NoIO, NoUpstream, Goto, Resume, Check,
     Exit, Leave, Write
<1>11. CASE AnswerDraining
  BY <1>0, <1>11 DEF AnswerDraining, answer, given, NoIO, NoUpstream, Goto, Resume,
     Check, Exit, Leave, Write
<1>12. CASE CheckDeadline
  BY <1>0, <1>12 DEF CheckDeadline, answer, given, NoIO, NoUpstream, Goto, Resume,
     Check, Exit, Leave, Write
<1>13. CASE AnswerLate
  BY <1>0, <1>13 DEF AnswerLate, answer, given, NoIO, NoUpstream, Goto, Resume, Check,
     Exit, Leave, Write
<1>14. CASE Begin
  BY <1>0, <1>14 DEF Begin, answer, given, NoIO, NoUpstream, Goto, Resume, Check, Exit,
     Leave, Write
<1>15. CASE Complete
  BY <1>0, <1>15 DEF Complete, answer, given, NoIO, NoUpstream, Goto, Resume, Check,
     Exit, Leave, Write
<1>16. CASE Metadata
  BY <1>0, <1>16 DEF Metadata, answer, given, NoIO, NoUpstream, Goto, Resume, Check,
     Exit, Leave, Write
<1>17. CASE ParseResponse
  BY <1>0, <1>17 DEF ParseResponse, answer, given, NoIO, NoUpstream, Goto, Resume,
     Check, Exit, Leave, Write
<1>18. CASE CloseResponse
  BY <1>0, <1>18 DEF CloseResponse, answer, given, NoIO, NoUpstream, Goto, Resume,
     Check, Exit, Leave, Write
<1>19. CASE WriteLast
  BY <1>0, <1>19 DEF WriteLast, answer, given, NoIO, NoUpstream, Goto, Resume, Check,
     Exit, Leave, Write
<1>20. CASE AnswerFailure
  BY <1>0, <1>20 DEF AnswerFailure, answer, given, NoIO, NoUpstream, Goto, Resume,
     Check, Exit, Leave, Write
<1>21. CASE StopEvent
  BY <1>0, <1>21 DEF StopEvent, answer, given, NoIO, NoUpstream, Goto, Resume, Check,
     Exit, Leave, Write
<1>22. CASE RelayEvent
  BY <1>0, <1>22 DEF RelayEvent, answer, given, NoIO, NoUpstream, Goto, Resume, Check,
     Exit, Leave, Write
<1>23. CASE Unwind
  BY <1>0, <1>23 DEF Unwind, answer, given, NoIO, NoUpstream, Goto, Resume, Check, Exit,
     Leave, Write
<1>24. CASE CancelUpstream \/ FinishPermit
  BY <1>0, <1>24 DEF CancelUpstream, FinishPermit, answer, given, NoIO, NoUpstream, Goto, Resume, Check,
     Exit, Leave, Write
<1>25. CASE Recover
  BY <1>0, <1>25 DEF Recover, answer, given, NoIO, NoUpstream, Goto, Resume, Check,
     Exit, Leave, Write
<1> QED
  BY <1>1, <1>2, <1>3, <1>4, <1>5, <1>6, <1>7, <1>8, <1>9, <1>10, <1>11, <1>12, <1>13,
     <1>14, <1>15, <1>16, <1>17, <1>18, <1>19, <1>20, <1>21, <1>22, <1>23, <1>24, <1>25
     DEF Steps, vars

(* ... and how they take the handler from place to place *)
LEMMA HereStep ==
  ASSUME ControlInv, Steps \/ UNCHANGED vars
  PROVE  \/ NextEvent \/ Decode \/ BeginRead \/ ReadBody \/ EndRead \/ StopEvent \/ RelayEvent
         \/ Here' \in Exits
         \/ /\ sent' = sent
            /\ \/ Here' = Here
               \/ Here \in Early /\ Here' \in Early
               \/ Here = "metadata" /\ Here' = "next"
               \/ Here = "close" /\ Here' \in {"write", "failed"}
               \/ mode = "buffered" /\ Here' \notin Exits /\ Here \notin Exits
<1> USE DEF Here, Exits, Looks, Early
<1>0. /\ pc \in Looks => after \in Returns
      /\ pc = "parse" => mode = "buffered"
      /\ pc = "metadata" /\ mode # "streaming" => mode = "buffered"
  BY DEF ControlInv
<1>1. CASE ClientLeaves
  BY <1>0, <1>1 DEF ClientLeaves, answer, given
<1>2. CASE ForceCancel
  BY <1>0, <1>2 DEF ForceCancel, answer, given
<1>3. CASE Propagate
  BY <1>0, <1>3 DEF Propagate, answer, given
<1>4. CASE DeadlinePasses
  BY <1>0, <1>4 DEF DeadlinePasses, answer, given
<1>5. CASE WatchRuns
  BY <1>0, <1>5 DEF WatchRuns, answer, given
<1>6. CASE TimerFires
  BY <1>0, <1>6 DEF TimerFires, answer, given
<1>7. CASE TimerRuns
  BY <1>0, <1>7 DEF TimerRuns, answer, given
<1>8. CASE Permitted
  BY <1>0, <1>8 DEF Permitted, answer, given, NoIO, NoUpstream, Goto, Resume, Check,
     Exit, Leave, Write, Returns
<1>9. CASE CheckClient
  BY <1>0, <1>9 DEF CheckClient, answer, given, NoIO, NoUpstream, Goto, Resume, Check,
     Exit, Leave, Write, Returns
<1>10. CASE CheckPermit
  BY <1>0, <1>10 DEF CheckPermit, answer, given, NoIO, NoUpstream, Goto, Resume, Check,
     Exit, Leave, Write, Returns
<1>11. CASE AnswerDraining
  BY <1>0, <1>11 DEF AnswerDraining, answer, given, NoIO, NoUpstream, Goto, Resume,
     Check, Exit, Leave, Write, Returns
<1>12. CASE CheckDeadline
  BY <1>0, <1>12 DEF CheckDeadline, answer, given, NoIO, NoUpstream, Goto, Resume,
     Check, Exit, Leave, Write, Returns
<1>13. CASE AnswerLate
  BY <1>0, <1>13 DEF AnswerLate, answer, given, NoIO, NoUpstream, Goto, Resume, Check,
     Exit, Leave, Write, Returns
<1>14. CASE Begin
  BY <1>0, <1>14 DEF Begin, answer, given, NoIO, NoUpstream, Goto, Resume, Check, Exit,
     Leave, Write, Returns
<1>15. CASE Complete
  BY <1>0, <1>15 DEF Complete, answer, given, NoIO, NoUpstream, Goto, Resume, Check,
     Exit, Leave, Write, Returns
<1>16. CASE Metadata
  BY <1>0, <1>16 DEF Metadata, answer, given, NoIO, NoUpstream, Goto, Resume, Check,
     Exit, Leave, Write, Returns
<1>17. CASE ParseResponse
  BY <1>0, <1>17 DEF ParseResponse, answer, given, NoIO, NoUpstream, Goto, Resume,
     Check, Exit, Leave, Write, Returns
<1>18. CASE CloseResponse
  BY <1>0, <1>18 DEF CloseResponse, answer, given, NoIO, NoUpstream, Goto, Resume,
     Check, Exit, Leave, Write, Returns
<1>19. CASE WriteLast
  BY <1>0, <1>19 DEF WriteLast, answer, given, NoIO, NoUpstream, Goto, Resume, Check,
     Exit, Leave, Write, Returns
<1>20. CASE AnswerFailure
  BY <1>0, <1>20 DEF AnswerFailure, answer, given, NoIO, NoUpstream, Goto, Resume,
     Check, Exit, Leave, Write, Returns
<1>21. CASE Unwind
  BY <1>0, <1>21 DEF Unwind, answer, given, NoIO, NoUpstream, Goto, Resume, Check, Exit,
     Leave, Write, Returns
<1>22. CASE CancelUpstream \/ FinishPermit
  BY <1>0, <1>22 DEF CancelUpstream, FinishPermit, answer, given, NoIO, NoUpstream, Goto, Resume, Check,
     Exit, Leave, Write, Returns
<1>23. CASE Recover
  BY <1>0, <1>23 DEF Recover, answer, given, NoIO, NoUpstream, Goto, Resume, Check,
     Exit, Leave, Write, Returns
<1>24. CASE UNCHANGED vars
  BY <1>24 DEF vars, answer
<1> QED
  BY <1>1, <1>2, <1>3, <1>4, <1>5, <1>6, <1>7, <1>8, <1>9, <1>10, <1>11, <1>12, <1>13,
     <1>14, <1>15, <1>16, <1>17, <1>18, <1>19, <1>20, <1>21, <1>22, <1>23, <1>24
     DEF Steps

(* fill changes the buffer, the budget and the error only. *)
LEMMA FillSame ==
  ASSUME NEW d \in DecoderRecord, NEW x, NEW err
  PROVE  /\ fill(d, x, err).state = d.state /\ fill(d, x, err).raw = d.raw
         /\ fill(d, x, err).line = d.line /\ fill(d, x, err).total = d.total
         /\ fill(d, x, err).chunks = d.chunks /\ fill(d, x, err).events = d.events
BY DEF fill, DecoderRecord

(* What VerifyEOF keeps when it accepts *)
LEMMA VerifiedFacts ==
  ASSUME NEW d \in DecoderRecord, NEW s, DecoderInv(d, s)
  PROVE  /\ [d EXCEPT !.state = "verified"] \in DecoderRecord
         /\ DecoderInv([d EXCEPT !.state = "verified"], s)
         /\ [d EXCEPT !.state = "verified"].left = d.left
         /\ [d EXCEPT !.state = "verified"].readErr = d.readErr
         /\ [d EXCEPT !.state = "verified"].state = "verified"
<1>a. PICK e : e = [d EXCEPT !.state = "verified"]
  BY Zenon
<1>1. /\ e \in DecoderRecord /\ e.state = "verified"
      /\ e.left = d.left /\ e.buffer = d.buffer /\ e.readErr = d.readErr
      /\ e.raw = d.raw /\ e.line = d.line /\ e.total = d.total
      /\ e.events = d.events /\ e.chunks = d.chunks
  BY <1>a DEF DecoderRecord
<1>2. DecoderInv(e, s)
  BY <1>1 DEF DecoderInv, Start
<1> QED
  BY <1>a, <1>1, <1>2, Zenon

(* Each action keeps StreamInv: the steps that read or decode one by one,   *)
(* the others by FrameStep.                                                 *)
LEMMA StreamStep == ControlInv /\ StreamInv /\ [Next]_vars => StreamInv'
<1> SUFFICES ASSUME ControlInv, StreamInv, Steps \/ UNCHANGED vars, mode = "streaming"
             PROVE  /\ decoder' \in DecoderRecord /\ DecoderInv(decoder', stream)
                    /\ Feed(pc', stream, rest', read', decoder')
                    /\ Phase(Here', decoder', sent', stream)
  <2>1. Steps \/ UNCHANGED vars => mode' = mode /\ stream' = stream
    BY GivenStep
  <2> QED
    BY <2>1, StepCases DEF StreamInv
<1>a. PICK d, s, w : d = decoder /\ s = stream /\ w = sent
  BY Zenon
<1>b. /\ d \in DecoderRecord /\ DecoderInv(d, s)
      /\ Feed(pc, s, rest, read, d) /\ Phase(Here, d, w, s) /\ s \in Seq(Token)
  BY <1>a DEF StreamInv, Feed
<1> SUFFICES /\ decoder' \in DecoderRecord /\ DecoderInv(decoder', s)
             /\ Feed(pc', s, rest', read', decoder') /\ Phase(Here', decoder', sent', s)
  BY <1>a
<1>c. ASSUME NEW p, pc = p, p \notin Looks PROVE Here = p
  BY <1>c DEF Here
<1>d. ASSUME NEW p, pc' = p, p \notin Looks PROVE Here' = p
  BY <1>d DEF Here
<1>e. \A p \in {"next", "verify", "decode", "read", "readReturned", "stop", "relay", "unwind", "close"} : p \notin Looks
  BY DEF Looks
<1>f. /\ "unwind" \in Exits /\ {"decode", "read", "readReturned"} \subseteq Reads
      /\ \A p \in {"next", "verify", "decode", "read", "readReturned", "stop", "relay", "close"} : p \notin Exits
  BY DEF Exits, Reads
<1>1. CASE NextEvent
  <2>1. pc \in {"next", "verify"} /\ Here = pc /\ sent' = w /\ rest' = rest /\ read' = read
    BY <1>a, <1>c, <1>e, <1>1 DEF NextEvent, answer
  <2>2. PICK e : e = decoder' /\ pc' = IF e.state = "failed" THEN "stop" ELSE "decode"
    BY <1>1, Zenon DEF NextEvent, Goto
  <2>3. \/ e = fail(d)
        \/ pc = "next" /\ d.events < MaxEvents /\ e = Begun(d)
        \/ pc = "verify" /\ e = d
    <3>1. d.events \in Nat /\ MaxEvents \in Nat
      BY <1>b, Sizes DEF DecoderRecord
    <3>2. ~(d.events >= MaxEvents) => d.events < MaxEvents
      BY <3>1
    <3> QED
      BY <1>a, <1>1, <2>1, <2>2, <3>2, Zenon DEF NextEvent, beginNext, Begun
  <2>4. ASSUME e \in DecoderRecord, DecoderInv(e, s), e.left = d.left, e.readErr = d.readErr
        PROVE  Feed(pc', s, rest', read', e)
    <3>1. pc \notin {"read", "readReturned"} /\ pc' \notin {"read", "readReturned"}
      BY <2>1, <2>2
    <3> QED
      BY <1>b, <2>1, <2>4, <3>1, FeedKeeps
  <2>5. CASE e = fail(d)
    <3>1. /\ e \in DecoderRecord /\ DecoderInv(e, s) /\ e.state = "failed"
          /\ e.left = d.left /\ e.readErr = d.readErr
      BY <1>b, <2>5, FailFacts
    <3>2. Here' = "stop"
      BY <1>d, <1>e, <2>2, <3>1
    <3>3. Phase("stop", e, w, s)
      BY <1>b, <1>f, <2>1, <3>1, PhaseRefused
    <3> QED
      BY <2>1, <2>2, <2>4, <3>1, <3>2, <3>3
  <2>6. CASE pc = "next" /\ d.events < MaxEvents /\ e = Begun(d)
    <3>1. Phase("next", d, w, s)
      BY <1>b, <2>1, <2>6
    <3>2. /\ e \in DecoderRecord /\ DecoderInv(e, s) /\ e.state = d.state
          /\ e.left = d.left /\ e.readErr = d.readErr
      BY <1>b, <2>6, BegunFacts
    <3>3. d.state = "open"
      BY <3>1 DEF Phase
    <3>4. Here' = "decode"
      BY <1>d, <1>e, <2>2, <3>2, <3>3
    <3>5. Phase("decode", e, w, s)
      BY <1>b, <2>6, <3>1, PhaseNext
    <3> QED
      BY <2>1, <2>2, <2>4, <3>2, <3>4, <3>5
  <2>7. CASE pc = "verify" /\ e = d
    <3>1. Phase("verify", d, w, s)
      BY <1>b, <2>1, <2>7
    <3>2. d.state = "doneReturned"
      BY <3>1 DEF Phase
    <3>3. Here' = "decode"
      BY <1>d, <1>e, <2>2, <2>7, <3>2
    <3>4. Phase("decode", e, w, s)
      BY <2>7, <3>1, PhaseVerify
    <3> QED
      BY <1>b, <2>1, <2>2, <2>4, <2>7, <3>3, <3>4
  <2> QED
    BY <2>3, <2>5, <2>6, <2>7
<1>2. CASE Decode
  <2>1. pc = "decode" /\ Here = "decode" /\ sent' = w /\ rest' = rest /\ read' = read
    BY <1>a, <1>c, <1>e, <1>2 DEF Decode, answer
  <2>2. PICK e : e = decoder' /\ pc' = IF Settled(e) THEN "stop" ELSE "decode"
    BY <1>2, Zenon DEF Decode, Goto
  <2>3. Here' = IF Settled(e) THEN "stop" ELSE "decode"
    BY <1>d, <1>e, <2>2
  <2>4. ASSUME e \in DecoderRecord, DecoderInv(e, s), e.left = d.left, e.readErr = d.readErr
        PROVE  Feed(pc', s, rest', read', e)
    <3>1. pc \notin {"read", "readReturned"} /\ pc' \notin {"read", "readReturned"}
      BY <2>1, <2>2
    <3> QED
      BY <1>b, <2>1, <2>4, <3>1, FeedKeeps
  <2>5. Phase("decode", d, w, s)
    BY <1>b, <2>1
  <2>6. CASE d.state = "open"
    <3>1. e = readSSELine(d, Ended(event))
      BY <1>a, <1>2, <2>2, <2>6 DEF Decode, WantsLine
    <3>2. PartInv(d) /\ Ended(event) \in BOOLEAN
      BY <1>f, <2>5, <2>6 DEF Phase, Ended
    <3>3. Keeps(d, e, s) /\ Outcomes(d, e)
      BY <1>b, <2>6, <3>1, <3>2, ReadLineFacts
    <3>4. /\ e \in DecoderRecord /\ DecoderInv(e, s) /\ Start(e) = Start(d)
          /\ e.left = d.left /\ e.readErr = d.readErr
      BY <3>3 DEF Keeps
    <3>5. Phase(IF Settled(e) THEN "stop" ELSE "decode", e, w, s)
      BY <1>b, <2>5, <2>6, <3>3, <3>4, PhaseDecode
    <3> QED
      BY <2>1, <2>2, <2>3, <2>4, <3>4, <3>5
  <2>7. CASE d.state # "open"
    <3>1. e = verifyEOF(d, Ended(event))
      BY <1>a, <1>2, <2>2, <2>7 DEF Decode, WantsLine
    <3>2. e = fail(d) \/ (d.buffer = <<>> /\ d.readErr = "EOF" /\ e = [d EXCEPT !.state = "verified"])
      BY <3>1, Zenon DEF verifyEOF
    <3>3. CASE e = fail(d)
      <4>1. /\ e \in DecoderRecord /\ DecoderInv(e, s) /\ e.state = "failed"
            /\ e.left = d.left /\ e.readErr = d.readErr
        BY <1>b, <3>3, FailFacts
      <4>2. Settled(e)
        BY <4>1 DEF Settled
      <4>3. Phase("stop", e, w, s)
        BY <1>f, <2>5, <4>1, PhaseRefused
      <4> QED
        BY <2>1, <2>2, <2>3, <2>4, <4>1, <4>2, <4>3
    <3>4. CASE d.buffer = <<>> /\ d.readErr = "EOF" /\ e = [d EXCEPT !.state = "verified"]
      <4>1. /\ e \in DecoderRecord /\ DecoderInv(e, s) /\ e.state = "verified"
            /\ e.left = d.left /\ e.readErr = d.readErr
        BY <1>b, <3>4, VerifiedFacts
      <4>2. Settled(e)
        BY <4>1 DEF Settled
      <4>3. d.total = Len(s)
        BY <1>b, <2>1, <3>4, FeedEnd
      <4>4. Phase("stop", e, w, s)
        BY <1>b, <2>5, <2>7, <3>4, <4>3, PhaseVerified
      <4> QED
        BY <2>1, <2>2, <2>3, <2>4, <4>1, <4>2, <4>4
    <3> QED
      BY <3>2, <3>3, <3>4
  <2> QED
    BY <2>6, <2>7
<1>3. CASE BeginRead
  <2>1. pc = "decode" /\ Here = "decode" /\ sent' = w /\ rest' = rest /\ read' = read /\ NeedsRead(d)
    BY <1>a, <1>c, <1>e, <1>3 DEF BeginRead, answer
  <2>2. d.readErr = "none"
    BY <2>1 DEF NeedsRead
  <2>3. read = NoRead
    BY <1>b, <2>1 DEF Feed
  <2>4. CASE decoder' = decoder /\ pc' = "read"
    <3>1. Feed("read", s, rest, read, d)
      BY <1>b, <2>1, <2>2 DEF Feed
    <3>2. Here' = "read"
      BY <1>d, <1>e, <2>4
    <3>3. Phase("read", d, w, s)
      BY <1>b, <1>f, <2>1, PhaseReads
    <3> QED
      BY <1>a, <1>b, <2>1, <2>4, <3>1, <3>2, <3>3
  <2>5. CASE ~(decoder' = decoder /\ pc' = "read")
    <3>1. PICK err : /\ decoder' = fill(d, <<>>, err) /\ pc' = "decode"
                     /\ err = "failure" \/ (err = "EOF" /\ d.left = 0)
      BY <1>a, <1>3, <2>5, Zenon DEF BeginRead, Goto, LimitReached
    <3>2. PICK e : e = fill(d, <<>>, err)
      BY Zenon
    <3>3. e \in DecoderRecord /\ DecoderInv(e, s) /\ Feed("decode", s, rest, NoRead, e)
      BY <1>b, <2>1, <2>2, <3>1, <3>2, FeedNothing
    <3>4. /\ e.state = d.state /\ e.raw = d.raw /\ e.line = d.line /\ e.total = d.total
          /\ e.chunks = d.chunks /\ e.events = d.events
      BY <1>b, <3>2, FillSame
    <3>5. Phase("decode", e, w, s)
      BY <1>b, <1>f, <2>1, <3>4, PhaseFill
    <3>6. Here' = "decode"
      BY <1>d, <1>e, <3>1
    <3> QED
      BY <2>1, <2>3, <3>1, <3>2, <3>3, <3>5, <3>6
  <2> QED
    BY <2>4, <2>5
<1>4. CASE ReadBody
  <2>1. pc = "read" /\ Here = "read" /\ sent' = w /\ decoder' = d
    BY <1>a, <1>c, <1>e, <1>4 DEF ReadBody, answer
  <2>2. CASE pc' = "unwind" /\ UNCHANGED <<read, rest>>
    <3>1. Here' = "unwind"
      BY <1>d, <1>e, <2>2
    <3>2. Phase("unwind", d, w, s)
      BY <1>b, <1>f, PhaseExit
    <3>3. Feed("unwind", s, rest, read, d)
      BY <1>b, <2>1, FeedPlace
    <3> QED
      BY <1>b, <2>1, <2>2, <3>1, <3>2, <3>3
  <2>3. CASE pc' = "readReturned"
    <3>1. Here' = "readReturned"
      BY <1>d, <1>e, <2>3
    <3>2. Phase("readReturned", d, w, s)
      BY <1>b, <1>f, <2>1, PhaseReads
    <3>3. Feed("readReturned", s, rest', read', d)
      <4>1. CASE read' = [tokens |-> <<>>, err |-> "failure"] /\ rest' = rest
        <5>1. Feed("read", s, rest, read, d)
          BY <1>b, <2>1
        <5> QED
          BY <1>b, <4>1, <5>1, FeedFailure
      <4>2. CASE \E n \in 0..Room(decoder) \cap 0..Len(rest), err \in {"none", "EOF"} :
                   /\ err = "EOF" => n = Len(rest)
                   /\ read' = [tokens |-> SubSeq(rest, 1, n), err |-> err]
                   /\ rest' = SubSeq(rest, n + 1, Len(rest))
        <5>1. PICK n \in 0..Room(d) \cap 0..Len(rest), err \in {"none", "EOF"} :
                   /\ err = "EOF" => n = Len(rest)
                   /\ read' = [tokens |-> SubSeq(rest, 1, n), err |-> err]
                   /\ rest' = SubSeq(rest, n + 1, Len(rest))
          BY <1>a, <4>2
        <5>2. n \in Nat /\ n <= Room(d) /\ n <= Len(rest)
          <6>1. Room(d) \in Nat /\ Len(rest) \in Nat
            BY <1>b, ReachFacts DEF Feed
          <6> QED
            BY <5>1, <6>1
        <5>3. Feed("read", s, rest, read, d)
          BY <1>b, <2>1
        <5>4. Feed("readReturned", s, SubSeq(rest, n + 1, Len(rest)), [tokens |-> SubSeq(rest, 1, n), err |-> err], d)
          BY <1>b, <5>1, <5>2, <5>3, FeedRead
        <5> QED
          BY <5>1, <5>4, Zenon
      <4> QED
        BY <1>4, <2>3, <4>1, <4>2 DEF ReadBody, Goto
    <3> QED
      BY <1>b, <2>1, <2>3, <3>1, <3>2, <3>3
  <2> QED
    BY <1>4, <2>2, <2>3, Zenon DEF ReadBody, Goto
<1>5. CASE EndRead
  <2>1. /\ pc = "readReturned" /\ Here = "readReturned" /\ sent' = w /\ rest' = rest
        /\ pc' = "decode" /\ read' = NoRead
    BY <1>a, <1>c, <1>e, <1>5 DEF EndRead, answer, Goto, NoRead
  <2>2. Here' = "decode"
    BY <1>d, <1>e, <2>1
  <2>3. PICK x, err : decoder' = fill(d, x, err) /\ \/ x = <<>> /\ err = "failure"
                                                    \/ x = read.tokens /\ err = read.err
    BY <1>a, <1>5, Zenon DEF EndRead
  <2>4. PICK e : e = fill(d, x, err)
    BY Zenon
  <2>5. e \in DecoderRecord /\ DecoderInv(e, s) /\ Feed("decode", s, rest, NoRead, e)
    <3>1. CASE x = <<>> /\ err = "failure"
      BY <1>b, <2>4, <3>1, FeedNothing
    <3>2. CASE x = read.tokens /\ err = read.err
      BY <1>b, <2>1, <2>4, <3>2, FeedTokens
    <3> QED
      BY <2>3, <3>1, <3>2
  <2>6. /\ e.state = d.state /\ e.raw = d.raw /\ e.line = d.line /\ e.total = d.total
        /\ e.chunks = d.chunks /\ e.events = d.events
    BY <1>b, <2>4, FillSame
  <2>7. Phase("decode", e, w, s)
    BY <1>b, <1>f, <2>1, <2>6, PhaseFill
  <2> QED
    BY <2>1, <2>2, <2>3, <2>4, <2>5, <2>7
<1>6. CASE /\ UNCHANGED <<rest, read, decoder>>
           /\ pc' = pc \/ (pc # "readReturned" /\ pc' \notin {"read", "readReturned"})
  <2>1. Feed(pc', s, rest', read', d) /\ decoder' = d
    BY <1>a, <1>b, <1>6, FeedPlace
  <2>2. Phase(Here', d, sent', s)
    <3>1. CASE Here' \in Exits
      BY <1>b, <3>1, PhaseExit
    <3>2. CASE /\ sent' = sent
               /\ \/ Here' = Here
                  \/ Here \in Early /\ Here' \in Early
                  \/ Here = "metadata" /\ Here' = "next"
                  \/ Here = "close" /\ Here' \in {"write", "failed"}
      BY <1>a, <1>b, <1>f, <3>2, PhaseEarly, PhaseMetadata, PhaseClose, PhaseFailed
    <3>3. CASE StopEvent
      <4>1. pc = "stop" /\ Here = "stop" /\ sent' = w /\ Phase("stop", d, w, s)
        BY <1>a, <1>b, <1>c, <1>e, <3>3 DEF StopEvent, answer
      <4>2. \/ pc' = "client" /\ after' = "failed"
            \/ pc' = "close" /\ d.state = "verified"
            \/ pc' = "client" /\ after' = "verify" /\ d.state = "doneReturned"
            \/ pc' = "client" /\ after' = "relay" /\ d.state \notin {"failed", "verified", "doneReturned"}
        BY <1>a, <3>3 DEF StopEvent, Check, Goto
      <4>3. \/ Here' = "failed"
            \/ Here' = "close" /\ d.state = "verified"
            \/ Here' = "verify" /\ d.state = "doneReturned"
            \/ Here' = "relay" /\ d.state = "open"
        BY <1>b, <4>2 DEF Here, Looks, DecoderRecord
      <4> QED
        BY <1>f, <4>1, <4>3, PhaseStop, PhaseFailed
    <3>4. CASE RelayEvent
      <4>1. pc = "relay" /\ Phase("relay", d, w, s)
        BY <1>b, <1>c, <1>e, <3>4 DEF RelayEvent
      <4>2. \/ sent' = w \o d.raw /\ pc' = "next"
            \/ pc' = "unwind"
        BY <1>a, <3>4 DEF RelayEvent, Goto
      <4>3. CASE sent' = w \o d.raw /\ pc' = "next"
        <5>1. Here' = "next"
          BY <1>d, <1>e, <4>3
        <5>2. Phase("next", d, w \o d.raw, s)
          BY <1>b, <4>1, PhaseRelay
        <5> QED
          BY <4>3, <5>1, <5>2
      <4>4. CASE pc' = "unwind"
        <5>1. Here' \in Exits
          BY <1>d, <1>e, <1>f, <4>4
        <5> QED
          BY <1>b, <5>1, PhaseExit
      <4> QED
        BY <4>2, <4>3, <4>4
    <3>5. CASE NextEvent \/ Decode \/ BeginRead \/ ReadBody \/ EndRead
      BY <1>1, <1>2, <1>3, <1>4, <1>5, <2>1, <3>5
    <3> QED
      BY <3>1, <3>2, <3>3, <3>4, <3>5, HereStep
  <2> QED
    BY <1>b, <2>1, <2>2
<1> QED
  BY <1>1, <1>2, <1>3, <1>4, <1>5, <1>6, FrameStep

(* A new decoder has read nothing. *)
LEMMA NewFacts ==
  ASSUME NEW s \in Seq(Token)
  PROVE  /\ NewSSEDecoder \in DecoderRecord /\ DecoderInv(NewSSEDecoder, s)
         /\ NewSSEDecoder.buffer = <<>> /\ NewSSEDecoder.total = 0
         /\ NewSSEDecoder.readErr = "none" /\ NewSSEDecoder.state = "open"
<1>2. PICK d : d = NewSSEDecoder
  BY Zenon
<1>3. PICK k \in Nat, z \in Seq(Token) : k = MaxTotalBytes /\ z = <<>>
  BY Sizes, EmptySeq
<1>4. /\ d \in DecoderRecord /\ d.buffer = z /\ d.raw = z /\ d.line = 0 /\ d.total = 0
      /\ d.left = k + 1 /\ d.chunks = 0 /\ d.events = 0 /\ d.readErr = "none" /\ d.state = "open"
  <2>1. d = [state |-> "open", left |-> k + 1, buffer |-> z, readErr |-> "none",
             raw |-> z, line |-> 0, total |-> 0, events |-> 0, chunks |-> 0]
    BY <1>2, <1>3, Zenon DEF NewSSEDecoder
  <2>2. k + 1 \in Nat
    OBVIOUS
  <2> QED
    BY <2>1, <2>2 DEF DecoderRecord
<1>5. Len(z) = 0 /\ Window(z, s, 0)
  BY <1>3 DEF Window
<1>6. Start(d) = 0
  <2>1. 0 - 0 = 0
    OBVIOUS
  <2> QED
    BY <1>4, <1>5, <2>1, Zenon DEF Start
<1>7. DecoderInv(d, s)
  <2>1. 0 <= BufferSize /\ 0 <= MaxEventBytes /\ 0 <= 0 /\ 0 <= MaxTotalBytes /\ 0 <= MaxEvents
    BY Sizes
  <2>2. (k + 1) + 0 + 0 = k + 1
    OBVIOUS
  <2> QED
    BY <1>3, <1>4, <1>5, <1>6, <2>1, <2>2, Zenon DEF DecoderInv
<1> QED
  BY <1>2, <1>3, <1>4, <1>7, Zenon

(* They hold initially. *)
LEMMA InitStream == Init => StreamInv /\ BufferedInv /\ FinalInv
<1> SUFFICES ASSUME Init PROVE StreamInv /\ BufferedInv /\ FinalInv
  OBVIOUS
<1>1. Here = "permitted" /\ pc = "permitted" /\ "permitted" \in Early /\ "permitted" \notin Exits
  BY DEF Init, Here, Looks, Early, Exits
<1>2. BufferedInv
  BY DEF Init, BufferedInv
<1>3. FinalInv
  BY <1>1 DEF FinalInv
<1>4. ASSUME mode = "streaming" PROVE StreamInv
  <2>1. PICK s \in Seq(Token) : s = stream /\ rest = s
    BY <1>4, UpstreamAssumption DEF Init
  <2>2. PICK d : d = NewSSEDecoder
    BY Zenon
  <2>4. /\ d \in DecoderRecord /\ DecoderInv(d, s) /\ d.buffer = <<>> /\ d.total = 0
        /\ d.readErr = "none" /\ d.state = "open"
    BY <2>2, NewFacts, Zenon
  <2>5. Len(<<>>) = 0
    OBVIOUS
  <2>8. Feed("permitted", s, s, NoRead, d)
    <3>1. PICK n \in Nat : n = Len(s)
      OBVIOUS
    <3>2. n - n = 0 /\ n <= n /\ 0 + 0 + 0 + n = n /\ 0 + n <= n /\ \A i \in 1..n : 0 + i = i
      OBVIOUS
    <3>3. Window(s, s, Len(s) - Len(s)) /\ Len(s) <= Len(s)
      BY <3>1, <3>2, Zenon DEF Window
    <3>4. /\ Window(NoRead.tokens, s, d.total + Len(d.buffer)) /\ Len(NoRead.tokens) <= Room(d)
          /\ NoRead \in [tokens : Seq(Token), err : {"none", "EOF", "failure"}]
          /\ NoRead.err = "none" /\ Len(NoRead.tokens) = 0
      BY <2>4, ReachFacts, Zenon DEF Reach
    <3>5. d.total + Len(d.buffer) + Len(NoRead.tokens) + Len(s) = Len(s)
      BY <2>4, <2>5, <3>1, <3>2, <3>4, Zenon
    <3> QED
      BY <2>4, <3>3, <3>4, <3>5 DEF Feed
  <2>9. Phase("permitted", d, <<>>, s)
    <3>1. Sent(0, <<>>, s) /\ 0 \in 0..MaxEvents
      BY NothingSent, Sizes DEF Behind
    <3> QED
      BY <1>1, <2>2, <2>4, <3>1 DEF Phase, Reads
  <2>10. decoder = d /\ read = NoRead /\ sent = <<>>
    BY <2>2 DEF Init, NoRead
  <2> QED
    BY <1>1, <2>1, <2>4, <2>8, <2>9, <2>10 DEF StreamInv
<1>5. StreamInv
  BY <1>4 DEF StreamInv
<1> QED
  BY <1>2, <1>3, <1>5

(* Each action keeps BufferedInv. *)
LEMMA BufferedStep == ControlInv /\ BufferedInv /\ [Next]_vars => BufferedInv'
<1> SUFFICES ASSUME ControlInv, BufferedInv, Steps \/ UNCHANGED vars, mode = "buffered"
             PROVE  decoder' = NewSSEDecoder /\ (Here' \notin Exits => sent' = <<>>)
  <2>1. Steps \/ UNCHANGED vars => mode' = mode
    BY GivenStep
  <2> QED
    BY <2>1, StepCases DEF BufferedInv
<1>1. decoder = NewSSEDecoder /\ (Here \notin Exits => sent = <<>>)
  BY DEF BufferedInv
<1>2. pc \notin Relaying
  BY DEF ControlInv, Here, Looks, Relaying, Reads
<1>3. ~(NextEvent \/ Decode \/ BeginRead \/ ReadBody \/ EndRead \/ StopEvent \/ RelayEvent)
  BY <1>2 DEF NextEvent, Decode, BeginRead, ReadBody, EndRead, StopEvent, RelayEvent,
     Relaying, Reads
<1>4. decoder' = decoder
  BY <1>3, FrameStep
<1>5. Here' \notin Exits => sent' = sent /\ Here \notin Exits
  BY <1>3, HereStep DEF Exits, Early
<1> QED
  BY <1>1, <1>4, <1>5

(* The steps after the handler has decided to leave *)
LEMMA ExitStep ==
  ASSUME ControlInv, Steps \/ UNCHANGED vars, pc \in Exits
  PROVE  /\ outcome' = outcome
         /\ body = "clean" => body' = "clean"
         /\ committed => committed' /\ sent' = sent
         /\ sent' = sent \/ sent' = <<"internal">>
         /\ timer = "off" => timer' = "off" /\ idleExpired' = idleExpired
<1>1. ASSUME body = "clean", CloseBody PROVE body' = "clean"
  BY <1>1 DEF CloseBody
<1>2. CASE ClientLeaves
  BY <1>1, <1>2 DEF ClientLeaves, answer, idle
<1>3. CASE ForceCancel
  BY <1>1, <1>3 DEF ForceCancel, answer, idle
<1>4. CASE Propagate
  BY <1>1, <1>4 DEF Propagate, answer, idle
<1>5. CASE DeadlinePasses
  BY <1>1, <1>5 DEF DeadlinePasses, answer, idle
<1>6. CASE WatchRuns
  BY <1>1, <1>6 DEF WatchRuns, answer, idle
<1>7. CASE TimerFires
  BY <1>1, <1>7 DEF TimerFires, answer, idle
<1>8. CASE TimerRuns
  BY <1>1, <1>8 DEF TimerRuns, answer, idle
<1>9. CASE Unwind
  BY <1>1, <1>9 DEF Unwind, answer, idle, Quiet, NoIO, NoUpstream
<1>10. CASE CancelUpstream \/ FinishPermit
  BY <1>1, <1>10 DEF CancelUpstream, FinishPermit, answer, idle, Quiet, NoIO, NoUpstream
<1>11. CASE Recover
  BY <1>1, <1>11 DEF Recover, answer, idle, Quiet, NoIO, NoUpstream
<1>12. CASE UNCHANGED vars
  BY <1>12 DEF vars, answer, idle
<1>13. ~(Permitted \/ CheckClient \/ CheckPermit \/ AnswerDraining \/ CheckDeadline
           \/ AnswerLate \/ Begin \/ Complete \/ Metadata)
  BY DEF Permitted, CheckClient, CheckPermit, AnswerDraining, CheckDeadline, AnswerLate,
     Begin, Complete, Metadata, Exits
<1>14. ~(ParseResponse \/ CloseResponse \/ WriteLast \/ AnswerFailure \/ NextEvent
           \/ Decode \/ BeginRead \/ ReadBody \/ EndRead \/ StopEvent \/ RelayEvent)
  BY DEF ParseResponse, CloseResponse, WriteLast, AnswerFailure, NextEvent, Decode,
     BeginRead, ReadBody, EndRead, StopEvent, RelayEvent, Exits
<1> QED
  BY <1>2, <1>3, <1>4, <1>5, <1>6, <1>7, <1>8, <1>9, <1>10, <1>11, <1>12, <1>13, <1>14
     DEF Steps

(* Only the last write completes the answer. *)
LEMMA OutcomeStep ==
  ASSUME ControlInv, Steps \/ UNCHANGED vars
  PROVE  WriteLast \/ outcome' = outcome \/ outcome' # "Completed"
<1>1. CASE ClientLeaves
  BY <1>1 DEF ClientLeaves, answer
<1>2. CASE ForceCancel
  BY <1>2 DEF ForceCancel, answer
<1>3. CASE Propagate
  BY <1>3 DEF Propagate, answer
<1>4. CASE DeadlinePasses
  BY <1>4 DEF DeadlinePasses, answer
<1>5. CASE WatchRuns
  BY <1>5 DEF WatchRuns, answer
<1>6. CASE TimerFires
  BY <1>6 DEF TimerFires, answer
<1>7. CASE TimerRuns
  BY <1>7 DEF TimerRuns, answer
<1>8. CASE Permitted
  BY <1>8 DEF Permitted, answer, NoUpstream, Leave, Write
<1>9. CASE CheckClient
  BY <1>9 DEF CheckClient, answer, NoUpstream, Leave, Write
<1>10. CASE CheckPermit
  BY <1>10 DEF CheckPermit, answer, NoUpstream, Leave, Write
<1>11. CASE AnswerDraining
  BY <1>11 DEF AnswerDraining, answer, NoUpstream, Leave, Write
<1>12. CASE CheckDeadline
  BY <1>12 DEF CheckDeadline, answer, NoUpstream, Leave, Write
<1>13. CASE AnswerLate
  BY <1>13 DEF AnswerLate, answer, NoUpstream, Leave, Write
<1>14. CASE Begin
  BY <1>14 DEF Begin, answer, NoUpstream, Leave, Write
<1>15. CASE Complete
  BY <1>15 DEF Complete, answer, NoUpstream, Leave, Write
<1>16. CASE Metadata
  BY <1>16 DEF Metadata, answer, NoUpstream, Leave, Write
<1>17. CASE ParseResponse
  BY <1>17 DEF ParseResponse, answer, NoUpstream, Leave, Write
<1>18. CASE CloseResponse
  BY <1>18 DEF CloseResponse, answer, NoUpstream, Leave, Write
<1>19. CASE AnswerFailure
  BY <1>19 DEF AnswerFailure, answer, NoUpstream, Leave, Write
<1>20. CASE NextEvent
  BY <1>20 DEF NextEvent, answer, NoUpstream, Leave, Write
<1>21. CASE Decode
  BY <1>21 DEF Decode, answer, NoUpstream, Leave, Write
<1>22. CASE BeginRead
  BY <1>22 DEF BeginRead, answer, NoUpstream, Leave, Write
<1>23. CASE ReadBody
  BY <1>23 DEF ReadBody, answer, NoUpstream, Leave, Write
<1>24. CASE EndRead
  BY <1>24 DEF EndRead, answer, NoUpstream, Leave, Write
<1>25. CASE StopEvent
  BY <1>25 DEF StopEvent, answer, NoUpstream, Leave, Write
<1>26. CASE RelayEvent
  BY <1>26 DEF RelayEvent, answer, NoUpstream, Leave, Write
<1>27. CASE Unwind
  BY <1>27 DEF Unwind, answer, NoUpstream, Leave, Write
<1>28. CASE CancelUpstream \/ FinishPermit
  BY <1>28 DEF CancelUpstream, FinishPermit, answer, NoUpstream, Leave, Write
<1>29. CASE Recover
  BY <1>29 DEF Recover, answer, NoUpstream, Leave, Write
<1> QED
  BY <1>1, <1>2, <1>3, <1>4, <1>5, <1>6, <1>7, <1>8, <1>9, <1>10, <1>11, <1>12, <1>13,
     <1>14, <1>15, <1>16, <1>17, <1>18, <1>19, <1>20, <1>21, <1>22, <1>23, <1>24, <1>25,
     <1>26, <1>27, <1>28, <1>29 DEF Steps, vars, answer

(* Each action keeps FinalInv. *)
LEMMA FinalStep ==
  ControlInv /\ IdleInv /\ StreamInv /\ BufferedInv /\ FinalInv /\ [Next]_vars => FinalInv'
<1> SUFFICES ASSUME ControlInv, IdleInv, StreamInv, BufferedInv, FinalInv, [Next]_vars,
                    Steps \/ UNCHANGED vars, Here' \in Exits
             PROVE  FinalInv'
  BY StepCases DEF FinalInv
<1>a. mode' = mode /\ stream' = stream /\ mode \in {"streaming", "buffered"}
  BY GivenStep DEF ControlInv
<1>1. CASE Here \in Exits
  <2>1. pc \in Exits
    BY <1>1 DEF Here, ControlInv, Exits, Returns
  <2>2. /\ outcome' = outcome
        /\ body = "clean" => body' = "clean"
        /\ committed => committed' /\ sent' = sent
        /\ sent' = sent \/ sent' = <<"internal">>
        /\ timer = "off" => timer' = "off" /\ idleExpired' = idleExpired
    BY <2>1, ExitStep
  <2>3. "internal" \in Failures
    BY DEF Failures
  <2>4. CASE /\ outcome = "Completed" /\ committed /\ sent = stream /\ stream \in ValidStreams
             /\ body = "clean" /\ ~idleExpired /\ timer = "off" /\ mode = "streaming"
    BY <1>a, <2>2, <2>4, Zenon DEF FinalInv
  <2>5. CASE outcome = "Completed" /\ committed /\ sent = stream /\ stream = <<"json">> /\ mode = "buffered"
    BY <1>a, <2>2, <2>5, Zenon DEF FinalInv
  <2>6. CASE outcome # "Completed" /\ sent' = <<"internal">>
    BY <2>2, <2>3, <2>6, Zenon DEF FinalInv
  <2>7. CASE outcome # "Completed" /\ sent' = sent
    BY <1>a, <1>1, <2>2, <2>7, Zenon DEF FinalInv
  <2> QED
    BY <1>1, <2>2, <2>4, <2>5, <2>6, <2>7, Zenon DEF FinalInv
<1>2. CASE Here \notin Exits
  <2>1. outcome = "InternalFailure"
    BY <1>2 DEF ControlInv
  <2>2. sent = <<>> \/ (mode = "streaming" /\ \E m \in 0..MaxEvents : Sent(m, sent, stream))
    <3>1. CASE mode = "streaming"
      BY <1>2, <3>1 DEF StreamInv, Phase
    <3>2. CASE mode = "buffered"
      BY <1>2, <3>2 DEF BufferedInv
    <3> QED
      BY <1>a, <3>1, <3>2
  <2>3. CASE sent' = sent /\ outcome' # "Completed"
    BY <1>a, <2>2, <2>3, Zenon DEF FinalInv
  <2>4. CASE (\E f \in Failures : sent' = <<f>>) /\ outcome' # "Completed"
    BY <2>4, Zenon DEF FinalInv
  <2>5. CASE WriteLast
    <3>1. pc = "write" /\ Here = "write" /\ UNCHANGED <<body, timer, idleExpired>>
      BY <2>5 DEF WriteLast, NoUpstream, NoIO, idle, Here, Looks
    <3>2. body = "clean" /\ ~idleExpired /\ timer = "off"
      BY <3>1 DEF ControlInv, IdleInv, Exits
    <3>3. CASE sent' = sent /\ outcome' = "DownstreamFailed"
      BY <2>3, <3>3
    <3>4. CASE mode = "streaming" /\ committed' /\ sent' = sent \o decoder.raw /\ outcome' = "Completed"
      <4>1. sent \o decoder.raw = stream /\ stream \in ValidStreams
        <5>1. /\ decoder \in DecoderRecord /\ DecoderInv(decoder, stream) /\ stream \in Seq(Token)
              /\ Phase("write", decoder, sent, stream)
          BY <3>1, <3>4 DEF StreamInv, Feed
        <5> QED
          BY <5>1, WholeStream
      <4> QED
        BY <1>a, <3>1, <3>2, <3>4, <4>1, Zenon DEF FinalInv
    <3>5. CASE mode = "buffered" /\ committed' /\ sent' = sent \o stream /\ outcome' = "Completed"
      <4>1. sent = <<>> /\ stream = <<"json">>
        BY <1>2, <3>1, <3>5 DEF BufferedInv, ControlInv
      <4>2. sent' = stream
        BY <3>5, <4>1
      <4> QED
        BY <1>a, <3>5, <4>1, <4>2, Zenon DEF FinalInv
    <3> QED
      BY <1>a, <2>5, <3>3, <3>4, <3>5, Zenon DEF WriteLast, Write
  <2>6. CASE RelayEvent
    <3>1. pc = "relay" /\ (pc' = "unwind" => sent' = sent /\ outcome' # "Completed")
      BY <2>6 DEF RelayEvent, Goto
    <3>2. pc' = "unwind"
      BY <2>6 DEF RelayEvent, Goto, Here, Exits, Looks
    <3> QED
      BY <2>3, <3>1, <3>2
  <2>7. CASE ~WriteLast /\ ~RelayEvent
    <3>1. outcome' # "Completed"
      BY <2>1, <2>7, OutcomeStep
    <3> QED
      BY <2>3, <2>4, <2>7, <3>1, SentStep
  <2> QED
    BY <2>5, <2>6, <2>7
<1> QED
  BY <1>1, <1>2

(* The inductive invariant *)
RelayInv == ControlInv /\ IdleInv /\ Flags /\ Values /\ StreamInv /\ BufferedInv /\ FinalInv

(* The inductive invariant of the relay: the place of the handler, the idle *)
(* timer, and how what the decoder has read, what the client has and what   *)
(* is still to come make up the stream.                                     *)
THEOREM RelayInvariant == Spec => []RelayInv
<1>1. Init => RelayInv
  BY InitControl, InitStream DEF RelayInv
<1>2. RelayInv /\ [Next]_vars => RelayInv'
  BY ControlStep, IdleStep, FlagStep, ValueStep, StreamStep, BufferedStep, FinalStep
     DEF RelayInv
<1> QED
  BY <1>1, <1>2, PTL DEF Spec

-----------------------------------------------------------------------------
(* What the invariant says of the client *)

(* What the client may have received, by the invariant *)
LEMMA Shown ==
  ASSUME RelayInv
  PROVE  \/ /\ sent = stream /\ stream \in ValidStreams
            /\ body = "clean" /\ ~idleExpired /\ mode = "streaming"
         \/ sent = <<"json">> /\ mode = "buffered"
         \/ sent = <<>>
         \/ \E f \in Failures : sent = <<f>>
         \/ mode = "streaming" /\ \E m \in 0..MaxEvents : Sent(m, sent, stream)
<1>1. CASE Here \in Exits
  BY <1>1, Zenon DEF RelayInv, FinalInv
<1>2. CASE Here \notin Exits
  <2>1. mode \in {"streaming", "buffered"}
    BY DEF RelayInv, ControlInv
  <2>2. CASE mode = "streaming"
    BY <1>2, <2>2 DEF RelayInv, StreamInv, Phase
  <2>3. CASE mode = "buffered"
    BY <1>2, <2>3 DEF RelayInv, BufferedInv
  <2> QED
    BY <2>1, <2>2, <2>3
<1> QED
  BY <1>1, <1>2

(* What is no longer than n is in BoundedSeq. *)
LEMMA BoundedIs ==
  ASSUME NEW S, NEW n \in Nat, NEW x \in Seq(S), Len(x) <= n
  PROVE  x \in BoundedSeq(S, n)
<1>1. Len(x) \in 0..n
  OBVIOUS
<1>2. x \in [1..Len(x) -> S]
  BY LenProperties, ElementOfSeq
<1> QED
  BY <1>1, <1>2, Zenon DEF BoundedSeq, SeqOf

(* The decoder's fields keep their bounds. *)
LEMMA DecoderTyped ==
  ASSUME NEW d \in DecoderRecord, NEW s, DecoderInv(d, s)
  PROVE  d \in DecoderType
<1>1. /\ d.buffer \in Seq(Token) /\ d.raw \in Seq(Token) /\ d.left \in Nat /\ d.line \in Nat
      /\ d.total \in Nat /\ d.events \in Nat /\ d.chunks \in Nat
  BY DEF DecoderRecord
<1>2. d.buffer \in BoundedSeq(Token, BufferSize)
  BY <1>1, Sizes, BoundedIs DEF DecoderInv
<1>3. d.raw \in BoundedSeq(Token, MaxEventBytes)
  BY <1>1, Sizes, BoundedIs DEF DecoderInv
<1>4. PICK b, r, l, t \in Nat : b = Len(d.buffer) /\ r = Len(d.raw) /\ l = d.left /\ t = d.total
  <2>1. Len(d.buffer) \in Nat /\ Len(d.raw) \in Nat
    BY <1>1
  <2> QED
    BY <1>1, <2>1, Zenon
<1>5. /\ r <= MaxEventBytes /\ d.line <= r /\ t <= MaxTotalBytes
      /\ d.chunks <= d.events /\ d.events <= MaxEvents /\ l + t + b = MaxTotalBytes + 1
  BY <1>4, Zenon DEF DecoderInv
<1>6. d.line \in 0..MaxEventBytes /\ t \in 0..MaxTotalBytes /\ l \in 0..MaxTotalBytes + 1
  BY <1>1, <1>5, Sizes
<1>7. d.events \in 0..MaxEvents /\ d.chunks \in 0..MaxEvents
  BY <1>1, <1>5, Sizes
<1>8. d.left \in 0..MaxTotalBytes + 1 /\ d.total \in 0..MaxTotalBytes
  BY <1>4, <1>6, Zenon
<1> QED
  BY <1>2, <1>3, <1>6, <1>7, <1>8 DEF DecoderRecord, DecoderType

(* The invariant gives the types. *)
LEMMA TypeHolds == RelayInv => TypeOK
<1> SUFFICES ASSUME RelayInv PROVE TypeOK
  OBVIOUS
<1>0. Flags /\ Values /\ finished \in 0..1 /\ mode \in {"streaming", "buffered"}
  BY DEF RelayInv, ControlInv
<1>1. decoder \in DecoderType
  <2>1. CASE mode = "streaming"
    BY <2>1, DecoderTyped DEF RelayInv, StreamInv
  <2>2. CASE mode = "buffered"
    <3>1. PICK s \in Seq(Token) : s = <<>>
      BY EmptySeq
    <3>2. decoder = NewSSEDecoder
      BY <2>2 DEF RelayInv, BufferedInv
    <3>3. decoder \in DecoderRecord /\ DecoderInv(decoder, s)
      BY <3>2, NewFacts, Zenon
    <3> QED
      BY <3>3, DecoderTyped, Zenon
  <2> QED
    BY <1>0, <2>1, <2>2
<1>2. \A c \in {client, permit, forced, timedOut, idleExpired, late, committed} : c \in BOOLEAN
  BY <1>0, Zenon DEF Flags
<1>3. sent = <<>> \/ (sent[1] \in Failures /\ Len(sent) = 1) \/ sent \in Seq(Token \cup {"json"})
  <2>1. CASE sent = stream /\ mode = "streaming"
    <3>1. stream \in Seq(Token)
      BY <2>1 DEF RelayInv, StreamInv, Feed
    <3>2. Token \subseteq Token \cup {"json"}
      OBVIOUS
    <3> QED
      BY <2>1, <3>1, <3>2, SeqMonotonic
  <2>2. CASE sent = <<"json">>
    BY <2>2
  <2>3. CASE \E f \in Failures : sent = <<f>>
    BY <2>3, FirstOf
  <2>4. CASE \E m \in 0..MaxEvents : Sent(m, sent, stream)
    <3>1. sent \in Seq({"chunk", "cr", "lf"})
      BY <2>4 DEF Sent
    <3>2. {"chunk", "cr", "lf"} \subseteq Token \cup {"json"}
      BY DEF Token, Text
    <3> QED
      BY <3>1, <3>2, SeqMonotonic
  <2> QED
    BY <2>1, <2>2, <2>3, <2>4, Shown
<1>4. {up, event} \subseteq {"none", "live", "canceled", "deadline"}
  BY <1>0 DEF Values
<1>5. {upWatch, eventWatch} \subseteq {"off", "armed", "started", "done"}
  BY <1>0 DEF Values
<1> QED
  BY <1>0, <1>1, <1>2, <1>3, <1>4, <1>5, Zenon DEF TypeOK, Values

(* Chunk events contain no terminal. *)
LEMMA NoTerminal ==
  ASSUME NEW S, NEW w \in Seq(S), "done" \notin S
  PROVE  "done" \notin ToSet(w)
<1>1. \A i \in 1..Len(w) : w[i] \in S
  BY ElementOfSeq
<1> QED
  BY <1>1 DEF ToSet

(* relaySSE keeps the terminal event back until a clean EOF and a           *)
(* successful close (relay.go): for every stream and every limit, a client  *)
(* that sees [DONE] has all of a valid stream and no timeout was            *)
(* overlooked.                                                              *)
THEOREM TerminalIsProven == Spec => []TerminalProven
<1>1. RelayInv => TerminalProven
  <2> SUFFICES ASSUME RelayInv, "done" \in ToSet(sent)
               PROVE  sent = stream /\ stream \in ValidStreams /\ body = "clean" /\ ~idleExpired
    BY DEF TerminalProven
  <2>1. sent # <<>>
    BY DEF ToSet
  <2>2. sent # <<"json">>
    <3>1. <<"json">> \in Seq({"json"}) /\ "done" \notin {"json"}
      OBVIOUS
    <3> QED
      BY <3>1, NoTerminal
  <2>3. ~ \E f \in Failures : sent = <<f>>
    <3>1. ASSUME NEW f \in Failures, sent = <<f>> PROVE FALSE
      <4>1. <<f>> \in Seq(Failures) /\ "done" \notin Failures
        BY DEF Failures
      <4> QED
        BY <3>1, <4>1, NoTerminal
    <3> QED
      BY <3>1
  <2>4. ~ \E m \in 0..MaxEvents : Sent(m, sent, stream)
    <3>1. ASSUME NEW m, Sent(m, sent, stream) PROVE FALSE
      <4>1. sent \in Seq({"chunk", "cr", "lf"}) /\ "done" \notin {"chunk", "cr", "lf"}
        BY <3>1 DEF Sent
      <4> QED
        BY <4>1, NoTerminal
    <3> QED
      BY <3>1
  <2> QED
    BY <2>1, <2>2, <2>3, <2>4, Shown
<1> QED
  BY <1>1, RelayInvariant, PTL

(* However the reads, the buffer and the limits cut the stream (SSEDecoder  *)
(* in internal/contract/sse.go, under relaySSE), the decoder stays within   *)
(* its limits and the client receives a prefix of the stream that consists  *)
(* of whole valid chunk events, or the whole of a valid stream.             *)
THEOREM WholeEventsRelayed == Spec => []RelaysWholeEvents
<1>1. RelayInv => RelaysWholeEvents
  <2> SUFFICES ASSUME RelayInv, mode = "streaming", sent # <<>>, sent[1] \notin Failures
               PROVE  /\ IsPrefix(sent, stream)
                      /\ \/ sent \in ValidStreams
                         \/ \E chunks \in BoundedSeq(EventOf("chunk"), MaxEvents) : sent = FlattenSeq(chunks)
    BY TypeHolds DEF RelaysWholeEvents
  <2>0. stream \in Seq(Token)
    BY DEF RelayInv, StreamInv, Feed
  <2>1. CASE sent = stream /\ stream \in ValidStreams
    <3>1. Window(stream, stream, 0)
      <4>1. PICK n \in Nat : n = Len(stream)
        BY <2>0
      <4>2. 0 + n <= n /\ \A i \in 1..n : 0 + i = i
        OBVIOUS
      <4> QED
        BY <4>1, <4>2, Zenon DEF Window
    <3> QED
      BY <2>0, <2>1, <3>1, WindowPrefix
  <2>2. CASE \E m \in 0..MaxEvents : Sent(m, sent, stream)
    <3>1. PICK m \in 0..MaxEvents : Sent(m, sent, stream)
      BY <2>2
    <3>2. sent \in Seq(Token) /\ Window(sent, stream, 0)
      <4>1. sent \in Seq({"chunk", "cr", "lf"}) /\ Window(sent, stream, 0)
        BY <3>1 DEF Sent
      <4>2. {"chunk", "cr", "lf"} \subseteq Token
        BY DEF Token, Text
      <4> QED
        BY <4>1, <4>2, SeqMonotonic
    <3>3. IsPrefix(sent, stream)
      BY <2>0, <3>2, WindowPrefix
    <3>4. PICK cs \in [1..m -> EventOf("chunk")] : sent = FlattenSeq(cs)
      BY <3>1, Zenon DEF Sent
    <3>5. cs \in BoundedSeq(EventOf("chunk"), MaxEvents)
      BY <3>1, Zenon DEF BoundedSeq, SeqOf
    <3> QED
      BY <3>3, <3>4, <3>5
  <2>3. ~ \E f \in Failures : sent = <<f>>
    BY FirstOf
  <2> QED
    BY <2>1, <2>2, <2>3, Shown
<1> QED
  BY <1>1, RelayInvariant, PTL

-----------------------------------------------------------------------------
(* The outcomes.  Whatever is held against the upstream must have a reason: *)
(* a fault of the upstream, or a permit that has ended.                     *)

Slow == "slow" \in fault
Stressed == permit \/ ~Blameless

(* A context ends, and its watch starts, for a reason. *)
CauseInv ==
  /\ permit => client \/ forced
  /\ pc = "drain" => permit
  /\ pc \notin Canceled => (up = "canceled" \/ event = "canceled" => permit)
  /\ pc \in Canceled => up # "live"
  /\ upWatch \in {"started", "done"} => Ended(up)
  /\ eventWatch \in {"started", "done"} => Ended(event)
  /\ Here \in {"permitted", "begin", "completing"} => upWatch = "off"

(* Every sign of a timeout is one. *)
SlowInv ==
  /\ up = "deadline" \/ event = "deadline" \/ idleExpired \/ late \/ resp = "timeout" => Slow
  /\ pc \in {"reclient", "repermit", "late"} => Slow
  /\ resp = "bad" => "transport" \in fault

(* The body is closed under the handler for a reason. *)
BodyInv ==
  /\ body \in {"clean", "failed"} /\ Here \notin Exits \cup {"write", "failed"} => Stressed
  /\ Here \in Relaying \cup {"parse", "close"} => body # "none"
  /\ Here = "metadata" /\ resp = "good" => body # "none"

(* A failure that is yet to be answered is the upstream's, or the permit    *)
(* has ended and the handler is going to see that before it answers.        *)
FailedInv ==
  /\ Here = "metadata" /\ resp = "error" =>
       fault # {} \/ (permit /\ pc \in {"client", "permit", "drain"})
  /\ Here = "failed" => ~Blameless \/ (permit /\ pc \in {"client", "permit", "drain"})

(* A Read fails for a reason. *)
ReadInv ==
  mode = "streaming" /\ Here \notin Exits /\ (decoder.readErr = "failure" \/ read.err = "failure")
    => Stressed

(* What was answered is true. *)
AnswerInv ==
  /\ outcome = "UpstreamFailed" => ~Blameless
  /\ outcome = "Canceled" => client \/ permit
  /\ sent = <<"draining">> => forced
  /\ sent = <<"timeout">> => Slow

(* A JSON body is no event stream. *)
GivenInv == mode = "buffered" => stream \in Seq({"json", "junk"})

(* The part of s from a to b is an event; its first line ends at a + j. *)
Piece(s, a, b, text) ==
  /\ b <= Len(s) /\ b - a <= MaxEventBytes
  /\ \E j \in {2, 3} :
       /\ b \in {a + j + 1, a + j + 2}
       /\ s[a + 1] = text /\ s[a + j] = "lf" /\ s[b] = "lf"
       /\ j = 3 => s[a + 2] = "cr"
       /\ b = a + j + 2 => s[a + j + 1] = "cr"

(* The q events of a valid stream end at pos[1], ..., pos[q]. *)
Cut(s, q, pos) ==
  /\ q \in 2..MaxEvents /\ pos \in [0..q -> Nat] /\ pos[0] = 0 /\ pos[q] = Len(s)
  /\ Len(s) <= MaxTotalBytes
  /\ \A i \in 0..q - 1 : Piece(s, pos[i], pos[i + 1], IF i = q - 1 THEN "done" ELSE "chunk")

(* The decoder has not failed, and begins every event where the cut does. *)
Track(h, d, s, q, pos) ==
  /\ d.state # "failed"
  /\ d.state = "open" => d.chunks < q
  /\ h = "next" \/ (h \in {"stop", "relay"} /\ d.state = "open") => d.total = pos[d.chunks]
  /\ h \in Reads /\ d.state = "open" => Start(d) = pos[d.chunks]
  /\ d.state \in {"doneReturned", "verified"} => d.total = Len(s)

TrackInv ==
  mode = "streaming" /\ Here \notin Exits /\ ~Stressed =>
    \A q, pos : Cut(stream, q, pos) => Track(Here, decoder, stream, q, pos)

(* Nothing that has happened is undone. *)
LEMMA GrowStep ==
  ASSUME [Next]_vars
  PROVE  /\ client => client'
         /\ permit => permit'
         /\ forced => forced'
         /\ fault \subseteq fault' /\ stream' = stream /\ mode' = mode
<1>0. Steps \/ UNCHANGED vars
  BY StepCases
<1>1. CASE UNCHANGED vars
  BY <1>1 DEF vars, ctxs, given
<1>2. CASE ClientLeaves \/ ForceCancel \/ Propagate \/ DeadlinePasses
  BY <1>2 DEF ClientLeaves, ForceCancel, Propagate, DeadlinePasses, ctxs, given
<1>3. CASE WatchRuns \/ TimerFires \/ TimerRuns
  BY <1>3 DEF WatchRuns, TimerFires, TimerRuns, ctxs, given
<1>4. CASE Permitted \/ CheckClient \/ CheckPermit \/ AnswerDraining
  BY <1>4 DEF Permitted, CheckClient, CheckPermit, AnswerDraining, ctxs, given, Quiet, NoUpstream
<1>5. CASE CheckDeadline \/ AnswerLate \/ Begin \/ Metadata
  BY <1>5 DEF CheckDeadline, AnswerLate, Begin, Metadata, ctxs, given, Quiet, NoUpstream
<1>6. CASE Complete \/ ParseResponse \/ CloseResponse
  BY <1>6 DEF Complete, ParseResponse, CloseResponse, ctxs, given, Quiet
<1>7. CASE WriteLast \/ AnswerFailure \/ NextEvent \/ Decode
  BY <1>7 DEF WriteLast, AnswerFailure, NextEvent, Decode, ctxs, given, Quiet, NoUpstream
<1>8. CASE BeginRead \/ ReadBody \/ EndRead
  BY <1>8 DEF BeginRead, ReadBody, EndRead, ctxs, given, Quiet
<1>9. CASE StopEvent \/ RelayEvent \/ Unwind
  BY <1>9 DEF StopEvent, RelayEvent, Unwind, ctxs, given, Quiet, NoUpstream
<1>10. CASE CancelUpstream \/ FinishPermit \/ Recover
  BY <1>10 DEF CancelUpstream, FinishPermit, Recover, ctxs, given, Quiet, NoUpstream
<1> QED
  BY <1>0, <1>1, <1>2, <1>3, <1>4, <1>5, <1>6, <1>7, <1>8, <1>9, <1>10 DEF Steps

(* Nor is a reason to fail. *)
LEMMA StressStep ==
  ASSUME [Next]_vars
  PROVE  /\ Stressed => Stressed'
         /\ ~Blameless => ~Blameless'
         /\ fault # {} => fault' # {} /\ ~Blameless /\ ~Blameless'
         /\ Slow => Slow' /\ fault # {}
         /\ "transport" \in fault => "transport" \in fault' /\ fault # {}
BY GrowStep DEF Stressed, Blameless, Slow

(* The contexts end for a reason. *)
LEMMA CauseStep ==
  ASSUME ControlInv, Flags, CauseInv, [Next]_vars PROVE CauseInv'
<1>s. Steps \/ UNCHANGED vars
  BY StepCases
<1> USE DEF CauseInv, Ended, ControlInv, Here, Canceled, Looks, Returns, Places, Exits, Early, Relaying, Reads
<1>0. CASE UNCHANGED vars
  BY <1>0 DEF vars, ctxs, watches
<1>1. CASE ClientLeaves
  BY <1>1 DEF ClientLeaves, ctxs, watches
<1>2. CASE ForceCancel
  BY <1>2 DEF ForceCancel, ctxs, watches
<1>3. CASE Propagate
  BY <1>3 DEF Propagate, ctxs, watches
<1>4. CASE DeadlinePasses
  BY <1>4 DEF DeadlinePasses, ctxs, watches
<1>5. CASE WatchRuns
  BY <1>5 DEF WatchRuns, ctxs, watches
<1>6. CASE TimerFires
  BY <1>6 DEF TimerFires, ctxs, watches
<1>7. CASE TimerRuns
  BY <1>7 DEF TimerRuns, ctxs, watches
<1>8. CASE Permitted
  BY <1>8 DEF Permitted, ctxs, watches, Quiet, NoIO, NoUpstream, Goto, Resume, Check,
     Exit, Leave, Write
<1>9. CASE CheckClient
  BY <1>9 DEF CheckClient, ctxs, watches, Quiet, NoIO, NoUpstream, Goto, Resume, Check,
     Exit, Leave, Write
<1>10. CASE CheckPermit
  <2>1. UNCHANGED <<client, permit, forced, up, event, upWatch, eventWatch, finished, after>>
    BY <1>10 DEF CheckPermit, Quiet, NoUpstream, watches, Goto
  <2>2. pc \in Looks /\ pc' \in Looks /\ Here' = Here
    BY <2>1, <1>10 DEF CheckPermit, Goto
  <2>3. pc' = "drain" => permit'
    BY <2>1, <1>10 DEF CheckPermit, Goto
  <2> QED
    BY <2>1, <2>2, <2>3
<1>11. CASE AnswerDraining
  BY <1>11 DEF AnswerDraining, ctxs, watches, Quiet, NoIO, NoUpstream, Goto, Resume,
     Check, Exit, Leave, Write
<1>12. CASE CheckDeadline
  <2>1. UNCHANGED <<client, permit, forced, up, event, upWatch, eventWatch, finished>>
    BY <1>12 DEF CheckDeadline, Quiet, NoUpstream, watches
  <2>2. pc' # "drain" /\ Here' = Here
    BY <1>12 DEF CheckDeadline, Goto, Resume
  <2>3. pc \notin Canceled /\ pc' \notin Canceled
    BY <1>12 DEF CheckDeadline, Goto, Resume
  <2> QED
    BY <2>1, <2>2, <2>3
<1>13. CASE AnswerLate
  BY <1>13 DEF AnswerLate, ctxs, watches, Quiet, NoIO, NoUpstream, Goto, Resume, Check,
     Exit, Leave, Write
<1>14. CASE Begin
  BY <1>14 DEF Begin, ctxs, watches, Quiet, NoIO, NoUpstream, Goto, Resume, Check, Exit,
     Leave, Write
<1>15. CASE Complete
  BY <1>15 DEF Complete, ctxs, watches, Quiet, NoIO, NoUpstream, Goto, Resume, Check,
     Exit, Leave, Write
<1>16. CASE Metadata
  BY <1>16 DEF Metadata, ctxs, watches, Quiet, NoIO, NoUpstream, Goto, Resume, Check,
     Exit, Leave, Write
<1>17. CASE ParseResponse
  BY <1>17 DEF ParseResponse, ctxs, watches, Quiet, NoIO, NoUpstream, Goto, Resume,
     Check, Exit, Leave, Write
<1>18. CASE CloseResponse
  BY <1>18 DEF CloseResponse, ctxs, watches, Quiet, NoIO, NoUpstream, Goto, Resume,
     Check, Exit, Leave, Write
<1>19. CASE WriteLast
  BY <1>19 DEF WriteLast, ctxs, watches, Quiet, NoIO, NoUpstream, Goto, Resume, Check,
     Exit, Leave, Write
<1>20. CASE AnswerFailure
  BY <1>20 DEF AnswerFailure, ctxs, watches, Quiet, NoIO, NoUpstream, Goto, Resume,
     Check, Exit, Leave, Write
<1>21. CASE NextEvent
  BY <1>21 DEF NextEvent, ctxs, watches, Quiet, NoIO, NoUpstream, Goto, Resume, Check,
     Exit, Leave, Write
<1>22. CASE Decode
  BY <1>22 DEF Decode, ctxs, watches, Quiet, NoIO, NoUpstream, Goto, Resume, Check, Exit,
     Leave, Write
<1>23. CASE BeginRead
  BY <1>23 DEF BeginRead, ctxs, watches, Quiet, NoIO, NoUpstream, Goto, Resume, Check,
     Exit, Leave, Write
<1>24. CASE ReadBody
  BY <1>24 DEF ReadBody, ctxs, watches, Quiet, NoIO, NoUpstream, Goto, Resume, Check,
     Exit, Leave, Write
<1>25. CASE EndRead
  BY <1>25 DEF EndRead, ctxs, watches, Quiet, NoIO, NoUpstream, Goto, Resume, Check,
     Exit, Leave, Write
<1>26. CASE StopEvent
  BY <1>26 DEF StopEvent, ctxs, watches, Quiet, NoIO, NoUpstream, Goto, Resume, Check,
     Exit, Leave, Write
<1>27. CASE RelayEvent
  BY <1>27 DEF RelayEvent, ctxs, watches, Quiet, NoIO, NoUpstream, Goto, Resume, Check,
     Exit, Leave, Write
<1>28. CASE Unwind
  BY <1>28 DEF Unwind, ctxs, watches, Quiet, NoIO, NoUpstream, Goto, Resume, Check, Exit,
     Leave, Write
<1>29. CASE CancelUpstream \/ FinishPermit
  <2>1. UNCHANGED <<client, permit, forced, event, upWatch, eventWatch>>
    BY <1>29 DEF CancelUpstream, FinishPermit, Quiet, NoUpstream, watches
  <2>2. /\ pc' \in Canceled /\ Here' = pc' /\ up' # "live"
        /\ Ended(up) => up' = up
    BY <1>29 DEF CancelUpstream, FinishPermit, NoUpstream, Goto
  <2> QED
    BY <2>1, <2>2
<1>30. CASE Recover
  BY <1>30 DEF Recover, ctxs, watches, Quiet, NoIO, NoUpstream, Goto, Resume, Check,
     Exit, Leave, Write
<1> QED
  BY <1>s, <1>0, <1>1, <1>2, <1>3, <1>4, <1>5, <1>6, <1>7, <1>8, <1>9, <1>10, <1>11,
     <1>12, <1>13, <1>14, <1>15, <1>16, <1>17, <1>18, <1>19, <1>20, <1>21, <1>22, <1>23,
     <1>24, <1>25, <1>26, <1>27, <1>28, <1>29, <1>30 DEF Steps

(* A timeout is told from any other failure by what only a timeout does. *)
LEMMA SlowStep ==
  ASSUME ControlInv, Flags, IdleInv, SlowInv, [Next]_vars PROVE SlowInv'
<1>s. Steps \/ UNCHANGED vars
  BY StepCases
<1> USE DEF SlowInv, Slow, Looks
<1>f. /\ fault \subseteq fault' /\ (timedOut => idleExpired)
      /\ pc \in Looks => after \notin {"reclient", "repermit", "late"}
  BY GrowStep DEF IdleInv, ControlInv, Returns
<1>0. CASE UNCHANGED vars
  BY <1>f, <1>0 DEF vars, ctxs, watches, idle
<1>1. CASE ClientLeaves
  BY <1>f, <1>1 DEF ClientLeaves, ctxs, watches, idle
<1>2. CASE ForceCancel
  BY <1>f, <1>2 DEF ForceCancel, ctxs, watches, idle
<1>3. CASE Propagate
  BY <1>f, <1>3 DEF Propagate, ctxs, watches, idle
<1>4. CASE DeadlinePasses
  BY <1>f, <1>4 DEF DeadlinePasses, ctxs, watches, idle
<1>5. CASE WatchRuns
  BY <1>f, <1>5 DEF WatchRuns, ctxs, watches, idle
<1>6. CASE TimerFires
  BY <1>f, <1>6 DEF TimerFires, ctxs, watches, idle
<1>7. CASE TimerRuns
  BY <1>f, <1>7 DEF TimerRuns, ctxs, watches, idle
<1>8. CASE Permitted
  BY <1>f, <1>8 DEF Permitted, ctxs, watches, idle, Quiet, NoIO, NoUpstream, Goto,
     Resume, Check, Exit, Leave, Write
<1>9. CASE CheckClient
  BY <1>f, <1>9 DEF CheckClient, ctxs, watches, idle, Quiet, NoIO, NoUpstream, Goto,
     Resume, Check, Exit, Leave, Write
<1>10. CASE CheckPermit
  BY <1>f, <1>10 DEF CheckPermit, ctxs, watches, idle, Quiet, NoIO, NoUpstream, Goto,
     Resume, Check, Exit, Leave, Write
<1>11. CASE AnswerDraining
  BY <1>f, <1>11 DEF AnswerDraining, ctxs, watches, idle, Quiet, NoIO, NoUpstream, Goto,
     Resume, Check, Exit, Leave, Write
<1>12. CASE CheckDeadline
  BY <1>f, <1>12 DEF CheckDeadline, ctxs, watches, idle, Quiet, NoIO, NoUpstream, Goto,
     Resume, Check, Exit, Leave, Write
<1>13. CASE AnswerLate
  BY <1>f, <1>13 DEF AnswerLate, ctxs, watches, idle, Quiet, NoIO, NoUpstream, Goto,
     Resume, Check, Exit, Leave, Write
<1>14. CASE Begin
  BY <1>f, <1>14 DEF Begin, ctxs, watches, idle, Quiet, NoIO, NoUpstream, Goto, Resume,
     Check, Exit, Leave, Write
<1>15. CASE Complete
  BY <1>f, <1>15 DEF Complete, ctxs, watches, idle, Quiet, NoIO, NoUpstream, Goto,
     Resume, Check, Exit, Leave, Write
<1>16. CASE Metadata
  BY <1>f, <1>16 DEF Metadata, ctxs, watches, idle, Quiet, NoIO, NoUpstream, Goto,
     Resume, Check, Exit, Leave, Write
<1>17. CASE ParseResponse
  BY <1>f, <1>17 DEF ParseResponse, ctxs, watches, idle, Quiet, NoIO, NoUpstream, Goto,
     Resume, Check, Exit, Leave, Write
<1>18. CASE CloseResponse
  BY <1>f, <1>18 DEF CloseResponse, ctxs, watches, idle, Quiet, NoIO, NoUpstream, Goto,
     Resume, Check, Exit, Leave, Write
<1>19. CASE WriteLast
  BY <1>f, <1>19 DEF WriteLast, ctxs, watches, idle, Quiet, NoIO, NoUpstream, Goto,
     Resume, Check, Exit, Leave, Write
<1>20. CASE AnswerFailure
  BY <1>f, <1>20 DEF AnswerFailure, ctxs, watches, idle, Quiet, NoIO, NoUpstream, Goto,
     Resume, Check, Exit, Leave, Write
<1>21. CASE NextEvent
  BY <1>f, <1>21 DEF NextEvent, ctxs, watches, idle, Quiet, NoIO, NoUpstream, Goto,
     Resume, Check, Exit, Leave, Write
<1>22. CASE Decode
  BY <1>f, <1>22 DEF Decode, ctxs, watches, idle, Quiet, NoIO, NoUpstream, Goto, Resume,
     Check, Exit, Leave, Write
<1>23. CASE BeginRead
  BY <1>f, <1>23 DEF BeginRead, ctxs, watches, idle, Quiet, NoIO, NoUpstream, Goto,
     Resume, Check, Exit, Leave, Write
<1>24. CASE ReadBody
  BY <1>f, <1>24 DEF ReadBody, ctxs, watches, idle, Quiet, NoIO, NoUpstream, Goto,
     Resume, Check, Exit, Leave, Write
<1>25. CASE EndRead
  BY <1>f, <1>25 DEF EndRead, ctxs, watches, idle, Quiet, NoIO, NoUpstream, Goto, Resume,
     Check, Exit, Leave, Write
<1>26. CASE StopEvent
  <2>1. UNCHANGED <<up, resp, fault, idleExpired>> /\ event' = "none"
    BY <1>26 DEF StopEvent, NoIO, idle
  <2>2. pc' \notin {"reclient", "repermit", "late"}
    BY <1>26 DEF StopEvent, Check, Goto
  <2>3. late' => late \/ timedOut \/ event = "deadline"
    BY <1>26 DEF StopEvent
  <2> QED
    BY <1>f, <2>1, <2>2, <2>3
<1>27. CASE RelayEvent
  BY <1>f, <1>27 DEF RelayEvent, ctxs, watches, idle, Quiet, NoIO, NoUpstream, Goto,
     Resume, Check, Exit, Leave, Write
<1>28. CASE Unwind
  BY <1>f, <1>28 DEF Unwind, ctxs, watches, idle, Quiet, NoIO, NoUpstream, Goto, Resume,
     Check, Exit, Leave, Write
<1>29. CASE CancelUpstream \/ FinishPermit
  BY <1>f, <1>29 DEF CancelUpstream, FinishPermit, ctxs, watches, idle, Quiet, NoIO, NoUpstream, Goto,
     Resume, Check, Exit, Leave, Write
<1>30. CASE Recover
  BY <1>f, <1>30 DEF Recover, ctxs, watches, idle, Quiet, NoIO, NoUpstream, Goto, Resume,
     Check, Exit, Leave, Write
<1> QED
  BY <1>s, <1>0, <1>1, <1>2, <1>3, <1>4, <1>5, <1>6, <1>7, <1>8, <1>9, <1>10, <1>11,
     <1>12, <1>13, <1>14, <1>15, <1>16, <1>17, <1>18, <1>19, <1>20, <1>21, <1>22, <1>23,
     <1>24, <1>25, <1>26, <1>27, <1>28, <1>29, <1>30 DEF Steps

(* A context that has ended before the permit was finished, and a timeout,  *)
(* are reasons to fail.                                                     *)
LEMMA EndedStressed ==
  ASSUME ControlInv, IdleInv, CauseInv, SlowInv, Here \notin Exits
  PROVE  /\ Ended(up) \/ Ended(event) => Stressed
         /\ upWatch \in {"started", "done"} \/ eventWatch \in {"started", "done"} => Stressed
         /\ timedOut \/ timer = "marked" => Stressed
<1>1. pc \notin Canceled
  BY DEF Here, Looks, Exits, Canceled
<1>2. Slow => Stressed
  BY DEF Slow, Stressed, Blameless
<1>3. Ended(up) \/ Ended(event) => Stressed
  BY <1>1, <1>2 DEF Ended, CauseInv, SlowInv, Stressed
<1>4. timedOut \/ timer = "marked" => Stressed
  BY <1>2 DEF IdleInv, SlowInv
<1> QED
  BY <1>3, <1>4 DEF CauseInv

(* A body is closed under the handler for a reason only. *)
LEMMA BodyStep ==
  ASSUME ControlInv, IdleInv, CauseInv, SlowInv, BodyInv, [Next]_vars PROVE BodyInv'
<1>s. Steps \/ UNCHANGED vars
  BY StepCases
<1> USE DEF BodyInv, Here, Looks, Exits, Relaying, Reads
<1>f. /\ Stressed => Stressed'
      /\ Here \notin Exits /\ (timer = "marked" \/ upWatch = "started" \/ eventWatch = "started") => Stressed
  BY StressStep, EndedStressed
<1>0. CASE UNCHANGED vars
  BY <1>f, <1>0 DEF vars, ctxs, watches, CloseBody, ControlInv, Returns, Places, Early
<1>1. CASE ClientLeaves
  BY <1>f, <1>1 DEF ClientLeaves, ctxs, watches, CloseBody, ControlInv, Returns, Places,
     Early
<1>2. CASE ForceCancel
  BY <1>f, <1>2 DEF ForceCancel, ctxs, watches, CloseBody, ControlInv, Returns, Places,
     Early
<1>3. CASE Propagate
  BY <1>f, <1>3 DEF Propagate, ctxs, watches, CloseBody, ControlInv, Returns, Places,
     Early
<1>4. CASE DeadlinePasses
  BY <1>f, <1>4 DEF DeadlinePasses, ctxs, watches, CloseBody, ControlInv, Returns,
     Places, Early
<1>5. CASE WatchRuns
  BY <1>f, <1>5 DEF WatchRuns, ctxs, watches, CloseBody, ControlInv, Returns, Places,
     Early
<1>6. CASE TimerFires
  BY <1>f, <1>6 DEF TimerFires, ctxs, watches, CloseBody, ControlInv, Returns, Places,
     Early
<1>7. CASE TimerRuns
  BY <1>f, <1>7 DEF TimerRuns, ctxs, watches, CloseBody, ControlInv, Returns, Places,
     Early
<1>8. CASE Permitted
  BY <1>f, <1>8 DEF Permitted, ctxs, watches, CloseBody, ControlInv, Returns, Places,
     Early, Quiet, NoIO, NoUpstream, Goto, Resume, Check, Exit, Leave, Write
<1>9. CASE CheckClient
  BY <1>f, <1>9 DEF CheckClient, ctxs, watches, CloseBody, ControlInv, Returns, Places,
     Early, Quiet, NoIO, NoUpstream, Goto, Resume, Check, Exit, Leave, Write
<1>10. CASE CheckPermit
  BY <1>f, <1>10 DEF CheckPermit, ctxs, watches, CloseBody, ControlInv, Returns, Places,
     Early, Quiet, NoIO, NoUpstream, Goto, Resume, Check, Exit, Leave, Write
<1>11. CASE AnswerDraining
  BY <1>f, <1>11 DEF AnswerDraining, ctxs, watches, CloseBody, ControlInv, Returns,
     Places, Early, Quiet, NoIO, NoUpstream, Goto, Resume, Check, Exit, Leave, Write
<1>12. CASE CheckDeadline
  BY <1>f, <1>12 DEF CheckDeadline, ctxs, watches, CloseBody, ControlInv, Returns,
     Places, Early, Quiet, NoIO, NoUpstream, Goto, Resume, Check, Exit, Leave, Write
<1>13. CASE AnswerLate
  BY <1>f, <1>13 DEF AnswerLate, ctxs, watches, CloseBody, ControlInv, Returns, Places,
     Early, Quiet, NoIO, NoUpstream, Goto, Resume, Check, Exit, Leave, Write
<1>14. CASE Begin
  BY <1>f, <1>14 DEF Begin, ctxs, watches, CloseBody, ControlInv, Returns, Places, Early,
     Quiet, NoIO, NoUpstream, Goto, Resume, Check, Exit, Leave, Write
<1>15. CASE Complete
  BY <1>f, <1>15 DEF Complete, ctxs, watches, CloseBody, ControlInv, Returns, Places,
     Early, Quiet, NoIO, NoUpstream, Goto, Resume, Check, Exit, Leave, Write
<1>16. CASE Metadata
  BY <1>f, <1>16 DEF Metadata, ctxs, watches, CloseBody, ControlInv, Returns, Places,
     Early, Quiet, NoIO, NoUpstream, Goto, Resume, Check, Exit, Leave, Write
<1>17. CASE ParseResponse
  BY <1>f, <1>17 DEF ParseResponse, ctxs, watches, CloseBody, ControlInv, Returns,
     Places, Early, Quiet, NoIO, NoUpstream, Goto, Resume, Check, Exit, Leave, Write
<1>18. CASE CloseResponse
  BY <1>f, <1>18 DEF CloseResponse, ctxs, watches, CloseBody, ControlInv, Returns,
     Places, Early, Quiet, NoIO, NoUpstream, Goto, Resume, Check, Exit, Leave, Write
<1>19. CASE WriteLast
  BY <1>f, <1>19 DEF WriteLast, ctxs, watches, CloseBody, ControlInv, Returns, Places,
     Early, Quiet, NoIO, NoUpstream, Goto, Resume, Check, Exit, Leave, Write
<1>20. CASE AnswerFailure
  BY <1>f, <1>20 DEF AnswerFailure, ctxs, watches, CloseBody, ControlInv, Returns,
     Places, Early, Quiet, NoIO, NoUpstream, Goto, Resume, Check, Exit, Leave, Write
<1>21. CASE NextEvent
  BY <1>f, <1>21 DEF NextEvent, ctxs, watches, CloseBody, ControlInv, Returns, Places,
     Early, Quiet, NoIO, NoUpstream, Goto, Resume, Check, Exit, Leave, Write
<1>22. CASE Decode
  BY <1>f, <1>22 DEF Decode, ctxs, watches, CloseBody, ControlInv, Returns, Places,
     Early, Quiet, NoIO, NoUpstream, Goto, Resume, Check, Exit, Leave, Write
<1>23. CASE BeginRead
  BY <1>f, <1>23 DEF BeginRead, ctxs, watches, CloseBody, ControlInv, Returns, Places,
     Early, Quiet, NoIO, NoUpstream, Goto, Resume, Check, Exit, Leave, Write
<1>24. CASE ReadBody
  BY <1>f, <1>24 DEF ReadBody, ctxs, watches, CloseBody, ControlInv, Returns, Places,
     Early, Quiet, NoIO, NoUpstream, Goto, Resume, Check, Exit, Leave, Write
<1>25. CASE EndRead
  BY <1>f, <1>25 DEF EndRead, ctxs, watches, CloseBody, ControlInv, Returns, Places,
     Early, Quiet, NoIO, NoUpstream, Goto, Resume, Check, Exit, Leave, Write
<1>26. CASE StopEvent
  BY <1>f, <1>26 DEF StopEvent, ctxs, watches, CloseBody, ControlInv, Returns, Places,
     Early, Quiet, NoIO, NoUpstream, Goto, Resume, Check, Exit, Leave, Write
<1>27. CASE RelayEvent
  BY <1>f, <1>27 DEF RelayEvent, ctxs, watches, CloseBody, ControlInv, Returns, Places,
     Early, Quiet, NoIO, NoUpstream, Goto, Resume, Check, Exit, Leave, Write
<1>28. CASE Unwind
  BY <1>f, <1>28 DEF Unwind, ctxs, watches, CloseBody, ControlInv, Returns, Places,
     Early, Quiet, NoIO, NoUpstream, Goto, Resume, Check, Exit, Leave, Write
<1>29. CASE CancelUpstream \/ FinishPermit
  BY <1>f, <1>29 DEF CancelUpstream, FinishPermit, ctxs, watches, CloseBody, ControlInv, Returns, Places,
     Early, Quiet, NoIO, NoUpstream, Goto, Resume, Check, Exit, Leave, Write
<1>30. CASE Recover
  BY <1>f, <1>30 DEF Recover, ctxs, watches, CloseBody, ControlInv, Returns, Places,
     Early, Quiet, NoIO, NoUpstream, Goto, Resume, Check, Exit, Leave, Write
<1> QED
  BY <1>s, <1>0, <1>1, <1>2, <1>3, <1>4, <1>5, <1>6, <1>7, <1>8, <1>9, <1>10, <1>11,
     <1>12, <1>13, <1>14, <1>15, <1>16, <1>17, <1>18, <1>19, <1>20, <1>21, <1>22, <1>23,
     <1>24, <1>25, <1>26, <1>27, <1>28, <1>29, <1>30 DEF Steps

(* A piece is a piece of what follows. *)
LEMMA PieceKeeps ==
  ASSUME NEW S, NEW w \in Seq(S), NEW e \in Seq(S), NEW a \in Nat, NEW b \in Nat, NEW text,
         Piece(w, a, b, text)
  PROVE  Piece(w \o e, a, b, text)
<1>1. PICK x : x = w \o e
  OBVIOUS
<1>2. PICK m, n \in Nat : m = Len(w) /\ n = Len(e)
  BY LenProperties
<1>3. Len(x) = m + n /\ \A i \in 1..m : x[i] = w[i]
  BY <1>1, <1>2, ConcatProperties
<1>4. PICK j \in {2, 3} :
       /\ b \in {a + j + 1, a + j + 2}
       /\ w[a + 1] = text /\ w[a + j] = "lf" /\ w[b] = "lf"
       /\ j = 3 => w[a + 2] = "cr"
       /\ b = a + j + 2 => w[a + j + 1] = "cr"
  BY DEF Piece
<1>5. b <= m /\ b - a <= MaxEventBytes
  BY <1>2 DEF Piece
<1>6. /\ a + 1 \in 1..m /\ a + j \in 1..m /\ b \in 1..m /\ a + 2 \in 1..m /\ b <= m + n
      /\ a + j + 1 \in 1..m
  BY <1>4, <1>5
<1>7. /\ x[a + 1] = text /\ x[a + j] = "lf" /\ x[b] = "lf"
      /\ j = 3 => x[a + 2] = "cr"
      /\ b = a + j + 2 => x[a + j + 1] = "cr"
  BY <1>3, <1>4, <1>6, Zenon
<1>8. b <= Len(x)
  BY <1>3, <1>6
<1>9. Piece(x, a, b, text)
  BY <1>4, <1>5, <1>7, <1>8, Zenon DEF Piece
<1> QED
  BY <1>1, <1>9, Zenon

(* An event added is a piece. *)
LEMMA PieceAdded ==
  ASSUME NEW S, NEW w \in Seq(S), NEW e \in Seq(S), NEW text, e \in EventOf(text)
  PROVE  Piece(w \o e, Len(w), Len(w) + Len(e), text)
<1>1. PICK x : x = w \o e
  OBVIOUS
<1>2. PICK m, n \in Nat : m = Len(w) /\ n = Len(e)
  BY LenProperties
<1>3. Len(x) = m + n /\ \A i \in 1..n : x[m + i] = e[i]
  <2>1. Len(x) = m + n /\ \A i \in 1..m + n : x[i] = IF i <= m THEN w[i] ELSE e[i - m]
    BY <1>1, <1>2, ConcatProperties
  <2>2. ASSUME NEW i \in 1..n PROVE x[m + i] = e[i]
    <3>1. m + i \in 1..m + n /\ ~(m + i <= m) /\ (m + i) - m = i
      OBVIOUS
    <3> QED
      BY <2>1, <3>1
  <2> QED
    BY <2>1, <2>2
<1>4. PICK j \in {2, 3} : Shaped(e, text, j)
  BY EventShape
<1>5. /\ n \in {j + 1, j + 2} /\ e[1] = text /\ e[j] = "lf" /\ e[n] = "lf"
      /\ j = 3 => e[2] = "cr"
      /\ n = j + 2 => e[j + 1] = "cr"
  BY <1>2, <1>4, Zenon DEF Shaped
<1>6. n <= MaxEventBytes
  BY <1>2, EventShape
<1>7. 1 \in 1..n /\ j \in 1..n /\ n \in 1..n /\ 2 \in 1..n /\ j + 1 \in 1..n
  BY <1>5
<1>8. /\ x[m + 1] = text /\ x[m + j] = "lf" /\ x[m + n] = "lf"
      /\ j = 3 => x[m + 2] = "cr"
      /\ n = j + 2 => x[m + (j + 1)] = "cr"
  BY <1>3, <1>5, <1>7, Zenon
<1>9. PICK b \in Nat : b = m + n
  OBVIOUS
<1>10. /\ b \in {m + j + 1, m + j + 2} /\ b - m <= MaxEventBytes /\ m + (j + 1) = m + j + 1
       /\ (b = m + j + 2 => n = j + 2)
  BY <1>5, <1>6, <1>9, Sizes
<1>11. b <= Len(x)
  BY <1>3, <1>9
<1>12. Piece(x, m, b, text)
  BY <1>8, <1>9, <1>10, <1>11, Zenon DEF Piece
<1> QED
  BY <1>1, <1>2, <1>9, <1>12, Zenon

(* Events that end at pos[1], ..., pos[n], all of them chunks *)
Chunked(w, n, pos) ==
  /\ pos \in [0..n -> Nat] /\ pos[0] = 0 /\ pos[n] = Len(w)
  /\ \A i \in 0..n - 1 : Piece(w, pos[i], pos[i + 1], "chunk")

(* One event more *)
Longer(pos, n, b) == [i \in 0..n + 1 |-> IF i = n + 1 THEN b ELSE pos[i]]

(* The places before it stay. *)
LEMMA LongerIs ==
  ASSUME NEW n \in Nat, NEW pos \in [0..n -> Nat], NEW b \in Nat
  PROVE  /\ Longer(pos, n, b) \in [0..n + 1 -> Nat]
         /\ Longer(pos, n, b)[n + 1] = b
         /\ \A i \in 0..n : Longer(pos, n, b)[i] = pos[i]
BY DEF Longer

(* Chunk events, and one event of any text behind them *)
LEMMA PiecesAdded ==
  ASSUME NEW S, NEW w \in Seq(S), NEW e \in Seq(S), NEW text, e \in EventOf(text),
         NEW n \in Nat, NEW pos, Chunked(w, n, pos)
  PROVE  \E p \in [0..n + 1 -> Nat] :
           /\ p[0] = 0 /\ p[n + 1] = Len(w \o e)
           /\ \A i \in 0..n - 1 : Piece(w \o e, p[i], p[i + 1], "chunk")
           /\ Piece(w \o e, p[n], p[n + 1], text)
<1>1. PICK b \in Nat : b = Len(w) + Len(e)
  BY LenProperties
<1>2. /\ pos \in [0..n -> Nat] /\ pos[0] = 0 /\ pos[n] = Len(w)
      /\ \A i \in 0..n - 1 : Piece(w, pos[i], pos[i + 1], "chunk")
  BY DEF Chunked
<1>3. PICK p : p = Longer(pos, n, b)
  OBVIOUS
<1>4. p \in [0..n + 1 -> Nat] /\ p[n + 1] = b /\ \A i \in 0..n : p[i] = pos[i]
  <2>1. pos \in [0..n -> Nat]
    BY <1>2, Zenon
  <2>2. /\ Longer(pos, n, b) \in [0..n + 1 -> Nat]
        /\ Longer(pos, n, b)[n + 1] = b
        /\ \A i \in 0..n : Longer(pos, n, b)[i] = pos[i]
    BY <2>1, LongerIs
  <2> QED
    BY <1>3, <2>2, Zenon
<1>5. b = Len(w \o e)
  BY <1>1, ConcatProperties
<1>6. 0 \in 0..n /\ n \in 0..n
  OBVIOUS
<1>7. Piece(w \o e, p[n], p[n + 1], text)
  BY <1>1, <1>2, <1>4, <1>6, PieceAdded, Zenon
<1>8. ASSUME NEW i \in 0..n - 1 PROVE Piece(w \o e, p[i], p[i + 1], "chunk")
  <2>1. i \in 0..n /\ i + 1 \in 0..n
    OBVIOUS
  <2>2. p[i] = pos[i] /\ p[i + 1] = pos[i + 1] /\ pos[i] \in Nat /\ pos[i + 1] \in Nat
    BY <1>2, <1>4, <2>1
  <2>3. Piece(w, pos[i], pos[i + 1], "chunk")
    BY <1>2
  <2> QED
    BY <2>2, <2>3, PieceKeeps, Zenon
<1> QED
  BY <1>2, <1>4, <1>5, <1>6, <1>7, <1>8

(* Flattened chunk events *)
LEMMA ChunksCut ==
  ASSUME NEW n \in Nat, NEW cs \in [1..n -> EventOf("chunk")]
  PROVE  FlattenSeq(cs) \in Seq(Marks) /\ \E pos : Chunked(FlattenSeq(cs), n, pos)
<1> DEFINE Good(m) == \A ds \in [1..m -> EventOf("chunk")] :
                        FlattenSeq(ds) \in Seq(Marks) /\ \E pos : Chunked(FlattenSeq(ds), m, pos)
           T == {m \in Nat : ~Good(m)}
<1> SUFFICES ASSUME T # {} PROVE FALSE
  OBVIOUS
<1>0. T \in SUBSET Nat
  OBVIOUS
<1>1. PICK x \in T : \A y \in T : x <= y
  BY <1>0, NatLeast
<1>2. Good(0)
  <2> SUFFICES ASSUME NEW ds \in [1..0 -> EventOf("chunk")]
               PROVE FlattenSeq(ds) \in Seq(Marks) /\ \E pos : Chunked(FlattenSeq(ds), 0, pos)
    OBVIOUS
  <2>1. ds = <<>>
    OBVIOUS
  <2>2. FlattenSeq(ds) = <<>>
    BY <2>1, FlattenEmpty
  <2>3. Chunked(<<>>, 0, [i \in 0..0 |-> 0])
    BY DEF Chunked
  <2> QED
    BY <2>2, <2>3
<1>3. ASSUME NEW m \in Nat, Good(m) PROVE Good(m + 1)
  <2> SUFFICES ASSUME NEW ds \in [1..m + 1 -> EventOf("chunk")]
               PROVE FlattenSeq(ds) \in Seq(Marks) /\ \E pos : Chunked(FlattenSeq(ds), m + 1, pos)
    OBVIOUS
  <2>1. PICK fs : fs = [i \in 1..m |-> ds[i]]
    OBVIOUS
  <2>2. PICK e \in EventOf("chunk") : e = ds[m + 1]
    <3>1. m + 1 \in 1..m + 1
      OBVIOUS
    <3> QED
      BY <3>1
  <2>3. fs \in [1..m -> EventOf("chunk")]
    BY <2>1
  <2>4. ds = Append(fs, e)
    <3>1. fs \in Seq(EventOf("chunk")) /\ Len(fs) = m
      BY <2>3
    <3>2. PICK x1 : x1 = Append(fs, e)
      OBVIOUS
    <3>3. x1 \in Seq(EventOf("chunk")) /\ Len(x1) = m + 1
      BY <3>1, <3>2, AppendProperties
    <3>4. x1[m + 1] = e /\ \A i \in 1..m : x1[i] = fs[i]
      BY <3>1, <3>2, AppendProperties
    <3>5. ds \in Seq(EventOf("chunk")) /\ Len(ds) = m + 1
      OBVIOUS
    <3>6. \A i \in 1..m + 1 : i \in 1..m \/ i = m + 1
      OBVIOUS
    <3>7. \A i \in 1..m + 1 : x1[i] = ds[i]
      BY <2>1, <2>2, <3>4, <3>6
    <3>8. ds = x1
      BY <3>3, <3>5, <3>7, SeqEqual
    <3> QED
      BY <3>2, <3>8
  <2>5. EventOf("chunk") \subseteq Seq(Marks)
    BY EventShape DEF Marks
  <2>6. PICK w \in Seq(Marks) : w = FlattenSeq(fs) /\ \E pos : Chunked(w, m, pos)
    BY <1>3, <2>3
  <2>7. FlattenSeq(ds) = w \o e
    <3>1. fs \in [1..m -> Seq(Marks)] /\ e \in Seq(Marks) /\ FlattenSeq(fs) \in Seq(Marks)
      BY <2>3, <2>5, <2>6
    <3>2. FlattenSeq(Append(fs, e)) = FlattenSeq(fs) \o e
      BY <3>1, FlattenAppend, Zenon
    <3> QED
      BY <2>4, <2>6, <3>2, Zenon
  <2>8. PICK pos : Chunked(w, m, pos)
    BY <2>6
  <2>9. PICK v : v = w \o e
    OBVIOUS
  <2>10. v \in Seq(Marks)
    BY <2>5, <2>9, ConcatProperties
  <2>11. PICK p \in [0..m + 1 -> Nat] :
           /\ p[0] = 0 /\ p[m + 1] = Len(v)
           /\ \A i \in 0..m - 1 : Piece(v, p[i], p[i + 1], "chunk")
           /\ Piece(v, p[m], p[m + 1], "chunk")
    <3>1. e \in Seq(Marks)
      BY <2>5
    <3> QED
      BY <2>8, <2>9, <3>1, PiecesAdded
  <2>12. Chunked(v, m + 1, p)
    <3>1. \A i \in 0..(m + 1) - 1 : i \in 0..m - 1 \/ i = m
      OBVIOUS
    <3> QED
      BY <2>11, <3>1 DEF Chunked
  <2> QED
    BY <2>7, <2>9, <2>10, <2>12
<1> HIDE DEF Good
<1>4. x # 0 /\ x \in Nat
  BY <1>1, <1>2
<1>5. x - 1 \in Nat /\ (x - 1) + 1 = x /\ ~(x <= x - 1)
  BY <1>4
<1>6. Good(x - 1)
  BY <1>1, <1>5
<1>7. Good(x)
  BY <1>3, <1>5, <1>6
<1> QED
  BY <1>1, <1>7

(* ValidStreams is Terminated. *)
LEMMA MemberStream ==
  ASSUME NEW s \in ValidStreams
  PROVE  s \in Terminated /\ Len(s) <= MaxTotalBytes
BY DEF Terminated, ValidStreams

(* Chunks and a [DONE] *)
LEMMA TerminatedParts ==
  ASSUME NEW s \in Terminated
  PROVE  \E cs \in BoundedSeq(EventOf("chunk"), MaxEvents - 1) \ {<<>>}, e \in EventOf("done") :
           s = FlattenSeq(cs) \o e
BY DEF Terminated

(* Every valid stream is cut into events. *)
LEMMA ValidCut ==
  ASSUME NEW s \in ValidStreams
  PROVE  \E q, pos : Cut(s, q, pos)
<1>1. s \in Terminated /\ Len(s) <= MaxTotalBytes
  BY MemberStream
<1>2. PICK cs \in BoundedSeq(EventOf("chunk"), MaxEvents - 1) \ {<<>>}, e \in EventOf("done") :
         s = FlattenSeq(cs) \o e
  BY <1>1, TerminatedParts, Zenon
<1>3. PICK n \in 0..MaxEvents - 1 : cs \in [1..n -> EventOf("chunk")]
  BY <1>2, Zenon DEF BoundedSeq, SeqOf
<1>4. n \in Nat /\ n # 0 /\ n + 1 \in 2..MaxEvents
  <2>1. n = 0 => cs = <<>>
    BY <1>3
  <2> QED
    BY <1>2, <1>3, <2>1, Sizes
<1>5. PICK w \in Seq(Marks) : w = FlattenSeq(cs) /\ \E pos : Chunked(w, n, pos)
  BY <1>3, <1>4, ChunksCut
<1>6. PICK pos : Chunked(w, n, pos)
  BY <1>5
<1>7. w \in Seq(Token) /\ e \in Seq(Token)
  <2>1. e \in Seq({"done", "cr", "lf"})
    BY EventShape
  <2>2. Marks \subseteq Token /\ {"done", "cr", "lf"} \subseteq Token
    BY DEF Marks, Token, Text
  <2> QED
    BY <2>1, <2>2
<1>8. PICK p \in [0..n + 1 -> Nat] :
           /\ p[0] = 0 /\ p[n + 1] = Len(s)
           /\ \A i \in 0..n - 1 : Piece(s, p[i], p[i + 1], "chunk")
           /\ Piece(s, p[n], p[n + 1], "done")
  BY <1>2, <1>4, <1>5, <1>6, <1>7, PiecesAdded
<1>9. ASSUME NEW i \in 0..(n + 1) - 1
      PROVE  Piece(s, p[i], p[i + 1], IF i = (n + 1) - 1 THEN "done" ELSE "chunk")
  <2>1. (n + 1) - 1 = n
    BY <1>4
  <2>2. CASE i = n
    BY <1>8, <2>1, <2>2
  <2>3. CASE i # n
    <3>1. i \in 0..n - 1
      BY <1>4, <2>3
    <3> QED
      BY <1>8, <2>1, <2>3, <3>1
  <2> QED
    BY <2>2, <2>3
<1> QED
  BY <1>1, <1>4, <1>8, <1>9 DEF Cut

(* A valid stream has its terminal event. *)
LEMMA ValidHasDone ==
  ASSUME NEW s \in ValidStreams
  PROVE  \E i \in 1..Len(s) : s[i] = "done"
<1>1. PICK q, pos : Cut(s, q, pos)
  BY ValidCut
<1>2. PICK k \in Nat : k = q - 1 /\ k \in 0..q - 1 /\ k + 1 = q
  BY <1>1, Sizes DEF Cut
<1>3. Piece(s, pos[k], pos[k + 1], "done")
  BY <1>1, <1>2 DEF Cut
<1>4. PICK a, b \in Nat : a = pos[k] /\ b = pos[k + 1] /\ b = Len(s)
  BY <1>1, <1>2, Sizes DEF Cut
<1>5. s[a + 1] = "done" /\ b >= a + 3
  <2>1. Piece(s, a, b, "done")
    BY <1>3, <1>4, Zenon
  <2>2. PICK j \in {2, 3} : b \in {a + j + 1, a + j + 2} /\ s[a + 1] = "done"
    BY <2>1, Zenon DEF Piece
  <2>3. b >= a + 3
    BY <1>4, <2>2
  <2> QED
    BY <2>2, <2>3
<1>6. a + 1 \in 1..b
  BY <1>5
<1> QED
  BY <1>4, <1>5, <1>6

(* So a buffered answer that is not the JSON body is the upstream's fault. *)
LEMMA BufferedInvalid ==
  ASSUME GivenInv, mode = "buffered"
  PROVE  stream \notin ValidStreams
<1> SUFFICES ASSUME stream \in ValidStreams PROVE FALSE
  OBVIOUS
<1>1. PICK i \in 1..Len(stream) : stream[i] = "done"
  BY ValidHasDone
<1>2. stream \in Seq({"json", "junk"})
  BY DEF GivenInv
<1>3. stream[i] \in {"json", "junk"}
  BY <1>2
<1> QED
  BY <1>1, <1>3

(* The upstream is not blamed without a reason, unless the permit has ended *)
(* and is looked at before the answer.                                      *)
LEMMA FailedStep ==
  ASSUME ControlInv, IdleInv, Values, GivenInv, CauseInv, SlowInv, BodyInv, FailedInv,
         Here = "stop" /\ decoder.state = "failed" => Stressed, [Next]_vars
  PROVE  FailedInv'
<1>s. Steps \/ UNCHANGED vars
  BY StepCases
<1> USE DEF FailedInv, Here, Looks, Exits
<1>f. /\ Stressed => Stressed'
      /\ ~Blameless => ~Blameless'
      /\ fault # {} => fault' # {} /\ ~Blameless'
      /\ "transport" \in fault' \/ "slow" \in fault' => fault' # {} /\ ~Blameless'
      /\ permit => permit'
      /\ Stressed' => ~Blameless' \/ permit'
  BY StressStep, GrowStep DEF Stressed, Blameless
<1>g. pc \in {"reclient", "repermit", "late"} => fault # {}
  BY DEF SlowInv, Slow
<1>0. CASE UNCHANGED vars
  BY <1>f, <1>g, <1>0 DEF vars, ControlInv, Returns
<1>1. CASE ClientLeaves
  BY <1>f, <1>g, <1>1 DEF ClientLeaves, ControlInv, Returns
<1>2. CASE ForceCancel
  BY <1>f, <1>g, <1>2 DEF ForceCancel, ControlInv, Returns
<1>3. CASE Propagate
  BY <1>f, <1>g, <1>3 DEF Propagate, ControlInv, Returns
<1>4. CASE DeadlinePasses
  BY <1>f, <1>g, <1>4 DEF DeadlinePasses, ControlInv, Returns
<1>5. CASE WatchRuns
  BY <1>f, <1>g, <1>5 DEF WatchRuns, ControlInv, Returns
<1>6. CASE TimerFires
  BY <1>f, <1>g, <1>6 DEF TimerFires, ControlInv, Returns
<1>7. CASE TimerRuns
  BY <1>f, <1>g, <1>7 DEF TimerRuns, ControlInv, Returns
<1>8. CASE Permitted
  BY <1>f, <1>g, <1>8 DEF Permitted, ControlInv, Returns, Quiet, NoIO, NoUpstream, Goto,
     Resume, Check, Exit, Leave, Write
<1>9. CASE CheckClient
  BY <1>f, <1>g, <1>9 DEF CheckClient, ControlInv, Returns, Quiet, NoIO, NoUpstream,
     Goto, Resume, Check, Exit, Leave, Write
<1>10. CASE CheckPermit
  BY <1>f, <1>g, <1>10 DEF CheckPermit, ControlInv, Returns, Quiet, NoIO, NoUpstream,
     Goto, Resume, Check, Exit, Leave, Write
<1>11. CASE AnswerDraining
  BY <1>f, <1>g, <1>11 DEF AnswerDraining, ControlInv, Returns, Quiet, NoIO, NoUpstream,
     Goto, Resume, Check, Exit, Leave, Write
<1>12. CASE CheckDeadline
  BY <1>f, <1>g, <1>12 DEF CheckDeadline, ControlInv, Returns, Quiet, NoIO, NoUpstream,
     Goto, Resume, Check, Exit, Leave, Write
<1>13. CASE AnswerLate
  BY <1>f, <1>g, <1>13 DEF AnswerLate, ControlInv, Returns, Quiet, NoIO, NoUpstream,
     Goto, Resume, Check, Exit, Leave, Write
<1>14. CASE Begin
  BY <1>f, <1>g, <1>14 DEF Begin, ControlInv, Returns, Quiet, NoIO, NoUpstream, Goto,
     Resume, Check, Exit, Leave, Write
<1>15. CASE Complete
  <2>1. CASE pc' = "unwind"
    BY <1>15, <2>1
  <2>2. CASE pc' # "unwind"
    <3>1. pc' = "client" /\ after' = "metadata"
      BY <1>15, <2>2 DEF Complete, Check, Goto
    <3>2. resp' = "error" => "transport" \in fault' \/ Ended(up)
      BY <1>15, <2>2 DEF Complete, Goto
    <3>3. Ended(up) => permit \/ fault # {}
      BY <1>15 DEF CauseInv, Canceled, SlowInv, Slow, Ended, Complete
    <3> QED
      BY <1>f, <3>1, <3>2, <3>3
  <2> QED
    BY <2>1, <2>2
<1>16. CASE Metadata
  BY <1>f, <1>g, <1>16 DEF Metadata, ControlInv, Returns, Quiet, NoIO, NoUpstream, Goto,
     Resume, Check, Exit, Leave, Write
<1>17. CASE ParseResponse
  <2>1. CASE pc' \in {"close", "unwind"}
    <3>1. after' = after /\ after = "none"
      BY <1>17, <2>1 DEF ParseResponse, Check, Goto, ControlInv
    <3> QED
      BY <2>1, <3>1
  <2>2. CASE pc' \notin {"close", "unwind"}
    <3>1. pc' = "client" /\ after' = "failed"
      BY <1>17, <2>2 DEF ParseResponse, Check, Goto
    <3>2. stream # <<"json">> \/ Ended(up) \/ "transport" \in fault'
      BY <1>17, <2>2 DEF ParseResponse, Goto
    <3>3. stream # <<"json">> => ~Blameless
      BY <1>17, BufferedInvalid DEF ParseResponse, ControlInv, Here, Looks, Blameless
    <3>4. Ended(up) => Stressed
      BY <1>17, EndedStressed DEF ParseResponse
    <3> QED
      BY <1>f, <3>1, <3>2, <3>3, <3>4
  <2> QED
    BY <2>1, <2>2
<1>18. CASE CloseResponse
  <2>1. pc' = "client" /\ after' \in {"write", "failed"} /\ (after' = "failed" => body' # "clean")
    BY <1>18 DEF CloseResponse, Check
  <2>2. body' # "clean" => "transport" \in fault' \/ body \in {"none", "failed"}
    BY <1>18 DEF CloseResponse, CloseBody, Values
  <2>0. Here = "close"
    BY <1>18 DEF CloseResponse
  <2>3. body = "failed" => Stressed
    BY <2>0 DEF BodyInv
  <2>4. body # "none"
    BY <1>18 DEF CloseResponse, BodyInv
  <2> QED
    BY <1>f, <2>1, <2>2, <2>3, <2>4
<1>19. CASE WriteLast
  BY <1>f, <1>g, <1>19 DEF WriteLast, ControlInv, Returns, Quiet, NoIO, NoUpstream, Goto,
     Resume, Check, Exit, Leave, Write
<1>20. CASE AnswerFailure
  BY <1>f, <1>g, <1>20 DEF AnswerFailure, ControlInv, Returns, Quiet, NoIO, NoUpstream,
     Goto, Resume, Check, Exit, Leave, Write
<1>21. CASE NextEvent
  BY <1>f, <1>g, <1>21 DEF NextEvent, ControlInv, Returns, Quiet, NoIO, NoUpstream, Goto,
     Resume, Check, Exit, Leave, Write
<1>22. CASE Decode
  BY <1>f, <1>g, <1>22 DEF Decode, ControlInv, Returns, Quiet, NoIO, NoUpstream, Goto,
     Resume, Check, Exit, Leave, Write
<1>23. CASE BeginRead
  BY <1>f, <1>g, <1>23 DEF BeginRead, ControlInv, Returns, Quiet, NoIO, NoUpstream, Goto,
     Resume, Check, Exit, Leave, Write
<1>24. CASE ReadBody
  BY <1>f, <1>g, <1>24 DEF ReadBody, ControlInv, Returns, Quiet, NoIO, NoUpstream, Goto,
     Resume, Check, Exit, Leave, Write
<1>25. CASE EndRead
  BY <1>f, <1>g, <1>25 DEF EndRead, ControlInv, Returns, Quiet, NoIO, NoUpstream, Goto,
     Resume, Check, Exit, Leave, Write
<1>26. CASE StopEvent
  <2>1. CASE pc' = "client" /\ after' = "failed"
    <3>1. decoder.state = "failed" \/ eventWatch = "done" \/ timedOut
      BY <1>26, <2>1 DEF StopEvent, Check, Goto
    <3>2. eventWatch = "done" \/ timedOut => Stressed
      BY <1>26, EndedStressed DEF StopEvent
    <3>3. Stressed
      BY <1>26, <3>1, <3>2 DEF StopEvent
    <3> QED
      BY <1>f, <2>1, <3>3
  <2>2. CASE ~(pc' = "client" /\ after' = "failed")
    <3>1. (pc' = "client" /\ after' \in {"verify", "relay"}) \/ pc' = "close"
      BY <1>26, <2>2 DEF StopEvent, Check, Goto
    <3> QED
      BY <3>1
  <2> QED
    BY <2>1, <2>2
<1>27. CASE RelayEvent
  BY <1>f, <1>g, <1>27 DEF RelayEvent, ControlInv, Returns, Quiet, NoIO, NoUpstream,
     Goto, Resume, Check, Exit, Leave, Write
<1>28. CASE Unwind
  BY <1>f, <1>g, <1>28 DEF Unwind, ControlInv, Returns, Quiet, NoIO, NoUpstream, Goto,
     Resume, Check, Exit, Leave, Write
<1>29. CASE CancelUpstream \/ FinishPermit
  BY <1>f, <1>g, <1>29 DEF CancelUpstream, FinishPermit, ControlInv, Returns, Quiet, NoIO, NoUpstream,
     Goto, Resume, Check, Exit, Leave, Write
<1>30. CASE Recover
  BY <1>f, <1>g, <1>30 DEF Recover, ControlInv, Returns, Quiet, NoIO, NoUpstream, Goto,
     Resume, Check, Exit, Leave, Write
<1> QED
  BY <1>s, <1>0, <1>1, <1>2, <1>3, <1>4, <1>5, <1>6, <1>7, <1>8, <1>9, <1>10, <1>11,
     <1>12, <1>13, <1>14, <1>15, <1>16, <1>17, <1>18, <1>19, <1>20, <1>21, <1>22, <1>23,
     <1>24, <1>25, <1>26, <1>27, <1>28, <1>29, <1>30 DEF Steps

-----------------------------------------------------------------------------
(* The decoder in a valid stream *)

(* The event the decoder is in: from a to b, its first line ends at a + j. *)
Within(s, a, b, j, text) ==
  /\ a \in Nat /\ b \in Nat /\ b <= Len(s) /\ b - a <= MaxEventBytes
  /\ j \in {2, 3} /\ b \in {a + j + 1, a + j + 2}
  /\ s[a + 1] = text /\ text \in {"chunk", "done"} /\ s[a + j] = "lf" /\ s[b] = "lf"
  /\ j = 3 => s[a + 2] = "cr"
  /\ b = a + j + 2 => s[a + j + 1] = "cr"

(* Every place of a stream but its end is in an event. *)
LEMMA CutWithin ==
  ASSUME NEW s, NEW q, NEW pos, Cut(s, q, pos), NEW c \in Nat, c < q
  PROVE  /\ \E j : Within(s, pos[c], pos[c + 1], j, IF c + 1 = q THEN "done" ELSE "chunk")
         /\ q \in Nat /\ q <= MaxEvents /\ q >= 2
         /\ Len(s) <= MaxTotalBytes /\ pos[c] \in Nat /\ pos[c + 1] \in Nat
         /\ c + 1 = q => pos[c + 1] = Len(s)
<1>1. q \in Nat /\ q <= MaxEvents /\ q >= 2 /\ c \in 0..q - 1 /\ c \in 0..q /\ c + 1 \in 0..q
      /\ (c = q - 1 <=> c + 1 = q)
  BY Sizes DEF Cut
<1>2. pos[c] \in Nat /\ pos[c + 1] \in Nat
  BY <1>1 DEF Cut
<1>3. PICK text : text = IF c + 1 = q THEN "done" ELSE "chunk"
  OBVIOUS
<1>4. Piece(s, pos[c], pos[c + 1], text)
  BY <1>1, <1>3 DEF Cut
<1>5. text \in {"chunk", "done"}
  BY <1>3
<1>6. \E j : Within(s, pos[c], pos[c + 1], j, text)
  BY <1>2, <1>4, <1>5, Zenon DEF Within, Piece
<1> QED
  BY <1>1, <1>2, <1>3, <1>6 DEF Cut

(* The first n tokens of x are those of s behind k. *)
Copies(x, n, s, k) == \A i \in 1..n : x[i] = s[k + i]

(* The line feeds of what has been taken, where l is the place of the line *)
Lines(w, r, l) ==
  IF l = 0 THEN \A i \in 1..r : w[i] # "lf"
  ELSE l >= 2 /\ \A i \in 1..r : w[i] = "lf" <=> i = l

(* No line ends before the n-th token. *)
Unbroken(x, n) == \A i \in 1..n - 1 : x[i] # "lf"

(* Where the decoder is in it: r tokens have been taken, and l is the place *)
(* of the line.                                                             *)
LEMMA LineWithin ==
  ASSUME NEW s, NEW a, NEW b, NEW j, NEW text, Within(s, a, b, j, text),
         NEW w, NEW r \in Nat, NEW l \in Nat, l <= r, Copies(w, r, s, a), Lines(w, r, l)
  PROVE  /\ l = 0 => r < j
         /\ l # 0 => l = j /\ r < b - a
<1> USE DEF Copies, Lines
<1>1. a \in Nat /\ b \in Nat /\ j \in {2, 3} /\ j \in Nat /\ b - a \in Nat /\ b - a > j
  BY DEF Within
<1>2. a + (b - a) = b
  BY <1>1
<1>3. r >= j => w[j] = "lf"
  <2>1. r >= j => j \in 1..r
    BY <1>1
  <2> QED
    BY <2>1 DEF Within
<1>4. CASE l = 0
  <2>1. r >= j => j \in 1..r
    BY <1>1
  <2>2. ~(r >= j)
    BY <1>3, <1>4, <2>1
  <2> QED
    BY <1>1, <1>4, <2>2
<1>5. CASE l # 0
  <2>1. l \in 1..r /\ w[l] = "lf" /\ l >= 2
    BY <1>5
  <2>2. r >= j => l = j
    <3>1. r >= j => j \in 1..r
      BY <1>1
    <3> QED
      BY <1>3, <1>5, <3>1
  <2>3. r >= j
    <3> SUFFICES ASSUME r < j PROVE FALSE
      BY <1>1
    <3>1. l = 2 /\ j = 3
      BY <1>1, <2>1
    <3>2. s[a + 2] = "lf" /\ s[a + 2] = "cr"
      BY <2>1, <3>1 DEF Within
    <3> QED
      BY <3>2
  <2>4. r < b - a
    <3> SUFFICES ASSUME r >= b - a PROVE FALSE
      BY <1>1
    <3>1. PICK k \in Nat : k = b - a
      BY <1>1
    <3>2. k \in 1..r /\ a + k = b
      BY <1>1, <3>1
    <3>3. w[k] = "lf"
      BY <3>2 DEF Within
    <3>4. k = l
      BY <1>5, <3>2, <3>3
    <3> QED
      BY <1>1, <2>2, <2>3, <3>1, <3>4
  <2> QED
    BY <1>5, <2>2, <2>3, <2>4
<1> QED
  BY <1>4, <1>5

(* The next line feed is where the line ends. *)
LEMMA NextWithin ==
  ASSUME NEW s, NEW a, NEW b, NEW j, NEW text, Within(s, a, b, j, text),
         NEW r \in Nat, NEW l \in {0, j}, l <= r, NEW k, k = (IF l = 0 THEN j ELSE b - a), r < k,
         NEW x, NEW n \in Nat, Copies(x, n, s, a + r), Unbroken(x, n)
  PROVE  /\ k \in Nat /\ r + n <= k
         /\ n > 0 /\ x[n] = "lf" => r + n = k
         /\ n > 0 /\ x[n] # "lf" => r + n < k
<1> USE DEF Copies, Unbroken
<1>1. /\ a \in Nat /\ b \in Nat /\ j \in {2, 3} /\ j \in Nat /\ l \in Nat
      /\ b \in {a + j + 1, a + j + 2}
  BY DEF Within
<1>2. k \in Nat /\ k - r \in Nat /\ k - r > 0 /\ a + r + (k - r) = a + k
  BY <1>1
<1>3. s[a + k] = "lf"
  <2>1. a + (b - a) = b
    BY <1>1
  <2> QED
    BY <2>1 DEF Within
<1>4. n >= k - r => x[k - r] = "lf"
  <2>1. n >= k - r => k - r \in 1..n
    BY <1>2
  <2> QED
    BY <1>2, <1>3, <2>1
<1>5. r + n <= k
  <2> SUFFICES ASSUME r + n > k PROVE FALSE
    BY <1>2
  <2>1. k - r \in 1..n - 1 /\ n >= k - r
    BY <1>2
  <2> QED
    BY <1>4, <2>1
<1>6. ASSUME n > 0, x[n] = "lf" PROVE r + n = k
  <2>1. PICK m \in Nat : m = r + n /\ m <= k /\ m > r
    BY <1>5, <1>6
  <2>2. s[a + m] = "lf"
    <3>1. n \in 1..n /\ a + r + n = a + m
      BY <1>1, <1>6, <2>1
    <3> QED
      BY <1>6, <3>1
  <2>3. m # 1
    <3>1. s[a + 1] # "lf"
      BY DEF Within
    <3> QED
      BY <2>2, <3>1
  <2>4. CASE l = 0
    <3>1. m = 2 \/ m = 3
      BY <1>1, <2>1, <2>3, <2>4
    <3>2. m = 2 => j = 2
      BY <1>1, <2>2 DEF Within
    <3> QED
      BY <1>1, <2>1, <2>4, <3>1, <3>2
  <2>5. CASE l # 0
    <3>1. l = j /\ m > j /\ k = b - a
      BY <1>1, <2>1, <2>5
    <3>2. m = j + 1 \/ m = j + 2
      BY <1>1, <2>1, <3>1
    <3>3. b = a + j + 2 => m # j + 1
      <4>1. b = a + j + 2 => s[a + j + 1] = "cr"
        BY DEF Within
      <4>2. a + (j + 1) = a + j + 1
        BY <1>1
      <4> QED
        BY <2>2, <4>1, <4>2
    <3> QED
      BY <1>1, <2>1, <3>1, <3>2, <3>3
  <2> QED
    BY <2>4, <2>5
<1>7. ASSUME n > 0, x[n] # "lf" PROVE r + n < k
  <2>1. r + n = k => n = k - r /\ n >= k - r
    BY <1>2
  <2> QED
    BY <1>2, <1>4, <1>5, <1>7, <2>1
<1> QED
  BY <1>2, <1>5, <1>6, <1>7

(* The fragment the decoder is about to take *)
LEMMA DecodeWithin ==
  ASSUME NEW d \in DecoderRecord, NEW s \in Seq(Token), DecoderInv(d, s), PartInv(d),
         NEW a, NEW b, NEW j, NEW text, Within(s, a, b, j, text), Start(d) = a,
         Len(s) <= MaxTotalBytes
  PROVE  /\ d.line \in {0, j} /\ accountEvent(d, Len(Fragment(d)))
         /\ "lf" \in ToSet(d.buffer) =>
              Len(d.raw) + Len(Fragment(d)) = (IF d.line = 0 THEN j ELSE b - a)
         /\ "lf" \notin ToSet(d.buffer) => Len(d.raw) + Len(d.buffer) < b - a
<1>1. d.raw \in Seq(Token) /\ d.buffer \in Seq(Token) /\ d.line \in Nat /\ d.total \in Nat
  BY DEF DecoderRecord
<1>2. PICK w, x, f : w = d.raw /\ x = d.buffer /\ f = Fragment(d)
  OBVIOUS
<1>3. PICK r, m, n, l, t \in Nat : r = Len(w) /\ m = Len(x) /\ n = Len(f) /\ l = d.line /\ t = d.total
  BY <1>1, <1>2, FragmentFacts, LenProperties
<1>4. /\ a \in Nat /\ b \in Nat /\ j \in {2, 3} /\ j \in Nat /\ b <= Len(s)
      /\ b \in {a + j + 1, a + j + 2} /\ b - a <= MaxEventBytes
  BY DEF Within
<1>5. t = a + r /\ l <= r
  <2>1. t - r = a /\ l <= r
    BY <1>2, <1>3, Zenon DEF Start, DecoderInv
  <2>2. t \in Nat /\ r \in Nat /\ a \in Nat
    BY <1>3, <1>4, Zenon
  <2>3. t = a + r
    BY <2>1, <2>2
  <2> QED
    BY <2>1, <2>3
<1>6. \A i \in 1..r : w[i] = s[a + i]
  BY <1>2, <1>3, Zenon DEF DecoderInv, Window
<1>7. \A i \in 1..m : x[i] = s[a + r + i]
  BY <1>2, <1>3, <1>5, Zenon DEF DecoderInv, Window
<1>8. IF l = 0 THEN \A i \in 1..r : w[i] # "lf"
      ELSE l >= 2 /\ \A i \in 1..r : w[i] = "lf" <=> i = l
  <2>1. CASE l = 0
    <3>1. "lf" \notin ToSet(w)
      BY <1>2, <1>3, <2>1, Zenon DEF PartInv
    <3>2. \A i \in 1..r : w[i] \in ToSet(w)
      BY <1>1, <1>2, <1>3 DEF ToSet
    <3> QED
      BY <2>1, <3>1, <3>2, Zenon
  <2>2. CASE l # 0
    BY <1>2, <1>3, <2>2, Zenon DEF PartInv
  <2> QED
    BY <2>1, <2>2
<1>a. Copies(w, r, s, a) /\ Lines(w, r, l)
  BY <1>6, <1>8, Zenon DEF Copies, Lines
<1>9. (l = 0 => r < j) /\ (l # 0 => l = j /\ r < b - a)
  BY <1>3, <1>5, <1>a, LineWithin
<1>10. PICK k : k = (IF l = 0 THEN j ELSE b - a)
  OBVIOUS
<1>11. k \in Nat /\ r < k /\ k <= b - a /\ l \in {0, j}
  BY <1>3, <1>4, <1>9, <1>10
<1>12. CASE "lf" \in ToSet(x)
  <2>1. /\ n > 0 /\ x[n] = "lf" /\ n <= m
        /\ \A i \in 1..n - 1 : x[i] # "lf"
    BY <1>1, <1>2, <1>3, <1>12, FragmentFacts, Zenon
  <2>2. \A i \in 1..n : x[i] = s[a + r + i]
    <3>1. \A i \in 1..n : i \in 1..m
      BY <1>3, <2>1
    <3> QED
      BY <1>7, <3>1, Zenon
  <2>a. Copies(x, n, s, a + r) /\ Unbroken(x, n)
    BY <2>1, <2>2, Zenon DEF Copies, Unbroken
  <2>b. n > 0 /\ x[n] = "lf"
    BY <2>1, Zenon
  <2>c. n > 0 /\ x[n] = "lf" => r + n = k
    <3>1. n \in Nat /\ r \in Nat /\ l \in {0, j} /\ l <= r /\ r < k
      BY <1>3, <1>5, <1>11
    <3> QED
      BY <1>10, <2>a, <3>1, NextWithin
  <2>3. r + n = k
    BY <2>b, <2>c, Zenon
  <2>4. t + n <= MaxTotalBytes /\ r + n <= MaxEventBytes
    <3>1. PICK z \in Nat : z = Len(s) /\ z <= MaxTotalBytes /\ b <= z
      BY <1>4, LenProperties, Zenon
    <3> QED
      BY <1>3, <1>4, <1>5, <1>11, <2>3, <3>1, Sizes
  <2> QED
    BY <1>2, <1>3, <1>10, <1>11, <1>12, <2>3, <2>4, Zenon DEF accountEvent, accountBytes
<1>13. CASE "lf" \notin ToSet(x)
  <2>1. f = x /\ n = m /\ \A i \in 1..m : x[i] # "lf"
    BY <1>1, <1>2, <1>3, <1>13, FragmentFacts, Zenon
  <2>2. /\ \A i \in 1..m - 1 : x[i] # "lf"
        /\ m > 0 => x[m] # "lf"
    <3>1. (\A i \in 1..m - 1 : i \in 1..m) /\ (m > 0 => m \in 1..m)
      BY <1>3
    <3> QED
      BY <2>1, <3>1, Zenon
  <2>a. Copies(x, m, s, a + r) /\ Unbroken(x, m)
    BY <1>7, <2>2, Zenon DEF Copies, Unbroken
  <2>b. m > 0 /\ x[m] # "lf" => r + m < k
    <3>1. m \in Nat /\ r \in Nat /\ l \in {0, j} /\ l <= r /\ r < k
      BY <1>3, <1>5, <1>11
    <3> QED
      BY <1>10, <2>a, <3>1, NextWithin
  <2>3. m > 0 => r + m < k
    BY <2>2, <2>b, Zenon
  <2>4. r + m < b - a
    BY <1>3, <1>4, <1>11, <2>3
  <2>5. t + n <= MaxTotalBytes /\ r + n <= MaxEventBytes
    <3>1. PICK z \in Nat : z = Len(s) /\ z <= MaxTotalBytes /\ b <= z
      BY <1>4, LenProperties, Zenon
    <3> QED
      BY <1>3, <1>4, <1>5, <2>1, <2>4, <3>1, Sizes
  <2> QED
    BY <1>2, <1>3, <1>11, <1>13, <2>4, <2>5, Zenon DEF accountEvent, accountBytes
<1> QED
  BY <1>2, <1>12, <1>13

(* In the middle of an event the stream has not ended. *)
LEMMA NotEnded ==
  ASSUME NEW d \in DecoderRecord, NEW s \in Seq(Token), DecoderInv(d, s),
         NEW a, NEW b, NEW j, NEW text, Within(s, a, b, j, text), Start(d) = a,
         Len(s) <= MaxTotalBytes, Len(d.raw) + Len(d.buffer) < b - a,
         NEW r, NEW rd, Feed("decode", s, r, rd, d), d.readErr # "failure"
  PROVE  d.readErr = "none"
<1>1. PICK u, m, t, left, z \in Nat :
         /\ u = Len(d.raw) /\ m = Len(d.buffer) /\ t = d.total /\ left = d.left /\ z = Len(s)
  BY LenProperties DEF DecoderRecord
<1>2. a \in Nat /\ b \in Nat /\ b <= z /\ t - u = a /\ u + m < b - a
  BY <1>1, Zenon DEF Within, Start
<1>3. left + t + m = MaxTotalBytes + 1 /\ z <= MaxTotalBytes
  BY <1>1, Zenon DEF DecoderInv
<1>4. rd = NoRead
  BY DEF Feed
<1>5. Len(rd.tokens) = 0
  BY <1>4 DEF NoRead
<1>6. d.readErr = "EOF" => left = 0 \/ r = <<>>
  BY <1>1 DEF Feed
<1>7. PICK v \in Nat : v = Len(r)
  BY LenProperties DEF Feed
<1>8. t + m + 0 + v = z
  BY <1>1, <1>5, <1>7, Zenon DEF Feed
<1>9. t + m < z /\ left > 0
  BY <1>2, <1>3, Sizes
<1>10. r = <<>> => v = 0
  BY <1>7
<1>11. d.readErr # "EOF"
  BY <1>6, <1>8, <1>9, <1>10
<1> QED
  BY <1>11 DEF DecoderRecord

(* A complete event is accepted, [DONE] if a chunk came before. *)
LEMMA SecondAccepts ==
  ASSUME NEW t \in DecoderRecord, NEW s, DecoderInv(t, s), t.state = "open",
         t.events = t.chunks, t.events < MaxEvents, t.line >= 2, t.line < Len(t.raw),
         \A i \in 1..Len(t.raw) : t.raw[i] = "lf" <=> i = t.line \/ i = Len(t.raw),
         NEW text \in {"chunk", "done"}, Shaped(t.raw, text, t.line),
         text = "done" => t.chunks > 0
  PROVE  secondLine(t) = Accepted(t, text) /\ (text = "chunk" => EventReady(Accepted(t, text)))
<1>1. \/ secondLine(t) = fail(t) /\ ~Shaped(t.raw, "chunk", t.line)
         /\ (t.chunks > 0 => ~Shaped(t.raw, "done", t.line))
      \/ secondLine(t) = Accepted(t, "chunk") /\ t.raw \in EventOf("chunk")
         /\ EventReady(Accepted(t, "chunk"))
      \/ secondLine(t) = Accepted(t, "done") /\ t.raw \in EventOf("done") /\ t.chunks > 0
  BY SecondLineFacts, Zenon
<1>2. t.raw[1] = text
  BY Zenon DEF Shaped
<1>3. \A other : t.raw \in EventOf(other) => other = text
  <2> SUFFICES ASSUME NEW other, t.raw \in EventOf(other) PROVE other = text
    OBVIOUS
  <2>1. PICK j \in {2, 3} : Shaped(t.raw, other, j)
    BY EventShape
  <2> QED
    BY <1>2, <2>1, Zenon DEF Shaped
<1> QED
  BY <1>1, <1>3

(* Reading on in a valid stream does not fail, and ends an event where it   *)
(* ends.                                                                    *)
LEMMA TrackDecode ==
  ASSUME NEW d \in DecoderRecord, NEW s \in Seq(Token), DecoderInv(d, s), PartInv(d),
         d.state = "open", NEW q, NEW pos, Cut(s, q, pos), d.chunks < q,
         Start(d) = pos[d.chunks], NEW r, NEW rd, Feed("decode", s, r, rd, d),
         d.readErr # "failure", ~NeedsRead(d), NEW ended, ~ended,
         NEW e, e = readSSELine(d, ended)
  PROVE  \/ e.state = "open" /\ ~EventReady(e) /\ e.chunks = d.chunks /\ Start(e) = Start(d)
         \/ e.state = "open" /\ EventReady(e) /\ e.chunks < q /\ e.total = pos[e.chunks]
         \/ e.state = "doneReturned" /\ e.total = Len(s)
<1>1. PICK c \in Nat : c = d.chunks /\ c < q
  BY DEF DecoderRecord
<1>2. /\ \E j : Within(s, pos[c], pos[c + 1], j, IF c + 1 = q THEN "done" ELSE "chunk")
      /\ q \in Nat /\ q <= MaxEvents /\ q >= 2
      /\ Len(s) <= MaxTotalBytes /\ pos[c] \in Nat /\ pos[c + 1] \in Nat
      /\ c + 1 = q => pos[c + 1] = Len(s)
  BY <1>1, CutWithin, ZenonT(40)
<1>3. PICK a, b, text : a = pos[c] /\ b = pos[c + 1] /\ text = IF c + 1 = q THEN "done" ELSE "chunk"
  OBVIOUS
<1>4. PICK j : Within(s, a, b, j, text)
  BY <1>2, <1>3, Zenon
<1>5. Start(d) = a
  BY <1>1, <1>3, Zenon
<1>6. /\ d.line \in {0, j} /\ accountEvent(d, Len(Fragment(d)))
      /\ "lf" \in ToSet(d.buffer) =>
              Len(d.raw) + Len(Fragment(d)) = (IF d.line = 0 THEN j ELSE b - a)
      /\ "lf" \notin ToSet(d.buffer) => Len(d.raw) + Len(d.buffer) < b - a
  BY <1>2, <1>4, <1>5, DecodeWithin
<1>7. PICK t : t = Taken(d)
  OBVIOUS
<1>8. d.buffer \in Seq(Token)
  BY DEF DecoderRecord
<1>9. e = IF "lf" \in ToSet(d.buffer)
          THEN IF d.line = 0 THEN firstLine(t) ELSE secondLine(t)
          ELSE IF Len(d.buffer) >= BufferSize /\ d.readErr = "none" THEN t ELSE fail(d)
  BY <1>6, <1>7, <1>8, ReadLineIs, Zenon
<1>10. /\ t \in DecoderRecord /\ DecoderInv(t, s) /\ Start(t) = Start(d)
       /\ t.state = "open" /\ t.line = d.line /\ t.chunks = c /\ t.events = c /\ c < MaxEvents
       /\ t.total = d.total + Len(Fragment(d)) /\ Len(t.raw) = Len(d.raw) + Len(Fragment(d))
  BY <1>1, <1>6, <1>7, TakenOutcome, TakenFacts, Zenon DEF Keeps
<1>11. a \in Nat /\ b \in Nat /\ j \in {2, 3} /\ b \in {a + j + 1, a + j + 2}
  BY <1>4 DEF Within
<1>12. PICK w : w = t.raw
  OBVIOUS
<1>13. PICK n \in Nat : n = Len(w) /\ n = Len(t.raw)
  BY <1>10, <1>12, LenProperties DEF DecoderRecord
<1>14. \A i \in 1..n : w[i] = s[a + i]
  BY <1>5, <1>10, <1>12, <1>13, Zenon DEF DecoderInv, Window
<1>15. text \in {"chunk", "done"}
  BY <1>3
<1>16. CASE "lf" \in ToSet(d.buffer) /\ d.line = 0
  <2>1. n = j
    BY <1>6, <1>10, <1>12, <1>13, <1>16, Zenon
  <2>2. w[1] = text /\ (n = 2 \/ (n = 3 /\ w[2] = "cr"))
    <3>1. 1 \in 1..n /\ 2 \in 1..n
      BY <1>11, <2>1
    <3>2. w[1] = s[a + 1] /\ w[2] = s[a + 2]
      BY <1>14, <3>1, Zenon
    <3>3. s[a + 1] = text /\ (j = 3 => s[a + 2] = "cr")
      BY <1>4, Zenon DEF Within
    <3> QED
      BY <1>11, <2>1, <3>2, <3>3
  <2>3. Len(t.raw) > 0 /\ \A i \in 1..Len(t.raw) : t.raw[i] = "lf" <=> i = Len(t.raw)
    BY <1>6, <1>7, <1>16, TakenOutcome, Zenon
  <2>4. /\ \/ firstLine(t).state = "failed"
           \/ /\ firstLine(t).state = "open" /\ ~EventReady(firstLine(t))
              /\ firstLine(t).chunks = t.chunks
        /\ firstLine(t).state = "open" /\ Start(firstLine(t)) = Start(t)
    <3>1. t.raw[1] \in {"chunk", "done"} /\ (Len(t.raw) = 2 \/ (Len(t.raw) = 3 /\ t.raw[2] = "cr"))
      BY <1>12, <1>13, <1>15, <2>2, Zenon
    <3>2. t.line = 0 /\ t.events = t.chunks /\ t.events < MaxEvents
      BY <1>10, <1>16, Zenon
    <3>3. t \in DecoderRecord /\ DecoderInv(t, s) /\ t.state = "open"
      BY <1>10, Zenon
    <3> QED
      BY <2>3, <3>1, <3>2, <3>3, FirstLineFacts
  <2>5. e = firstLine(t)
    BY <1>9, <1>16, Zenon
  <2> QED
    BY <1>1, <1>10, <2>4, <2>5
<1>17. CASE "lf" \in ToSet(d.buffer) /\ d.line # 0
  <2>1. PICK l : l = t.line /\ l = j
    BY <1>6, <1>10, <1>17
  <2>2. n = b - a
    BY <1>6, <1>10, <1>12, <1>13, <1>17, Zenon
  <2>3. Shaped(w, text, l)
    <3>1. /\ 1 \in 1..n /\ 2 \in 1..n /\ j \in 1..n /\ n \in 1..n /\ j + 1 \in 1..n
          /\ n \in {j + 1, j + 2} /\ a + n = b /\ a + (j + 1) = a + j + 1
          /\ n = j + 2 => b = a + j + 2
      BY <1>11, <2>2
    <3>2. /\ w[1] = s[a + 1] /\ w[2] = s[a + 2] /\ w[j] = s[a + j] /\ w[n] = s[b]
          /\ w[j + 1] = s[a + j + 1]
      BY <1>14, <3>1, Zenon
    <3>3. /\ s[a + 1] = text /\ s[a + j] = "lf" /\ s[b] = "lf"
          /\ j = 3 => s[a + 2] = "cr"
          /\ b = a + j + 2 => s[a + j + 1] = "cr"
      BY <1>4, Zenon DEF Within
    <3> QED
      BY <1>11, <1>13, <2>1, <3>1, <3>2, <3>3, Zenon DEF Shaped
  <2>4. /\ t.line >= 2 /\ t.line < Len(t.raw)
        /\ \A i \in 1..Len(t.raw) : t.raw[i] = "lf" <=> i = t.line \/ i = Len(t.raw)
    <3>1. /\ d.line >= 2 /\ d.line < Len(t.raw)
          /\ \A i \in 1..Len(t.raw) : t.raw[i] = "lf" <=> i = d.line \/ i = Len(t.raw)
      BY <1>6, <1>7, <1>17, TakenOutcome, Zenon
    <3> QED
      BY <1>10, <3>1, Zenon
  <2>5. (c + 1 = q => c > 0) /\ c + 1 <= q
    BY <1>1, <1>2
  <2>6. secondLine(t) = Accepted(t, text) /\ (text = "chunk" => EventReady(Accepted(t, text)))
    <3>1. t.events = t.chunks /\ t.events < MaxEvents
      BY <1>10, Zenon
    <3>2. t \in DecoderRecord /\ DecoderInv(t, s) /\ t.state = "open"
      BY <1>10, Zenon
    <3>3. Shaped(t.raw, text, t.line) /\ (text = "done" => t.chunks > 0)
      BY <1>3, <1>10, <1>12, <2>1, <2>3, <2>5
    <3> QED
      BY <1>15, <2>4, <3>1, <3>2, <3>3, SecondAccepts, Zenon
  <2>9. t.total = b
    <3>1. PICK z \in Nat : z = t.total
      BY <1>10 DEF DecoderRecord
    <3>2. z - n = a
      BY <1>5, <1>10, <1>13, <3>1, Zenon DEF Start
    <3> QED
      BY <1>11, <2>2, <3>1, <3>2
  <2>10. e = secondLine(t)
    BY <1>9, <1>17, Zenon
  <2>11. CASE text = "chunk"
    <3>1. c + 1 < q
      BY <1>2, <1>3, <2>5, <2>11
    <3>2. e.state = "open" /\ e.chunks = c + 1 /\ e.total = b
      <4>1. t.events = t.chunks /\ t.events < MaxEvents
        BY <1>10, Zenon
      <4> QED
        BY <1>10, <1>15, <2>6, <2>9, <2>10, <2>11, <4>1, AcceptedFacts
    <3> QED
      BY <1>3, <2>6, <2>10, <2>11, <3>1, <3>2
  <2>12. CASE text = "done"
    <3>1. c + 1 = q
      BY <1>3, <2>12
    <3>2. e.state = "doneReturned" /\ e.total = b
      <4>1. t.events = t.chunks /\ t.events < MaxEvents
        BY <1>10, Zenon
      <4> QED
        BY <1>10, <1>15, <2>6, <2>9, <2>10, <2>12, <4>1, AcceptedFacts
    <3> QED
      BY <1>2, <1>3, <3>1, <3>2
  <2> QED
    BY <1>15, <2>11, <2>12
<1>18. CASE "lf" \notin ToSet(d.buffer)
  <2>1. Len(d.raw) + Len(d.buffer) < b - a
    BY <1>6, <1>18, Zenon
  <2>2. d.readErr = "none"
    BY <1>2, <1>4, <1>5, <2>1, NotEnded
  <2>3. ~(Len(d.buffer) < BufferSize)
    BY <1>18, <2>2, Zenon DEF NeedsRead, WantsLine
  <2>4. Len(d.buffer) >= BufferSize
    BY <1>8, <2>3, LenProperties, Sizes
  <2>5. e = t
    BY <1>9, <1>18, <2>2, <2>4, Zenon
  <2>6. ~EventReady(t)
    BY <1>6, <1>7, <1>18, TakenOutcome, Zenon
  <2> QED
    BY <1>1, <1>10, <2>5, <2>6, Zenon
<1> QED
  BY <1>16, <1>17, <1>18

(* And its end is found. *)
LEMMA TrackVerify ==
  ASSUME NEW d \in DecoderRecord, NEW s \in Seq(Token), DecoderInv(d, s),
         d.state = "doneReturned", d.total = Len(s), d.readErr # "failure", ~NeedsRead(d),
         NEW ended, ~ended
  PROVE  /\ verifyEOF(d, ended).state = "verified"
         /\ verifyEOF(d, ended).total = Len(s)
<1>1. d.buffer \in Seq(Token) /\ d.readErr \in {"none", "EOF", "failure"}
  BY DEF DecoderRecord
<1>2. PICK m, t \in Nat : m = Len(d.buffer) /\ t = d.total
  BY <1>1, LenProperties DEF DecoderRecord
<1>3. t + m <= t
  BY <1>2, Zenon DEF DecoderInv, Window
<1>4. m = 0
  BY <1>2, <1>3
<1>5. d.buffer = <<>>
  BY <1>1, <1>2, <1>4, EmptySeq
<1>6. d.readErr = "EOF"
  BY <1>1, <1>5 DEF NeedsRead, WantsLine
<1>7. verifyEOF(d, ended) = [d EXCEPT !.state = "verified"]
  BY <1>5, <1>6, Zenon DEF verifyEOF
<1> QED
  BY <1>7 DEF DecoderRecord

-----------------------------------------------------------------------------
(* The handler in a valid stream *)

(* Who is out stays out. *)
LEMMA StayStep ==
  ASSUME ControlInv, [Next]_vars, Here \in Exits
  PROVE  Here' \in Exits
<1>1. Steps \/ UNCHANGED vars
  BY StepCases
<1>2. pc \in Exits
  BY DEF ControlInv, Here, Exits, Returns
<1>3. /\ Here \notin Early /\ Here \notin {"metadata", "close"}
      /\ pc \notin {"next", "verify", "decode", "read", "readReturned", "stop", "relay"}
  BY <1>2 DEF Exits, Early
<1> QED
  BY <1>1, <1>3, HereStep DEF NextEvent, Decode, BeginRead, ReadBody, EndRead, StopEvent, RelayEvent

(* A Read fails for a reason. *)
LEMMA ReadStep ==
  ASSUME ControlInv, IdleInv, Values, StreamInv, CauseInv, SlowInv, BodyInv, ReadInv, [Next]_vars
  PROVE  ReadInv'
<1>1. mode' = mode /\ (Stressed => Stressed') /\ (Here \in Exits => Here' \in Exits)
  BY GrowStep, StressStep, StayStep
<1> SUFFICES ASSUME mode = "streaming", Here \notin Exits,
                    decoder'.readErr = "failure" \/ read'.err = "failure"
             PROVE  Stressed'
  BY <1>1 DEF ReadInv
<1>2. PICK d : d = decoder /\ d \in DecoderRecord /\ DecoderInv(d, stream) /\ stream \in Seq(Token)
  BY DEF StreamInv, Feed
<1>3. d.readErr = "failure" \/ read.err = "failure" => Stressed
  BY <1>2 DEF ReadInv
<1>4. timedOut => Stressed
  BY EndedStressed
<1>5. Steps \/ UNCHANGED vars
  BY StepCases
<1>6. CASE NextEvent
  <2>1. pc \in {"next", "verify"} /\ read' = read
    BY <1>6 DEF NextEvent
  <2>2. decoder' \in {fail(d), Begun(d), d}
    BY <1>2, <1>6, Zenon DEF NextEvent, beginNext, Begun
  <2>3. decoder'.readErr = d.readErr
    BY <1>2, <2>2, FailFacts, BegunFacts
  <2> QED
    BY <1>1, <1>3, <2>1, <2>3
<1>7. CASE Decode
  <2>1. pc = "decode" /\ Here = "decode" /\ read' = read
    BY <1>7 DEF Decode, Here, Looks
  <2>2. decoder'.readErr = d.readErr
    <3>1. CASE d.state = "open"
      <4>1. decoder' = readSSELine(d, Ended(event)) /\ Ended(event) \in BOOLEAN
        BY <1>2, <1>7, <3>1 DEF Decode, WantsLine, Ended
      <4>2. PartInv(d)
        BY <1>2, <2>1, <3>1 DEF StreamInv, Phase, Reads
      <4> QED
        BY <1>2, <3>1, <4>1, <4>2, ReadLineFacts DEF Keeps
    <3>2. CASE d.state # "open"
      <4>1. decoder' \in {fail(d), [d EXCEPT !.state = "verified"]}
        BY <1>2, <1>7, <3>2, Zenon DEF Decode, WantsLine, verifyEOF
      <4> QED
        BY <1>2, <4>1, FailFacts, VerifiedFacts
    <3> QED
      BY <3>1, <3>2
  <2> QED
    BY <1>1, <1>3, <2>1, <2>2
<1>8. CASE BeginRead
  <2>1. read' = read
    BY <1>8 DEF BeginRead
  <2>2. decoder' = d \/ decoder' = fill(d, <<>>, "EOF") \/ (timedOut /\ decoder' = fill(d, <<>>, "failure"))
    BY <1>2, <1>8, Zenon DEF BeginRead, LimitReached
  <2>3. fill(d, <<>>, "EOF").readErr = "EOF"
    BY <1>2 DEF fill, DecoderRecord
  <2> QED
    BY <1>1, <1>3, <1>4, <2>1, <2>2, <2>3
<1>9. CASE ReadBody
  <2>1. decoder' = d /\ Here = "read"
    BY <1>2, <1>9 DEF ReadBody, Here, Looks
  <2>2. read' = read \/ read'.err \in {"none", "EOF"} \/ body # "open" \/ "transport" \in fault'
    <3>1. \/ \E n \in 0..Room(decoder) \cap 0..Len(rest), err \in {"none", "EOF"} :
               read' = [tokens |-> SubSeq(rest, 1, n), err |-> err]
          \/ body # "open" \/ "transport" \in fault' \/ read' = read
      BY <1>9 DEF ReadBody
    <3> QED
      BY <3>1
  <2>3. body # "open" => Stressed
    BY <2>1 DEF BodyInv, Values, Exits, Relaying, Reads
  <2>4. "transport" \in fault' => Stressed'
    BY DEF Stressed, Blameless
  <2> QED
    BY <1>1, <1>3, <2>1, <2>2, <2>3, <2>4
<1>10. CASE EndRead
  <2>1. read'.err = "none"
    BY <1>10 DEF EndRead
  <2>2. timedOut \/ decoder' = fill(d, read.tokens, read.err)
    BY <1>2, <1>10 DEF EndRead
  <2>3. fill(d, read.tokens, read.err).readErr = read.err
    BY <1>2 DEF fill, DecoderRecord
  <2> QED
    BY <1>1, <1>3, <1>4, <2>1, <2>2, <2>3
<1>11. CASE UNCHANGED <<rest, read, decoder>>
  BY <1>1, <1>2, <1>3, <1>11
<1> QED
  BY <1>5, <1>6, <1>7, <1>8, <1>9, <1>10, <1>11, FrameStep

(* A decoder that keeps its place *)
LEMMA TrackSame ==
  ASSUME NEW h, NEW d, NEW s, NEW q, NEW pos, Track(h, d, s, q, pos),
         NEW e, e.state = d.state, e.chunks = d.chunks, e.total = d.total, e.raw = d.raw,
         NEW g, \/ g = h
                \/ h \in Reads /\ g \in Reads
                \/ h = "relay" /\ g = "next" /\ d.state = "open"
                \/ h = "stop" /\ g = "relay"
                \/ g \notin Reads \cup {"next", "stop", "relay"}
  PROVE  Track(g, e, s, q, pos)
<1>1. Start(e) = Start(d)
  BY DEF Start
<1>2. "next" \notin Reads /\ "relay" \notin Reads /\ "stop" \notin Reads
  BY DEF Reads
<1> QED
  BY <1>1, <1>2 DEF Track

(* The decoder is where the events of a valid stream say. *)
LEMMA TrackStep ==
  ASSUME ControlInv, IdleInv, StreamInv, CauseInv, SlowInv, ReadInv, TrackInv, [Next]_vars
  PROVE  TrackInv'
<1>1. /\ mode' = mode /\ stream' = stream /\ (Stressed => Stressed')
      /\ (Here \in Exits => Here' \in Exits)
  BY GrowStep, StressStep, StayStep
<1> SUFFICES ASSUME mode = "streaming", Here \notin Exits, Here' \notin Exits, ~Stressed,
                    NEW q, NEW pos, Cut(stream, q, pos)
             PROVE  Track(Here', decoder', stream, q, pos)
  BY <1>1 DEF TrackInv
<1>2. PICK d, s : d = decoder /\ s = stream
  OBVIOUS
<1>3. /\ d \in DecoderRecord /\ DecoderInv(d, s) /\ s \in Seq(Token)
      /\ Feed(pc, s, rest, read, d) /\ Phase(Here, d, sent, s)
  BY <1>2 DEF StreamInv, Feed
<1>4. Track(Here, d, s, q, pos) /\ Cut(s, q, pos)
  BY <1>2 DEF TrackInv
<1>5. ~Ended(up) /\ ~Ended(event) /\ d.readErr # "failure"
  BY <1>2, EndedStressed DEF ReadInv
<1>6. Steps \/ UNCHANGED vars
  BY StepCases
<1>7. d.chunks \in Nat /\ d.events \in Nat /\ d.total \in Nat
  BY <1>3 DEF DecoderRecord
<1>8. q \in Nat /\ q <= MaxEvents /\ q >= 2 /\ pos[0] = 0
  BY <1>4, Sizes DEF Cut
<1> SUFFICES Track(Here', decoder', s, q, pos)
  BY <1>2
<1>9. CASE NextEvent
  <2>1. pc \in {"next", "verify"} /\ Here = pc
    BY <1>9 DEF NextEvent, Here, Looks
  <2>2. pc' = IF decoder'.state = "failed" THEN "stop" ELSE "decode"
    BY <1>9, Zenon DEF NextEvent, Goto
  <2>3. CASE pc = "next"
    <3>1. d.state = "open" /\ d.events = d.chunks /\ d.chunks < q /\ d.total = pos[d.chunks]
      BY <1>3, <1>4, <2>1, <2>3 DEF Phase, Track
    <3>2. ~(d.events >= MaxEvents)
      BY <1>7, <1>8, <3>1, Sizes
    <3>3. decoder' = Begun(d)
      BY <1>2, <1>5, <1>9, <2>3, <3>2, Zenon DEF NextEvent, beginNext, Begun
    <3>4. PICK e : e = Begun(d)
      OBVIOUS
    <3>5. e.state = "open" /\ Start(e) = d.total /\ e.chunks = d.chunks
      BY <1>3, <3>1, <3>4, BegunFacts
    <3>6. Here' = "decode"
      BY <2>2, <3>3, <3>4, <3>5 DEF Here, Looks
    <3>7. Track("decode", e, s, q, pos)
      BY <3>1, <3>5 DEF Track, Reads
    <3> QED
      BY <3>3, <3>4, <3>6, <3>7
  <2>4. CASE pc = "verify"
    <3>1. d.state = "doneReturned"
      BY <1>3, <2>1, <2>4 DEF Phase
    <3>2. decoder' = d
      BY <1>2, <1>5, <1>9, <2>4, Zenon DEF NextEvent
    <3>3. Here' = "decode"
      BY <2>2, <3>1, <3>2 DEF Here, Looks
    <3>4. Track("decode", d, s, q, pos)
      BY <1>4, <3>1 DEF Track
    <3> QED
      BY <3>2, <3>3, <3>4
  <2> QED
    BY <2>1, <2>3, <2>4
<1>10. CASE Decode
  <2>1. pc = "decode" /\ Here = "decode" /\ ~NeedsRead(d)
    BY <1>2, <1>10 DEF Decode, Here, Looks
  <2>2. PICK e : e = decoder'
    OBVIOUS
  <2>3. Here' = IF Settled(e) THEN "stop" ELSE "decode"
    <3>1. pc' = IF Settled(e) THEN "stop" ELSE "decode"
      BY <1>10, <2>2, Zenon DEF Decode, Goto
    <3> QED
      BY <3>1 DEF Here, Looks
  <2>4. CASE d.state = "open"
    <3>1. e = readSSELine(d, Ended(event))
      BY <1>2, <1>10, <2>2, <2>4 DEF Decode, WantsLine
    <3>2. PartInv(d) /\ d.chunks < q /\ Start(d) = pos[d.chunks]
      BY <1>3, <1>4, <2>1, <2>4 DEF Phase, Reads, Track
    <3>3. Feed("decode", s, rest, read, d)
      BY <1>3, <2>1
    <3>4. \/ e.state = "open" /\ ~EventReady(e) /\ e.chunks = d.chunks /\ Start(e) = Start(d)
          \/ e.state = "open" /\ EventReady(e) /\ e.chunks < q /\ e.total = pos[e.chunks]
          \/ e.state = "doneReturned" /\ e.total = Len(s)
      BY <1>3, <1>4, <1>5, <2>1, <2>4, <3>1, <3>2, <3>3, TrackDecode
    <3> QED
      BY <2>2, <2>3, <3>2, <3>4 DEF Track, Reads, Settled
  <2>5. CASE d.state # "open"
    <3>1. e = verifyEOF(d, Ended(event))
      BY <1>2, <1>10, <2>2, <2>5 DEF Decode, WantsLine
    <3>2. d.state = "doneReturned" /\ d.total = Len(s)
      BY <1>3, <1>4, <2>1, <2>5 DEF Phase, Reads, Track
    <3>3. e.state = "verified" /\ e.total = Len(s)
      BY <1>3, <1>5, <2>1, <3>1, <3>2, TrackVerify
    <3> QED
      BY <2>2, <2>3, <3>3 DEF Track, Settled
  <2> QED
    BY <2>4, <2>5
<1>11. CASE BeginRead
  <2>1. Here = "decode" /\ Here' \in Reads /\ Here \in Reads
    BY <1>11 DEF BeginRead, Goto, Here, Looks, Reads
  <2>2. decoder' = d \/ \E err : decoder' = fill(d, <<>>, err)
    BY <1>2, <1>11, Zenon DEF BeginRead, LimitReached
  <2>3. /\ decoder'.state = d.state /\ decoder'.chunks = d.chunks /\ decoder'.total = d.total
        /\ decoder'.raw = d.raw
    BY <1>3, <2>2, FillSame
  <2> QED
    BY <1>4, <2>1, <2>3, TrackSame
<1>12. CASE ReadBody
  <2>1. Here = "read" /\ Here' \in Reads \cup Exits /\ Here \in Reads /\ decoder' = d
    BY <1>2, <1>12 DEF ReadBody, Goto, Here, Looks, Reads, Exits
  <2> QED
    BY <1>4, <2>1, TrackSame
<1>13. CASE EndRead
  <2>1. Here = "readReturned" /\ Here' \in Reads /\ Here \in Reads
    BY <1>13 DEF EndRead, Goto, Here, Looks, Reads
  <2>2. \E x, err : decoder' = fill(d, x, err)
    BY <1>2, <1>13, Zenon DEF EndRead
  <2>3. /\ decoder'.state = d.state /\ decoder'.chunks = d.chunks /\ decoder'.total = d.total
        /\ decoder'.raw = d.raw
    BY <1>3, <2>2, FillSame
  <2> QED
    BY <1>4, <2>1, <2>3, TrackSame
<1>14. CASE StopEvent
  <2>1. Here = "stop" /\ Here' \in {"failed", "close", "verify", "relay"} /\ decoder' = d
    BY <1>2, <1>14 DEF StopEvent, Goto, Check, NoIO, Here, Looks
  <2>2. Here' = "relay" \/ Here' \notin Reads \cup {"next", "stop", "relay"}
    BY <2>1 DEF Reads
  <2> QED
    BY <1>4, <2>1, <2>2, TrackSame
<1>15. CASE RelayEvent
  <2>1. Here = "relay" /\ Here' \in {"next", "unwind"} /\ decoder' = d
    BY <1>2, <1>15 DEF RelayEvent, Goto, NoUpstream, NoIO, Here, Looks
  <2>2. d.state = "open" /\ Here' = "next"
    BY <1>3, <2>1 DEF Phase, Exits
  <2> QED
    BY <1>4, <2>1, <2>2, TrackSame
<1>16. CASE UNCHANGED <<rest, read, decoder>> /\ ~(StopEvent \/ RelayEvent \/ NextEvent \/ Decode
                                                  \/ BeginRead \/ ReadBody \/ EndRead)
  <2>1. \/ Here' = Here
        \/ Here \in Early /\ Here' \in Early
        \/ Here = "metadata" /\ Here' = "next"
        \/ Here = "close" /\ Here' \in {"write", "failed"}
    BY <1>6, <1>16, HereStep DEF ControlInv
  <2>2. CASE Here = "metadata" /\ Here' = "next"
    <3>1. d = NewSSEDecoder
      BY <1>3, <2>2 DEF Phase, Early
    <3>2. d.state = "open" /\ d.chunks = 0 /\ d.total = 0
      BY <3>1 DEF NewSSEDecoder
    <3>3. Track("next", d, s, q, pos)
      BY <1>8, <3>2 DEF Track, Reads
    <3> QED
      BY <1>2, <1>16, <2>2, <3>3
  <2>3. CASE ~(Here = "metadata" /\ Here' = "next")
    <3>1. Here' = Here \/ Here' \notin Reads \cup {"next", "stop", "relay"}
      BY <2>1, <2>3 DEF Reads, Early
    <3> QED
      BY <1>2, <1>4, <1>16, <3>1, TrackSame
  <2> QED
    BY <2>2, <2>3
<1> QED
  BY <1>6, <1>9, <1>10, <1>11, <1>12, <1>13, <1>14, <1>15, <1>16, FrameStep

-----------------------------------------------------------------------------
(* The answer *)

(* Who answers *)
LEMMA AnswerCases ==
  ASSUME [Next]_vars
  PROVE  \/ outcome' = outcome /\ sent' = sent
         \/ Permitted \/ CheckClient \/ AnswerDraining \/ AnswerLate \/ Metadata \/ WriteLast
         \/ AnswerFailure \/ RelayEvent \/ Recover
<1>0. Steps \/ UNCHANGED vars
  BY StepCases
<1>1. CASE UNCHANGED vars
  BY <1>1 DEF vars, answer
<1>2. CASE ClientLeaves \/ ForceCancel \/ Propagate \/ DeadlinePasses
  BY <1>2 DEF ClientLeaves, ForceCancel, Propagate, DeadlinePasses, answer
<1>3. CASE WatchRuns \/ TimerFires \/ TimerRuns
  BY <1>3 DEF WatchRuns, TimerFires, TimerRuns, answer
<1>4. CASE CheckPermit \/ CheckDeadline \/ Begin
  BY <1>4 DEF CheckPermit, CheckDeadline, Begin, answer
<1>5. CASE Complete \/ ParseResponse \/ CloseResponse
  BY <1>5 DEF Complete, ParseResponse, CloseResponse, answer
<1>6. CASE NextEvent \/ Decode \/ BeginRead
  BY <1>6 DEF NextEvent, Decode, BeginRead, answer
<1>7. CASE ReadBody \/ EndRead \/ StopEvent
  BY <1>7 DEF ReadBody, EndRead, StopEvent, answer
<1>8. CASE Unwind \/ CancelUpstream \/ FinishPermit
  BY <1>8 DEF Unwind, CancelUpstream, FinishPermit, answer
<1> QED
  BY <1>0, <1>1, <1>2, <1>3, <1>4, <1>5, <1>6, <1>7, <1>8 DEF Steps

(* What is relayed is no failure. *)
LEMMA RelayedTokens ==
  ASSUME NEW S, NEW w \in Seq(S), NEW f, f \notin S
  PROVE  w # <<f>>
<1> SUFFICES ASSUME w = <<f>> PROVE FALSE
  OBVIOUS
<1>1. Len(w) = 1 /\ w[1] = f
  OBVIOUS
<1>2. 1 \in 1..Len(w)
  BY <1>1
<1>3. w[1] \in S
  BY <1>2, ElementOfSeq
<1> QED
  BY <1>1, <1>3

(* WriteLast and RelayEvent send tokens of the upstream. *)
LEMMA AnswerRelayed ==
  ASSUME ControlInv, StreamInv, BufferedInv, WriteLast \/ RelayEvent
  PROVE  sent' = sent \/ sent' \in Seq(Token \cup {"json"})
<1>1. Here \in {"write", "relay"} /\ Here \notin Exits /\ Here = pc
  BY DEF WriteLast, RelayEvent, Here, Looks, Exits
<1>2. CASE mode = "streaming"
  <2>1. sent' = sent \/ sent' = sent \o decoder.raw
    BY <1>2 DEF WriteLast, RelayEvent, Write
  <2>2. PICK w, r : w = sent /\ r = decoder.raw
    OBVIOUS
  <2>3. r \in Seq(Token)
    BY <1>2, <2>2 DEF StreamInv, DecoderRecord
  <2>4. w \in Seq(Marks)
    <3>1. PICK m \in 0..MaxEvents : Sent(m, w, stream)
      BY <1>1, <1>2, <2>2 DEF StreamInv, Phase
    <3> QED
      BY <3>1 DEF Sent, Marks
  <2>5. Marks \subseteq Token
    BY DEF Marks, Token, Text
  <2>6. w \in Seq(Token) /\ w \o r \in Seq(Token)
    <3>1. w \in Seq(Token)
      BY <2>4, <2>5
    <3> QED
      BY <2>3, <3>1, ConcatProperties
  <2>7. Seq(Token) \subseteq Seq(Token \cup {"json"})
    OBVIOUS
  <2> QED
    BY <2>1, <2>2, <2>6, <2>7
<1>3. CASE mode = "buffered"
  <2>1. Here = "write" /\ WriteLast
    BY <1>1, <1>3 DEF ControlInv, RelayEvent, Relaying, Here, Looks
  <2>2. sent = <<>> /\ stream = <<"json">>
    BY <1>1, <1>3, <2>1 DEF ControlInv, BufferedInv
  <2>3. sent' = sent \/ sent' = <<>> \o <<"json">>
    BY <1>3, <2>1, <2>2 DEF WriteLast, Write
  <2>4. <<>> \o <<"json">> \in Seq(Token \cup {"json"})
    OBVIOUS
  <2> QED
    BY <2>3, <2>4
<1> QED
  BY <1>2, <1>3 DEF ControlInv

(* The answer is what happened. *)
LEMMA AnswerStep ==
  ASSUME ControlInv, StreamInv, BufferedInv, CauseInv, SlowInv, FailedInv, AnswerInv, [Next]_vars
  PROVE  AnswerInv'
<1>1. /\ client => client'
      /\ permit => permit'
      /\ forced => forced'
      /\ ~Blameless => ~Blameless'
      /\ Slow => Slow' /\ ~Blameless
      /\ fault # {} => ~Blameless
  BY GrowStep, StressStep DEF Slow, Blameless
<1>2. ASSUME outcome' = outcome \/ (outcome' # "UpstreamFailed" /\ outcome' # "Canceled"),
             sent' = sent \/ (sent' # <<"draining">> /\ sent' # <<"timeout">>)
      PROVE  AnswerInv'
  BY <1>1, <1>2 DEF AnswerInv
<1>3. CASE outcome' = outcome /\ sent' = sent
  BY <1>2, <1>3
<1>4. CASE Permitted \/ CheckClient
  <2>1. sent' = sent /\ (outcome' = outcome \/ (outcome' = "Canceled" /\ client))
    BY <1>4 DEF Permitted, CheckClient, Leave, answer
  <2> QED
    BY <1>1, <2>1 DEF AnswerInv
<1>5. CASE AnswerDraining
  <2>1. outcome' = "Canceled" /\ permit
    BY <1>5 DEF AnswerDraining, CauseInv
  <2>2. sent' = sent \/ (sent' = <<"draining">> /\ ~client)
    BY <1>5 DEF AnswerDraining
  <2>3. ~client => forced
    BY <2>1 DEF CauseInv
  <2>4. <<"draining">> # <<"timeout">>
    OBVIOUS
  <2> QED
    BY <1>1, <2>1, <2>2, <2>3, <2>4 DEF AnswerInv
<1>6. CASE AnswerLate
  <2>1. Slow
    BY <1>6 DEF AnswerLate, SlowInv
  <2>2. sent' # <<"draining">> \/ sent' = sent
    <3>1. sent' = sent \/ (~committed /\ sent' = sent \o <<"timeout">>)
      BY <1>6 DEF AnswerLate, Leave, Write
    <3>2. ~committed => sent = <<>>
      BY DEF ControlInv
    <3>3. <<>> \o <<"timeout">> # <<"draining">>
      OBVIOUS
    <3> QED
      BY <3>1, <3>2, <3>3
  <2>3. outcome' \in {"UpstreamFailed", "DownstreamFailed"}
    BY <1>6 DEF AnswerLate, Leave, Write
  <2> QED
    BY <1>1, <2>1, <2>2, <2>3 DEF AnswerInv
<1>7. CASE Metadata
  <2>1. Here = "metadata" /\ pc = "metadata" /\ sent = <<>>
    BY <1>7 DEF Metadata, Here, Looks, ControlInv, Early
  <2>2. CASE resp = "timeout"
    <3>1. Slow
      BY <2>2 DEF SlowInv
    <3>2. sent' \in {<<>>, <<>> \o <<"timeout">>} /\ outcome' \in {"UpstreamFailed", "DownstreamFailed"}
      BY <1>7, <2>1, <2>2 DEF Metadata, Write
    <3>3. <<>> # <<"draining">> /\ <<>> \o <<"timeout">> # <<"draining">>
      OBVIOUS
    <3> QED
      BY <1>1, <3>1, <3>2, <3>3 DEF AnswerInv
  <2>3. CASE resp \in {"error", "bad"}
    <3>1. fault # {}
      BY <2>1, <2>3 DEF SlowInv, FailedInv
    <3>2. sent' \in {<<>>, <<>> \o <<"bad">>} /\ outcome' \in {"UpstreamFailed", "DownstreamFailed"}
      BY <1>7, <2>1, <2>3 DEF Metadata, Write
    <3>3. <<>> # <<"draining">> /\ <<>> \o <<"bad">> # <<"draining">>
          /\ <<>> # <<"timeout">> /\ <<>> \o <<"bad">> # <<"timeout">>
      OBVIOUS
    <3> QED
      BY <1>1, <3>1, <3>2, <3>3 DEF AnswerInv
  <2>4. CASE resp = "good"
    BY <1>2, <1>7, <2>4 DEF Metadata, answer
  <2> QED
    BY <1>7, <2>2, <2>3, <2>4 DEF Metadata
<1>8. CASE WriteLast \/ RelayEvent
  <2>1. outcome' = outcome \/ outcome' \in {"Completed", "DownstreamFailed"}
    BY <1>8 DEF WriteLast, RelayEvent, Write
  <2>2. sent' = sent \/ sent' \in Seq(Token \cup {"json"})
    BY <1>8, AnswerRelayed
  <2>3. "draining" \notin Token \cup {"json"} /\ "timeout" \notin Token \cup {"json"}
    BY DEF Token, Text
  <2>4. sent' = sent \/ (sent' # <<"draining">> /\ sent' # <<"timeout">>)
    BY <2>2, <2>3, RelayedTokens
  <2> QED
    BY <1>2, <2>1, <2>4
<1>9. CASE AnswerFailure
  <2>1. ~Blameless
    BY <1>9 DEF AnswerFailure, FailedInv, Here, Looks
  <2>2. sent' = sent \/ (sent' = <<>> \o <<"timeout">> /\ late) \/ sent' = <<>> \o <<"bad">>
    <3>1. sent' = sent \/ (~committed /\ sent' = sent \o <<IF late THEN "timeout" ELSE "bad">>)
      BY <1>9 DEF AnswerFailure, Leave, Write
    <3> QED
      BY <3>1 DEF ControlInv
  <2>3. late => Slow
    BY DEF SlowInv
  <2>4. <<>> \o <<"timeout">> # <<"draining">> /\ <<>> \o <<"bad">> # <<"draining">>
        /\ <<>> \o <<"bad">> # <<"timeout">>
    OBVIOUS
  <2>5. outcome' \in {"UpstreamFailed", "DownstreamFailed"}
    BY <1>9 DEF AnswerFailure, Leave, Write
  <2> QED
    BY <1>1, <2>1, <2>2, <2>3, <2>4, <2>5 DEF AnswerInv
<1>10. CASE Recover
  <2>1. outcome' = outcome /\ (sent' = sent \/ sent' = <<"internal">>)
    BY <1>10 DEF Recover
  <2>2. <<"internal">> # <<"draining">> /\ <<"internal">> # <<"timeout">>
    OBVIOUS
  <2> QED
    BY <1>2, <2>1, <2>2
<1> QED
  BY <1>3, <1>4, <1>5, <1>6, <1>7, <1>8, <1>9, <1>10, AnswerCases

-----------------------------------------------------------------------------
(* All of it together *)
HonestInv ==
  /\ RelayInv /\ GivenInv /\ CauseInv /\ SlowInv /\ BodyInv
  /\ FailedInv /\ ReadInv /\ TrackInv /\ AnswerInv

(* The decoder refuses a valid stream for a reason only. *)
LEMMA RefusedStressed ==
  ASSUME ControlInv, StreamInv, TrackInv, Here = "stop", decoder.state = "failed"
  PROVE  Stressed
<1> SUFFICES ASSUME ~Stressed PROVE FALSE
  OBVIOUS
<1>1. mode = "streaming" /\ Here \notin Exits
  BY DEF ControlInv, Relaying, Exits
<1>2. stream \in ValidStreams \cup {<<"json">>}
  BY DEF Stressed, Blameless
<1>3. stream \in Seq(Token)
  BY <1>1 DEF StreamInv, Feed
<1>4. "json" \notin Token
  BY DEF Token, Text
<1>5. stream \in ValidStreams
  BY <1>2, <1>3, <1>4, RelayedTokens
<1>6. PICK q, pos : Cut(stream, q, pos)
  BY <1>5, ValidCut
<1>7. Track(Here, decoder, stream, q, pos)
  BY <1>1, <1>6 DEF TrackInv
<1> QED
  BY <1>7 DEF Track

(* Nothing has happened yet. *)
LEMMA InitHonest == Init => HonestInv
<1> SUFFICES ASSUME Init PROVE HonestInv
  OBVIOUS
<1>1. RelayInv
  BY InitControl, InitStream DEF RelayInv
<1>2. GivenInv
  BY UpstreamAssumption DEF Init, GivenInv
<1>3. Here = "permitted"
  BY DEF Init, Here, Looks
<1>4. CauseInv /\ SlowInv
  BY <1>3 DEF Init, CauseInv, SlowInv, Ended
<1>5. BodyInv /\ FailedInv
  BY <1>3 DEF Init, BodyInv, FailedInv, Relaying, Reads
<1>6. ReadInv
  BY DEF Init, ReadInv, NewSSEDecoder
<1>7. AnswerInv
  <2>1. <<>> # <<"draining">> /\ <<>> # <<"timeout">>
    OBVIOUS
  <2> QED
    BY <2>1 DEF Init, AnswerInv
<1>8. TrackInv
  <2> SUFFICES ASSUME NEW q, NEW pos, Cut(stream, q, pos)
               PROVE  Track(Here, decoder, stream, q, pos)
    BY DEF TrackInv
  <2>1. q \in Nat /\ q >= 2
    BY Sizes DEF Cut
  <2>2. decoder.state = "open" /\ decoder.chunks = 0
    BY DEF Init, NewSSEDecoder
  <2>3. 0 < q
    BY <2>1
  <2> QED
    BY <1>3, <2>2, <2>3 DEF Track, Reads
<1> QED
  BY <1>1, <1>2, <1>4, <1>5, <1>6, <1>7, <1>8 DEF HonestInv

(* Every step keeps all of it. *)
LEMMA HonestStep == HonestInv /\ [Next]_vars => HonestInv'
<1> SUFFICES ASSUME HonestInv, [Next]_vars PROVE HonestInv'
  OBVIOUS
<1>1. /\ ControlInv /\ IdleInv /\ Flags /\ Values /\ StreamInv /\ BufferedInv /\ FinalInv
      /\ GivenInv /\ CauseInv /\ SlowInv /\ BodyInv /\ FailedInv /\ ReadInv /\ TrackInv /\ AnswerInv
  BY DEF HonestInv, RelayInv
<1>2. RelayInv'
  BY <1>1, ControlStep, IdleStep, FlagStep, ValueStep, StreamStep, BufferedStep, FinalStep
     DEF RelayInv
<1>3. GivenInv'
  BY <1>1, GrowStep DEF GivenInv
<1>4. CauseInv'
  BY <1>1, CauseStep
<1>5. SlowInv'
  BY <1>1, SlowStep
<1>6. BodyInv'
  BY <1>1, BodyStep
<1>7. FailedInv'
  <2>1. Here = "stop" /\ decoder.state = "failed" => Stressed
    BY <1>1, RefusedStressed
  <2> QED
    BY <1>1, <2>1, FailedStep
<1>8. ReadInv'
  BY <1>1, ReadStep
<1>9. TrackInv'
  BY <1>1, TrackStep
<1>10. AnswerInv'
  BY <1>1, AnswerStep
<1> QED
  BY <1>2, <1>3, <1>4, <1>5, <1>6, <1>7, <1>8, <1>9, <1>10 DEF HonestInv

(* Only what is Completed is whole. *)
LEMMA WholeCompleted ==
  ASSUME RelayInv, GivenInv, Here \in Exits, outcome # "Completed"
  PROVE  ~(sent = stream /\ stream \in ValidStreams \cup {<<"json">>})
<1> SUFFICES ASSUME sent = stream, stream \in ValidStreams \cup {<<"json">>} PROVE FALSE
  OBVIOUS
<1>1. /\ mode \in {"streaming", "buffered"}
      /\ mode = "streaming" => stream \in Seq(Token)
      /\ mode = "buffered" => stream \in Seq({"json", "junk"})
  BY DEF RelayInv, ControlInv, StreamInv, Feed, GivenInv
<1>2. \/ sent = <<>>
      \/ \E f \in Failures : sent = <<f>>
      \/ mode = "streaming" /\ \E m \in 0..MaxEvents : Sent(m, sent, stream)
  BY DEF RelayInv, FinalInv
<1>3. ASSUME stream \in ValidStreams PROVE \E i \in 1..Len(stream) : stream[i] = "done"
  BY <1>3, ValidHasDone
<1>4. CASE sent = <<>>
  <2>1. <<>> # <<"json">> /\ Len(<<>>) = 0
    OBVIOUS
  <2> QED
    BY <1>3, <1>4, <2>1
<1>5. CASE \E f \in Failures : sent = <<f>>
  <2>1. PICK f \in Failures : stream = <<f>>
    BY <1>5
  <2>2. f \notin Token /\ f \notin {"json", "junk"}
    BY DEF Failures, Token, Text
  <2> QED
    BY <1>1, <2>1, <2>2, RelayedTokens
<1>6. CASE mode = "streaming" /\ \E m \in 0..MaxEvents : Sent(m, sent, stream)
  <2>1. stream \in Seq(Marks)
    BY <1>6 DEF Sent, Marks
  <2>2. "done" \notin Marks /\ "json" \notin Marks
    BY DEF Marks
  <2>3. stream # <<"json">>
    BY <2>1, <2>2, RelayedTokens
  <2>4. PICK i \in 1..Len(stream) : stream[i] = "done"
    BY <1>3, <2>3
  <2>5. stream[i] \in Marks
    BY <2>1, <2>4, ElementOfSeq
  <2> QED
    BY <2>2, <2>4, <2>5
<1> QED
  BY <1>2, <1>4, <1>5, <1>6

(* And it is what the permit is told. *)
LEMMA HonestOutcome == HonestInv => OutcomeHonest
<1> SUFFICES ASSUME HonestInv PROVE OutcomeHonest
  OBVIOUS
<1>1. RelayInv /\ GivenInv /\ AnswerInv /\ ControlInv /\ CauseInv /\ FinalInv
  BY DEF HonestInv, RelayInv
<1>2. finished = 1 => body # "open" /\ up # "live"
  BY <1>1 DEF ControlInv, CauseInv, Canceled
<1>3. ASSUME pc = "returned"
      PROVE  (outcome = "Completed") <=> (sent = stream /\ stream \in ValidStreams \cup {<<"json">>})
  <2>1. Here \in Exits
    BY <1>3 DEF Here, Looks, Exits
  <2>2. outcome = "Completed" => sent = stream /\ stream \in ValidStreams \cup {<<"json">>}
    BY <1>1, <2>1 DEF FinalInv
  <2>3. outcome # "Completed" => ~(sent = stream /\ stream \in ValidStreams \cup {<<"json">>})
    BY <1>1, <2>1, WholeCompleted
  <2> QED
    BY <2>2, <2>3
<1> QED
  BY <1>1, <1>2, <1>3 DEF OutcomeHonest, AnswerInv, Slow

(* The outcome that serve and relaySSE report for a permit is what happened *)
(* (permit.Finish in internal/httpapi/handler.go), for every stream the     *)
(* upstream may send, however it is read: the upstream is blamed only for a *)
(* fault of its own, and a valid stream that is read and written without    *)
(* one is Completed.                                                        *)
THEOREM OutcomesAreHonest == Spec => []OutcomeHonest
<1>1. Init => HonestInv
  BY InitHonest
<1>2. HonestInv /\ [Next]_vars => HonestInv'
  BY HonestStep
<1>3. HonestInv => OutcomeHonest
  BY HonestOutcome
<1> QED
  BY <1>1, <1>2, <1>3, PTL DEF Spec

=============================================================================
