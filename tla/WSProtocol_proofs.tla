-------------------------- MODULE WSProtocol_proofs --------------------------
(***************************************************************************)
(* Proofs about WSProtocol, for any set of frames of bounded length, any    *)
(* number of frames, any handshake request, any way the bytes are cut into *)
(* chunks, and any number of frames the application sends.                 *)
(*                                                                         *)
(* While the connection is open, the bytes in the buffer that are not used  *)
(* and those that have not arrived are together what the client has sent    *)
(* after the frames handled so far (Rest), or after the header of the next; *)
(* the fragments collected, the messages given to the application and the   *)
(* pongs sent are those of the frames handled (Collected, Heard, Echoed).   *)
(* The lemmas on the texts of a head are those of Bytes_proofs.            *)
(***************************************************************************)
EXTENDS WSProtocol, Bytes_proofs

-----------------------------------------------------------------------------
(* The inductive invariant.                                                *)

\* A byte of the client: of which frame, which of its bytes, masked or not.
WsByte == [f : Int, i : Int, x : BOOLEAN]

\* b is a byte of the frames of script.
IsByte(b, script) ==
    /\ b.f \in 1..Len(script) /\ b.i \in 1..FrameLen(script[b.f])
    /\ b = ByteAt(b.f, b.i, script[b.f])

\* c is the byte that comes after b.
Follows(c, b, script) ==
    IF b.i = FrameLen(script[b.f]) THEN c.f = b.f + 1 /\ c.i = 1 ELSE c.f = b.f /\ c.i = b.i + 1

\* s is what the client has sent after its first g frames and o bytes.
Rest(s, script, g, o) ==
    /\ s \in Seq(WsByte) /\ \A k \in 1..Len(s) : IsByte(s[k], script)
    /\ g \in 0..Len(script) /\ o \in Nat
    /\ IF g = Len(script) THEN o = 0 ELSE o < FrameLen(script[g + 1])
    /\ s = << >> <=> g = Len(script)
    /\ s # << >> => /\ s[1].f = g + 1 /\ s[1].i = o + 1
                    /\ s[Len(s)].f = Len(script)
                    /\ s[Len(s)].i = FrameLen(script[Len(script)])
    /\ \A k \in 1..(Len(s) - 1) : Follows(s[k + 1], s[k], script)

\* A message that began with frame s is open after g frames, none if s = 0.
Within(g, s) ==
    IF s = 0 THEN ~MessageOpen(g)
    ELSE /\ s \in 1..g /\ ~wsScript[s].fin /\ wsScript[s].op \in {1, 2}
         /\ \A t \in (s + 1)..g : /\ wsScript[t].op \notin {1, 2}
                                  /\ wsScript[t].fin => wsScript[t].op > 7

\* The frames of the open message whose payload is collected
Fragments(g, s) == IF s = 0 THEN {} ELSE Kept(s, g)

\* The fragments p collected after g frames
Collected(p, g, s) ==
    /\ IsSequence(p) /\ Len(p) <= g * WsMaxLen
    /\ Joins(p, Fragments(g, s))

\* What the application has been given when g frames are handled
Heard(got, g) ==
    /\ IsSequence(got) /\ Len(got) = Rank(Ends, g)
    /\ \A f \in Ends : f <= g => Delivered(got[Rank(Ends, f)], f)

\* The pongs sent when g frames are handled
Echoed(pongs, g) ==
    /\ IsSequence(pongs) /\ Len(pongs) = Rank(Pings, g)
    /\ \A f \in Pings : f <= g => Answers(pongs[Rank(Pings, f)], f)

\* The opcode of the open message
OpOpen(s) == IF s = 0 THEN 0 ELSE wsScript[s].op

\* g frames are handled and the next header is not decoded.
Between(g, s) ==
    /\ Rest(Unread \o wsLeft, wsScript, g, 0)
    /\ wsPc # "payload" /\ wsFrame = NoFrame /\ wsCont = OpOpen(s)
    /\ wsPc = "idle" /\ g < Len(wsScript) => Len(wsIn) < Len(ClientHeader(wsScript[g + 1]))

\* g frames are handled and the header of the next is decoded: fin, op and
\* wsCont are what DecodeHeader and HandlerHeader make of it.
InFrame(g, s) ==
    LET f == wsScript[g + 1]
        last == f.fin /\ f.op = 0
        first == ~f.fin /\ f.op # 0
    IN  /\ g < Len(wsScript)
        /\ IF f.len = 0 THEN Rest(Unread \o wsLeft, wsScript, g + 1, 0)
           ELSE Rest(Unread \o wsLeft, wsScript, g, Len(ClientHeader(f)))
        /\ wsPc # "header"
        /\ wsFrame = [fin |-> f.fin, op |-> IF last THEN OpOpen(s) ELSE f.op,
                      masked |-> f.masked, len |-> f.len]
        /\ wsCont = IF last THEN 0 ELSE IF first THEN f.op ELSE OpOpen(s)
        /\ wsPc = "idle" => Len(wsIn) < f.len

\* The client continues a message only while one is open (RFC 6455, 5.4).
Compliant ==
    \A k \in 1..Len(wsScript) :
        /\ wsScript[k].op = 0 => MessageOpen(k - 1)
        /\ wsScript[k].op \in 1..7 => ~MessageOpen(k - 1)

\* The connection is open: some frames are handled, a message may be open.
WSOpenState ==
    /\ wsIn \in Seq(WsByte) /\ wsLeft \in Seq(WsByte) /\ wsUsed \in 0..Len(wsIn)
    /\ wsPc \in {"idle", "header", "payload"}
    /\ wsPc = "idle" => wsUsed = 0
    /\ wsPc # "idle" => wsScript # << >>
    /\ wsReply = "101"
    /\ \E g \in 0..Len(wsScript) : \E s \in 0..g :
         /\ Within(g, s) /\ Collected(wsFrag, g, s) /\ Heard(wsGot, g) /\ Echoed(wsPongs, g)
         /\ Between(g, s) \/ InFrame(g, s)

\* The head of the request arrives, and has not ended.
WSHandshakeState ==
    /\ wsScript = << >> /\ wsLeft = << >> /\ wsUsed = 0 /\ wsPc = "idle"
    /\ wsFrame = NoFrame /\ wsCont = 0 /\ wsFrag = << >> /\ wsGot = << >> /\ wsPongs = << >>
    /\ wsReply = "none" /\ wsClean = TRUE
    /\ wsIn \in Seq(HtByte) /\ wsAsk \in Seq(HtByte)
    /\ wsIn \o wsAsk = HeadBytes(1, wsReq) /\ RStrStr(wsIn) = 0

\* The header last sent is that of a frame whose length fits.
HeaderSent ==
    /\ wsHeader.fin \in BOOLEAN /\ wsHeader.op \in 0..15 /\ (wsHeader.op > 2 => wsHeader.fin)
    /\ wsHeader.len \in Nat /\ wsHeader.len \div 65536 <= 65535
    /\ wsHeader.bytes = EncodeHeader([fin |-> wsHeader.fin, op |-> wsHeader.op, masked |-> FALSE],
                                     wsHeader.len)

\* What holds in every state of the connection
WSShape ==
    /\ wsScript \in Seq(WsFrames) /\ Compliant
    /\ Len(wsScript) + 2 * wsSends <= WsMaxFrames /\ wsSends \in Nat
    /\ wsReq \in WsRequests
    /\ wsSentClose \in BOOLEAN /\ wsCloses = (IF wsSentClose THEN 1 ELSE 0)
    /\ HeaderSent

\* The inductive invariant
WSInv ==
    /\ WSShape
    /\ wsState \in {"handshake", "open", "closed"}
    /\ wsState = "handshake" => WSHandshakeState
    /\ wsState = "open" => WSOpenState
    /\ wsState = "closed" => wsPc = "idle" /\ WSTypeOK /\ WSDelivered /\ WSEcho
    /\ WSOpened

-----------------------------------------------------------------------------
(* Sequences of bytes.                                                     *)

LEMMA Joined ==
  ASSUME NEW T, NEW a \in Seq(T), NEW b \in Seq(T)
  PROVE  /\ a \o b \in Seq(T) /\ Len(a \o b) = Len(a) + Len(b)
         /\ Len(a) \in Nat /\ Len(b) \in Nat
         /\ \A i \in 1..Len(a) : (a \o b)[i] = a[i]
         /\ \A i \in 1..Len(b) : (a \o b)[Len(a) + i] = b[i]
<1>1. Len(a) \in Nat /\ Len(b) \in Nat
  BY LenProperties
<1>2. /\ a \o b \in Seq(T) /\ Len(a \o b) = Len(a) + Len(b)
      /\ \A i \in 1..(Len(a) + Len(b)) : (a \o b)[i] = IF i <= Len(a) THEN a[i] ELSE b[i - Len(a)]
  BY ConcatProperties
<1>3. ASSUME NEW i \in 1..Len(a) PROVE (a \o b)[i] = a[i]
  BY <1>1, <1>2
<1>4. ASSUME NEW i \in 1..Len(b) PROVE (a \o b)[Len(a) + i] = b[i]
  <2>1. Len(a) + i \in 1..(Len(a) + Len(b)) /\ ~(Len(a) + i <= Len(a)) /\ (Len(a) + i) - Len(a) = i
    BY <1>1
  <2> QED
    BY <1>2, <2>1
<1> QED
  BY <1>1, <1>2, <1>3, <1>4

LEMMA BytesAssociative ==
  ASSUME NEW u \in Seq(WsByte), NEW v \in Seq(WsByte), NEW w \in Seq(WsByte)
  PROVE  v \o w \in Seq(WsByte) /\ u \o (v \o w) = (u \o v) \o w
<1>1. v \o w \in Seq(WsByte)
  BY ConcatProperties
<1>2. u \o (v \o w) = (u \o v) \o w
  BY ConcatAssociative, SMT
<1> QED
  BY <1>1, <1>2

\* Masking a masked byte once more gives the clear byte.
LEMMA Unmasked ==
  ASSUME NEW f \in Int, NEW i \in Int, NEW b, b = [f |-> f, i |-> i, x |-> TRUE]
  PROVE  [b EXCEPT !.x = ~@] = [f |-> f, i |-> i, x |-> FALSE]
<1>1. b.x = TRUE
  OBVIOUS
<1>2. (~ b.x) = FALSE
  BY <1>1
<1>3. [b EXCEPT !.x = ~@] = [b EXCEPT !.x = FALSE]
  BY ONLY <1>2
<1>4. PICK r : r = [b EXCEPT !.x = FALSE]
  OBVIOUS
<1>5. r \in [f : Int, i : Int, x : BOOLEAN]
  BY <1>4
<1>6. r.f = f /\ r.i = i /\ r.x = FALSE
  BY <1>4
<1>7. r = [f |-> r.f, i |-> r.i, x |-> r.x]
  BY ONLY <1>5
<1> QED
  BY ONLY <1>3, <1>4, <1>6, <1>7

LEMMA TwoBytes ==
  ASSUME NEW a \in Int, NEW b \in Int
  PROVE  <<a>> \o <<b>> = <<a, b>>
<1>1. PICK s, t, u : s = <<a>> /\ t = <<b>> /\ u = <<a, b>>
  OBVIOUS
<1>2. /\ s \in Seq(Int) /\ t \in Seq(Int) /\ u \in Seq(Int)
      /\ Len(s) = 1 /\ Len(t) = 1 /\ Len(u) = 2
      /\ s[1] = a /\ t[1] = b /\ u[1] = a /\ u[2] = b
  BY <1>1
<1>3. /\ s \o t \in Seq(Int) /\ Len(s \o t) = Len(s) + Len(t)
      /\ \A i \in 1..Len(s) : (s \o t)[i] = s[i]
      /\ \A i \in 1..Len(t) : (s \o t)[Len(s) + i] = t[i]
  <2>1. s \in Seq(Int) /\ t \in Seq(Int)
    BY <1>2
  <2> QED
    BY ONLY <2>1, Joined
<1>4. (s \o t)[1] = a
  BY ONLY <1>2, <1>3
<1>5. (s \o t)[2] = b
  <2>1. 1 \in 1..Len(t) /\ Len(s) + 1 = 2
    BY ONLY <1>2
  <2> QED
    BY ONLY <1>2, <1>3, <2>1
<1>6. Len(s \o t) = 2
  BY ONLY <1>2, <1>3
<1>7. ASSUME NEW i \in 1..2 PROVE (s \o t)[i] = u[i]
  <2>1. i = 1 \/ i = 2
    OBVIOUS
  <2> QED
    BY ONLY Zenon, <1>2, <1>4, <1>5, <2>1
<1>8. s \o t = u
  BY ONLY <1>2, <1>3, <1>6, <1>7, SeqEqual
<1> QED
  BY ONLY <1>1, <1>8

LEMMA TimesMonotone ==
  ASSUME NEW a \in Nat, NEW b \in Nat, a <= b, NEW n \in Nat
  PROVE  a * n <= b * n /\ a * n \in Nat /\ b * n \in Nat /\ (a + 1) * n = a * n + n
<1>1. PICK d \in Nat : b = a + d
  <2>1. b - a \in Nat /\ b = a + (b - a)
    OBVIOUS
  <2> QED
    BY <2>1
<1>2. b * n = a * n + d * n /\ d * n \in Nat /\ a * n \in Nat
  BY <1>1
<1>3. (a + 1) * n = a * n + n
  OBVIOUS
<1> HIDE <1>1
<1> QED
  BY <1>2, <1>3

-----------------------------------------------------------------------------
(* WSProtocol, the headers *)

Fits32(n) == n \in Nat /\ n \div 65536 <= 65535

LEMMA OctetsAre ==
  ASSUME NEW n \in Nat, Fits32(n)
  PROVE  /\ Octets(n, 0) = << >>
         /\ Octets(n, 2) = <<n \div 256, n % 256>>
         /\ Octets(n, 8) = <<0, 0, 0, 0, n \div 16777216, (n \div 65536) % 256, (n \div 256) % 256, n % 256>>
<1>1. /\ Octets(n, 0) = << >>
      /\ Octets(n, 2) = <<n \div 256, n % 256>>
      /\ Octets(n, 8) = <<0, 0, 0, 0, n \div 16777216, (n \div 65536) % 256, (n \div 256) % 256, n % 256>>
  BY DEF Octets
<1> QED
  BY <1>1

FourBytes(n) ==
    256 * (256 * (256 * (n \div 16777216) + ((n \div 65536) % 256)) + ((n \div 256) % 256)) + (n % 256)

LEMMA FourBytesAre ==
  ASSUME NEW n \in Nat
  PROVE  FourBytes(n) = n
  BY SMT DEF FourBytes

LEMMA OctetsSeq ==
  ASSUME NEW n \in Nat, NEW w \in {0, 2, 8}
  PROVE  Octets(n, w) \in Seq(Nat) /\ Len(Octets(n, w)) = w
<1>1. /\ n \div 256 \in Nat /\ n % 256 \in Nat /\ n \div 16777216 \in Nat
      /\ (n \div 65536) % 256 \in Nat /\ (n \div 256) % 256 \in Nat
  BY SMT
<1>2. CASE w = 0
  BY <1>2, SMT DEF Octets
<1>3. CASE w = 2
  BY <1>1, <1>3, SMT DEF Octets
<1>4. CASE w = 8
  BY <1>1, <1>4, SMT DEF Octets
<1> QED
  BY <1>2, <1>3, <1>4

\* What the client writes before the payload of its frame f
HeaderSize(f) == 2 + f.ext + (IF f.masked THEN 4 ELSE 0)

LEMMA HeaderIs ==
  ASSUME NEW f, IsFrame(f), Fits32(f.len)
  PROVE  LET h == ClientHeader(f) IN
         /\ h \in Seq(Nat) /\ Len(h) = HeaderSize(f) /\ Len(h) \in Nat /\ Len(h) >= 2
         /\ h[1] = Bit(f.fin) + f.op
         /\ h[2] = Bit(f.masked) + (IF f.ext = 0 THEN f.len ELSE IF f.ext = 2 THEN 126 ELSE 127)
         /\ \A i \in 1..f.ext : h[2 + i] = Octets(f.len, f.ext)[i]
<1> DEFINE a == <<Bit(f.fin) + f.op,
                  Bit(f.masked) + (IF f.ext = 0 THEN f.len ELSE IF f.ext = 2 THEN 126 ELSE 127)>>
           o == Octets(f.len, f.ext)
           k == IF f.masked THEN <<1, 2, 3, 4>> ELSE << >>
<1>1. f.ext \in {0, 2, 8} /\ f.len \in Nat /\ f.op \in 0..15 /\ f.fin \in BOOLEAN /\ f.masked \in BOOLEAN
  BY DEF IsFrame
<1>2. o \in Seq(Nat) /\ Len(o) = f.ext
  BY <1>1, OctetsSeq
<1>3. k \in Seq(Nat) /\ Len(k) = IF f.masked THEN 4 ELSE 0
  OBVIOUS
<1>4. /\ a \in Seq(Nat) /\ Len(a) = 2 /\ a[1] = Bit(f.fin) + f.op
      /\ a[2] = Bit(f.masked) + (IF f.ext = 0 THEN f.len ELSE IF f.ext = 2 THEN 126 ELSE 127)
  BY <1>1 DEF Bit
<1>5. ClientHeader(f) = (a \o o) \o k
  BY DEF ClientHeader
<1> HIDE DEF a, o, k
<1>6. /\ a \o o \in Seq(Nat) /\ Len(a \o o) = 2 + f.ext
      /\ (a \o o)[1] = a[1] /\ (a \o o)[2] = a[2]
      /\ \A i \in 1..f.ext : (a \o o)[2 + i] = o[i]
  <2>1. /\ a \o o \in Seq(Nat) /\ Len(a \o o) = Len(a) + Len(o)
        /\ \A i \in 1..Len(a) : (a \o o)[i] = a[i]
        /\ \A i \in 1..Len(o) : (a \o o)[Len(a) + i] = o[i]
    <3>1. a \in Seq(Nat) /\ o \in Seq(Nat)
      BY <1>2, <1>4
    <3> QED
      BY ONLY <3>1, Joined
  <2>2. Len(a) = 2 /\ Len(o) = f.ext
    BY <1>2, <1>4
  <2>3. Len(a \o o) = 2 + f.ext /\ \A i \in 1..f.ext : (a \o o)[2 + i] = o[i]
    BY ONLY <2>1, <2>2
  <2>4. (a \o o)[1] = a[1] /\ (a \o o)[2] = a[2]
    BY ONLY <2>1, <2>2
  <2> QED
    BY ONLY Zenon, <2>1, <2>3, <2>4
<1> DEFINE ao == a \o o
<1> HIDE DEF ao
<1>7. /\ ao \o k \in Seq(Nat) /\ Len(ao \o k) = HeaderSize(f)
      /\ \A i \in 1..(2 + f.ext) : (ao \o k)[i] = ao[i]
  <2>1. /\ ao \o k \in Seq(Nat) /\ Len(ao \o k) = Len(ao) + Len(k)
        /\ \A i \in 1..Len(ao) : (ao \o k)[i] = ao[i]
    <3>1. ao \in Seq(Nat)
      BY <1>6 DEF ao
    <3> QED
      BY <1>3, <3>1, Joined
  <2> QED
    BY <1>1, <1>3, <1>6, <2>1 DEF HeaderSize, ao
<1>8. /\ ao[1] = a[1] /\ ao[2] = a[2] /\ \A i \in 1..f.ext : ao[2 + i] = o[i]
      /\ ClientHeader(f) = ao \o k
  BY <1>5, <1>6 DEF ao
<1> HIDE DEF ao
<1> DEFINE h == ao \o k
<1>9. /\ h \in Seq(Nat) /\ Len(h) = HeaderSize(f)
      /\ \A i \in 1..(2 + f.ext) : h[i] = ao[i]
  BY <1>7
<1> HIDE DEF h
<1>10. h[1] = a[1] /\ h[2] = a[2] /\ \A i \in 1..f.ext : h[2 + i] = o[i]
  <2>1. 1 \in 1..(2 + f.ext) /\ 2 \in 1..(2 + f.ext)
    BY <1>1
  <2>2. ASSUME NEW i \in 1..f.ext PROVE 2 + i \in 1..(2 + f.ext)
    BY <1>1
  <2> QED
    BY <1>8, <1>9, <2>1, <2>2
<1>11. HeaderSize(f) \in Nat /\ HeaderSize(f) >= 2
  BY <1>1 DEF HeaderSize
<1> QED
  BY <1>4, <1>8, <1>9, <1>10, <1>11 DEF h, o

\* The decoder reads the client's header back, and waits while some of it is
\* missing.
LEMMA DecodeClient ==
  ASSUME NEW f, IsFrame(f), Fits32(f.len), NEW v, Len(v) \in Nat,
         \A k \in 1..Len(v) : k <= HeaderSize(f) => v[k] = ClientHeader(f)[k]
  PROVE  DecodeHeader(v) =
           IF Len(v) < HeaderSize(f) THEN NeedMore
           ELSE [size  |-> HeaderSize(f),
                 frame |-> [fin |-> f.fin, op |-> f.op, masked |-> f.masked, len |-> f.len]]
<1> DEFINE h == ClientHeader(f)
           n == HeaderSize(f)
           l7  == v[2] % 128
           ext == IF l7 = 126 THEN 2 ELSE IF l7 = 127 THEN 8 ELSE 0
           key == IF v[2] >= 128 THEN 4 ELSE 0
<1>0. f.ext \in {0, 2, 8} /\ f.len \in Nat /\ f.op \in 0..15 /\ f.fin \in BOOLEAN /\ f.masked \in BOOLEAN
  BY DEF IsFrame
<1>1. /\ n >= 2 /\ n \in Nat
      /\ h[1] = Bit(f.fin) + f.op
      /\ h[2] = Bit(f.masked) + (IF f.ext = 0 THEN f.len ELSE IF f.ext = 2 THEN 126 ELSE 127)
      /\ \A i \in 1..f.ext : h[2 + i] = Octets(f.len, f.ext)[i]
  BY HeaderIs
<1>2. \A k \in 1..Len(v) : k <= n => v[k] = h[k]
  OBVIOUS
<1>3. CASE Len(v) < 2
  BY <1>1, <1>3 DEF DecodeHeader
<1>4. CASE Len(v) >= 2
  <2> HIDE DEF h
  <2>1. v[1] = h[1] /\ v[2] = h[2]
    <3>1. 1 \in 1..Len(v) /\ 2 \in 1..Len(v) /\ 1 <= n /\ 2 <= n
      BY <1>1, <1>4
    <3> QED
      BY <1>2, <3>1
  <2>2. /\ v[1] >= 128 <=> f.fin
        /\ v[1] % 16 = f.op
    <3>1. f.op \in 0..15 /\ v[1] = (IF f.fin THEN 128 ELSE 0) + f.op
      BY <1>0, <1>1, <2>1 DEF Bit
    <3>2. PICK a, o : a = v[1] /\ o = f.op
      OBVIOUS
    <3>3. o \in 0..15 /\ a = (IF f.fin THEN 128 ELSE 0) + o
      BY ONLY <3>1, <3>2
    <3>4. CASE f.fin
      <4>1. a = 128 + o
        BY <3>3, <3>4
      <4>2. a >= 128 /\ a % 16 = o
        BY ONLY <3>3, <4>1
      <4> QED
        BY <3>2, <3>4, <4>2
    <3>5. CASE ~f.fin
      <4>1. a = o
        BY <3>3, <3>5
      <4>2. ~ (a >= 128) /\ a % 16 = o
        BY ONLY <3>3, <4>1
      <4> QED
        BY <3>2, <3>5, <4>2
    <3> QED
      BY <3>4, <3>5
  <2>3. f.ext = 0 => f.len <= 125
    BY DEF IsFrame
  <2>4. ext = f.ext /\ key = (IF f.masked THEN 4 ELSE 0) /\ (f.ext = 0 => l7 = f.len)
    <3>1. v[2] = (IF f.masked THEN 128 ELSE 0) + (IF f.ext = 0 THEN f.len ELSE IF f.ext = 2 THEN 126 ELSE 127)
      BY <1>0, <1>1, <2>1 DEF Bit
    <3>2. PICK d \in 0..127 : /\ v[2] = (IF f.masked THEN 128 ELSE 0) + d
                              /\ d = IF f.ext = 0 THEN f.len ELSE IF f.ext = 2 THEN 126 ELSE 127
      <4> DEFINE d == IF f.ext = 0 THEN f.len ELSE IF f.ext = 2 THEN 126 ELSE 127
      <4>1. d \in 0..127
        <5>1. CASE f.ext = 0
          <6>1. f.len <= 125 /\ f.len \in Nat
            BY <1>0, <2>3, <5>1
          <6>2. d = f.len
            BY <5>1
          <6> QED
            BY ONLY <6>1, <6>2, SMT
        <5>2. CASE f.ext # 0
          BY <1>0, <5>2
        <5> QED
          BY <5>1, <5>2
      <4>2. v[2] = (IF f.masked THEN 128 ELSE 0) + d
        BY <3>1
      <4>3. d = IF f.ext = 0 THEN f.len ELSE IF f.ext = 2 THEN 126 ELSE 127
        OBVIOUS
      <4> HIDE DEF d
      <4> QED
        BY ONLY <4>1, <4>2, <4>3
    <3>3. l7 = d /\ (v[2] >= 128 <=> f.masked)
      <4>1. CASE f.masked
        <5>1. v[2] = 128 + d
          BY <3>2, <4>1
        <5>2. (128 + d) % 128 = d /\ 128 + d >= 128
          OBVIOUS
        <5> QED
          BY <4>1, <5>1, <5>2
      <4>2. CASE ~f.masked
        <5>1. v[2] = d
          BY <3>2, <4>2
        <5>2. d % 128 = d /\ ~(d >= 128)
          OBVIOUS
        <5> QED
          BY <4>2, <5>1, <5>2
      <4> QED
        BY <4>1, <4>2
    <3>4. key = IF f.masked THEN 4 ELSE 0
      BY <3>3
    <3> HIDE DEF l7, key
    <3> QED
      BY <1>0, <2>3, <3>2, <3>3, <3>4
  <2>5. 2 + ext + key = n /\ (key = 4 <=> f.masked)
    BY <1>0, <2>4 DEF HeaderSize
  <2>6. ASSUME Len(v) >= n, f.ext # 0
        PROVE  BigEndian(SubSeq(v, 3, 2 + f.ext)) = f.len
    <3> DEFINE w == SubSeq(v, 3, 2 + f.ext)
    <3>1. 2 + f.ext <= n
      BY <1>0 DEF HeaderSize
    <3>2. Len(w) = f.ext /\ \A i \in 1..f.ext : w[i] = v[2 + i]
      BY <1>0, <1>1, <2>6, <3>1
    <3> HIDE DEF w
    <3>3. \A i \in 1..f.ext : w[i] = Octets(f.len, f.ext)[i]
      <4> TAKE i \in 1..f.ext
      <4>1. 2 + i \in 1..Len(v) /\ 2 + i <= n
        BY <1>0, <1>1, <2>6, <3>1
      <4> QED
        BY <1>1, <1>2, <3>2, <4>1
    <3>4. CASE f.ext = 2
      <4>1. w[1] = f.len \div 256 /\ w[2] = f.len % 256
        BY <3>3, <3>4, <1>0, OctetsAre, SMT
      <4>2. f.len <= 65535
        BY <3>4, SMT DEF IsFrame
      <4>3. 256 * (f.len \div 256) + (f.len % 256) = f.len
        BY <1>0, SMT
      <4> QED
        BY <3>2, <3>4, <4>1, <4>3 DEF BigEndian, w
    <3>5. CASE f.ext = 8
      <4>1. Octets(f.len, 8) = <<0, 0, 0, 0, f.len \div 16777216, (f.len \div 65536) % 256, (f.len \div 256) % 256, f.len % 256>>
        BY <1>0, SMT DEF Octets
      <4>2. /\ w[1] = 0 /\ w[2] = 0 /\ w[3] = 0 /\ w[4] = 0 /\ w[5] = f.len \div 16777216
            /\ w[6] = (f.len \div 65536) % 256 /\ w[7] = (f.len \div 256) % 256 /\ w[8] = f.len % 256
        BY <3>3, <3>5, <4>1, SMT
      <4>3. 256 * (256 * (256 * (f.len \div 16777216) + ((f.len \div 65536) % 256)) + ((f.len \div 256) % 256)) + (f.len % 256) = f.len
        <5> DEFINE l == f.len
        <5>1. l \in Nat
          BY <1>0
        <5> HIDE DEF l
        <5>2. FourBytes(l) = l
          BY <5>1, FourBytesAre
        <5> QED
          BY <5>2, SMT DEF FourBytes, l
      <4>4. BigEndian(w) = 256 * (256 * (256 * w[5] + w[6]) + w[7]) + w[8]
        <5>1. w[5] \in Int
          BY <1>0, <4>2, SMT
        <5>2. Len(w) # 2
          BY <3>2, <3>5
        <5>3. BigEndian(w) = 256 * (256 * (256 * (256 * (256 * (256 * (256 * w[1] + w[2]) + w[3]) + w[4]) + w[5])
                       + w[6]) + w[7]) + w[8]
          BY <5>2 DEF BigEndian
        <5>4. 256 * (256 * (256 * (256 * w[1] + w[2]) + w[3]) + w[4]) + w[5] = w[5]
          BY <4>2, <5>1
        <5> QED
          BY <5>3, <5>4
      <4> QED
        <5>1. BigEndian(w) = f.len
          BY <4>2, <4>3, <4>4
        <5> QED
          BY <3>5, <5>1 DEF w
    <3> QED
      BY <1>0, <2>6, <3>4, <3>5
  <2> HIDE DEF ext, key, l7
  <2>7. DecodeHeader(v) =
          IF Len(v) < n THEN NeedMore
          ELSE [size  |-> n,
                frame |-> [fin |-> v[1] >= 128, op |-> v[1] % 16, masked |-> key = 4,
                           len |-> IF ext = 0 THEN l7 ELSE BigEndian(SubSeq(v, 3, 2 + ext))]]
    <3>1. ~(Len(v) < 2)
      BY <1>4
    <3>2. DecodeHeader(v) =
          IF Len(v) < 2 THEN NeedMore
          ELSE IF Len(v) < 2 + ext + key THEN NeedMore
          ELSE [size  |-> 2 + ext + key,
                frame |-> [fin |-> v[1] >= 128, op |-> v[1] % 16, masked |-> key = 4,
                           len |-> IF ext = 0 THEN l7 ELSE BigEndian(SubSeq(v, 3, 2 + ext))]]
      BY Zenon DEF DecodeHeader, ext, key, l7
    <3> QED
      BY <2>5, <3>1, <3>2
  <2>8. CASE Len(v) < n
    BY <2>7, <2>8
  <2>9. CASE ~(Len(v) < n)
    <3>1. Len(v) >= n
      BY <1>1, <2>9
    <3>2. (IF ext = 0 THEN l7 ELSE BigEndian(SubSeq(v, 3, 2 + ext))) = f.len
      BY <2>4, <2>6, <3>1
    <3>3. (v[1] >= 128) = f.fin /\ (key = 4) = f.masked
      BY <1>0, <2>2, <2>5
    <3> QED
      BY <2>2, <2>7, <2>9, <3>2, <3>3
  <2> QED
    BY <2>8, <2>9
<1> QED
  BY <1>3, <1>4

\* SendWS writes what the decoder reads.
LEMMA DecodeServer ==
  ASSUME NEW fin \in BOOLEAN, NEW op \in 0..15, NEW len \in Nat, Fits32(len), op > 2 => fin
  PROVE  LET b == EncodeHeader([fin |-> fin, op |-> op, masked |-> FALSE], len) IN
         DecodeHeader(b) = [size  |-> Len(b),
                            frame |-> [fin |-> fin, op |-> op, masked |-> FALSE, len |-> len]]
<1> DEFINE f == [fin |-> fin, op |-> op, masked |-> FALSE, len |-> len,
                 ext |-> IF len <= 125 THEN 0 ELSE IF len <= 65535 THEN 2 ELSE 8]
           b == EncodeHeader([fin |-> fin, op |-> op, masked |-> FALSE], len)
<1> DEFINE x == Bit(fin) + op
           y == IF len <= 125 THEN len ELSE IF len <= 65535 THEN 126 ELSE 127
           o == Octets(len, f.ext)
<1>1. /\ f.fin = fin /\ f.op = op /\ f.masked = FALSE /\ f.len = len
      /\ f.ext = (IF len <= 125 THEN 0 ELSE IF len <= 65535 THEN 2 ELSE 8)
  OBVIOUS
<1>0. [fin |-> f.fin, op |-> f.op, masked |-> f.masked, len |-> f.len]
      = [fin |-> fin, op |-> op, masked |-> FALSE, len |-> len]
  OBVIOUS
<1>2. IsFrame(f)
  <2>1. f.ext \in {0, 2, 8}
    BY SMT
  <2>2. f \in [fin : BOOLEAN, op : 0..15, len : Nat, ext : {0, 2, 8}, masked : BOOLEAN]
    BY <2>1
  <2>3. (f.ext = 0 => f.len <= 125) /\ (f.ext = 2 => f.len <= 65535)
    BY <1>1, SMT
  <2> QED
    BY <1>1, <2>2, <2>3, SMT DEF IsFrame
<1>3. o \in Seq(Nat) /\ x \in Nat /\ y \in Nat
  <2>1. o \in Seq(Nat)
    BY <1>1, OctetsSeq, SMT
  <2> QED
    BY <2>1, SMT DEF Bit
<1>4. ClientHeader(f) = <<x, y>> \o o \o << >>
  BY <1>1, SMT DEF ClientHeader, Bit
<1>5. b = <<x>> \o (IF len <= 125 THEN <<y>> ELSE <<y>> \o o)
  BY <1>1, SMT DEF EncodeHeader, Bit
<1>6. len <= 125 => o = << >>
  BY <1>1, SMT DEF Octets
<1> HIDE DEF x, y, o, f, b
<1>7. <<x>> \in Seq(Nat) /\ <<y>> \in Seq(Nat) /\ <<x, y>> \in Seq(Nat) /\ <<x>> \o <<y>> = <<x, y>>
  <2>1. <<x>> \in Seq(Nat) /\ <<y>> \in Seq(Nat) /\ <<x, y>> \in Seq(Nat)
    BY <1>3
  <2> DEFINE s == <<x>>
             t == <<y>>
             u == <<x, y>>
  <2>2. Len(s) = 1 /\ Len(t) = 1 /\ s[1] = x /\ t[1] = y /\ Len(u) = 2 /\ u[1] = x /\ u[2] = y
    OBVIOUS
  <2>3. s \in Seq(Nat) /\ t \in Seq(Nat) /\ u \in Seq(Nat)
    BY <2>1
  <2> HIDE DEF s, t, u
  <2>4. /\ s \o t \in Seq(Nat) /\ Len(s \o t) = Len(s) + Len(t)
        /\ \A i \in 1..Len(s) : (s \o t)[i] = s[i]
        /\ \A i \in 1..Len(t) : (s \o t)[Len(s) + i] = t[i]
    BY <2>3, Joined
  <2>5. Len(s \o t) = 2 /\ (s \o t)[1] = x /\ (s \o t)[2] = y
    <3>1. 1 \in 1..1 /\ 1 + 1 = 2
      OBVIOUS
    <3> QED
      BY <2>2, <2>4, <3>1
  <2>6. s \o t = u
    <3> DEFINE z == s \o t
    <3>1. z[1] = u[1] /\ z[2] = u[2] /\ Len(z) = 2
      BY <2>2, <2>5
    <3> HIDE DEF z
    <3>2. \A i \in 1..2 : i = 1 \/ i = 2
      OBVIOUS
    <3>3. \A i \in 1..Len(z) : z[i] = u[i]
      BY <3>1, <3>2
    <3>4. z \in Seq(Nat)
      BY <2>4 DEF z
    <3>5. z = u
      BY <2>2, <2>3, <3>1, <3>3, <3>4, SeqEqual
    <3> QED
      BY <3>5 DEF z
  <2>7. <<x>> \o <<y>> = <<x, y>>
    BY <2>6 DEF s, t, u
  <2> QED
    BY <2>1, <2>7
<1>8. <<x>> \o (<<y>> \o o) = <<x, y>> \o o
  <2>1. <<x>> \o (<<y>> \o o) = (<<x>> \o <<y>>) \o o
    BY <1>3, <1>7, ConcatAssociative
  <2> QED
    BY <1>7, <2>1
<1>9. /\ <<y>> \o << >> = <<y>>
      /\ <<x, y>> \o o \o << >> = <<x, y>> \o o
  <2>1. <<x, y>> \o o \in Seq(Nat)
    BY <1>3, <1>7, Joined
  <2> QED
    BY <1>7, <2>1, ConcatEmptySeq
<1>10. b = ClientHeader(f)
  BY <1>4, <1>5, <1>6, <1>8, <1>9
<1>11. b \in Seq(Nat) /\ Len(b) = HeaderSize(f) /\ Len(b) \in Nat
  BY <1>1, <1>2, <1>10, HeaderIs
<1>12. DecodeHeader(b) =
         IF Len(b) < HeaderSize(f) THEN NeedMore
         ELSE [size  |-> HeaderSize(f),
               frame |-> [fin |-> f.fin, op |-> f.op, masked |-> f.masked, len |-> f.len]]
  BY <1>1, <1>2, <1>10, <1>11, DecodeClient
<1>13. DecodeHeader(b) = [size  |-> Len(b),
                          frame |-> [fin |-> fin, op |-> op, masked |-> FALSE, len |-> len]]
  <2>1. ~(Len(b) < HeaderSize(f))
    BY <1>11
  <2> QED
    BY <1>0, <1>11, <1>12, <2>1, Zenon
<1> QED
  BY <1>13, Zenon DEF b

-----------------------------------------------------------------------------
(* WSProtocol, the bytes of the client *)

LEMMA AfterIs ==
  ASSUME NEW T, NEW s \in Seq(T), NEW c \in 0..Len(s)
  PROVE  /\ After(s, c) \in Seq(T) /\ Len(After(s, c)) = Len(s) - c
         /\ \A i \in 1..(Len(s) - c) : After(s, c)[i] = s[c + i]
<1>1. Len(s) \in Nat /\ \A i \in 1..Len(s) : s[i] \in T
  BY LenProperties, ElementOfSeq
<1>2. \A i \in (c + 1)..Len(s) : s[i] \in T
  BY <1>1
<1>3. c + 1 \in Int /\ Len(s) \in Int
  BY <1>1
<1>4. SubSeq(s, c + 1, Len(s)) \in Seq(T)
  BY <1>2, <1>3, SubSeqProperties
<1>5. /\ Len(SubSeq(s, c + 1, Len(s))) = Len(s) - c
      /\ \A i \in 1..(Len(s) - c) : SubSeq(s, c + 1, Len(s))[i] = s[c + i]
  BY <1>1
<1> QED
  BY <1>4, <1>5 DEF After

\* A header is two bytes at least, and so is a frame.
Sized(script) ==
    /\ Len(script) \in Nat
    /\ \A k \in 1..Len(script) : FrameLen(script[k]) \in Nat /\ FrameLen(script[k]) >= 2

\* The next bytes are the rest of frame g + 1.
LEMMA RestFirst ==
  ASSUME NEW s, NEW script, NEW g, NEW o, Sized(script), Rest(s, script, g, o), g < Len(script)
  PROVE  /\ Len(s) \in Nat /\ FrameLen(script[g + 1]) - o \in 1..Len(s)
         /\ \A i \in 1..(FrameLen(script[g + 1]) - o) :
              s[i].f = g + 1 /\ s[i].i = o + i /\ s[i] = ByteAt(g + 1, o + i, script[g + 1])
<1> DEFINE fl == FrameLen(script[g + 1])
           n == Len(script)
           Good(i) == i <= Len(s) /\ s[i].f = g + 1 /\ s[i].i = o + i
           Bad == {i \in 1..(fl - o) : ~Good(i)}
<1>0. n \in Nat /\ g \in Nat /\ g + 1 \in 1..n
  BY DEF Rest, Sized
<1>1. fl \in Nat /\ o \in Nat /\ o < fl /\ fl >= 2
  <2>1. g # n
    BY <1>0
  <2> QED
    BY <1>0, <2>1 DEF Rest, Sized
<1>2. /\ Len(s) \in Nat /\ s # << >> /\ s[1].f = g + 1 /\ s[1].i = o + 1 /\ Len(s) >= 1
      /\ s[Len(s)].f = n /\ s[Len(s)].i = FrameLen(script[n])
  <2>1. s # << >> /\ s \in Seq(WsByte)
    BY <1>0 DEF Rest
  <2>2. Len(s) \in Nat /\ Len(s) # 0
    BY <2>1, LenProperties, EmptySeq
  <2> QED
    BY <2>1, <2>2 DEF Rest
<1>3. \A k \in 1..(Len(s) - 1) : Follows(s[k + 1], s[k], script)
  BY DEF Rest
<1> HIDE DEF fl, n
<1>4. ASSUME Bad # {} PROVE FALSE
  <2>1. Bad \in SUBSET Nat
    BY <1>1
  <2>2. PICK k \in Bad : \A i \in Bad : k <= i
    BY <1>4, <2>1, LeastNumber
  <2>3. k \in 1..(fl - o) /\ ~Good(k)
    OBVIOUS
  <2>4. k # 1
    BY <1>2, <2>3
  <2>5. k - 1 \in 1..(fl - o) /\ k \in Nat
    BY <1>1, <2>3, <2>4
  <2>6. Good(k - 1)
    <3>1. ~(k <= k - 1)
      BY <2>5
    <3> QED
      BY <2>2, <2>5, <3>1
  <2>7. s[k - 1].f = g + 1 /\ s[k - 1].i = o + (k - 1) /\ k - 1 <= Len(s)
    BY <2>6
  <2>8. o + (k - 1) < fl
    BY <1>1, <2>3
  <2>9. k - 1 # Len(s)
    <3>1. ASSUME k - 1 = Len(s) PROVE FALSE
      <4>1. g + 1 = n /\ o + (k - 1) = FrameLen(script[n])
        BY <1>2, <2>7, <3>1
      <4> QED
        BY <1>1, <2>8, <4>1 DEF fl
    <3> QED
      BY <3>1
  <2>10. k - 1 \in 1..(Len(s) - 1) /\ (k - 1) + 1 = k /\ k <= Len(s)
    BY <1>2, <2>5, <2>7, <2>9
  <2>11. Follows(s[k], s[k - 1], script)
    BY <1>3, <2>10
  <2>12. s[k].f = g + 1 /\ s[k].i = (o + (k - 1)) + 1
    <3>1. s[k - 1].i # FrameLen(script[s[k - 1].f])
      BY <1>1, <2>3, <2>7, <2>8 DEF fl
    <3> QED
      BY <2>7, <2>11, <3>1 DEF Follows
  <2>13. (o + (k - 1)) + 1 = o + k
    BY <1>1, <2>5
  <2> QED
    BY <2>3, <2>10, <2>12, <2>13
<1>5. \A i \in 1..(fl - o) : i <= Len(s) /\ s[i].f = g + 1 /\ s[i].i = o + i
  BY <1>4
<1>6. fl - o \in 1..(fl - o) /\ fl - o \in 1..Len(s)
  <2>1. fl - o \in 1..(fl - o)
    BY <1>1
  <2> QED
    BY <1>1, <1>2, <1>5, <2>1
<1>7. ASSUME NEW i \in 1..(fl - o) PROVE s[i] = ByteAt(g + 1, o + i, script[g + 1])
  <2>1. i \in 1..Len(s)
    BY <1>1, <1>2, <1>5
  <2>2. IsByte(s[i], script)
    BY <2>1 DEF Rest
  <2> QED
    BY <1>5, <2>2 DEF IsByte
<1> QED
  BY <1>2, <1>5, <1>6, <1>7 DEF fl

\* The protocol has used c of them.
LEMMA RestDrop ==
  ASSUME NEW s, NEW script, NEW g, NEW o, Sized(script), Rest(s, script, g, o), g < Len(script),
         NEW c \in 1..(FrameLen(script[g + 1]) - o)
  PROVE  IF o + c = FrameLen(script[g + 1]) THEN Rest(After(s, c), script, g + 1, 0)
         ELSE Rest(After(s, c), script, g, o + c)
<1> DEFINE fl == FrameLen(script[g + 1])
           n == Len(script)
           r == After(s, c)
           m == Len(s) - c
<1>0. n \in Nat /\ g \in Nat /\ g + 1 \in 1..n
  BY DEF Rest, Sized
<1>1. fl \in Nat /\ o \in Nat /\ o < fl /\ fl >= 2
  <2>1. g # n
    BY <1>0
  <2> QED
    BY <1>0, <2>1 DEF Rest, Sized
<1>2. /\ Len(s) \in Nat /\ fl - o \in 1..Len(s)
      /\ \A i \in 1..(fl - o) : s[i].f = g + 1 /\ s[i].i = o + i
  BY RestFirst
<1>3. /\ s \in Seq(WsByte) /\ \A k \in 1..Len(s) : IsByte(s[k], script)
      /\ s # << >> => s[Len(s)].f = n /\ s[Len(s)].i = FrameLen(script[n])
      /\ \A k \in 1..(Len(s) - 1) : Follows(s[k + 1], s[k], script)
  BY DEF Rest
<1>4. s # << >>
  BY <1>2, SMT
<1>5. c \in 0..Len(s) /\ c \in 1..(fl - o) /\ c \in 1..Len(s)
  BY <1>1, <1>2
<1>6. /\ r \in Seq(WsByte) /\ Len(r) = m /\ \A i \in 1..m : r[i] = s[c + i]
  BY <1>3, <1>5, AfterIs
<1>7. s[c].f = g + 1 /\ s[c].i = o + c
  BY <1>2, <1>5
<1>8. m \in Nat
  BY <1>2, <1>5
<1>9. \A k \in 1..m : IsByte(r[k], script)
  <2> TAKE k \in 1..m
  <2>1. c + k \in 1..Len(s)
    BY <1>2, <1>5
  <2> QED
    BY <1>3, <1>6, <2>1
<1>10. \A k \in 1..(m - 1) : Follows(r[k + 1], r[k], script)
  <2> TAKE k \in 1..(m - 1)
  <2>1. c + k \in 1..(Len(s) - 1) /\ (c + k) + 1 = c + (k + 1) /\ k \in 1..m /\ k + 1 \in 1..m
    <3> DEFINE l == Len(s)
    <3>1. l \in Nat /\ c \in 1..l /\ k \in 1..((l - c) - 1)
      BY <1>2, <1>5
    <3> HIDE DEF l
    <3>2. c + k \in 1..(l - 1) /\ (c + k) + 1 = c + (k + 1) /\ k \in 1..(l - c) /\ k + 1 \in 1..(l - c)
      BY ONLY <3>1, SMT
    <3> QED
      BY <3>2 DEF l
  <2>2. Follows(s[(c + k) + 1], s[c + k], script)
    BY <1>3, <2>1
  <2>3. r[k] = s[c + k] /\ r[k + 1] = s[c + (k + 1)]
    BY <1>6, <2>1
  <2> QED
    BY ONLY <2>1, <2>2, <2>3
<1>11. r = << >> <=> m = 0
  BY <1>6, EmptySeq
<1>12. m = 0 => g + 1 = n /\ o + c = fl
  <2> SUFFICES ASSUME m = 0 PROVE g + 1 = n /\ o + c = fl
    OBVIOUS
  <2>1. c = Len(s)
    <3>1. Len(s) - c = 0 /\ Len(s) \in Nat /\ c \in 1..Len(s)
      BY <1>2, <1>5
    <3> QED
      BY ONLY <3>1, SMT
  <2>2. g + 1 = n /\ o + c = FrameLen(script[n])
    BY <1>3, <1>4, <1>7, <2>1
  <2> QED
    BY <2>2
<1>13. m # 0 => /\ r[m].f = n /\ r[m].i = FrameLen(script[n])
                /\ r[1] = s[c + 1] /\ Follows(s[c + 1], s[c], script)
  <2> SUFFICES ASSUME m # 0
               PROVE  /\ r[m].f = n /\ r[m].i = FrameLen(script[n])
                      /\ r[1] = s[c + 1] /\ Follows(s[c + 1], s[c], script)
    OBVIOUS
  <2>1. m \in 1..m /\ 1 \in 1..m /\ c + m = Len(s) /\ c \in 1..(Len(s) - 1)
    BY <1>2, <1>5, <1>8
  <2>2. r[m] = s[Len(s)] /\ r[1] = s[c + 1]
    BY <1>6, <2>1
  <2>3. Follows(s[c + 1], s[c], script)
    BY <1>3, <2>1
  <2> QED
    BY <1>3, <1>4, <2>2, <2>3
<1> HIDE DEF fl, n, r, m
<1>14. CASE o + c = fl
  <2>1. m # 0 => g + 1 < n /\ r[1].f = (g + 1) + 1 /\ r[1].i = 0 + 1
    <3> SUFFICES ASSUME m # 0 PROVE g + 1 < n /\ r[1].f = (g + 1) + 1 /\ r[1].i = 0 + 1
      OBVIOUS
    <3>1. r[1].f = (g + 1) + 1 /\ r[1].i = 1
      BY <1>7, <1>13, <1>14 DEF Follows, fl
    <3>2. 1 \in 1..m
      BY <1>8
    <3>3. r[1].f \in 1..n
      BY <1>9, <3>2 DEF IsByte, n
    <3> QED
      BY <1>0, <3>1, <3>3
  <2>2. g + 1 = n => m = 0
    BY <1>0, <2>1
  <2>3. g + 1 < n => 0 < FrameLen(script[(g + 1) + 1])
    BY <1>0 DEF Sized, n
  <2>4. Rest(r, script, g + 1, 0)
    <3>1. g + 1 \in 0..n /\ 0 \in Nat /\ (g + 1 # n => g + 1 < n)
      BY <1>0
    <3>2. r = << >> <=> g + 1 = n
      BY <1>11, <1>12, <2>2
    <3> QED
      BY <1>6, <1>9, <1>10, <1>11, <1>13, <2>1, <2>3, <3>1, <3>2 DEF Rest, n
  <2> QED
    BY <1>14, <2>4 DEF fl, r
<1>15. CASE o + c # fl
  <2>1. o + c < fl /\ o + c \in Nat
    BY <1>1, <1>5, <1>15
  <2>2. m # 0
    BY <1>12, <1>15
  <2>3. r[1].f = g + 1 /\ r[1].i = (o + c) + 1
    BY <1>7, <1>13, <1>15, <2>2 DEF Follows, fl
  <2>4. Rest(r, script, g, o + c)
    <3>1. g \in 0..n /\ g # n
      BY <1>0
    <3>2. r # << >>
      BY <1>11, <2>2
    <3> QED
      BY <1>6, <1>9, <1>10, <1>13, <2>1, <2>2, <2>3, <3>1, <3>2 DEF Rest, n, fl
  <2> QED
    BY <1>15, <2>4 DEF fl, r
<1> QED
  BY <1>14, <1>15

\* The client's next frame comes after what it has sent.
LEMMA FrameBytesAre ==
  ASSUME NEW f \in Nat, NEW frame, IsFrame(frame), Fits32(frame.len)
  PROVE  LET b == FrameBytes(f, frame) IN
         /\ b \in Seq(WsByte) /\ Len(b) = FrameLen(frame)
         /\ FrameLen(frame) \in Nat /\ FrameLen(frame) >= 2
         /\ \A i \in 1..FrameLen(frame) :
              b[i] = ByteAt(f, i, frame) /\ b[i].f = f /\ b[i].i = i
<1> DEFINE n == FrameLen(frame)
           b == FrameBytes(f, frame)
<1>1. n \in Nat /\ n >= 2
  <2>1. /\ Len(ClientHeader(frame)) \in Nat /\ Len(ClientHeader(frame)) >= 2
    BY HeaderIs
  <2>2. frame.len \in Nat
    BY SMT DEF IsFrame
  <2> QED
    BY <2>1, <2>2 DEF FrameLen
<1>2. b = [i \in 1..n |-> ByteAt(f, i, frame)]
  BY DEF FrameBytes
<1>3. \A i \in 1..n : ByteAt(f, i, frame) \in WsByte /\ ByteAt(f, i, frame).f = f /\ ByteAt(f, i, frame).i = i
  BY DEF ByteAt, WsByte
<1> HIDE DEF n, b
<1>4. b \in [1..n -> WsByte]
  BY <1>2, <1>3
<1>5. b \in Seq(WsByte) /\ Len(b) = n
  BY <1>1, <1>4
<1>6. \A i \in 1..n : b[i] = ByteAt(f, i, frame)
  BY <1>2
<1> QED
  BY <1>1, <1>3, <1>5, <1>6 DEF n, b

\* What a longer script says of the frames sent so far.
LEMMA ScriptAppend ==
  ASSUME NEW T, NEW script \in Seq(T), NEW frame \in T
  PROVE  /\ Append(script, frame) \in Seq(T) /\ Len(Append(script, frame)) = Len(script) + 1
         /\ Len(script) \in Nat
         /\ \A k \in 1..Len(script) : Append(script, frame)[k] = script[k]
         /\ Append(script, frame)[Len(script) + 1] = frame
  BY AppendProperties, LenProperties

LEMMA RestAppend ==
  ASSUME NEW s, NEW script \in Seq(WsFrames), NEW g, NEW o, Sized(script), Rest(s, script, g, o),
         NEW frame \in WsFrames, IsFrame(frame), Fits32(frame.len)
  PROVE  Rest(s \o FrameBytes(Len(script) + 1, frame), Append(script, frame), g, o)
<1> DEFINE n == Len(script)
           S == Append(script, frame)
           b == FrameBytes(n + 1, frame)
           fl == FrameLen(frame)
           m == Len(s)
           z == s \o b
<1>1. /\ n \in Nat /\ Len(S) = n + 1 /\ S[n + 1] = frame
      /\ \A k \in 1..n : S[k] = script[k]
  BY ScriptAppend
<1>2. /\ b \in Seq(WsByte) /\ Len(b) = fl /\ fl \in Nat /\ fl >= 2
      /\ \A i \in 1..fl : b[i] = ByteAt(n + 1, i, frame) /\ b[i].f = n + 1 /\ b[i].i = i
  <2>1. n + 1 \in Nat
    BY <1>1
  <2> QED
    BY <2>1, FrameBytesAre
<1>3. /\ s \in Seq(WsByte) /\ \A k \in 1..m : IsByte(s[k], script)
      /\ g \in 0..n /\ o \in Nat
      /\ IF g = n THEN o = 0 ELSE o < FrameLen(script[g + 1])
      /\ s = << >> <=> g = n
      /\ s # << >> => /\ s[1].f = g + 1 /\ s[1].i = o + 1
                      /\ s[m].f = n /\ s[m].i = FrameLen(script[n])
      /\ \A k \in 1..(m - 1) : Follows(s[k + 1], s[k], script)
  BY DEF Rest
<1>4. m \in Nat /\ (s = << >> <=> m = 0)
  BY <1>3, LenProperties, EmptySeq
<1> HIDE DEF n, S, b, fl, m, z
<1>5. /\ z \in Seq(WsByte) /\ Len(z) = m + fl
      /\ \A i \in 1..m : z[i] = s[i]
      /\ \A i \in 1..fl : z[m + i] = b[i]
  <2>1. s \in Seq(WsByte) /\ b \in Seq(WsByte)
    BY <1>2, <1>3
  <2>2. /\ s \o b \in Seq(WsByte) /\ Len(s \o b) = Len(s) + Len(b)
        /\ \A i \in 1..Len(s) : (s \o b)[i] = s[i]
        /\ \A i \in 1..Len(b) : (s \o b)[Len(s) + i] = b[i]
    BY ONLY <2>1, Joined
  <2> QED
    BY <1>2, <2>2 DEF z, m
<1>6. \A k \in 1..(m + fl) : k \in 1..m \/ \E i \in 1..fl : k = m + i
  <2> TAKE k \in 1..(m + fl)
  <2>1. CASE k <= m
    BY <1>2, <1>4, <2>1
  <2>2. CASE k > m
    <3>1. k - m \in 1..fl /\ k = m + (k - m)
      BY <1>2, <1>4, <2>2
    <3> QED
      BY <3>1
  <2> QED
    BY <1>2, <1>4, <2>1, <2>2
<1>7. ASSUME NEW k \in 1..(m + fl) PROVE IsByte(z[k], S)
  <2>1. CASE k \in 1..m
    <3>1. IsByte(s[k], script) /\ z[k] = s[k]
      BY <1>3, <1>5, <2>1
    <3>2. s[k].f \in 1..n /\ S[s[k].f] = script[s[k].f]
      BY <1>1, <3>1 DEF IsByte, n
    <3>3. s[k].f \in 1..(n + 1)
      BY <1>1, <3>2
    <3> QED
      BY <1>1, <3>1, <3>2, <3>3 DEF IsByte
  <2>2. CASE \E i \in 1..fl : k = m + i
    <3>1. PICK i \in 1..fl : k = m + i
      BY <2>2
    <3>2. z[k] = ByteAt(n + 1, i, frame) /\ z[k].f = n + 1 /\ z[k].i = i
      BY <1>2, <1>5, <3>1
    <3>3. n + 1 \in 1..(n + 1)
      BY <1>1
    <3> QED
      BY <1>1, <3>2, <3>3 DEF IsByte, fl
  <2> QED
    BY <1>6, <2>1, <2>2
<1>8. ASSUME NEW k \in 1..((m + fl) - 1) PROVE Follows(z[k + 1], z[k], S)
  <2>1. CASE k < m
    <3>1. k \in 1..(m - 1) /\ k \in 1..m /\ k + 1 \in 1..m
      BY <1>2, <1>4, <2>1
    <3>2. Follows(s[k + 1], s[k], script) /\ z[k] = s[k] /\ z[k + 1] = s[k + 1] /\ IsByte(s[k], script)
      BY <1>3, <1>5, <3>1
    <3>3. S[s[k].f] = script[s[k].f]
      BY <1>1, <3>2 DEF IsByte, n
    <3> QED
      BY <3>2, <3>3 DEF Follows
  <2>2. CASE k = m
    <3>1. m \in 1..m /\ 1 \in 1..fl /\ s # << >> /\ m # 0
      BY <1>2, <1>4, <2>2
    <3>2. z[m] = s[m] /\ z[m + 1] = b[1] /\ b[1].f = n + 1 /\ b[1].i = 1
      BY <1>2, <1>5, <3>1
    <3>3. s[m].f = n /\ s[m].i = FrameLen(script[n])
      BY <1>3, <3>1
    <3>4. IsByte(s[m], script)
      BY <1>3, <3>1
    <3>5. S[n] = script[n]
      BY <1>1, <3>3, <3>4 DEF IsByte, n
    <3> QED
      BY <2>2, <3>2, <3>3, <3>5 DEF Follows
  <2>3. CASE k > m
    <3> DEFINE i == k - m
    <3>1. i \in 1..fl /\ i + 1 \in 1..fl /\ k = m + i /\ k + 1 = m + (i + 1) /\ i # fl
      BY <1>2, <1>4, <2>3
    <3> HIDE DEF i
    <3>2. z[k].f = n + 1 /\ z[k].i = i /\ z[k + 1].f = n + 1 /\ z[k + 1].i = i + 1
      BY <1>2, <1>5, <3>1
    <3> QED
      BY <1>1, <3>1, <3>2 DEF Follows, fl
  <2> QED
    BY <1>2, <1>4, <2>1, <2>2, <2>3
<1>9. /\ Len(z) = m + fl /\ z # << >> /\ m + fl \in 1..(m + fl) /\ z[m + fl].f = n + 1 /\ z[m + fl].i = fl
  <2>1. fl \in 1..fl /\ m + fl # 0 /\ m + fl \in 1..(m + fl)
    BY <1>2, <1>4
  <2>2. z # << >>
    BY <1>5, <2>1, EmptySeq
  <2> QED
    BY <1>2, <1>5, <2>1, <2>2
<1>10. z[1].f = g + 1 /\ z[1].i = o + 1
  <2>1. CASE s = << >>
    <3>1. m = 0 /\ g = n /\ o = 0 /\ 1 \in 1..fl /\ m + 1 = 1
      BY <1>2, <1>3, <1>4, <2>1
    <3>2. z[1] = b[1] /\ b[1].f = n + 1 /\ b[1].i = 1
      BY <1>2, <1>5, <3>1
    <3> QED
      BY <3>1, <3>2
  <2>2. CASE s # << >>
    <3>1. 1 \in 1..m
      BY <1>4, <2>2
    <3> QED
      BY <1>3, <1>5, <2>2, <3>1
  <2> QED
    BY <2>1, <2>2
<1>11. g \in 0..(n + 1) /\ g # n + 1 /\ o < FrameLen(S[g + 1])
  <2>1. g \in 0..(n + 1) /\ g # n + 1
    BY <1>1, <1>3
  <2>2. CASE g = n
    BY <1>1, <1>2, <1>3, <2>1, <2>2 DEF fl
  <2>3. CASE g # n
    <3>1. g + 1 \in 1..n
      BY <1>1, <1>3, <2>3
    <3> QED
      BY <1>1, <1>3, <2>1, <2>3, <3>1
  <2> QED
    BY <2>2, <2>3
<1>12. Rest(z, S, g, o)
  <2>1. S[n + 1] = frame /\ FrameLen(S[n + 1]) = fl
    BY <1>1 DEF fl
  <2> QED
    BY <1>1, <1>3, <1>5, <1>7, <1>8, <1>9, <1>10, <1>11, <2>1 DEF Rest
<1> QED
  BY <1>12 DEF z, S, b, n

\* The frames come in their order: each of those not used has bytes, and the
\* used ones have none.
LEMMA RestFrames ==
  ASSUME NEW s, NEW script, NEW g, NEW o, Sized(script), Rest(s, script, g, o)
  PROVE  \A k \in 1..Len(s) : s[k].f \in (g + 1)..Len(script)
<1> DEFINE n == Len(script)
           Bad == {k \in 1..Len(s) : s[k].f < g + 1}
<1>1. n \in Nat /\ g \in Nat /\ Len(s) \in Nat
  BY LenProperties DEF Rest, Sized
<1>2. \A k \in 1..Len(s) : IsByte(s[k], script)
  BY DEF Rest
<1>3. \A k \in 1..Len(s) : s[k].f \in 1..n
  BY <1>2 DEF IsByte
<1>4. ASSUME Bad # {} PROVE FALSE
  <2>1. Bad \in SUBSET Nat
    OBVIOUS
  <2>2. PICK k \in Bad : \A i \in Bad : k <= i
    BY <1>4, <2>1, LeastNumber
  <2>3. k \in 1..Len(s) /\ s[k].f < g + 1 /\ k \in Nat
    OBVIOUS
  <2>4. s[1].f = g + 1
    <3>1. s # << >>
      BY <2>3, SMT
    <3> QED
      BY <3>1 DEF Rest
  <2>5. k # 1
    BY <1>1, <2>3, <2>4
  <2>6. k - 1 \in 1..(Len(s) - 1) /\ (k - 1) + 1 = k /\ k - 1 \in 1..Len(s) /\ ~(k <= k - 1)
    BY <1>1, <2>3, <2>5
  <2>7. ~(s[k - 1].f < g + 1)
    BY <2>2, <2>6
  <2>8. Follows(s[k], s[k - 1], script)
    BY <2>6 DEF Rest
  <2>9. s[k].f = s[k - 1].f + 1 \/ s[k].f = s[k - 1].f
    BY <2>8 DEF Follows
  <2>10. s[k - 1].f \in Nat
    BY <1>3, <2>6
  <2> QED
    BY <1>1, <2>3, <2>7, <2>9, <2>10
<1>5. ASSUME NEW k \in 1..Len(s) PROVE s[k].f \in (g + 1)..n
  <2>1. ~(s[k].f < g + 1)
    BY <1>4
  <2> QED
    BY <1>1, <1>3, <2>1
<1> QED
  BY <1>5

\* What has not arrived when frame g + 1 has not arrived whole.
LEMMA LeftFrames ==
  ASSUME NEW u \in Seq(WsByte), NEW l \in Seq(WsByte), NEW script, NEW g, NEW o,
         Sized(script), Rest(u \o l, script, g, o),
         g < Len(script) => Len(u) < FrameLen(script[g + 1]) - o
  PROVE  {f \in 1..Len(script) : \A k \in 1..Len(l) : l[k].f # f} = 1..g
<1> DEFINE n == Len(script)
           s == u \o l
           m == Len(u)
           A == {f \in 1..n : \A k \in 1..Len(l) : l[k].f # f}
<1>1. n \in Nat /\ g \in Nat /\ g <= n
  BY DEF Rest, Sized
<1>2. /\ Len(s) = m + Len(l) /\ m \in Nat /\ Len(l) \in Nat
      /\ \A k \in 1..Len(l) : s[m + k] = l[k]
  BY Joined
<1>3. Rest(s, script, g, o) /\ \A k \in 1..Len(s) : s[k].f \in (g + 1)..n
  BY RestFrames
<1> HIDE DEF s
<1>4. ASSUME NEW f \in 1..g PROVE f \in A
  <2>1. f \in 1..n
    BY <1>1
  <2>2. ASSUME NEW k \in 1..Len(l) PROVE l[k].f # f
    <3>1. m + k \in 1..Len(s)
      BY <1>2
    <3>2. l[k].f \in (g + 1)..n
      BY <1>2, <1>3, <3>1
    <3> QED
      BY <1>1, <3>2
  <2> QED
    BY <2>1, <2>2
<1>5. ASSUME NEW f \in (g + 1)..n PROVE f \notin A
  <2> DEFINE P == {k \in 1..Len(l) : l[k].f >= f}
  <2>1. g < n /\ f \in Nat
    BY <1>1
  <2>0. /\ FrameLen(script[g + 1]) - o \in 1..Len(s)
        /\ \A i \in 1..(FrameLen(script[g + 1]) - o) : s[i].f = g + 1
    BY <1>3, <2>1, RestFirst
  <2>2. PICK c \in 1..Len(s) : c = FrameLen(script[g + 1]) - o
    BY <2>0
  <2>3. m < c /\ s[c].f = g + 1 /\ c \in Nat
    <3>1. m < FrameLen(script[g + 1]) - o
      BY <2>1
    <3>2. c \in 1..(FrameLen(script[g + 1]) - o)
      BY <2>2
    <3>3. s[c].f = g + 1
      BY <2>0, <3>2
    <3> QED
      BY <2>2, <3>1, <3>3
  <2>4. s # << >> /\ s[Len(s)].f = n
    <3>1. s # << >>
      BY <1>1, <1>3, <2>1 DEF Rest
    <3> QED
      BY <1>3, <3>1 DEF Rest
  <2>5. Len(l) >= 1 /\ s[Len(s)] = l[Len(l)] /\ Len(l) \in 1..Len(l)
    BY <1>2, <2>2, <2>3
  <2>6. Len(l) \in P
    BY <2>1, <2>4, <2>5
  <2>7. P \in SUBSET Nat
    OBVIOUS
  <2>8. PICK k \in P : \A i \in P : k <= i
    BY <2>6, <2>7, LeastNumber
  <2>9. k \in 1..Len(l) /\ l[k].f >= f /\ k \in Nat
    OBVIOUS
  <2>10. ASSUME k # 1 PROVE l[k].f = f
    <3>1. k - 1 \in 1..Len(l) /\ ~(k <= k - 1) /\ (m + (k - 1)) + 1 = m + k /\ m + (k - 1) \in 1..(Len(s) - 1)
          /\ m + (k - 1) \in 1..Len(s)
      BY <1>2, <2>9, <2>10
    <3>2. ~(l[k - 1].f >= f)
      BY <2>8, <3>1
    <3>3. Follows(s[m + k], s[m + (k - 1)], script)
      <4>1. Follows(s[(m + (k - 1)) + 1], s[m + (k - 1)], script)
        BY <1>3, <3>1 DEF Rest
      <4> QED
        BY <3>1, <4>1
    <3>4. s[m + k] = l[k] /\ s[m + (k - 1)] = l[k - 1]
      BY <1>2, <2>9, <3>1
    <3>5. l[k].f = l[k - 1].f + 1 \/ l[k].f = l[k - 1].f
      BY <3>3, <3>4 DEF Follows
    <3>6. l[k - 1].f \in Int
      <4>1. s[m + (k - 1)].f \in (g + 1)..n
        BY <1>3, <3>1
      <4>2. s[m + (k - 1)].f \in Int
        BY <1>1, <4>1
      <4> QED
        BY <3>4, <4>2
    <3> QED
      <4>1. PICK a \in Int : a = l[k - 1].f
        BY <3>6
      <4>2. PICK d \in Int : d = l[k].f
        BY <3>5, <4>1
      <4>3. ~(a >= f) /\ d >= f /\ (d = a + 1 \/ d = a)
        BY <2>9, <3>2, <3>5, <4>1, <4>2
      <4>4. d = f
        <5>1. f \in Nat
          BY <2>1
        <5>2. a \in Int /\ d \in Int
          BY <4>1, <4>2
        <5> QED
          BY ONLY <4>3, <5>1, <5>2
      <4> QED
        BY <4>2, <4>4
  <2>11. ASSUME k = 1 PROVE l[k].f = f
    <3>1. m + 1 <= c /\ m + 1 \in Nat /\ l[1] = s[m + 1]
      BY <1>2, <2>3, <2>9, <2>11
    <3>2. m + 1 \in 1..(FrameLen(script[g + 1]) - o)
      BY <1>2, <2>2, <3>1
    <3>3. s[m + 1].f = g + 1
      BY <2>0, <3>2
    <3> QED
      BY <1>1, <2>1, <2>9, <2>11, <3>1, <3>3
  <2>12. l[k].f = f
    BY <2>10, <2>11
  <2> QED
    BY <2>9, <2>12
<1> QED
  <2>1. \A f \in A : f \in 1..g
    <3> TAKE f \in A
    <3>1. f \in 1..n /\ ~(f \in (g + 1)..n)
      BY <1>5
    <3> QED
      BY <1>1, <3>1
  <2> QED
    BY <1>4, <2>1

-----------------------------------------------------------------------------
(* WSProtocol, the messages *)

LEMMA SequenceConcat ==
  ASSUME NEW p, IsSequence(p), NEW q, IsSequence(q)
  PROVE  /\ IsSequence(p \o q) /\ Len(p \o q) = Len(p) + Len(q)
         /\ Len(p) \in Nat /\ Len(q) \in Nat
         /\ DOMAIN p = 1..Len(p) /\ DOMAIN q = 1..Len(q) /\ DOMAIN (p \o q) = 1..(Len(p) + Len(q))
         /\ \A i \in 1..Len(p) : (p \o q)[i] = p[i]
         /\ \A i \in 1..Len(q) : (p \o q)[Len(p) + i] = q[i]
         /\ After(p \o q, Len(p)) = q
         /\ Len(p) = 0 => p \o q = q
<1> DEFINE m == Len(p)
           n == Len(q)
           T == {p[i] : i \in 1..m} \cup {q[i] : i \in 1..n}
           z == p \o q
<1>1. m \in Nat /\ p = [i \in 1..m |-> p[i]] /\ n \in Nat /\ q = [i \in 1..n |-> q[i]]
  BY DEF IsSequence
<1>2. p \in [1..m -> T] /\ q \in [1..n -> T]
  BY <1>1
<1>3. p \in Seq(T) /\ q \in Seq(T)
  BY <1>1, <1>2
<1> HIDE DEF T
<1>4. /\ z \in Seq(T) /\ Len(z) = m + n
      /\ \A i \in 1..m : z[i] = p[i]
      /\ \A i \in 1..n : z[m + i] = q[i]
  BY <1>3, Joined
<1> HIDE DEF z
<1>5. DOMAIN p = 1..m /\ DOMAIN q = 1..n /\ DOMAIN z = 1..(m + n) /\ IsSequence(z)
  <2>1. z \in [1..(m + n) -> T]
    BY <1>4, LenProperties
  <2>2. z = [i \in 1..(m + n) |-> z[i]] /\ DOMAIN z = 1..(m + n)
    BY <2>1
  <2> QED
    BY <1>1, <1>4, <2>2 DEF IsSequence
<1>6. After(z, m) = q
  <2> DEFINE r == After(z, m)
  <2>1. m \in 0..Len(z)
    BY <1>1, <1>4
  <2>2. /\ r \in Seq(T) /\ Len(r) = Len(z) - m
        /\ \A i \in 1..(Len(z) - m) : r[i] = z[m + i]
    BY <1>4, <2>1, AfterIs
  <2>3. Len(z) - m = n
    BY <1>1, <1>4
  <2> HIDE DEF r
  <2>4. r = q
    BY <1>3, <1>4, <2>2, <2>3, SeqEqual
  <2> QED
    BY <2>4 DEF r
<1>7. m = 0 => z = q
  <2> SUFFICES ASSUME m = 0 PROVE z = q
    OBVIOUS
  <2>1. Len(z) = n /\ \A i \in 1..n : z[i] = q[i]
    <3>1. m + n = n /\ \A i \in 1..n : m + i = i
      BY <1>1
    <3> HIDE DEF m
    <3> QED
      BY <1>4, <3>1
  <2> QED
    BY <1>3, <1>4, <2>1, SeqEqual
<1> QED
  BY <1>1, <1>4, <1>5, <1>6, <1>7 DEF z

LEMMA ClearIs ==
  ASSUME NEW f, IsFrame(wsScript[f]), Fits32(wsScript[f].len)
  PROVE  /\ IsSequence(Clear(f)) /\ Len(Clear(f)) = wsScript[f].len /\ wsScript[f].len \in Nat
         /\ DOMAIN Clear(f) = 1..wsScript[f].len
         /\ Len(ClientHeader(wsScript[f])) \in Nat
         /\ \A i \in 1..wsScript[f].len :
              /\ Clear(f)[i] = [f |-> f, i |-> Len(ClientHeader(wsScript[f])) + i, x |-> FALSE]
              /\ Clear(f)[i].f = f /\ Clear(f)[i].i = Len(ClientHeader(wsScript[f])) + i
<1> DEFINE n == wsScript[f].len
           h == Len(ClientHeader(wsScript[f]))
           c == Clear(f)
<1>1. n \in Nat /\ h \in Nat
  <2>1. h \in Nat
    BY HeaderIs
  <2> QED
    BY <2>1, SMT DEF IsFrame
<1>2. c = [k \in 1..n |-> [f |-> f, i |-> h + k, x |-> FALSE]]
  BY DEF Clear
<1> HIDE DEF n, h, c
<1>3. Len(c) = n /\ DOMAIN c = 1..n
  BY <1>1, <1>2
<1>4. IsSequence(c)
  BY <1>1, <1>2, <1>3 DEF IsSequence
<1>5. \A i \in 1..n : c[i] = [f |-> f, i |-> h + i, x |-> FALSE]
  BY <1>2
<1>6. ASSUME NEW i \in 1..n PROVE c[i].f = f /\ c[i].i = h + i
  <2> DEFINE b == [f |-> f, i |-> h + i, x |-> FALSE]
  <2>1. b.f = f /\ b.i = h + i
    OBVIOUS
  <2>2. c[i] = b
    BY <1>5
  <2> HIDE DEF b
  <2> QED
    BY <2>1, <2>2
<1> QED
  BY <1>1, <1>3, <1>4, <1>5, <1>6 DEF n, h, c

LEMMA JoinsNone ==
  /\ IsSequence(<< >>) /\ Joins(<< >>, {})
  /\ \A p : IsSequence(p) /\ Joins(p, {}) => p = << >> /\ Len(p) = 0
<1>1. IsSequence(<< >>) /\ Joins(<< >>, {})
  BY DEF IsSequence, Joins
<1>2. ASSUME NEW p, IsSequence(p), Joins(p, {}) PROVE p = << >> /\ Len(p) = 0
  <2>1. DOMAIN p = 1..Len(p) /\ Len(p) \in Nat /\ p = [k \in 1..Len(p) |-> p[k]]
    BY <1>2 DEF IsSequence
  <2>2. \A k \in DOMAIN p : FALSE
    BY <1>2, Zenon DEF Joins
  <2>3. Len(p) = 0
    <3>1. ASSUME Len(p) # 0 PROVE FALSE
      <4>1. 1 \in 1..Len(p)
        BY <2>1, <3>1
      <4> QED
        BY <2>1, <2>2, <4>1
    <3> QED
      BY <3>1
  <2>4. p = [k \in {} |-> p[k]]
    <3>1. 1..Len(p) = {}
      BY <2>3
    <3> QED
      BY <2>1, <3>1
  <2>5. p = << >>
    BY <2>4, SMT
  <2> QED
    BY <2>3, <2>5
<1> QED
  BY <1>1, <1>2

\* The payload of the next frame at the end.
LEMMA JoinsMore ==
  ASSUME NEW p, IsSequence(p), NEW g \in Nat, NEW K \in SUBSET (1..g), Joins(p, K),
         \A f \in 1..(g + 1) : IsFrame(wsScript[f]) /\ Fits32(wsScript[f].len)
  PROVE  LET z == p \o Clear(g + 1) IN
         /\ IsSequence(z) /\ Joins(z, K \cup {g + 1})
         /\ Len(z) = Len(p) + wsScript[g + 1].len
         /\ After(z, Len(z) - wsScript[g + 1].len) = Clear(g + 1)
         /\ K = {} => z = Clear(g + 1)
<1> DEFINE c == Clear(g + 1)
           z == p \o c
           m == Len(p)
           n == wsScript[g + 1].len
           h(f) == Len(ClientHeader(wsScript[f]))
           G == K \cup {g + 1}
<1>0. g + 1 \in 1..(g + 1) /\ \A f \in K : f \in 1..(g + 1) /\ f \in 1..g
  OBVIOUS
<1>1. /\ IsSequence(c) /\ Len(c) = n /\ n \in Nat /\ DOMAIN c = 1..n /\ h(g + 1) \in Nat
      /\ \A i \in 1..n : c[i].f = g + 1 /\ c[i].i = h(g + 1) + i
  BY <1>0, ClearIs
<1>2. \A f \in K : /\ DOMAIN Clear(f) = 1..wsScript[f].len
                    /\ \A i \in 1..wsScript[f].len : Clear(f)[i].f = f
  BY <1>0, ClearIs
<1> HIDE DEF c
<1>3. /\ IsSequence(z) /\ Len(z) = m + n /\ m \in Nat
      /\ DOMAIN p = 1..m /\ DOMAIN z = 1..(m + n)
      /\ \A i \in 1..m : z[i] = p[i]
      /\ \A i \in 1..n : z[m + i] = c[i]
      /\ After(z, m) = c
      /\ m = 0 => z = c
  <2>1. IsSequence(p) /\ IsSequence(c)
    BY <1>1
  <2>2. /\ IsSequence(p \o c) /\ Len(p \o c) = Len(p) + Len(c)
        /\ Len(p) \in Nat /\ Len(c) \in Nat
        /\ DOMAIN p = 1..Len(p) /\ DOMAIN (p \o c) = 1..(Len(p) + Len(c))
        /\ \A i \in 1..Len(p) : (p \o c)[i] = p[i]
        /\ \A i \in 1..Len(c) : (p \o c)[Len(p) + i] = c[i]
        /\ After(p \o c, Len(p)) = c
        /\ Len(p) = 0 => p \o c = c
    BY ONLY <2>1, SequenceConcat
  <2>3. Len(c) = n
    BY <1>1
  <2> HIDE DEF n
  <2> QED
    BY <2>2, <2>3
<1> HIDE DEF z, m, n, h, G
<1>4. \A k \in 1..(m + n) : k \in 1..m \/ \E i \in 1..n : k = m + i
  <2> TAKE k \in 1..(m + n)
  <2>1. CASE k <= m
    BY <1>1, <1>3, <2>1
  <2>2. CASE k > m
    <3>1. k - m \in 1..n /\ k = m + (k - m)
      BY <1>1, <1>3, <2>2
    <3> QED
      BY <3>1
  <2> QED
    BY <1>1, <1>3, <2>1, <2>2
<1>5. \A k \in 1..m : p[k].f \in 1..g /\ \E f \in K : \E i \in DOMAIN Clear(f) : p[k] = Clear(f)[i]
  <2> TAKE k \in 1..m
  <2>1. \E f \in K : \E i \in DOMAIN Clear(f) : p[k] = Clear(f)[i]
    BY <1>3 DEF Joins
  <2>2. PICK f \in K : \E i \in DOMAIN Clear(f) : p[k] = Clear(f)[i]
    BY <2>1
  <2>3. p[k].f = f
    BY <1>2, <2>2
  <2> QED
    BY <1>0, <2>1, <2>3
<1>6. ASSUME NEW k \in DOMAIN z PROVE \E f \in G : \E i \in DOMAIN Clear(f) : z[k] = Clear(f)[i]
  <2>1. CASE k \in 1..m
    <3>1. PICK f \in K : \E i \in DOMAIN Clear(f) : p[k] = Clear(f)[i]
      BY <1>5, <2>1
    <3>2. f \in G /\ z[k] = p[k]
      BY <1>3, <2>1 DEF G
    <3> QED
      BY <3>1, <3>2
  <2>2. CASE \E i \in 1..n : k = m + i
    <3>1. PICK i \in 1..n : k = m + i
      BY <2>2
    <3>2. z[k] = c[i] /\ i \in DOMAIN c /\ g + 1 \in G
      BY <1>1, <1>3, <3>1 DEF G
    <3> QED
      BY <3>2 DEF c
  <2> QED
    BY <1>3, <1>4, <2>1, <2>2
<1>7. ASSUME NEW f \in G, NEW i \in DOMAIN Clear(f) PROVE \E k \in DOMAIN z : z[k] = Clear(f)[i]
  <2>1. CASE f \in K
    <3>1. PICK k \in DOMAIN p : p[k] = Clear(f)[i]
      BY <2>1 DEF Joins
    <3>2. k \in DOMAIN z /\ z[k] = p[k]
      BY <1>1, <1>3
    <3> QED
      BY <3>1, <3>2
  <2>2. CASE f = g + 1
    <3>1. i \in 1..n /\ Clear(f)[i] = c[i]
      BY <1>1, <2>2 DEF c
    <3>2. m + i \in 1..(m + n) /\ z[m + i] = c[i]
      BY <1>1, <1>3, <3>1
    <3> QED
      BY <1>3, <3>1, <3>2
  <2> QED
    BY <2>1, <2>2 DEF G
<1>8. ASSUME NEW j \in DOMAIN z, NEW k \in DOMAIN z, j < k
      PROVE  z[j].f < z[k].f \/ (z[j].f = z[k].f /\ z[j].i < z[k].i)
  <2>1. CASE k \in 1..m
    <3>1. j \in 1..m /\ k \in 1..m
      BY <1>1, <1>3, <1>8, <2>1
    <3>2. p[j].f < p[k].f \/ (p[j].f = p[k].f /\ p[j].i < p[k].i)
      BY <1>3, <1>8, <3>1 DEF Joins
    <3> QED
      BY <1>3, <3>1, <3>2
  <2>2. CASE \E i \in 1..n : k = m + i
    <3>1. PICK i \in 1..n : k = m + i
      BY <2>2
    <3>2. z[k].f = g + 1 /\ z[k].i = h(g + 1) + i
      BY <1>1, <1>3, <3>1
    <3>3. CASE j \in 1..m
      <4>1. z[j].f \in 1..g
        BY <1>3, <1>5, <3>3
      <4> QED
        BY <3>2, <4>1
    <3>4. CASE \E l \in 1..n : j = m + l
      <4>1. PICK l \in 1..n : j = m + l
        BY <3>4
      <4>2. z[j].f = g + 1 /\ z[j].i = h(g + 1) + l
        BY <1>1, <1>3, <4>1
      <4>3. l < i
        BY <1>3, <1>8, <3>1, <4>1
      <4>4. h(g + 1) + l < h(g + 1) + i
        BY <1>1, <4>3
      <4> QED
        BY <3>2, <4>2, <4>4
    <3> QED
      BY <1>3, <1>4, <3>3, <3>4
  <2> QED
    BY <1>3, <1>4, <2>1, <2>2
<1>9. Joins(z, G)
  BY <1>6, <1>7, <1>8 DEF Joins
<1>10. K = {} => z = c
  <2> SUFFICES ASSUME K = {} PROVE z = c
    OBVIOUS
  <2>1. m = 0
    BY JoinsNone DEF m
  <2> QED
    BY <1>3, <2>1
<1>11. Len(z) - n = m
  BY <1>1, <1>3
<1> QED
  BY <1>3, <1>9, <1>10, <1>11 DEF z, c, m, n, G

\* The message that is open after the next frame, when that has been handled
OpenAfter(g, s) ==
    LET f == wsScript[g + 1]
    IN  IF f.fin THEN (IF f.op <= 7 THEN 0 ELSE s) ELSE IF f.op = 0 THEN s ELSE g + 1

LEMMA WithinNext ==
  ASSUME Compliant, Len(wsScript) \in Nat, NEW g \in Nat, g < Len(wsScript), NEW s \in 0..g, Within(g, s),
         IsFrame(wsScript[g + 1])
  PROVE  /\ wsScript[g + 1].op = 0 => s # 0
         /\ wsScript[g + 1].op \in 1..7 => s = 0
         /\ s = 0 <=> ~MessageOpen(g)
         /\ OpenAfter(g, s) \in 0..(g + 1) /\ Within(g + 1, OpenAfter(g, s))
<1> DEFINE f == wsScript[g + 1]
<1>1. /\ f.fin \in BOOLEAN /\ f.op \in 0..15 /\ (f.op > 2 => f.fin)
  BY SMT DEF IsFrame
<1>2. s # 0 => MessageOpen(g)
  <2> SUFFICES ASSUME s # 0 PROVE MessageOpen(g)
    OBVIOUS
  <2>1. /\ s \in 1..g /\ ~wsScript[s].fin /\ wsScript[s].op \in {1, 2}
        /\ \A t \in (s + 1)..g : wsScript[t].fin => wsScript[t].op > 7
    BY DEF Within
  <2>2. \A t \in s..g : t = s \/ t \in (s + 1)..g
    BY <2>1
  <2> QED
    BY <2>1, <2>2 DEF MessageOpen
<1>3. s = 0 <=> ~MessageOpen(g)
  BY <1>2 DEF Within
<1>4. g + 1 \in 1..Len(wsScript) /\ (g + 1) - 1 = g
  OBVIOUS
<1>5. (f.op = 0 => s # 0) /\ (f.op \in 1..7 => s = 0)
  BY <1>3, <1>4 DEF Compliant
<1> HIDE DEF f
<1>6. CASE f.fin /\ f.op <= 7
  <2>1. ~MessageOpen(g + 1)
    <3>1. ASSUME NEW j \in 1..(g + 1), \A t \in j..(g + 1) : wsScript[t].fin => wsScript[t].op > 7
          PROVE  FALSE
      <4>1. g + 1 \in j..(g + 1)
        OBVIOUS
      <4>2. f.op > 7
        BY <1>6, <3>1, <4>1 DEF f
      <4> QED
        BY <1>1, <1>6, <4>2
    <3> QED
      BY <3>1 DEF MessageOpen
  <2>2. OpenAfter(g, s) = 0
    BY <1>6 DEF OpenAfter, f
  <2> QED
    BY <1>3, <1>5, <2>1, <2>2 DEF Within, f
<1>7. CASE f.fin /\ f.op > 7
  <2>1. OpenAfter(g, s) = s
    BY <1>1, <1>7 DEF OpenAfter, f
  <2>2. CASE s = 0
    <3>1. ~MessageOpen(g + 1)
      <4>1. ASSUME NEW j \in 1..(g + 1), ~wsScript[j].fin,
                   \A t \in j..(g + 1) : wsScript[t].fin => wsScript[t].op > 7
            PROVE  FALSE
        <5>1. j # g + 1
          BY <1>7, <4>1 DEF f
        <5>2. j \in 1..g /\ \A t \in j..g : t \in j..(g + 1)
          BY <5>1
        <5>3. MessageOpen(g)
          BY <4>1, <5>2 DEF MessageOpen
        <5> QED
          BY <1>3, <2>2, <5>3
      <4> QED
        BY <4>1 DEF MessageOpen
    <3> QED
      BY <1>3, <1>5, <2>1, <2>2, <3>1 DEF Within, f
  <2>3. CASE s # 0
    <3>1. /\ s \in 1..g /\ ~wsScript[s].fin /\ wsScript[s].op \in {1, 2}
          /\ \A t \in (s + 1)..g : /\ wsScript[t].op \notin {1, 2}
                                   /\ wsScript[t].fin => wsScript[t].op > 7
      BY <2>3 DEF Within
    <3>2. ASSUME NEW t \in (s + 1)..(g + 1)
          PROVE  wsScript[t].op \notin {1, 2} /\ (wsScript[t].fin => wsScript[t].op > 7)
      <4>1. CASE t = g + 1
        <5>1. f.op \notin {1, 2} /\ f.op > 7
          BY <1>1, <1>7
        <5> QED
          BY <4>1, <5>1 DEF f
      <4>2. CASE t # g + 1
        <5>1. t \in (s + 1)..g
          BY <4>2
        <5> QED
          BY <3>1, <5>1
      <4> QED
        BY <4>1, <4>2
    <3>3. s \in 1..(g + 1) /\ s \in 0..(g + 1)
      BY <3>1
    <3>4. Within(g + 1, s)
      BY <2>3, <3>1, <3>2, <3>3 DEF Within
    <3> QED
      BY <1>3, <1>5, <2>1, <3>3, <3>4 DEF f
  <2> QED
    BY <2>2, <2>3
<1>8. CASE ~f.fin /\ f.op = 0
  <2>1. OpenAfter(g, s) = s /\ s # 0
    BY <1>5, <1>8 DEF OpenAfter, f
  <2>2. /\ s \in 1..g /\ ~wsScript[s].fin /\ wsScript[s].op \in {1, 2}
        /\ \A t \in (s + 1)..g : /\ wsScript[t].op \notin {1, 2}
                                 /\ wsScript[t].fin => wsScript[t].op > 7
    BY <2>1 DEF Within
  <2>3. ASSUME NEW t \in (s + 1)..(g + 1)
        PROVE  wsScript[t].op \notin {1, 2} /\ (wsScript[t].fin => wsScript[t].op > 7)
    <3>1. CASE t = g + 1
      BY <1>8, <3>1 DEF f
    <3>2. CASE t # g + 1
      <4>1. t \in (s + 1)..g
        BY <3>2
      <4> QED
        BY <2>2, <4>1
    <3> QED
      BY <3>1, <3>2
  <2>4. s \in 1..(g + 1) /\ s \in 0..(g + 1)
    BY <2>2
  <2>5. Within(g + 1, s)
    BY <2>1, <2>2, <2>3, <2>4 DEF Within
  <2> QED
    BY <1>3, <1>5, <2>1, <2>4, <2>5 DEF f
<1>9. CASE ~f.fin /\ f.op # 0
  <2>1. OpenAfter(g, s) = g + 1 /\ f.op \in {1, 2}
    BY <1>1, <1>9 DEF OpenAfter, f
  <2>2. (g + 1) + 1 > g + 1 /\ g + 1 # 0 /\ g + 1 \in 1..(g + 1) /\ g + 1 \in 0..(g + 1)
        /\ \A t \in ((g + 1) + 1)..(g + 1) : FALSE
    OBVIOUS
  <2>3. Within(g + 1, g + 1)
    BY <1>9, <2>1, <2>2 DEF Within, f
  <2> QED
    BY <1>3, <1>5, <2>1, <2>2, <2>3 DEF f
<1> QED
  BY <1>1, <1>6, <1>7, <1>8, <1>9

\* The frame that begins the message of data frame g + 1
Beginning(g, s) == IF wsScript[g + 1].op = 0 THEN s ELSE g + 1

LEMMA KeptNext ==
  ASSUME NEW g \in Nat, NEW s \in 1..g, IsData(g + 1)
  PROVE  Kept(s, g + 1) = Kept(s, g) \cup {g + 1}
<1>1. ASSUME NEW t \in Kept(s, g + 1) PROVE t \in Kept(s, g) \cup {g + 1}
  <2>1. t \in s..(g + 1) /\ \A u \in t..(g + 1) : IsData(u)
    BY DEF Kept
  <2>2. CASE t # g + 1
    <3>1. t \in s..g /\ \A u \in t..g : u \in t..(g + 1)
      BY <2>1, <2>2
    <3> QED
      BY <2>1, <3>1 DEF Kept
  <2> QED
    BY <2>2
<1>2. ASSUME NEW t \in Kept(s, g) PROVE t \in Kept(s, g + 1)
  <2>1. t \in s..g /\ \A u \in t..g : IsData(u)
    BY DEF Kept
  <2>2. t \in s..(g + 1) /\ \A u \in t..(g + 1) : u \in t..g \/ u = g + 1
    BY <2>1
  <2> QED
    BY <2>1, <2>2 DEF Kept
<1>3. g + 1 \in Kept(s, g + 1)
  <2>1. g + 1 \in s..(g + 1) /\ \A u \in (g + 1)..(g + 1) : u = g + 1
    OBVIOUS
  <2> QED
    BY <2>1 DEF Kept
<1> QED
  BY <1>1, <1>2, <1>3

LEMMA FragmentsNext ==
  ASSUME NEW g \in Nat, NEW s \in 0..g, Within(g, s), IsFrame(wsScript[g + 1]),
         wsScript[g + 1].op = 0 => s # 0,
         wsScript[g + 1].op \in 1..7 => s = 0
  PROVE  /\ Fragments(g, s) \in SUBSET (1..g)
         /\ s = 0 => Fragments(g, s) = {}
         /\ IsData(g + 1) => /\ Beginning(g, s) \in 1..(g + 1)
                             /\ Began(Beginning(g, s), g + 1)
                             /\ Fragments(g, s) \cup {g + 1} = Kept(Beginning(g, s), g + 1)
         /\ ~IsData(g + 1) => Fragments(g + 1, s) = {}
<1> DEFINE op == wsScript[g + 1].op
<1>0. op \in 0..15
  BY SMT DEF IsFrame
<1>1. s = 0 => Fragments(g, s) = {}
  BY DEF Fragments
<1>2. Fragments(g, s) \in SUBSET (1..g)
  <2>1. CASE s = 0
    BY <1>1, <2>1
  <2>2. CASE s # 0
    <3>1. \A t \in Kept(s, g) : t \in s..g
      BY DEF Kept
    <3>2. Fragments(g, s) = Kept(s, g) /\ s \in 1..g
      BY <2>2 DEF Fragments
    <3> QED
      BY <3>1, <3>2
  <2> QED
    BY <2>1, <2>2
<1>3. ASSUME ~IsData(g + 1) PROVE Fragments(g + 1, s) = {}
  <2>1. CASE s = 0
    BY <2>1 DEF Fragments
  <2>2. CASE s # 0
    <3>1. ASSUME NEW t \in Kept(s, g + 1) PROVE FALSE
      <4>1. t \in s..(g + 1) /\ \A u \in t..(g + 1) : IsData(u)
        BY DEF Kept
      <4>2. g + 1 \in t..(g + 1)
        BY <2>2, <4>1
      <4> QED
        BY <1>3, <4>1, <4>2
    <3> QED
      BY <2>2, <3>1 DEF Fragments
  <2> QED
    BY <2>1, <2>2
<1>4. ASSUME IsData(g + 1)
      PROVE  /\ Beginning(g, s) \in 1..(g + 1)
             /\ Began(Beginning(g, s), g + 1)
             /\ Fragments(g, s) \cup {g + 1} = Kept(Beginning(g, s), g + 1)
  <2>0. op \in {0, 1, 2}
    BY <1>4 DEF IsData
  <2>1. CASE op = 0
    <3>1. s # 0 /\ s \in 1..g /\ Beginning(g, s) = s /\ s \in 1..(g + 1)
      BY <2>1 DEF Beginning
    <3>2. /\ wsScript[s].op \in {1, 2}
          /\ \A t \in (s + 1)..g : wsScript[t].op \notin {1, 2}
      BY <3>1 DEF Within
    <3>3. \A t \in (s + 1)..(g + 1) : t \in (s + 1)..g \/ t = g + 1
      BY <3>1
    <3>4. Began(s, g + 1)
      <4>1. op \notin {1, 2}
        BY <2>1
      <4> QED
        BY <3>2, <3>3, <4>1 DEF Began
    <3>5. Fragments(g, s) = Kept(s, g)
      BY <3>1 DEF Fragments
    <3> QED
      BY <1>4, <3>1, <3>4, <3>5, KeptNext
  <2>2. CASE op # 0
    <3>1. s = 0 /\ Beginning(g, s) = g + 1 /\ g + 1 \in 1..(g + 1)
      BY <2>0, <2>2 DEF Beginning
    <3>2. \A t \in ((g + 1) + 1)..(g + 1) : FALSE
      OBVIOUS
    <3>3. Began(g + 1, g + 1)
      BY <2>0, <2>2, <3>2 DEF Began
    <3>4. Kept(g + 1, g + 1) = {g + 1}
      <4>1. \A t \in (g + 1)..(g + 1) : t = g + 1
        OBVIOUS
      <4>2. g + 1 \in (g + 1)..(g + 1)
        OBVIOUS
      <4> QED
        BY <1>4, <4>1, <4>2 DEF Kept
    <3> QED
      BY <1>1, <3>1, <3>3, <3>4
  <2> QED
    BY <2>1, <2>2
<1> QED
  BY <1>1, <1>2, <1>3, <1>4

\* Those of a set of frames that are among the first g, and how many.
UpTo(fs, g) == {t \in fs : t <= g}

LEMMA RankIs ==
  ASSUME NEW fs \in SUBSET Nat, NEW g \in Nat
  PROVE  /\ Rank(fs, g) \in Nat
         /\ Rank(fs, g + 1) = Rank(fs, g) + (IF g + 1 \in fs THEN 1 ELSE 0)
         /\ IsFiniteSet(UpTo(fs, g))
<1> DEFINE S == {t \in fs : t <= g}
           R == {t \in fs : t <= g + 1}
<1>0. \A t \in fs : t \in Nat
  OBVIOUS
<1>1. IsFiniteSet(S) /\ Cardinality(S) \in Nat
  <2>1. IsFiniteSet(0..g)
    BY FS_Interval
  <2>2. S \in SUBSET (0..g)
    <3>1. ASSUME NEW t \in S PROVE t \in 0..g
      BY <1>0
    <3> QED
      BY <3>1
  <2> HIDE DEF S
  <2>3. IsFiniteSet(S)
    BY <2>1, <2>2, FS_Subset
  <2> QED
    BY <2>3, FS_CardinalityType
<1>2. Rank(fs, g) = Cardinality(S) /\ Rank(fs, g + 1) = Cardinality(R)
  BY Zenon DEF Rank
<1>3. ASSUME NEW t \in fs PROVE (t <= g + 1) <=> (t <= g \/ t = g + 1)
  BY <1>0
<1>4. IsFiniteSet(UpTo(fs, g))
  BY <1>1 DEF UpTo
<1>5. CASE g + 1 \in fs
  <2>1. \A t : t \in R <=> t \in S \cup {g + 1}
    BY <1>3, <1>5
  <2>2. g + 1 \notin S
    OBVIOUS
  <2>3. R = S \cup {g + 1}
    BY <2>1
  <2> HIDE DEF S, R
  <2>4. Cardinality(R) = Cardinality(S) + 1
    BY <1>1, <2>2, <2>3, FS_AddElement
  <2> QED
    BY <1>1, <1>2, <1>5, <1>4, <2>4
<1>6. CASE g + 1 \notin fs
  <2>1. \A t : t \in R <=> t \in S
    BY <1>3, <1>6
  <2>2. R = S
    BY <2>1
  <2> HIDE DEF S, R
  <2> QED
    BY <1>1, <1>2, <1>6, <1>4, <2>2
<1> QED
  BY <1>5, <1>6

LEMMA RankOrder ==
  ASSUME NEW fs \in SUBSET (Nat \ {0}), NEW f \in fs, NEW g \in Nat
  PROVE  /\ Rank(fs, f) \in Nat /\ Rank(fs, f) >= 1
         /\ f <= g => Rank(fs, f) <= Rank(fs, g)
         /\ f > g => Rank(fs, f) > Rank(fs, g)
<1> DEFINE S(k) == UpTo(fs, k)
<1>0. \A t \in fs : t \in Nat /\ t >= 1
  OBVIOUS
<1>1. f \in Nat /\ f - 1 \in Nat /\ (f - 1) + 1 = f
  BY <1>0
<1>2. /\ Rank(fs, f) \in Nat /\ Rank(fs, g) \in Nat
      /\ IsFiniteSet(S(f)) /\ IsFiniteSet(S(g))
  BY <1>1, RankIs
<1>3. /\ Rank(fs, f - 1) \in Nat /\ IsFiniteSet(S(f - 1))
      /\ Rank(fs, (f - 1) + 1) = Rank(fs, f - 1) + (IF (f - 1) + 1 \in fs THEN 1 ELSE 0)
  BY <1>1, RankIs
<1>4. Rank(fs, f) = Rank(fs, f - 1) + 1
  BY <1>1, <1>3
<1>5. Rank(fs, f) = Cardinality(S(f)) /\ Rank(fs, g) = Cardinality(S(g))
      /\ Rank(fs, f - 1) = Cardinality(S(f - 1))
  BY Zenon DEF Rank, UpTo
<1>6. ASSUME f <= g PROVE Rank(fs, f) <= Rank(fs, g)
  <2>1. ASSUME NEW t \in fs, t <= f PROVE t <= g
    BY <1>0, <1>1, <1>6, <2>1
  <2>2. S(f) \in SUBSET S(g)
    BY <2>1 DEF UpTo
  <2> HIDE DEF S
  <2> QED
    BY <1>2, <1>5, <2>2, FS_Subset
<1>7. ASSUME f > g PROVE Rank(fs, g) <= Rank(fs, f - 1)
  <2>1. ASSUME NEW t \in fs, t <= g PROVE t <= f - 1
    BY <1>0, <1>1, <1>7, <2>1
  <2>2. S(g) \in SUBSET S(f - 1)
    BY <2>1 DEF UpTo
  <2> HIDE DEF S
  <2> QED
    BY <1>2, <1>3, <1>5, <2>2, FS_Subset
<1>8. Rank(fs, f) >= 1
  BY <1>3, <1>4
<1>9. f > g => Rank(fs, f) > Rank(fs, g)
  BY <1>2, <1>3, <1>4, <1>7
<1> QED
  BY <1>2, <1>6, <1>8, <1>9

\* The frames that end a message, and the pings, are among those sent.
LEMMA FramesSent ==
  ASSUME Len(wsScript) \in Nat, DOMAIN wsScript = 1..Len(wsScript)
  PROVE  Ends \in SUBSET (1..Len(wsScript)) /\ Pings \in SUBSET (1..Len(wsScript))
<1>1. \A t \in Ends : t \in DOMAIN wsScript
  BY Zenon DEF Ends
<1>2. \A t \in Pings : t \in DOMAIN wsScript
  BY Zenon DEF Pings
<1> QED
  BY <1>1, <1>2

\* The next frame ends a message, which is given to the application, or not.
LEMMA HeardNext ==
  ASSUME Len(wsScript) \in Nat, DOMAIN wsScript = 1..Len(wsScript),
         NEW g \in Nat, NEW q, Heard(q, g)
  PROVE  /\ g + 1 \notin Ends => Heard(q, g + 1)
         /\ \A e : g + 1 \in Ends /\ Delivered(e, g + 1) => Heard(Append(q, e), g + 1)
<1>0. Ends \in SUBSET (1..Len(wsScript)) /\ \A f \in Ends : f \in Nat
  BY FramesSent
<1>1. IsSequence(q) /\ Len(q) = Rank(Ends, g) /\ Len(q) \in Nat
  BY <1>0, RankIs DEF Heard
<1>2. \A f \in Ends : f <= g => Delivered(q[Rank(Ends, f)], f)
  BY DEF Heard
<1>3. Rank(Ends, g + 1) = Rank(Ends, g) + (IF g + 1 \in Ends THEN 1 ELSE 0)
  BY ONLY <1>0, RankIs
<1>4. \A f \in Ends : f <= g + 1 <=> f <= g \/ f = g + 1
  BY <1>0
<1>5. ASSUME g + 1 \notin Ends PROVE Heard(q, g + 1)
  <2>1. Len(q) = Rank(Ends, g + 1)
    BY <1>1, <1>3, <1>5
  <2>2. \A f \in Ends : f <= g + 1 => Delivered(q[Rank(Ends, f)], f)
    BY <1>2, <1>4, <1>5
  <2> QED
    BY <1>1, <2>1, <2>2 DEF Heard
<1>6. ASSUME NEW e, g + 1 \in Ends, Delivered(e, g + 1)
      PROVE  Heard(Append(q, e), g + 1)
  <2> DEFINE p == Append(q, e)
  <2>1. /\ IsSequence(p) /\ Len(p) = Len(q) + 1
        /\ p[Len(q) + 1] = e
        /\ \A k \in 1..Len(q) : p[k] = q[k]
    BY <1>1, SequenceAppend
  <2> HIDE DEF p
  <2>2. Len(p) = Rank(Ends, g + 1)
    BY <1>1, <1>3, <1>6, <2>1
  <2>3. ASSUME NEW f \in Ends, f <= g + 1 PROVE Delivered(p[Rank(Ends, f)], f)
    <3>1. CASE f <= g
      <4>1. Rank(Ends, f) \in Nat /\ Rank(Ends, f) >= 1 /\ Rank(Ends, f) <= Rank(Ends, g)
        BY <1>0, <3>1, RankOrder
      <4>2. Rank(Ends, f) \in 1..Len(q)
        BY <1>1, <4>1
      <4>3. p[Rank(Ends, f)] = q[Rank(Ends, f)]
        BY <2>1, <4>2
      <4> QED
        BY <1>2, <3>1, <4>3
    <3>2. CASE f = g + 1
      <4>1. p[Rank(Ends, f)] = e
        BY <1>1, <1>3, <1>6, <2>1, <3>2
      <4> QED
        BY <1>6, <3>2, <4>1
    <3> QED
      BY <1>4, <2>3, <3>1, <3>2
  <2> QED
    BY <2>1, <2>2, <2>3 DEF Heard, p
<1> QED
  BY <1>5, <1>6

\* The messages given are those that have arrived, so far.
LEMMA HeardSays ==
  ASSUME Len(wsScript) \in Nat, DOMAIN wsScript = 1..Len(wsScript),
         NEW g \in Nat, NEW q, Heard(q, g), \A f \in Ends : f <= g => f \in Arrived
  PROVE  /\ Len(q) <= Cardinality(Ends \cap Arrived)
         /\ Arrived = 1..g => Len(q) = Cardinality(Ends \cap Arrived)
         /\ \A f \in Ends : Rank(Ends, f) <= Len(q) => Delivered(q[Rank(Ends, f)], f)
<1> DEFINE S == {t \in Ends : t <= g}
<1>0. Ends \in SUBSET (1..Len(wsScript)) /\ \A f \in Ends : f \in Nat /\ f >= 1
  BY FramesSent
<1>1. Len(q) = Rank(Ends, g) /\ \A f \in Ends : f <= g => Delivered(q[Rank(Ends, f)], f)
  BY DEF Heard
<1>2. IsFiniteSet(Ends \cap Arrived)
  <2>1. IsFiniteSet(1..Len(wsScript))
    BY FS_Interval
  <2>2. Ends \cap Arrived \in SUBSET (1..Len(wsScript))
    BY <1>0
  <2> QED
    BY <2>1, <2>2, FS_Subset
<1>3. S \in SUBSET (Ends \cap Arrived)
  OBVIOUS
<1>4. Rank(Ends, g) = Cardinality(S)
  BY Zenon DEF Rank
<1>5. ASSUME Arrived = 1..g PROVE S = Ends \cap Arrived
  <2>1. \A f \in Ends : f <= g <=> f \in 1..g
    BY <1>0
  <2> QED
    BY <1>5, <2>1
<1>6. Len(q) <= Cardinality(Ends \cap Arrived)
  <2> HIDE DEF S
  <2> QED
    BY <1>1, <1>2, <1>3, <1>4, FS_Subset
<1>7. Arrived = 1..g => Len(q) = Cardinality(Ends \cap Arrived)
  BY <1>1, <1>4, <1>5
<1>8. ASSUME NEW f \in Ends, Rank(Ends, f) <= Len(q) PROVE Delivered(q[Rank(Ends, f)], f)
  <2>1. f > g => Rank(Ends, f) > Rank(Ends, g)
    BY <1>0, RankOrder
  <2>2. Rank(Ends, f) \in Nat /\ Rank(Ends, g) \in Nat
    BY <1>0, RankIs
  <2>3. f <= g
    BY <1>0, <1>1, <1>8, <2>1, <2>2
  <2> QED
    BY <1>1, <2>3
<1> QED
  BY <1>6, <1>7, <1>8

\* The next frame is a ping, which is answered, or not.
LEMMA EchoedNext ==
  ASSUME Len(wsScript) \in Nat, DOMAIN wsScript = 1..Len(wsScript),
         NEW g \in Nat, NEW q, Echoed(q, g)
  PROVE  /\ g + 1 \notin Pings => Echoed(q, g + 1)
         /\ \A e : g + 1 \in Pings /\ Answers(e, g + 1) => Echoed(Append(q, e), g + 1)
<1>0. Pings \in SUBSET (1..Len(wsScript)) /\ \A f \in Pings : f \in Nat
  BY FramesSent
<1>1. IsSequence(q) /\ Len(q) = Rank(Pings, g) /\ Len(q) \in Nat
  BY <1>0, RankIs DEF Echoed
<1>2. \A f \in Pings : f <= g => Answers(q[Rank(Pings, f)], f)
  BY DEF Echoed
<1>3. Rank(Pings, g + 1) = Rank(Pings, g) + (IF g + 1 \in Pings THEN 1 ELSE 0)
  BY ONLY <1>0, RankIs
<1>4. \A f \in Pings : f <= g + 1 <=> f <= g \/ f = g + 1
  BY <1>0
<1>5. ASSUME g + 1 \notin Pings PROVE Echoed(q, g + 1)
  <2>1. Len(q) = Rank(Pings, g + 1)
    BY <1>1, <1>3, <1>5
  <2>2. \A f \in Pings : f <= g + 1 => Answers(q[Rank(Pings, f)], f)
    BY <1>2, <1>4, <1>5
  <2> QED
    BY <1>1, <2>1, <2>2 DEF Echoed
<1>6. ASSUME NEW e, g + 1 \in Pings, Answers(e, g + 1)
      PROVE  Echoed(Append(q, e), g + 1)
  <2> DEFINE p == Append(q, e)
  <2>1. /\ IsSequence(p) /\ Len(p) = Len(q) + 1
        /\ p[Len(q) + 1] = e
        /\ \A k \in 1..Len(q) : p[k] = q[k]
    BY <1>1, SequenceAppend
  <2> HIDE DEF p
  <2>2. Len(p) = Rank(Pings, g + 1)
    BY <1>1, <1>3, <1>6, <2>1
  <2>3. ASSUME NEW f \in Pings, f <= g + 1 PROVE Answers(p[Rank(Pings, f)], f)
    <3>1. CASE f <= g
      <4>1. Rank(Pings, f) \in Nat /\ Rank(Pings, f) >= 1 /\ Rank(Pings, f) <= Rank(Pings, g)
        BY <1>0, <3>1, RankOrder
      <4>2. Rank(Pings, f) \in 1..Len(q)
        BY <1>1, <4>1
      <4>3. p[Rank(Pings, f)] = q[Rank(Pings, f)]
        BY <2>1, <4>2
      <4> QED
        BY <1>2, <3>1, <4>3
    <3>2. CASE f = g + 1
      <4>1. p[Rank(Pings, f)] = e
        BY <1>1, <1>3, <1>6, <2>1, <3>2
      <4> QED
        BY <1>6, <3>2, <4>1
    <3> QED
      BY <1>4, <2>3, <3>1, <3>2
  <2> QED
    BY <2>1, <2>2, <2>3 DEF Echoed, p
<1> QED
  BY <1>5, <1>6

\* The pongs sent are for the pings that have arrived, so far.
LEMMA EchoedSays ==
  ASSUME Len(wsScript) \in Nat, DOMAIN wsScript = 1..Len(wsScript),
         NEW g \in Nat, NEW q, Echoed(q, g), \A f \in Pings : f <= g => f \in Arrived
  PROVE  /\ Len(q) <= Cardinality(Pings \cap Arrived)
         /\ Arrived = 1..g => Len(q) = Cardinality(Pings \cap Arrived)
         /\ \A f \in Pings : Rank(Pings, f) <= Len(q) => Answers(q[Rank(Pings, f)], f)
<1> DEFINE S == {t \in Pings : t <= g}
<1>0. Pings \in SUBSET (1..Len(wsScript)) /\ \A f \in Pings : f \in Nat /\ f >= 1
  BY FramesSent
<1>1. Len(q) = Rank(Pings, g) /\ \A f \in Pings : f <= g => Answers(q[Rank(Pings, f)], f)
  BY DEF Echoed
<1>2. IsFiniteSet(Pings \cap Arrived)
  <2>1. IsFiniteSet(1..Len(wsScript))
    BY FS_Interval
  <2>2. Pings \cap Arrived \in SUBSET (1..Len(wsScript))
    BY <1>0
  <2> QED
    BY <2>1, <2>2, FS_Subset
<1>3. S \in SUBSET (Pings \cap Arrived)
  OBVIOUS
<1>4. Rank(Pings, g) = Cardinality(S)
  BY Zenon DEF Rank
<1>5. ASSUME Arrived = 1..g PROVE S = Pings \cap Arrived
  <2>1. \A f \in Pings : f <= g <=> f \in 1..g
    BY <1>0
  <2> QED
    BY <1>5, <2>1
<1>6. Len(q) <= Cardinality(Pings \cap Arrived)
  <2> HIDE DEF S
  <2> QED
    BY <1>1, <1>2, <1>3, <1>4, FS_Subset
<1>7. Arrived = 1..g => Len(q) = Cardinality(Pings \cap Arrived)
  BY <1>1, <1>4, <1>5
<1>8. ASSUME NEW f \in Pings, Rank(Pings, f) <= Len(q) PROVE Answers(q[Rank(Pings, f)], f)
  <2>1. f > g => Rank(Pings, f) > Rank(Pings, g)
    BY <1>0, RankOrder
  <2>2. Rank(Pings, f) \in Nat /\ Rank(Pings, g) \in Nat
    BY <1>0, RankIs
  <2>3. f <= g
    BY <1>0, <1>1, <1>8, <2>1, <2>2
  <2> QED
    BY <1>1, <2>3
<1> QED
  BY <1>6, <1>7, <1>8


-----------------------------------------------------------------------------
(* WSProtocol, the steps *)

\* What is bounded by all the client may send fits in 32 bits.
LEMMA BoundFits ==
  ASSUME NEW n \in Nat, n <= WsMaxFrames * WsMaxLen
  PROVE  Fits32(n)
<1> DEFINE p == WsMaxFrames * WsMaxLen
<1>1. WsMaxFrames \in Nat /\ WsMaxLen \in Nat
  BY WsAssumption
<1>2. p \in Nat
  BY <1>1, TimesMonotone
<1>3. p \div 65536 <= 65535
  BY WsAssumption
<1>4. n <= p
  OBVIOUS
<1> HIDE DEF p
<1>5. n \div 65536 <= 65535
  BY <1>2, <1>3, <1>4, SMT
<1> QED
  BY <1>5 DEF Fits32

LEMMA FrameIs ==
  ASSUME NEW frame \in WsFrames, WsMaxFrames >= 1
  PROVE  /\ IsFrame(frame) /\ Fits32(frame.len)
         /\ frame.len \in Nat /\ frame.len <= WsMaxLen
<1>1. IsFrame(frame) /\ frame.len <= WsMaxLen /\ WsMaxFrames \in Nat /\ WsMaxLen \in Nat
  BY WsAssumption
<1>2. frame.len \in Nat
  BY <1>1, SMT DEF IsFrame
<1>3. 1 * WsMaxLen <= WsMaxFrames * WsMaxLen /\ WsMaxFrames * WsMaxLen \in Nat
  BY <1>1, TimesMonotone
<1>4. frame.len <= WsMaxFrames * WsMaxLen
  <2> DEFINE p == WsMaxFrames * WsMaxLen
  <2>1. WsMaxLen <= p /\ p \in Nat
    BY <1>1, <1>3
  <2> HIDE DEF p
  <2>2. frame.len <= p
    BY <1>1, <1>2, <2>1
  <2> QED
    BY <2>2 DEF p
<1> QED
  BY <1>1, <1>2, <1>4, BoundFits

\* What is known of the frames sent.
LEMMA ScriptIs ==
  ASSUME wsScript \in Seq(WsFrames), Len(wsScript) <= WsMaxFrames
  PROVE  /\ Len(wsScript) \in Nat /\ DOMAIN wsScript = 1..Len(wsScript)
         /\ Sized(wsScript)
         /\ \A k \in 1..Len(wsScript) :
              /\ wsScript[k] \in WsFrames /\ IsFrame(wsScript[k]) /\ Fits32(wsScript[k].len)
              /\ wsScript[k].len \in Nat /\ wsScript[k].len <= WsMaxLen
              /\ Len(ClientHeader(wsScript[k])) = HeaderSize(wsScript[k])
              /\ HeaderSize(wsScript[k]) \in Nat /\ HeaderSize(wsScript[k]) >= 2
              /\ FrameLen(wsScript[k]) = HeaderSize(wsScript[k]) + wsScript[k].len
<1>1. Len(wsScript) \in Nat /\ DOMAIN wsScript = 1..Len(wsScript)
  OBVIOUS
<1>2. ASSUME NEW k \in 1..Len(wsScript)
      PROVE  /\ wsScript[k] \in WsFrames /\ IsFrame(wsScript[k]) /\ Fits32(wsScript[k].len)
             /\ wsScript[k].len \in Nat /\ wsScript[k].len <= WsMaxLen
             /\ Len(ClientHeader(wsScript[k])) = HeaderSize(wsScript[k])
             /\ HeaderSize(wsScript[k]) \in Nat /\ HeaderSize(wsScript[k]) >= 2
             /\ FrameLen(wsScript[k]) = HeaderSize(wsScript[k]) + wsScript[k].len
  <2>1. wsScript[k] \in WsFrames
    OBVIOUS
  <2>2. WsMaxFrames >= 1
    BY <1>1, WsAssumption
  <2>3. /\ IsFrame(wsScript[k]) /\ Fits32(wsScript[k].len)
        /\ wsScript[k].len \in Nat /\ wsScript[k].len <= WsMaxLen
    BY <2>1, <2>2, FrameIs
  <2>4. /\ Len(ClientHeader(wsScript[k])) = HeaderSize(wsScript[k])
        /\ Len(ClientHeader(wsScript[k])) \in Nat /\ Len(ClientHeader(wsScript[k])) >= 2
    BY <2>3, HeaderIs
  <2>5. FrameLen(wsScript[k]) = HeaderSize(wsScript[k]) + wsScript[k].len
    BY <2>4 DEF FrameLen
  <2> QED
    BY <2>1, <2>3, <2>4, <2>5
<1>3. Sized(wsScript)
  <2> DEFINE z(k) == wsScript[k].len
             h(k) == Len(ClientHeader(wsScript[k]))
  <2>1. \A k \in 1..Len(wsScript) : z(k) \in Nat /\ h(k) \in Nat /\ h(k) >= 2
    BY <1>2
  <2> QED
    BY <1>1, <1>2, <2>1 DEF Sized, FrameLen
<1> QED
  BY <1>1, <1>2, <1>3

\* wsScript' begins with wsScript.
Extended ==
  /\ Len(wsScript) \in Nat /\ DOMAIN wsScript = 1..Len(wsScript)
  /\ Len(wsScript') \in Nat /\ DOMAIN wsScript' = 1..Len(wsScript')
  /\ Len(wsScript) <= Len(wsScript')
  /\ \A k \in 1..Len(wsScript) : wsScript'[k] = wsScript[k]

\* What is said of the first frames stays true.
LEMMA MessagesStay ==
  ASSUME Extended, NEW g \in 0..Len(wsScript)
  PROVE  /\ MessageOpen(g)' <=> MessageOpen(g)
         /\ \A k \in 1..g : Clear(k)' = Clear(k)
<1>1. \A k \in 1..g : k \in 1..Len(wsScript)
  BY DEF Extended
<1>2. \A k \in 1..g : wsScript'[k] = wsScript[k]
  BY <1>1 DEF Extended
<1>3. MessageOpen(g)' <=> MessageOpen(g)
  <2>1. \A j \in 1..g : \A t \in j..g : t \in 1..g
    BY DEF Extended
  <2> QED
    BY <1>2, <2>1 DEF MessageOpen
<1>4. ASSUME NEW k \in 1..g PROVE Clear(k)' = Clear(k)
  <2>1. wsScript'[k] = wsScript[k]
    BY <1>2
  <2> QED
    BY <2>1 DEF Clear
<1> QED
  BY <1>3, <1>4

LEMMA FragmentsStay ==
  ASSUME Extended, NEW g \in 0..Len(wsScript), NEW s \in 0..g
  PROVE  /\ Within(g, s)' <=> Within(g, s)
         /\ OpOpen(s)' = OpOpen(s)
         /\ Fragments(g, s)' = Fragments(g, s)
         /\ s # 0 => Kept(s, g)' = Kept(s, g) /\ (Began(s, g)' <=> Began(s, g))
<1>1. /\ g \in Nat /\ s \in Nat /\ \A k \in 1..g : k \in 1..Len(wsScript)
      /\ Len(wsScript) \in Nat
  BY DEF Extended
<1>2. \A k \in 1..g : wsScript'[k] = wsScript[k]
  BY <1>1 DEF Extended
<1>3. MessageOpen(g)' <=> MessageOpen(g)
  BY MessagesStay
<1>4. OpOpen(s)' = OpOpen(s)
  <2>1. s # 0 => s \in 1..g
    BY <1>1
  <2> QED
    BY <1>2, <2>1 DEF OpOpen
<1>5. \A t \in (s + 1)..g : t \in 1..g
  BY <1>1
<1>6. Within(g, s)' <=> Within(g, s)
  <2>1. CASE s = 0
    BY <1>3, <2>1 DEF Within
  <2>2. CASE s # 0
    BY <1>2, <1>5, <2>2 DEF Within
  <2> QED
    BY <2>1, <2>2
<1>7. ASSUME s # 0 PROVE Kept(s, g)' = Kept(s, g)
  <2>1. \A t \in s..g : \A u \in t..g : u \in 1..g
    BY <1>1, <1>7
  <2>2. \A u \in 1..g : IsData(u)' <=> IsData(u)
    BY <1>2 DEF IsData
  <2>3. \A t \in s..g : (\A u \in t..g : IsData(u)') <=> (\A u \in t..g : IsData(u))
    BY <2>1, <2>2
  <2> QED
    BY <2>3 DEF Kept
<1>8. Fragments(g, s)' = Fragments(g, s)
  BY <1>7 DEF Fragments
<1>9. ASSUME s # 0 PROVE Began(s, g)' <=> Began(s, g)
  <2>1. s \in 1..g
    BY <1>1, <1>9
  <2> QED
    BY <1>2, <1>5, <2>1 DEF Began
<1> QED
  BY <1>4, <1>6, <1>7, <1>8, <1>9

LEMMA JoinsStay ==
  ASSUME Extended, NEW K \in SUBSET (1..Len(wsScript)), NEW p
  PROVE  Joins(p, K)' <=> Joins(p, K)
<1>1. \A k \in K : Clear(k)' = Clear(k)
  <2>1. Len(wsScript) \in 0..Len(wsScript)
    BY DEF Extended
  <2> QED
    BY <2>1, MessagesStay
<1>2. (\A k \in DOMAIN p : \E f \in K : \E i \in DOMAIN Clear(f)' : p[k] = Clear(f)'[i])
      <=> (\A k \in DOMAIN p : \E f \in K : \E i \in DOMAIN Clear(f) : p[k] = Clear(f)[i])
  BY ONLY <1>1
<1>3. (\A f \in K : \A i \in DOMAIN Clear(f)' : \E k \in DOMAIN p : p[k] = Clear(f)'[i])
      <=> (\A f \in K : \A i \in DOMAIN Clear(f) : \E k \in DOMAIN p : p[k] = Clear(f)[i])
  BY ONLY <1>1
<1> QED
  BY ONLY <1>2, <1>3 DEF Joins

LEMMA DeliveredStay ==
  ASSUME Extended, NEW f \in 1..Len(wsScript), NEW m
  PROVE  Delivered(m, f)' <=> Delivered(m, f)
<1>1. f \in 0..Len(wsScript) /\ f \in Nat
  BY DEF Extended
<1>2. ASSUME NEW s \in 1..f
      PROVE  (/\ Began(s, f) /\ m.op = wsScript[s].op /\ Joins(m.payload, Kept(s, f)))'
              <=> (/\ Began(s, f) /\ m.op = wsScript[s].op /\ Joins(m.payload, Kept(s, f)))
  <2>1. s \in 0..f /\ s # 0 /\ s \in 1..Len(wsScript)
    BY <1>1 DEF Extended
  <2>2. Kept(s, f)' = Kept(s, f) /\ (Began(s, f)' <=> Began(s, f))
    BY <1>1, <2>1, FragmentsStay
  <2>3. Kept(s, f) \in SUBSET (1..Len(wsScript))
    <3>1. \A t \in s..f : t \in 1..Len(wsScript)
      BY <1>1, <2>1 DEF Extended
    <3> QED
      BY <3>1 DEF Kept
  <2>4. Joins(m.payload, Kept(s, f))' <=> Joins(m.payload, Kept(s, f))
    <3> DEFINE K == Kept(s, f)
    <3>1. K \in SUBSET (1..Len(wsScript)) /\ Kept(s, f)' = K
      BY <2>2, <2>3
    <3> HIDE DEF K
    <3>2. PICK L : L = K
      OBVIOUS
    <3>3. Joins(m.payload, L)' <=> Joins(m.payload, L)
      BY <3>1, <3>2, JoinsStay
    <3>4. Kept(s, f)' = L /\ Kept(s, f) = L
      BY <3>1, <3>2 DEF K
    <3> QED
      BY <3>3, <3>4 DEF Joins
  <2>5. wsScript'[s].op = wsScript[s].op
    BY <2>1 DEF Extended
  <2> QED
    BY <2>2, <2>4, <2>5
<1> QED
  BY <1>2 DEF Delivered


LEMMA CollectedStays ==
  ASSUME Extended, NEW g \in 0..Len(wsScript), NEW s \in 0..g, NEW p, Collected(p, g, s), wsFrag' = p
  PROVE  Collected(wsFrag, g, s)'
<1>1. PICK K : K = Fragments(g, s)
  OBVIOUS
<1>2. Fragments(g, s)' = K
  BY <1>1, FragmentsStay
<1>3. K \in SUBSET (1..Len(wsScript))
  <2>1. g \in Nat /\ \A t \in s..g : s # 0 => t \in 1..Len(wsScript)
    BY DEF Extended
  <2> QED
    BY <1>1, <2>1 DEF Fragments, Kept
<1>4. Joins(p, K) /\ IsSequence(p) /\ Len(p) <= g * WsMaxLen
  BY <1>1 DEF Collected
<1>5. Joins(p, K)'
  BY <1>3, <1>4, JoinsStay
<1>6. Joins(wsFrag, Fragments(g, s))'
  BY <1>2, <1>5 DEF Joins
<1> QED
  BY <1>4, <1>6 DEF Collected

LEMMA HeardStays ==
  ASSUME Extended, NEW g \in 0..Len(wsScript), NEW q, Heard(q, g), wsGot' = q
  PROVE  Heard(wsGot, g)'
<1>0. g \in Nat /\ Len(wsScript) \in Nat /\ Ends \in SUBSET (1..Len(wsScript))
  BY FramesSent DEF Extended
<1>1. \A f \in 1..Len(wsScript) : f \in Ends' <=> f \in Ends
  <2>1. \A f \in 1..Len(wsScript) : /\ wsScript'[f] = wsScript[f]
                                    /\ f \in DOMAIN wsScript /\ f \in DOMAIN wsScript'
    BY DEF Extended
  <2> QED
    BY <2>1 DEF Ends, IsData
<1>2. \A f \in Ends' : f \in Nat /\ f >= 1
  <2>1. Ends' \in SUBSET (1..Len(wsScript'))
    <3>1. \A f \in Ends' : f \in DOMAIN wsScript'
      BY DEF Ends
    <3> QED
      BY <3>1 DEF Extended
  <2>2. \A f \in 1..Len(wsScript') : f \in Nat /\ f >= 1
    BY DEF Extended
  <2> QED
    BY <2>1, <2>2
<1>3. ASSUME NEW k \in 0..Len(wsScript) PROVE Rank(Ends, k)' = Rank(Ends, k)
  <2>1. ASSUME NEW f \in Ends', f <= k PROVE f \in Ends
    <3>1. f \in 1..Len(wsScript)
      BY <1>0, <1>2, <2>1
    <3> QED
      BY <1>1, <3>1
  <2>2. \A f \in Ends : f \in Ends'
    BY <1>0, <1>1
  <2>3. {t \in Ends' : t <= k} = {t \in Ends : t <= k}
    BY <2>1, <2>2
  <2> QED
    BY <2>3 DEF Rank
<1>4. IsSequence(q) /\ Len(q) = Rank(Ends, g) /\ \A f \in Ends : f <= g => Delivered(q[Rank(Ends, f)], f)
  BY DEF Heard
<1>5. ASSUME NEW f \in Ends', f <= g PROVE Delivered(wsGot[Rank(Ends, f)], f)'
  <2>1. f \in 1..Len(wsScript) /\ f \in 0..Len(wsScript)
    BY <1>0, <1>2, <1>5
  <2>2. f \in Ends /\ Rank(Ends, f)' = Rank(Ends, f)
    BY <1>1, <1>3, <2>1
  <2>3. PICK m : m = q[Rank(Ends, f)]
    OBVIOUS
  <2>4. Delivered(m, f)
    BY <1>4, <1>5, <2>2, <2>3
  <2>5. Delivered(m, f)'
    BY <2>1, <2>4, DeliveredStay
  <2>6. wsGot'[Rank(Ends, f)'] = m
    BY <2>2, <2>3
  <2> QED
    BY <2>5, <2>6 DEF Delivered, Joins
<1>6. Len(wsGot') = Rank(Ends, g)'
  BY <1>3, <1>4
<1> QED
  BY <1>4, <1>5, <1>6 DEF Heard

LEMMA AnswersStay ==
  ASSUME Extended, NEW f \in 1..Len(wsScript), NEW m
  PROVE  Answers(m, f)' <=> Answers(m, f)
<1>1. f \in 0..Len(wsScript) /\ f - 1 \in 0..Len(wsScript) /\ f \in 1..f
  BY DEF Extended
<1>2. (MessageOpen(f - 1)' <=> MessageOpen(f - 1)) /\ Clear(f)' = Clear(f)
  BY <1>1, MessagesStay
<1>3. wsScript'[f] = wsScript[f]
  BY DEF Extended
<1> QED
  BY <1>2, <1>3 DEF Answers

LEMMA EchoedStays ==
  ASSUME Extended, NEW g \in 0..Len(wsScript), NEW q, Echoed(q, g), wsPongs' = q
  PROVE  Echoed(wsPongs, g)'
<1>0. g \in Nat /\ Len(wsScript) \in Nat /\ Pings \in SUBSET (1..Len(wsScript))
  BY FramesSent DEF Extended
<1>1. \A f \in 1..Len(wsScript) : f \in Pings' <=> f \in Pings
  <2>1. \A f \in 1..Len(wsScript) : /\ wsScript'[f] = wsScript[f]
                                    /\ f \in DOMAIN wsScript /\ f \in DOMAIN wsScript'
    BY DEF Extended
  <2> QED
    BY <2>1 DEF Pings, IsData
<1>2. \A f \in Pings' : f \in Nat /\ f >= 1
  <2>1. Pings' \in SUBSET (1..Len(wsScript'))
    <3>1. \A f \in Pings' : f \in DOMAIN wsScript'
      BY DEF Pings
    <3> QED
      BY <3>1 DEF Extended
  <2>2. \A f \in 1..Len(wsScript') : f \in Nat /\ f >= 1
    BY DEF Extended
  <2> QED
    BY <2>1, <2>2
<1>3. ASSUME NEW k \in 0..Len(wsScript) PROVE Rank(Pings, k)' = Rank(Pings, k)
  <2>1. ASSUME NEW f \in Pings', f <= k PROVE f \in Pings
    <3>1. f \in 1..Len(wsScript)
      BY <1>0, <1>2, <2>1
    <3> QED
      BY <1>1, <3>1
  <2>2. \A f \in Pings : f \in Pings'
    BY <1>0, <1>1
  <2>3. {t \in Pings' : t <= k} = {t \in Pings : t <= k}
    BY <2>1, <2>2
  <2> QED
    BY <2>3 DEF Rank
<1>4. IsSequence(q) /\ Len(q) = Rank(Pings, g) /\ \A f \in Pings : f <= g => Answers(q[Rank(Pings, f)], f)
  BY DEF Echoed
<1>5. ASSUME NEW f \in Pings', f <= g PROVE Answers(wsPongs[Rank(Pings, f)], f)'
  <2>1. f \in 1..Len(wsScript) /\ f \in 0..Len(wsScript)
    BY <1>0, <1>2, <1>5
  <2>2. f \in Pings /\ Rank(Pings, f)' = Rank(Pings, f)
    BY <1>1, <1>3, <2>1
  <2>3. PICK m : m = q[Rank(Pings, f)]
    OBVIOUS
  <2>4. Answers(m, f)
    BY <1>4, <1>5, <2>2, <2>3
  <2>5. Answers(m, f)'
    BY <2>1, <2>4, AnswersStay
  <2>6. wsPongs'[Rank(Pings, f)'] = m
    BY <2>2, <2>3
  <2> QED
    BY <2>5, <2>6 DEF Answers, Joins
<1>6. Len(wsPongs') = Rank(Pings, g)'
  BY <1>3, <1>4
<1> QED
  BY <1>4, <1>5, <1>6 DEF Echoed


\* The state of an open connection, after g frames in a message that began with s
Opened(g, s) ==
    /\ g \in 0..Len(wsScript) /\ s \in 0..g
    /\ Within(g, s) /\ Collected(wsFrag, g, s) /\ Heard(wsGot, g) /\ Echoed(wsPongs, g)
    /\ Between(g, s) \/ InFrame(g, s)

LEMMA UnreadIs ==
  ASSUME wsIn \in Seq(WsByte), wsUsed \in 0..Len(wsIn), wsLeft \in Seq(WsByte)
  PROVE  /\ Unread \in Seq(WsByte) /\ Len(Unread) \in Nat /\ Len(Unread) = Len(wsIn) - wsUsed
         /\ wsUsed = 0 => Unread = wsIn
         /\ \A i \in 1..Len(Unread) : Unread[i] = wsIn[wsUsed + i] /\ (Unread \o wsLeft)[i] = Unread[i]
         /\ \A i \in 1..Len(wsLeft) : (Unread \o wsLeft)[Len(Unread) + i] = wsLeft[i]
         /\ Len(Unread \o wsLeft) = Len(Unread) + Len(wsLeft) /\ Len(wsLeft) \in Nat
<1>1. /\ Unread \in Seq(WsByte) /\ Len(Unread) = Len(wsIn) - wsUsed
      /\ \A i \in 1..(Len(wsIn) - wsUsed) : Unread[i] = wsIn[wsUsed + i]
  BY AfterIs DEF Unread
<1>2. ASSUME wsUsed = 0 PROVE Unread = wsIn
  BY <1>2 DEF Unread, After
<1>3. /\ Len(Unread \o wsLeft) = Len(Unread) + Len(wsLeft)
      /\ Len(Unread) \in Nat /\ Len(wsLeft) \in Nat
      /\ \A i \in 1..Len(Unread) : (Unread \o wsLeft)[i] = Unread[i]
      /\ \A i \in 1..Len(wsLeft) : (Unread \o wsLeft)[Len(Unread) + i] = wsLeft[i]
  <2>1. Unread \in Seq(WsByte) /\ wsLeft \in Seq(WsByte)
    BY <1>1
  <2> QED
    BY ONLY <2>1, Joined
<1> QED
  BY <1>1, <1>2, <1>3

\* Frames that are used have arrived.
LEMMA UsedArrived ==
  ASSUME NEW u \in Seq(WsByte), wsLeft \in Seq(WsByte),
         wsScript \in Seq(WsFrames), Len(wsScript) <= WsMaxFrames,
         NEW g, NEW o, Rest(u \o wsLeft, wsScript, g, o)
  PROVE  \A f \in 1..g : f \in Arrived
<1>1. /\ Len(u \o wsLeft) = Len(u) + Len(wsLeft) /\ Len(wsLeft) \in Nat /\ Len(u) \in Nat
      /\ \A i \in 1..Len(wsLeft) : (u \o wsLeft)[Len(u) + i] = wsLeft[i]
      /\ DOMAIN wsLeft = 1..Len(wsLeft)
  BY Joined
<1>2. Sized(wsScript) /\ Len(wsScript) \in Nat /\ DOMAIN wsScript = 1..Len(wsScript)
  BY ScriptIs
<1>3. \A k \in 1..Len(u \o wsLeft) : (u \o wsLeft)[k].f \in (g + 1)..Len(wsScript)
  BY <1>2, RestFrames
<1>4. g \in 0..Len(wsScript)
  BY Zenon DEF Rest
<1>5. ASSUME NEW f \in 1..g, NEW k \in 1..Len(wsLeft) PROVE wsLeft[k].f # f
  <2>1. Len(u) + k \in 1..Len(u \o wsLeft)
    BY <1>1
  <2>2. wsLeft[k].f \in (g + 1)..Len(wsScript)
    BY <1>1, <1>3, <2>1
  <2> QED
    BY <1>2, <1>4, <2>2
<1> QED
  BY <1>1, <1>2, <1>4, <1>5 DEF Arrived

\* The protocol waits for the rest of frame g + 1: what has arrived is what it
\* has used.
LEMMA WaitsArrived ==
  ASSUME wsIn \in Seq(WsByte), wsUsed \in 0..Len(wsIn), wsLeft \in Seq(WsByte),
         wsScript \in Seq(WsFrames), Len(wsScript) <= WsMaxFrames,
         NEW g, NEW o, Rest(Unread \o wsLeft, wsScript, g, o),
         g < Len(wsScript) => Len(Unread) < FrameLen(wsScript[g + 1]) - o
  PROVE  Arrived = 1..g
<1>1. Unread \in Seq(WsByte) /\ DOMAIN wsLeft = 1..Len(wsLeft)
  BY UnreadIs
<1>2. Sized(wsScript) /\ DOMAIN wsScript = 1..Len(wsScript)
  BY ScriptIs
<1>3. {f \in 1..Len(wsScript) : \A k \in 1..Len(wsLeft) : wsLeft[k].f # f} = 1..g
  BY <1>1, <1>2, LeftFrames
<1> QED
  BY <1>1, <1>2, <1>3 DEF Arrived

LEMMA OpOpenIs ==
  ASSUME NEW g \in Nat, NEW s \in 0..g, Within(g, s)
  PROVE  (OpOpen(s) = 0 /\ s = 0) \/ (OpOpen(s) \in {1, 2} /\ s # 0)
BY DEF OpOpen, Within

\* What the application and the client have been told.
LEMMA OpenSays ==
  ASSUME WSShape, WSOpenState
  PROVE  /\ wsCont \in 0..7
         /\ wsPc = "idle" => /\ wsUsed = 0
                             /\ wsFrame.len > 0 => Len(wsIn) < wsFrame.len
                             /\ wsFrame.len = 0 /\ wsIn # << >> => wsIn[1].i = 1
         /\ Len(wsGot) <= Cardinality(Ends \cap Arrived)
         /\ wsPc = "idle" => Len(wsGot) = Cardinality(Ends \cap Arrived)
         /\ \A f \in Ends : Rank(Ends, f) <= Len(wsGot) => Delivered(wsGot[Rank(Ends, f)], f)
         /\ Len(wsPongs) <= Cardinality(Pings \cap Arrived)
         /\ wsPc = "idle" => Len(wsPongs) = Cardinality(Pings \cap Arrived)
         /\ \A f \in Pings : Rank(Pings, f) <= Len(wsPongs) => Answers(wsPongs[Rank(Pings, f)], f)
<1>1. /\ wsIn \in Seq(WsByte) /\ wsLeft \in Seq(WsByte) /\ wsUsed \in 0..Len(wsIn)
      /\ wsPc = "idle" => wsUsed = 0
  BY Zenon DEF WSOpenState
<1>2. wsScript \in Seq(WsFrames) /\ Len(wsScript) <= WsMaxFrames
  <2>1. wsScript \in Seq(WsFrames) /\ Len(wsScript) + 2 * wsSends <= WsMaxFrames /\ wsSends \in Nat
    BY Zenon DEF WSShape
  <2>2. Len(wsScript) \in Nat /\ WsMaxFrames \in Nat
    BY <2>1, WsAssumption
  <2> QED
    BY <2>1, <2>2
<1>3. /\ Len(wsScript) \in Nat /\ DOMAIN wsScript = 1..Len(wsScript)
      /\ \A k \in 1..Len(wsScript) :
           /\ IsFrame(wsScript[k]) /\ wsScript[k].len \in Nat
           /\ Len(ClientHeader(wsScript[k])) = HeaderSize(wsScript[k])
           /\ HeaderSize(wsScript[k]) \in Nat /\ HeaderSize(wsScript[k]) >= 2
           /\ FrameLen(wsScript[k]) = HeaderSize(wsScript[k]) + wsScript[k].len
  BY <1>2, ScriptIs
<1>4. PICK g, s : Opened(g, s)
  <2>1. \E g \in 0..Len(wsScript) : \E s \in 0..g :
         /\ Within(g, s) /\ Collected(wsFrag, g, s) /\ Heard(wsGot, g) /\ Echoed(wsPongs, g)
         /\ Between(g, s) \/ InFrame(g, s)
    BY Zenon DEF WSOpenState
  <2> QED
    BY <2>1 DEF Opened
<1>5. /\ g \in Nat /\ g \in 0..Len(wsScript) /\ s \in 0..g
      /\ Within(g, s) /\ Heard(wsGot, g) /\ Echoed(wsPongs, g)
      /\ Between(g, s) \/ InFrame(g, s)
  <2>1. /\ g \in 0..Len(wsScript) /\ s \in 0..g
        /\ Within(g, s) /\ Heard(wsGot, g) /\ Echoed(wsPongs, g)
        /\ Between(g, s) \/ InFrame(g, s)
    BY Zenon, <1>4 DEF Opened
  <2>2. Len(wsScript) \in Nat
    BY <1>3
  <2>3. g \in Nat
    BY ONLY <2>1, <2>2
  <2> QED
    BY Zenon, <2>1, <2>3
<1>6. OpOpen(s) = 0 \/ OpOpen(s) \in {1, 2}
  BY <1>5, OpOpenIs
<1>7. Unread \in Seq(WsByte) /\ Len(Unread) \in Nat /\ (wsPc = "idle" => Unread = wsIn) /\ Len(wsIn) \in Nat
  BY <1>1, UnreadIs
<1>8. /\ \A f \in 1..g : f \in Arrived
      /\ wsPc = "idle" => Arrived = 1..g
      /\ wsCont \in 0..7
      /\ wsPc = "idle" => /\ wsFrame.len > 0 => Len(wsIn) < wsFrame.len
                          /\ wsFrame.len = 0 /\ wsIn # << >> => wsIn[1].i = 1
  <2>1. CASE Between(g, s)
    <3>1. /\ Rest(Unread \o wsLeft, wsScript, g, 0) /\ wsFrame = NoFrame /\ wsCont = OpOpen(s)
          /\ wsPc = "idle" /\ g < Len(wsScript) => Len(wsIn) < Len(ClientHeader(wsScript[g + 1]))
      BY <2>1 DEF Between
    <3>2. \A f \in 1..g : f \in Arrived
      BY <1>1, <1>2, <1>7, <3>1, UsedArrived
    <3>3. ASSUME wsPc = "idle", g < Len(wsScript) PROVE Len(Unread) < FrameLen(wsScript[g + 1]) - 0
      <4>1. g + 1 \in 1..Len(wsScript)
        BY <1>3, <1>5, <3>3
      <4> QED
        BY <1>3, <1>7, <3>1, <3>3, <4>1
    <3>4. wsPc = "idle" => Arrived = 1..g
      BY <1>1, <1>2, <3>1, <3>3, WaitsArrived
    <3>5. wsFrame.len = 0 /\ wsCont \in 0..7
      BY <1>6, <3>1 DEF NoFrame
    <3>6. ASSUME wsPc = "idle", wsIn # << >> PROVE wsIn[1].i = 1
      <4>1. Len(Unread) >= 1 /\ 1 \in 1..Len(Unread) /\ Unread = wsIn
        BY <1>1, <1>7, <3>6
      <4>2. (Unread \o wsLeft)[1] = wsIn[1] /\ Len(Unread \o wsLeft) >= 1
        BY <1>1, <4>1, UnreadIs
      <4>3. Unread \o wsLeft # << >>
        BY <4>2
      <4>4. (Unread \o wsLeft)[1].i = 0 + 1
        BY <3>1, <4>3 DEF Rest
      <4> QED
        BY <4>2, <4>4
    <3> QED
      BY <3>2, <3>4, <3>5, <3>6
  <2>2. CASE InFrame(g, s)
    <3> DEFINE f == wsScript[g + 1]
    <3>1. /\ g < Len(wsScript)
          /\ IF f.len = 0 THEN Rest(Unread \o wsLeft, wsScript, g + 1, 0)
             ELSE Rest(Unread \o wsLeft, wsScript, g, Len(ClientHeader(f)))
          /\ wsFrame.len = f.len
          /\ wsPc = "idle" => Len(wsIn) < f.len
      BY <2>2 DEF InFrame
    <3>2. wsCont = 0 \/ (~f.fin /\ wsCont = f.op) \/ wsCont = OpOpen(s)
      BY <2>2 DEF InFrame
    <3>3. g + 1 \in 1..Len(wsScript)
      BY <1>3, <1>5, <3>1
    <3>4. IsFrame(f)
      BY <1>3, <3>3
    <3>5. f.op \in 0..15 /\ (f.op > 2 => f.fin)
      BY <3>4, SMT DEF IsFrame
    <3>6. wsCont \in 0..7
      <4> HIDE DEF f
      <4>1. CASE ~f.fin /\ wsCont = f.op
        <5>1. ~ (f.op > 2)
          BY <3>5, <4>1
        <5> QED
          BY <3>5, <4>1, <5>1
      <4> QED
        BY <1>6, <3>2, <4>1
    <3>7. \A h \in 1..g : h \in Arrived
      <4>1. CASE f.len = 0
        <5>1. \A h \in 1..(g + 1) : h \in Arrived
          BY <1>1, <1>2, <1>7, <3>1, <4>1, UsedArrived
        <5> QED
          BY ONLY <1>5, <5>1
      <4>2. CASE f.len # 0
        BY <1>1, <1>2, <1>7, <3>1, <4>2, UsedArrived
      <4> QED
        BY <4>1, <4>2
    <3>8. ASSUME wsPc = "idle"
          PROVE  Arrived = 1..g /\ Len(wsIn) < wsFrame.len /\ wsFrame.len # 0
      <4>1. f.len \in Nat /\ f.len # 0 /\ Len(wsIn) < f.len
        BY <1>3, <1>7, <3>1, <3>3, <3>8
      <4>2. Len(Unread) < FrameLen(f) - Len(ClientHeader(f))
        BY <1>3, <1>7, <3>3, <3>8, <4>1
      <4>3. Arrived = 1..g
        BY <1>1, <1>2, <3>1, <4>1, <4>2, WaitsArrived
      <4> QED
        BY <3>1, <4>1, <4>3
    <3> QED
      BY <3>6, <3>7, <3>8
  <2> QED
    BY <1>5, <2>1, <2>2
<1>9. \A f : f \in Nat /\ f >= 1 /\ f <= g => f \in Arrived
  BY <1>5, <1>8
<1>10. \A f \in Ends \cup Pings : f \in Nat /\ f >= 1
  BY <1>3, FramesSent
<1>11. /\ Len(wsGot) <= Cardinality(Ends \cap Arrived)
       /\ Arrived = 1..g => Len(wsGot) = Cardinality(Ends \cap Arrived)
       /\ \A f \in Ends : Rank(Ends, f) <= Len(wsGot) => Delivered(wsGot[Rank(Ends, f)], f)
  BY <1>3, <1>5, <1>9, <1>10, HeardSays
<1>12. /\ Len(wsPongs) <= Cardinality(Pings \cap Arrived)
       /\ Arrived = 1..g => Len(wsPongs) = Cardinality(Pings \cap Arrived)
       /\ \A f \in Pings : Rank(Pings, f) <= Len(wsPongs) => Answers(wsPongs[Rank(Pings, f)], f)
  BY <1>3, <1>5, <1>9, <1>10, EchoedSays
<1> QED
  BY <1>1, <1>8, <1>11, <1>12


LEMMA ShapeSays ==
  ASSUME WSShape
  PROVE  /\ wsScript \in Seq(WsFrames) /\ Compliant /\ wsReq \in WsRequests /\ HeaderSent
         /\ Len(wsScript) \in Nat /\ DOMAIN wsScript = 1..Len(wsScript) /\ Len(wsScript) <= WsMaxFrames
         /\ wsSends \in Nat /\ Len(wsScript) + 2 * wsSends <= WsMaxFrames /\ WsMaxFrames \in Nat
         /\ wsSentClose \in BOOLEAN /\ wsCloses = (IF wsSentClose THEN 1 ELSE 0)
<1>1. /\ wsScript \in Seq(WsFrames) /\ Compliant /\ wsReq \in WsRequests /\ HeaderSent
      /\ wsSends \in Nat /\ Len(wsScript) + 2 * wsSends <= WsMaxFrames
      /\ wsSentClose \in BOOLEAN /\ wsCloses = (IF wsSentClose THEN 1 ELSE 0)
  BY Zenon DEF WSShape
<1>2. WsMaxFrames \in Nat
  BY WsAssumption
<1>3. Len(wsScript) \in Nat /\ DOMAIN wsScript = 1..Len(wsScript)
  BY <1>1
<1>4. Len(wsScript) <= WsMaxFrames
  BY <1>1, <1>2, <1>3
<1> QED
  BY <1>1, <1>2, <1>3, <1>4

\* A frame is sent with the header that was asked for.
LEMMA SendIs ==
  ASSUME NEW fin \in BOOLEAN, NEW op \in 0..15, op > 2 => fin, NEW len \in Nat, Fits32(len),
         SendWS(fin, op, len)
  PROVE  HeaderSent'
<1>1. /\ wsHeader'.fin = fin /\ wsHeader'.op = op /\ wsHeader'.len = len
      /\ wsHeader'.bytes = EncodeHeader([fin |-> fin, op |-> op, masked |-> FALSE], len)
  BY Zenon DEF SendWS
<1> QED
  BY <1>1 DEF HeaderSent, Fits32

\* The part of the state that says what was sent
SentOK ==
  /\ wsSentClose \in BOOLEAN /\ wsCloses = (IF wsSentClose THEN 1 ELSE 0)
  /\ HeaderSent

LEMMA NothingSent ==
  ASSUME WSShape, UNCHANGED <<wsSentClose, wsCloses, wsHeader>>
  PROVE  SentOK'
BY ShapeSays DEF SentOK, HeaderSent

LEMMA CloseSent ==
  ASSUME WSShape, SendClose
  PROVE  SentOK'
<1>1. wsSentClose \in BOOLEAN /\ wsCloses = (IF wsSentClose THEN 1 ELSE 0)
  BY ShapeSays
<1>2. CASE wsSentClose
  BY <1>2, NothingSent DEF SendClose
<1>3. CASE ~wsSentClose
  <2>1. wsSentClose' = TRUE /\ wsCloses' = wsCloses + 1 /\ SendWS(TRUE, 8, 2)
    BY <1>3 DEF SendClose
  <2>2. Fits32(2)
    BY SMT DEF Fits32
  <2>3. PICK fin, op, len : fin = TRUE /\ op = 8 /\ len = 2
    OBVIOUS
  <2>4. fin \in BOOLEAN /\ op \in 0..15 /\ (op > 2 => fin) /\ len \in Nat /\ Fits32(len)
    BY <2>2, <2>3
  <2>5. SendWS(fin, op, len)
    BY <2>1, <2>3
  <2>6. HeaderSent'
    BY ONLY <2>4, <2>5, SendIs
  <2> QED
    BY <1>1, <1>3, <2>1, <2>6 DEF SentOK
<1> QED
  BY <1>1, <1>2, <1>3

LEMMA ShapeStays ==
  ASSUME WSShape, wsScript' = wsScript, wsReq' = wsReq, wsSends' = wsSends, SentOK'
  PROVE  WSShape'
<1>1. Compliant'
  BY ShapeSays DEF Compliant, MessageOpen
<1> QED
  BY <1>1, ShapeSays DEF WSShape, SentOK

LEMMA SameScript ==
  ASSUME WSShape, wsScript' = wsScript
  PROVE  Extended
BY ShapeSays DEF Extended

\* The handshake is as it was.
LEMMA OpenedStays ==
  ASSUME WSOpened, wsState' = wsState, UNCHANGED <<wsScript, wsReq, wsAsk, wsReply, wsClean>>
  PROVE  WSOpened'
BY DEF WSOpened

\* A connection that is open after a step
LEMMA StaysOpen ==
  ASSUME WSShape', WSOpened', wsState' = "open", WSOpenState'
  PROVE  WSInv'
BY DEF WSInv

LEMMA OpenStateSays ==
  ASSUME WSOpenState
  PROVE  /\ wsIn \in Seq(WsByte) /\ wsLeft \in Seq(WsByte) /\ wsUsed \in 0..Len(wsIn)
         /\ wsPc \in {"idle", "header", "payload"} /\ wsReply = "101"
         /\ wsPc = "idle" => wsUsed = 0
         /\ wsPc # "idle" => wsScript # << >>
         /\ \E g, s : Opened(g, s)
<1>1. /\ wsIn \in Seq(WsByte) /\ wsLeft \in Seq(WsByte) /\ wsUsed \in 0..Len(wsIn)
      /\ wsPc \in {"idle", "header", "payload"} /\ wsReply = "101"
      /\ wsPc = "idle" => wsUsed = 0
      /\ wsPc # "idle" => wsScript # << >>
  BY Zenon DEF WSOpenState
<1>2. \E g \in 0..Len(wsScript) : \E s \in 0..g :
         /\ Within(g, s) /\ Collected(wsFrag, g, s) /\ Heard(wsGot, g) /\ Echoed(wsPongs, g)
         /\ Between(g, s) \/ InFrame(g, s)
  BY Zenon DEF WSOpenState
<1> QED
  BY <1>1, <1>2 DEF Opened

\* What is told of the first g frames, after a step that tells nothing.
LEMMA TellsNothing ==
  ASSUME Extended, NEW g \in 0..Len(wsScript), NEW s \in 0..g,
         Within(g, s), Collected(wsFrag, g, s), Heard(wsGot, g), Echoed(wsPongs, g),
         wsFrag' = wsFrag, wsGot' = wsGot, wsPongs' = wsPongs
  PROVE  Within(g, s)' /\ Collected(wsFrag, g, s)' /\ Heard(wsGot, g)' /\ Echoed(wsPongs, g)'
<1>1. PICK p, q, r : p = wsFrag /\ q = wsGot /\ r = wsPongs
  OBVIOUS
<1>2. Within(g, s)'
  BY FragmentsStay
<1>3. Collected(p, g, s) /\ Heard(q, g) /\ Echoed(r, g)
  BY <1>1
<1>4. wsFrag' = p /\ wsGot' = q /\ wsPongs' = r
  BY <1>1
<1>5. Collected(wsFrag, g, s)'
  BY <1>3, <1>4, CollectedStays
<1>6. Heard(wsGot, g)'
  BY <1>3, <1>4, HeardStays
<1>7. Echoed(wsPongs, g)'
  BY <1>3, <1>4, EchoedStays
<1> QED
  BY <1>2, <1>5, <1>6, <1>7

\* A step that leaves the frames handled alone
LEMMA OpenStateFrom ==
  ASSUME NEW g, NEW s,
         (g \in 0..Len(wsScript) /\ s \in 0..g)',
         Within(g, s)', Collected(wsFrag, g, s)', Heard(wsGot, g)', Echoed(wsPongs, g)',
         (Between(g, s) \/ InFrame(g, s))',
         (/\ wsIn \in Seq(WsByte) /\ wsLeft \in Seq(WsByte) /\ wsUsed \in 0..Len(wsIn)
          /\ wsPc \in {"idle", "header", "payload"} /\ wsReply = "101"
          /\ wsPc = "idle" => wsUsed = 0
          /\ wsPc # "idle" => wsScript # << >>)'
  PROVE  WSOpenState'
BY DEF WSOpenState


LEMMA InvSays ==
  ASSUME WSInv
  PROVE  /\ WSShape /\ WSOpened /\ wsState \in {"handshake", "open", "closed"}
         /\ wsState = "handshake" => WSHandshakeState
         /\ wsState = "open" => WSOpenState
         /\ wsState = "closed" => wsPc = "idle" /\ WSTypeOK /\ WSDelivered /\ WSEcho
BY DEF WSInv

\* The client sends its next frame.
LEMMA WSInvClientSends ==
  ASSUME WSInv, NEW f \in WsFrames, WSClientSends(f) PROVE WSInv'
<1> DEFINE n == Len(wsScript)
<1>1. /\ wsState = "open" /\ n + 2 * wsSends < WsMaxFrames
      /\ f.op = 0 => MessageOpen(n)
      /\ f.op \in 1..7 => ~MessageOpen(n)
      /\ wsScript' = Append(wsScript, f)
      /\ wsLeft' = wsLeft \o FrameBytes(n + 1, f)
  BY Zenon DEF WSClientSends
<1>2. UNCHANGED <<wsReq, wsAsk, wsReply, wsClean, wsIn, wsUsed, wsPc, wsState, wsFrame, wsCont, wsFrag,
                  wsSentClose, wsGot, wsPongs, wsCloses, wsSends, wsHeader>>
  BY DEF WSClientSends, wsConn, wsHist
<1>3. WSShape /\ WSOpenState
  BY <1>1, InvSays
<1>4. /\ wsScript \in Seq(WsFrames) /\ Compliant /\ wsReq \in WsRequests /\ HeaderSent
      /\ n \in Nat /\ DOMAIN wsScript = 1..n /\ n <= WsMaxFrames
      /\ wsSends \in Nat /\ WsMaxFrames \in Nat
      /\ wsSentClose \in BOOLEAN /\ wsCloses = (IF wsSentClose THEN 1 ELSE 0)
  BY <1>3, ShapeSays
<1>5. /\ wsScript' \in Seq(WsFrames) /\ Len(wsScript') = n + 1
      /\ \A k \in 1..n : wsScript'[k] = wsScript[k]
      /\ wsScript'[n + 1] = f
  BY <1>1, <1>4, ScriptAppend
<1>6. DOMAIN wsScript' = 1..Len(wsScript')
  BY <1>5
<1>7. Extended
  BY <1>4, <1>5, <1>6 DEF Extended
<1>8. WsMaxFrames >= 1
  BY <1>1, <1>4
<1>9. /\ IsFrame(f) /\ Fits32(f.len) /\ Sized(wsScript)
      /\ Len(ClientHeader(f)) \in Nat /\ Len(ClientHeader(f)) >= 2
  BY <1>4, <1>8, FrameIs, ScriptIs, HeaderIs
<1>10. WSShape'
  <2>1. ASSUME NEW k \in 1..(n + 1)
        PROVE  /\ wsScript'[k].op = 0 => MessageOpen(k - 1)'
               /\ wsScript'[k].op \in 1..7 => ~MessageOpen(k - 1)'
    <3>1. k - 1 \in 0..n
      BY <1>4
    <3>2. MessageOpen(k - 1)' <=> MessageOpen(k - 1)
      BY <1>7, <3>1, MessagesStay
    <3>3. CASE k \in 1..n
      BY <1>4, <1>5, <3>2, <3>3 DEF Compliant
    <3>4. CASE k \notin 1..n
      <4>1. k = n + 1 /\ k - 1 = n
        BY <1>4, <3>4
      <4> QED
        BY <1>1, <1>5, <3>2, <4>1
    <3> QED
      BY <3>3, <3>4
  <2>2. Compliant'
    BY <1>5, <2>1 DEF Compliant
  <2>3. Len(wsScript') + 2 * wsSends <= WsMaxFrames
    BY <1>1, <1>4, <1>5
  <2>4. HeaderSent'
    BY <1>2, <1>4 DEF HeaderSent
  <2> QED
    BY <1>2, <1>4, <1>5, <2>2, <2>3, <2>4 DEF WSShape
<1>11. wsScript' # << >>
  BY <1>4, <1>5
<1>12. WSOpened'
  BY <1>11 DEF WSOpened
<1>13. PICK g, s : Opened(g, s)
  BY <1>3, OpenStateSays
<1>14. /\ g \in 0..n /\ s \in 0..g /\ g \in Nat
       /\ Within(g, s) /\ Collected(wsFrag, g, s) /\ Heard(wsGot, g) /\ Echoed(wsPongs, g)
       /\ Between(g, s) \/ InFrame(g, s)
  BY <1>4, <1>13 DEF Opened
<1>15. Within(g, s)' /\ Collected(wsFrag, g, s)' /\ Heard(wsGot, g)' /\ Echoed(wsPongs, g)'
  BY <1>2, <1>7, <1>14, TellsNothing
<1>16. /\ wsIn \in Seq(WsByte) /\ wsLeft \in Seq(WsByte) /\ wsUsed \in 0..Len(wsIn)
       /\ wsPc = "idle" => wsUsed = 0
  BY <1>3, OpenStateSays
<1>17. Unread' = Unread /\ Unread \in Seq(WsByte)
  BY <1>2, <1>16, UnreadIs DEF Unread
<1>18. wsLeft' \in Seq(WsByte) /\ Unread \o wsLeft' = (Unread \o wsLeft) \o FrameBytes(n + 1, f)
  <2>1. FrameBytes(n + 1, f) \in Seq(WsByte)
    <3>1. PICK k : k = n + 1
      OBVIOUS
    <3>2. k \in Nat
      BY <1>4, <3>1
    <3>3. FrameBytes(k, f) \in Seq(WsByte)
      BY ONLY <1>9, <3>2, FrameBytesAre
    <3> QED
      BY ONLY <3>1, <3>3
  <2> HIDE DEF n
  <2> QED
    <3>1. PICK u, v, w : u = Unread /\ v = wsLeft /\ w = FrameBytes(n + 1, f)
      OBVIOUS
    <3>2. u \in Seq(WsByte) /\ v \in Seq(WsByte) /\ w \in Seq(WsByte)
      BY <1>16, <1>17, <2>1, <3>1
    <3>3. v \o w \in Seq(WsByte) /\ u \o (v \o w) = (u \o v) \o w
      BY ONLY <3>2, BytesAssociative
    <3>4. wsLeft' = v \o w
      BY <1>1, <3>1
    <3> QED
      BY ONLY <3>1, <3>3, <3>4
<1>19. ASSUME NEW h, NEW o, Rest(Unread \o wsLeft, wsScript, h, o)
       PROVE  Rest(Unread' \o wsLeft', wsScript', h, o)
  BY <1>1, <1>4, <1>9, <1>17, <1>18, <1>19, RestAppend
<1>20. (Between(g, s) \/ InFrame(g, s))'
  <2>1. OpOpen(s)' = OpOpen(s)
    BY <1>7, <1>14, FragmentsStay
  <2>2. CASE Between(g, s)
    <3>1. /\ Rest(Unread \o wsLeft, wsScript, g, 0)
          /\ wsPc # "payload" /\ wsFrame = NoFrame /\ wsCont = OpOpen(s)
          /\ wsPc = "idle" /\ g < n => Len(wsIn) < Len(ClientHeader(wsScript[g + 1]))
      BY <2>2 DEF Between
    <3>2. ASSUME wsPc = "idle" PROVE Len(wsIn) < Len(ClientHeader(wsScript'[g + 1]))
      <4>1. CASE g < n
        <5>1. g + 1 \in 1..n
          BY <1>4, <1>14, <4>1
        <5> QED
          BY <1>5, <3>1, <3>2, <4>1, <5>1
      <4>2. CASE g = n
        <5>1. Unread \o wsLeft = << >>
          BY <3>1, <4>2 DEF Rest
        <5>2. Unread = wsIn /\ Len(Unread) + Len(wsLeft) = 0 /\ Len(Unread) \in Nat /\ Len(wsLeft) \in Nat
          BY <1>16, <3>2, <5>1, UnreadIs
        <5>3. Len(wsIn) = 0
          BY <5>2
        <5> QED
          BY <1>5, <1>9, <4>2, <5>3
      <4>3. g < n \/ g = n
        <5>1. n \in Nat /\ g \in 0..n
          BY <1>4, <1>14
        <5> QED
          BY ONLY <5>1
      <4> QED
        BY Zenon, <4>1, <4>2, <4>3
    <3> QED
      BY <1>2, <1>19, <2>1, <3>1, <3>2 DEF Between
  <2>3. CASE InFrame(g, s)
    <3>1. g < n /\ g + 1 \in 1..n
      BY <1>4, <1>14, <2>3 DEF InFrame
    <3>2. wsScript'[g + 1] = wsScript[g + 1] /\ g < Len(wsScript')
      BY <1>4, <1>5, <1>14, <3>1
    <3> QED
      BY <1>2, <1>19, <2>1, <2>3, <3>2 DEF InFrame
  <2> QED
    BY <1>14, <2>2, <2>3
<1>21. WSOpenState'
  <2>1. g \in 0..Len(wsScript') /\ s \in 0..g
    BY <1>4, <1>5, <1>14
  <2>2. /\ wsIn' \in Seq(WsByte) /\ wsLeft' \in Seq(WsByte) /\ wsUsed' \in 0..Len(wsIn')
        /\ wsPc' \in {"idle", "header", "payload"} /\ wsReply' = "101"
        /\ wsPc' = "idle" => wsUsed' = 0
        /\ wsPc' # "idle" => wsScript' # << >>
    BY <1>2, <1>3, <1>11, <1>18, OpenStateSays
  <2> QED
    BY <1>15, <1>20, <2>1, <2>2, OpenStateFrom
<1> QED
  BY <1>1, <1>2, <1>10, <1>12, <1>21, StaysOpen


\* The application sends a frame.
LEMMA WSInvAppSends ==
  ASSUME WSInv, AppSends, SentOK' PROVE WSInv'
<1>1. /\ wsState = "open" /\ Len(wsScript) + 2 * wsSends + 1 < WsMaxFrames /\ wsSends' = wsSends + 1
      /\ UNCHANGED <<wsScript, wsReq, wsAsk, wsReply, wsClean, wsLeft, wsIn, wsUsed, wsPc,
                     wsState, wsFrame, wsCont, wsFrag, wsGot, wsPongs>>
  BY DEF AppSends, wsClient
<1>2. WSShape /\ WSOpenState /\ WSOpened
  BY <1>1, InvSays
<1>3. /\ wsScript \in Seq(WsFrames) /\ Compliant /\ wsReq \in WsRequests
      /\ Len(wsScript) \in Nat /\ wsSends \in Nat /\ WsMaxFrames \in Nat
  BY <1>2, ShapeSays
<1>4. WSShape'
  <2>1. Len(wsScript') + 2 * wsSends' <= WsMaxFrames /\ wsSends' \in Nat
    BY <1>1, <1>3
  <2>2. Compliant'
    BY <1>1, <1>3 DEF Compliant, MessageOpen
  <2> QED
    BY <1>1, <1>3, <2>1, <2>2 DEF WSShape, SentOK
<1>5. WSOpened'
  BY <1>1, <1>2, OpenedStays
<1>6. PICK g, s : Opened(g, s)
  BY <1>2, OpenStateSays
<1>7. /\ g \in 0..Len(wsScript) /\ s \in 0..g
      /\ Within(g, s) /\ Collected(wsFrag, g, s) /\ Heard(wsGot, g) /\ Echoed(wsPongs, g)
      /\ Between(g, s) \/ InFrame(g, s)
  BY <1>6 DEF Opened
<1>8. Extended
  BY <1>1, <1>2, SameScript
<1>9. Within(g, s)' /\ Collected(wsFrag, g, s)' /\ Heard(wsGot, g)' /\ Echoed(wsPongs, g)'
  BY <1>1, <1>7, <1>8, TellsNothing
<1>10. (Between(g, s) \/ InFrame(g, s))'
  <2>1. Unread' = Unread
    BY <1>1 DEF Unread
  <2>2. Between(g, s) => Between(g, s)'
    BY <1>1, <2>1 DEF Between, OpOpen
  <2>3. InFrame(g, s) => InFrame(g, s)'
    BY <1>1, <2>1 DEF InFrame, OpOpen
  <2> QED
    BY <1>7, <2>2, <2>3
<1>11. WSOpenState'
  BY <1>1, <1>2, <1>7, <1>9, <1>10, OpenStateFrom, OpenStateSays
<1> QED
  BY <1>1, <1>4, <1>5, <1>11, StaysOpen

LEMMA WSInvAppFrame ==
  ASSUME WSInv, NEW fin \in BOOLEAN, NEW op \in 0..15, op > 2 => fin, NEW len \in WsLens,
         AppFrame(fin, op, len)
  PROVE  WSInv'
<1>1. AppSends /\ SendWS(fin, op, len) /\ UNCHANGED <<wsSentClose, wsCloses>>
  BY Zenon DEF AppFrame
<1>2. len \in Nat /\ Fits32(len)
  BY WsAssumption DEF Fits32
<1>3. HeaderSent'
  BY <1>1, <1>2, SendIs
<1>4. SentOK'
  BY <1>1, <1>3, InvSays, ShapeSays DEF SentOK
<1> QED
  BY <1>1, <1>4, WSInvAppSends

LEMMA WSInvApp ==
  ASSUME WSInv,
         \/ \E len \in WsLens, binary \in BOOLEAN : WSSendWhole(len, binary)
         \/ \E len \in WsLens, binary \in BOOLEAN : WSSendFragmentHead(len, binary)
         \/ \E len \in WsLens : WSSendFragment(len)
         \/ \E len \in WsLens : WSSendFragmentTail(len)
         \/ WSAppClose
  PROVE  WSInv'
<1>0. 0 \in 0..15 /\ 1 \in 0..15 /\ 2 \in 0..15 /\ ~(0 > 2) /\ ~(1 > 2) /\ ~(2 > 2)
  OBVIOUS
<1>1. ASSUME NEW len \in WsLens, NEW binary \in BOOLEAN, WSSendWhole(len, binary) PROVE WSInv'
  <2>1. AppFrame(TRUE, 1, len) \/ AppFrame(TRUE, 2, len)
    BY <1>1 DEF WSSendWhole
  <2> QED
    BY <1>0, <2>1, WSInvAppFrame
<1>2. ASSUME NEW len \in WsLens, NEW binary \in BOOLEAN, WSSendFragmentHead(len, binary) PROVE WSInv'
  <2>1. AppFrame(FALSE, 1, len) \/ AppFrame(FALSE, 2, len)
    BY <1>2 DEF WSSendFragmentHead
  <2> QED
    BY <1>0, <2>1, WSInvAppFrame
<1>3. ASSUME NEW len \in WsLens, WSSendFragment(len) PROVE WSInv'
  BY <1>0, <1>3, WSInvAppFrame DEF WSSendFragment
<1>4. ASSUME NEW len \in WsLens, WSSendFragmentTail(len) PROVE WSInv'
  BY <1>0, <1>4, WSInvAppFrame DEF WSSendFragmentTail
<1>5. ASSUME WSAppClose PROVE WSInv'
  BY <1>5, WSInvAppSends, CloseSent, InvSays DEF WSAppClose
<1> QED
  BY <1>1, <1>2, <1>3, <1>4, <1>5

LEMMA WsArrives ==
  ASSUME NEW in \in Seq(WsByte), NEW left \in Seq(WsByte), NEW n \in 1..Len(left)
  PROVE  /\ in \o SubSeq(left, 1, n) \in Seq(WsByte)
         /\ SubSeq(left, n + 1, Len(left)) \in Seq(WsByte)
         /\ (in \o SubSeq(left, 1, n)) \o SubSeq(left, n + 1, Len(left)) = in \o left
<1> DEFINE c == SubSeq(left, 1, n)
           r == SubSeq(left, n + 1, Len(left))
<1>0. Len(left) \in Nat /\ n \in Nat /\ n <= Len(left) /\ Len(in) \in Nat
  BY LenProperties
<1>1. \A i \in 1..Len(left) : left[i] \in WsByte
  BY ElementOfSeq
<1>2. c \in Seq(WsByte)
  <2>1. \A i \in 1..n : left[i] \in WsByte
    BY <1>0, <1>1
  <2> QED
    BY <1>0, <2>1, SubSeqProperties
<1>3. r \in Seq(WsByte)
  <2>1. \A i \in (n + 1)..Len(left) : left[i] \in WsByte
    BY <1>0, <1>1
  <2>2. n + 1 \in Int /\ Len(left) \in Int
    BY <1>0
  <2> QED
    BY <2>1, <2>2, SubSeqProperties
<1>4. c \o r = left
  <2>1. 1 \in 1..(Len(left) + 1) /\ n \in (1 - 1)..Len(left) /\ Len(left) \in n..Len(left)
    BY <1>0
  <2>2. SubSeq(left, 1, n) \o SubSeq(left, n + 1, Len(left)) = SubSeq(left, 1, Len(left))
    BY <2>1, ConcatAdjacentSubSeq
  <2> QED
    BY <2>2, SubSeqFull
<1> HIDE DEF c, r
<1>5. (in \o c) \o r = in \o (c \o r)
  <2>1. in \in Seq(WsByte)
    OBVIOUS
  <2> QED
    <3>1. PICK u, v, w : u = in /\ v = c /\ w = r
      OBVIOUS
    <3>2. u \in Seq(WsByte) /\ v \in Seq(WsByte) /\ w \in Seq(WsByte)
      BY <1>2, <1>3, <2>1, <3>1
    <3>3. u \o (v \o w) = (u \o v) \o w
      BY ONLY <3>2, BytesAssociative
    <3> QED
      BY ONLY <3>1, <3>3
<1>6. in \o c \in Seq(WsByte)
  BY <1>2, ConcatProperties
<1> QED
  BY <1>3, <1>4, <1>5, <1>6 DEF c, r

\* Bytes of the client arrive.
LEMMA WSInvArrive ==
  ASSUME WSInv, NEW n \in 1..Len(wsLeft), WSArrive(n) PROVE WSInv'
<1>1. /\ wsState = "open" /\ wsPc = "idle"
      /\ wsIn' = wsIn \o SubSeq(wsLeft, 1, n)
      /\ wsLeft' = SubSeq(wsLeft, n + 1, Len(wsLeft))
      /\ wsPc' = IF wsFrame.len = 0 THEN "header" ELSE "payload"
  BY Zenon DEF WSArrive
<1>2. UNCHANGED <<wsScript, wsReq, wsAsk, wsReply, wsClean, wsUsed, wsState, wsFrame, wsCont, wsFrag,
                  wsSentClose, wsGot, wsPongs, wsCloses, wsSends, wsHeader>>
  BY DEF WSArrive, wsClient, wsConn, wsHist
<1>3. WSShape /\ WSOpenState /\ WSOpened
  BY <1>1, InvSays
<1>4. wsIn \in Seq(WsByte) /\ wsLeft \in Seq(WsByte) /\ wsUsed = 0 /\ wsReply = "101" /\ wsUsed \in 0..Len(wsIn)
  BY <1>1, <1>3, OpenStateSays
<1>5. wsIn' \in Seq(WsByte) /\ wsLeft' \in Seq(WsByte) /\ wsIn' \o wsLeft' = wsIn \o wsLeft
  BY <1>1, <1>4, WsArrives
<1>6. WSShape' /\ Extended
  BY <1>2, <1>3, ShapeStays, NothingSent, SameScript
<1>7. WSOpened'
  BY <1>2, <1>3, OpenedStays
<1>8. PICK g, s : Opened(g, s)
  BY <1>3, OpenStateSays
<1>9. /\ g \in 0..Len(wsScript) /\ s \in 0..g
      /\ Within(g, s) /\ Collected(wsFrag, g, s) /\ Heard(wsGot, g) /\ Echoed(wsPongs, g)
      /\ Between(g, s) \/ InFrame(g, s)
  BY <1>8 DEF Opened
<1>10. Within(g, s)' /\ Collected(wsFrag, g, s)' /\ Heard(wsGot, g)' /\ Echoed(wsPongs, g)'
  BY <1>2, <1>6, <1>9, TellsNothing
<1>11. Unread = wsIn /\ Unread' = wsIn' /\ 0 \in 0..Len(wsIn')
  <2>1. Len(wsIn') \in Nat /\ wsUsed' = 0
    BY <1>2, <1>4, <1>5
  <2>2. After(wsIn', 0) = wsIn'
    BY <1>5 DEF After
  <2> QED
    BY <1>4, <2>1, <2>2, UnreadIs DEF Unread
<1>12. OpOpen(s)' = OpOpen(s)
  BY <1>2 DEF OpOpen
<1>13. CASE Between(g, s)
  <2>1. Rest(wsIn \o wsLeft, wsScript, g, 0) /\ wsFrame = NoFrame /\ wsCont = OpOpen(s)
    BY <1>11, <1>13 DEF Between
  <2>2. wsPc' = "header"
    BY <1>1, <2>1 DEF NoFrame
  <2>3. Between(g, s)'
    BY <1>2, <1>5, <1>11, <1>12, <2>1, <2>2 DEF Between
  <2>4. wsScript # << >>
    <3>1. Len(wsIn \o wsLeft) = Len(wsIn) + Len(wsLeft) /\ Len(wsIn) \in Nat /\ Len(wsLeft) \in Nat
      BY <1>4, ConcatProperties
    <3>2. wsIn \o wsLeft # << >>
      BY <3>1
    <3>3. g # Len(wsScript)
      BY <2>1, <3>2 DEF Rest
    <3> QED
      BY <1>9, <3>3
  <2> QED
    BY <1>2, <1>4, <1>5, <1>6, <1>7, <1>1, <1>9, <1>10, <1>11, <2>2, <2>3, <2>4, OpenStateFrom, StaysOpen
<1>14. CASE InFrame(g, s)
  <2>1. g < Len(wsScript) /\ wsFrame.len = wsScript[g + 1].len /\ Len(wsIn) < wsScript[g + 1].len
    BY <1>1, <1>14 DEF InFrame
  <2>2. wsPc' = "payload" /\ wsScript # << >>
    <3>1. wsScript # << >>
      BY <1>9, <2>1
    <3>2. g + 1 \in 1..Len(wsScript)
      BY <1>6, <1>9, <2>1 DEF Extended
    <3>3. wsScript[g + 1].len # 0
      BY <1>4, <2>1
    <3> QED
      BY <1>1, <2>1, <3>1, <3>3
  <2>3. InFrame(g, s)'
    BY <1>2, <1>5, <1>11, <1>12, <1>14, <2>2 DEF InFrame
  <2> QED
    BY <1>2, <1>4, <1>5, <1>6, <1>7, <1>1, <1>9, <1>10, <1>11, <2>2, <2>3, OpenStateFrom, StaysOpen
<1> QED
  BY <1>9, <1>13, <1>14


\* The protocol reads the header of the next frame, once it is there.
LEMMA DecodedIs ==
  ASSUME WSShape, wsIn \in Seq(WsByte), wsUsed \in 0..Len(wsIn), wsLeft \in Seq(WsByte),
         NEW g \in Nat, Rest(Unread \o wsLeft, wsScript, g, 0)
  PROVE  /\ g = Len(wsScript) => Unread = << >> /\ Decoded = NeedMore
         /\ g < Len(wsScript) =>
              LET f == wsScript[g + 1] IN
              Decoded = IF Len(Unread) < HeaderSize(f) THEN NeedMore
                        ELSE [size  |-> HeaderSize(f),
                              frame |-> [fin |-> f.fin, op |-> f.op, masked |-> f.masked, len |-> f.len]]
<1> DEFINE v == [k \in DOMAIN Unread |-> Value(Unread[k])]
<1>1. /\ Unread \in Seq(WsByte) /\ Len(Unread) \in Nat /\ DOMAIN Unread = 1..Len(Unread)
      /\ Len(Unread \o wsLeft) = Len(Unread) + Len(wsLeft) /\ Len(wsLeft) \in Nat
      /\ \A i \in 1..Len(Unread) : (Unread \o wsLeft)[i] = Unread[i]
  BY UnreadIs
<1>2. Len(v) = Len(Unread) /\ \A k \in 1..Len(Unread) : v[k] = Value(Unread[k])
  BY <1>1
<1>3. Decoded = DecodeHeader(v)
  BY Zenon DEF Decoded
<1> HIDE DEF v
<1>4. wsScript \in Seq(WsFrames) /\ Len(wsScript) <= WsMaxFrames
  BY ShapeSays
<1>5. /\ Len(wsScript) \in Nat /\ Sized(wsScript)
      /\ \A k \in 1..Len(wsScript) :
           /\ IsFrame(wsScript[k]) /\ Fits32(wsScript[k].len)
           /\ wsScript[k].len \in Nat
           /\ Len(ClientHeader(wsScript[k])) = HeaderSize(wsScript[k])
           /\ HeaderSize(wsScript[k]) \in Nat
           /\ FrameLen(wsScript[k]) = HeaderSize(wsScript[k]) + wsScript[k].len
  BY <1>4, ScriptIs
<1>6. ASSUME g = Len(wsScript) PROVE Unread = << >> /\ Decoded = NeedMore
  <2>1. Unread \o wsLeft = << >>
    BY <1>6 DEF Rest
  <2>2. Len(Unread \o wsLeft) = 0
    BY <2>1
  <2>3. Len(Unread) = 0
    BY <1>1, <2>2
  <2>4. Unread = << >> /\ Len(v) < 2
    BY <1>1, <1>2, <2>3
  <2> QED
    BY <1>3, <2>4 DEF DecodeHeader
<1>7. ASSUME g < Len(wsScript)
      PROVE  Decoded = IF Len(Unread) < HeaderSize(wsScript[g + 1]) THEN NeedMore
                       ELSE [size  |-> HeaderSize(wsScript[g + 1]),
                             frame |-> [fin |-> wsScript[g + 1].fin, op |-> wsScript[g + 1].op,
                                        masked |-> wsScript[g + 1].masked, len |-> wsScript[g + 1].len]]
  <2>1. g + 1 \in 1..Len(wsScript)
    BY <1>5, <1>7
  <2>2. PICK f : f = wsScript[g + 1]
    OBVIOUS
  <2>3. /\ IsFrame(f) /\ Fits32(f.len) /\ f.len \in Nat /\ Len(ClientHeader(f)) = HeaderSize(f)
        /\ HeaderSize(f) \in Nat /\ FrameLen(f) = HeaderSize(f) + f.len
    BY <1>5, <2>1, <2>2
  <2>4. \A i \in 1..(FrameLen(f) - 0) : (Unread \o wsLeft)[i].f = g + 1 /\ (Unread \o wsLeft)[i].i = 0 + i
    <3>1. PICK b, o : b = Unread \o wsLeft /\ o = 0
      OBVIOUS
    <3>2. Sized(wsScript) /\ Rest(b, wsScript, g, o) /\ g < Len(wsScript)
      BY <1>5, <1>7, <3>1
    <3>3. \A i \in 1..(FrameLen(wsScript[g + 1]) - o) : b[i].f = g + 1 /\ b[i].i = o + i
      BY ONLY <3>2, RestFirst
    <3> QED
      BY ONLY <2>2, <3>1, <3>3
  <2>5. ASSUME NEW k \in 1..Len(v), k <= HeaderSize(f) PROVE v[k] = ClientHeader(f)[k]
    <3>1. k \in 1..Len(Unread) /\ k \in 1..(FrameLen(f) - 0) /\ k \in Nat
      BY <1>1, <1>2, <2>3, <2>5
    <3>2. Unread[k].f = g + 1 /\ Unread[k].i = k
      BY <1>1, <2>4, <3>1
    <3>3. Value(Unread[k]) = ClientHeader(f)[k]
      BY <2>2, <2>3, <2>5, <3>2 DEF Value
    <3> QED
      BY <1>2, <3>1, <3>3
  <2>6. DecodeHeader(v) =
            IF Len(v) < HeaderSize(f) THEN NeedMore
            ELSE [size  |-> HeaderSize(f),
                  frame |-> [fin |-> f.fin, op |-> f.op, masked |-> f.masked, len |-> f.len]]
    BY <1>1, <1>2, <2>3, <2>5, DecodeClient
  <2> QED
    BY <1>2, <1>3, <2>2, <2>6, Zenon
<1> QED
  BY <1>6, <1>7

\* HandlerProtocol returns: what it has not used stays in the buffer.
LEMMA WSInvWaits ==
  ASSUME WSInv, wsState = "open", WSReturn, NEW g, NEW s, Opened(g, s),
         \/ Between(g, s) /\ (g < Len(wsScript) => Len(Unread) < Len(ClientHeader(wsScript[g + 1])))
         \/ InFrame(g, s) /\ Len(Unread) < wsScript[g + 1].len
  PROVE  WSInv'
<1>1. wsIn' = Unread /\ wsUsed' = 0 /\ wsPc' = "idle"
  BY Zenon DEF WSReturn
<1>2. UNCHANGED <<wsScript, wsReq, wsAsk, wsReply, wsClean, wsLeft, wsState, wsFrame, wsCont, wsFrag,
                  wsSentClose, wsGot, wsPongs, wsCloses, wsSends, wsHeader>>
  BY DEF WSReturn, wsClient, wsConn, wsHist
<1>3. WSShape /\ WSOpenState /\ WSOpened
  BY InvSays
<1>4. wsIn \in Seq(WsByte) /\ wsLeft \in Seq(WsByte) /\ wsUsed \in 0..Len(wsIn) /\ wsReply = "101"
  BY <1>3, OpenStateSays
<1>5. Unread \in Seq(WsByte) /\ Len(Unread) \in Nat
  BY <1>4, UnreadIs
<1>6. Unread' = Unread /\ 0 \in 0..Len(wsIn')
  <2>1. After(Unread, 0) = Unread
    BY <1>5 DEF After
  <2>2. Unread' = After(Unread, 0)
    BY <1>1 DEF Unread
  <2> QED
    BY <1>1, <1>5, <2>1, <2>2
<1>7. WSShape' /\ Extended
  BY <1>2, <1>3, ShapeStays, NothingSent, SameScript
<1>8. WSOpened'
  BY <1>2, <1>3, OpenedStays
<1>9. /\ g \in 0..Len(wsScript) /\ s \in 0..g
      /\ Within(g, s) /\ Collected(wsFrag, g, s) /\ Heard(wsGot, g) /\ Echoed(wsPongs, g)
  BY DEF Opened
<1>10. Within(g, s)' /\ Collected(wsFrag, g, s)' /\ Heard(wsGot, g)' /\ Echoed(wsPongs, g)'
  BY <1>2, <1>7, <1>9, TellsNothing
<1>11. OpOpen(s)' = OpOpen(s)
  BY <1>2 DEF OpOpen
<1>12. ASSUME Between(g, s), g < Len(wsScript) => Len(Unread) < Len(ClientHeader(wsScript[g + 1]))
       PROVE  Between(g, s)'
  BY <1>1, <1>2, <1>6, <1>11, <1>12 DEF Between
<1>13. ASSUME InFrame(g, s), Len(Unread) < wsScript[g + 1].len
       PROVE  InFrame(g, s)'
  BY <1>1, <1>2, <1>6, <1>11, <1>13 DEF InFrame
<1>14. (Between(g, s) \/ InFrame(g, s))'
  BY <1>12, <1>13
<1>15. WSOpenState'
  BY <1>1, <1>2, <1>4, <1>5, <1>6, <1>9, <1>10, <1>14, OpenStateFrom
<1> QED
  BY <1>2, <1>7, <1>8, <1>15, StaysOpen

\* In a call of HandlerProtocol the connection is open.
LEMMA CallOpen ==
  ASSUME WSInv, wsPc # "idle"
  PROVE  /\ wsState = "open" /\ WSShape /\ WSOpenState /\ WSOpened
         /\ wsIn \in Seq(WsByte) /\ wsLeft \in Seq(WsByte) /\ wsUsed \in 0..Len(wsIn)
         /\ \E g, s : Opened(g, s)
<1>1. wsState = "open"
  BY InvSays DEF WSHandshakeState
<1> QED
  BY <1>1, InvSays, OpenStateSays

LEMMA WSInvHeaderWait == ASSUME WSInv, WSHeaderWait PROVE WSInv'
<1>1. wsPc = "header" /\ Decoded = NeedMore /\ WSReturn
  BY Zenon DEF WSHeaderWait
<1>2. /\ wsState = "open" /\ WSShape
      /\ wsIn \in Seq(WsByte) /\ wsLeft \in Seq(WsByte) /\ wsUsed \in 0..Len(wsIn)
  BY <1>1, CallOpen
<1>3. PICK g, s : Opened(g, s)
  BY <1>1, CallOpen
<1>4. g \in 0..Len(wsScript) /\ Between(g, s)
  BY <1>1, <1>3 DEF Opened, InFrame
<1>5. /\ Len(wsScript) \in Nat
      /\ \A k \in 1..Len(wsScript) : /\ Len(ClientHeader(wsScript[k])) = HeaderSize(wsScript[k])
                                     /\ HeaderSize(wsScript[k]) \in Nat /\ HeaderSize(wsScript[k]) >= 2
  BY <1>2, ShapeSays, ScriptIs
<1>6. g \in Nat /\ Rest(Unread \o wsLeft, wsScript, g, 0)
  BY <1>4, <1>5 DEF Between
<1>7. ASSUME g < Len(wsScript) PROVE Len(Unread) < Len(ClientHeader(wsScript[g + 1]))
  <2>1. g + 1 \in 1..Len(wsScript)
    BY <1>5, <1>6, <1>7
  <2>2. PICK h : h = HeaderSize(wsScript[g + 1])
    OBVIOUS
  <2>3. h \in Nat /\ h >= 2 /\ Len(ClientHeader(wsScript[g + 1])) = h
    BY <1>5, <2>1, <2>2
  <2>4. \/ Len(Unread) < h
        \/ Decoded.size = h
    <3>1. PICK fr : Decoded = IF Len(Unread) < h THEN NeedMore ELSE [size |-> h, frame |-> fr]
      BY <1>2, <1>6, <1>7, <2>2, DecodedIs
    <3> QED
      BY <3>1
  <2>5. Decoded.size = 0
    BY <1>1 DEF NeedMore
  <2> QED
    BY <2>3, <2>4, <2>5
<1> QED
  BY <1>1, <1>2, <1>3, <1>4, <1>7, WSInvWaits

LEMMA WSInvPayloadWait == ASSUME WSInv, WSPayloadWait PROVE WSInv'
<1>1. wsPc = "payload" /\ Len(Unread) < wsFrame.len /\ WSReturn
  BY Zenon DEF WSPayloadWait
<1>2. PICK g, s : Opened(g, s)
  BY <1>1, CallOpen
<1>3. InFrame(g, s)
  BY <1>1, <1>2 DEF Opened, Between
<1>4. wsFrame.len = wsScript[g + 1].len
  BY <1>3 DEF InFrame
<1> QED
  BY <1>1, <1>2, <1>3, <1>4, CallOpen, WSInvWaits


\* The protocol goes c bytes on in its buffer.
LEMMA Skips ==
  ASSUME wsIn \in Seq(WsByte), wsLeft \in Seq(WsByte), wsUsed \in 0..Len(wsIn), NEW c \in 0..Len(Unread)
  PROVE  /\ wsUsed + c \in 0..Len(wsIn)
         /\ After(wsIn, wsUsed + c) \in Seq(WsByte)
         /\ After(wsIn, wsUsed + c) \o wsLeft = After(Unread \o wsLeft, c)
         /\ c = 0 => After(wsIn, wsUsed + c) = Unread
<1> DEFINE b == After(wsIn, wsUsed + c)
           a == After(Unread \o wsLeft, c)
<1>1. /\ Unread \in Seq(WsByte) /\ Len(Unread) \in Nat /\ Len(Unread) = Len(wsIn) - wsUsed
      /\ \A i \in 1..Len(Unread) : Unread[i] = wsIn[wsUsed + i]
      /\ \A i \in 1..Len(Unread) : (Unread \o wsLeft)[i] = Unread[i]
      /\ \A i \in 1..Len(wsLeft) : (Unread \o wsLeft)[Len(Unread) + i] = wsLeft[i]
      /\ Len(Unread \o wsLeft) = Len(Unread) + Len(wsLeft) /\ Len(wsLeft) \in Nat
  BY UnreadIs
<1>2. wsUsed + c \in 0..Len(wsIn) /\ c \in Nat /\ c <= Len(Unread) /\ wsUsed \in Nat /\ Len(wsIn) \in Nat
  BY <1>1
<1>3. /\ b \in Seq(WsByte) /\ Len(b) = Len(wsIn) - (wsUsed + c)
      /\ \A i \in 1..(Len(wsIn) - (wsUsed + c)) : b[i] = wsIn[(wsUsed + c) + i]
  BY <1>2, AfterIs
<1>4. Unread \o wsLeft \in Seq(WsByte) /\ c \in 0..Len(Unread \o wsLeft)
  BY <1>1, <1>2, ConcatProperties
<1>5. /\ a \in Seq(WsByte) /\ Len(a) = Len(Unread \o wsLeft) - c
      /\ \A i \in 1..(Len(Unread \o wsLeft) - c) : a[i] = (Unread \o wsLeft)[c + i]
  BY <1>4, AfterIs
<1> HIDE DEF b, a
<1>6. /\ b \o wsLeft \in Seq(WsByte) /\ Len(b \o wsLeft) = Len(b) + Len(wsLeft)
      /\ \A i \in 1..Len(b) : (b \o wsLeft)[i] = b[i]
      /\ \A i \in 1..Len(wsLeft) : (b \o wsLeft)[Len(b) + i] = wsLeft[i]
  <2>1. b \in Seq(WsByte) /\ wsLeft \in Seq(WsByte)
    BY <1>3
  <2> QED
    BY ONLY <2>1, Joined
<1>7. Len(b) = Len(Unread) - c /\ Len(b) \in Nat /\ Len(b \o wsLeft) = Len(a)
  BY <1>1, <1>2, <1>3, <1>5, <1>6
<1>8. ASSUME NEW i \in 1..Len(b \o wsLeft) PROVE (b \o wsLeft)[i] = a[i]
  <2>1. i \in Nat /\ a[i] = (Unread \o wsLeft)[c + i]
    <3>1. Len(a) = Len(Unread \o wsLeft) - c /\ Len(b \o wsLeft) = Len(a)
      BY ONLY <1>5, <1>7
    <3>2. i \in 1..(Len(Unread \o wsLeft) - c)
      BY ONLY <1>8, <3>1
    <3>3. a[i] = (Unread \o wsLeft)[c + i]
      BY ONLY <1>5, <3>2
    <3>4. c \in Nat /\ Len(Unread \o wsLeft) \in Nat
      BY ONLY <1>1, <1>2
    <3>5. i \in Nat
      BY ONLY <3>2, <3>4
    <3> QED
      BY ONLY <3>3, <3>5
  <2>2. CASE i <= Len(b)
    <3>1. i \in 1..Len(b) /\ c + i \in 1..Len(Unread) /\ i \in 1..(Len(wsIn) - (wsUsed + c))
      BY <1>1, <1>2, <1>3, <1>7, <2>1, <2>2
    <3>2. (b \o wsLeft)[i] = wsIn[(wsUsed + c) + i]
      BY <1>3, <1>6, <3>1
    <3>3. a[i] = wsIn[wsUsed + (c + i)]
      BY <1>1, <2>1, <3>1
    <3>4. (wsUsed + c) + i = wsUsed + (c + i)
      BY <1>2, <2>1
    <3> QED
      BY <3>2, <3>3, <3>4
  <2>3. CASE i > Len(b)
    <3>1. PICK k : k = i - Len(b)
      OBVIOUS
    <3>2. k \in 1..Len(wsLeft) /\ i = Len(b) + k /\ c + i = Len(Unread) + k
      BY <1>1, <1>2, <1>6, <1>7, <2>1, <2>3, <3>1
    <3>3. (b \o wsLeft)[i] = wsLeft[k]
      BY <1>6, <3>2
    <3>4. a[i] = wsLeft[k]
      BY <1>1, <2>1, <3>2
    <3> QED
      BY <3>3, <3>4
  <2> QED
    BY <1>7, <2>1, <2>2, <2>3
<1>9. b \o wsLeft = a
  BY <1>5, <1>6, <1>7, <1>8, SeqEqual
<1>10. ASSUME c = 0 PROVE b = Unread
  <2>1. \A i \in 1..Len(b) : b[i] = Unread[i]
    <3>1. TAKE i \in 1..Len(b)
    <3>2. i \in 1..Len(Unread) /\ i \in 1..(Len(wsIn) - (wsUsed + c)) /\ (wsUsed + c) + i = wsUsed + i
      BY <1>1, <1>2, <1>3, <1>7, <1>10
    <3> QED
      BY <1>1, <1>3, <3>2
  <2>2. Len(b) = Len(Unread)
    BY <1>1, <1>7, <1>10
  <2> QED
    BY <1>1, <1>3, <2>1, <2>2, SeqEqual
<1> QED
  BY <1>2, <1>3, <1>9, <1>10 DEF b, a

\* The header of the next frame is read.
LEMMA WSInvHeader == ASSUME WSInv, WSHeader PROVE WSInv'
<1> DEFINE d == Decoded.frame
           begins == ~d.fin /\ d.op \in 1..7 /\ wsCont = 0
           ends == d.fin /\ d.op = 0 /\ wsCont \in 1..7
<1>1. /\ wsPc = "header" /\ Decoded # NeedMore
      /\ wsFrame' = IF ends THEN [d EXCEPT !.op = wsCont] ELSE d
      /\ wsCont' = IF begins THEN d.op ELSE IF ends THEN 0 ELSE wsCont
      /\ wsUsed' = wsUsed + Decoded.size
      /\ wsPc' = "payload"
  BY Zenon DEF WSHeader
<1>2. UNCHANGED <<wsScript, wsReq, wsAsk, wsReply, wsClean, wsLeft, wsIn, wsState, wsFrag,
                  wsSentClose, wsGot, wsPongs, wsCloses, wsSends, wsHeader>>
  BY DEF WSHeader, wsClient, wsHist
<1>3. /\ wsState = "open" /\ WSShape /\ WSOpenState /\ WSOpened
      /\ wsIn \in Seq(WsByte) /\ wsLeft \in Seq(WsByte) /\ wsUsed \in 0..Len(wsIn)
  BY <1>1, CallOpen
<1>4. PICK g, s : Opened(g, s)
  BY <1>1, CallOpen
<1>5. /\ g \in 0..Len(wsScript) /\ s \in 0..g
      /\ Within(g, s) /\ Collected(wsFrag, g, s) /\ Heard(wsGot, g) /\ Echoed(wsPongs, g)
      /\ Between(g, s)
  BY <1>1, <1>4 DEF Opened, InFrame
<1>6. /\ Len(wsScript) \in Nat /\ Sized(wsScript) /\ Compliant /\ wsScript # << >>
      /\ \A k \in 1..Len(wsScript) :
           /\ IsFrame(wsScript[k]) /\ wsScript[k].len \in Nat
           /\ Len(ClientHeader(wsScript[k])) = HeaderSize(wsScript[k])
           /\ HeaderSize(wsScript[k]) \in Nat /\ HeaderSize(wsScript[k]) >= 2
           /\ FrameLen(wsScript[k]) = HeaderSize(wsScript[k]) + wsScript[k].len
  BY <1>1, <1>3, ShapeSays, ScriptIs, OpenStateSays
<1>7. g \in Nat /\ Rest(Unread \o wsLeft, wsScript, g, 0) /\ wsCont = OpOpen(s)
  BY <1>5, <1>6 DEF Between
<1>8. g < Len(wsScript) /\ g + 1 \in 1..Len(wsScript)
  <2>1. g # Len(wsScript)
    BY <1>1, <1>3, <1>7, DecodedIs
  <2> QED
    BY <1>5, <1>6, <1>7, <2>1
<1>9. PICK f : f = wsScript[g + 1]
  OBVIOUS
<1>10. PICK h : h = HeaderSize(f)
  OBVIOUS
<1>11. /\ IsFrame(f) /\ f.len \in Nat /\ h \in Nat /\ h >= 2 /\ FrameLen(f) = h + f.len
       /\ Len(ClientHeader(f)) = h
  BY <1>6, <1>8, <1>9, <1>10
<1>12. /\ f.op \in 0..15 /\ (f.op > 2 => f.fin) /\ f.fin \in BOOLEAN
  BY <1>11, SMT DEF IsFrame
<1>13. ~ (Len(Unread) < h)
       /\ Decoded = [size |-> h, frame |-> [fin |-> f.fin, op |-> f.op, masked |-> f.masked, len |-> f.len]]
  BY <1>1, <1>3, <1>7, <1>8, <1>9, <1>10, DecodedIs
<1>14. d = [fin |-> f.fin, op |-> f.op, masked |-> f.masked, len |-> f.len] /\ Decoded.size = h
  BY <1>13
<1>15. d.fin = f.fin /\ d.op = f.op
  BY <1>14
<1> HIDE DEF d
<1>16. /\ f.op = 0 => s # 0
       /\ f.op \in 1..7 => s = 0
  BY <1>5, <1>6, <1>7, <1>8, <1>9, <1>11, WithinNext
<1>17. (OpOpen(s) = 0 /\ s = 0) \/ (OpOpen(s) \in {1, 2} /\ s # 0)
  BY <1>5, <1>7, OpOpenIs
<1>18. ends <=> f.fin /\ f.op = 0
  BY <1>7, <1>15, <1>16, <1>17
<1>19. begins <=> ~f.fin /\ f.op # 0
  <2>1. ~f.fin /\ f.op # 0 => f.op \in 1..7
    BY <1>12
  <2> QED
    BY <1>7, <1>12, <1>15, <1>16, <1>17, <2>1
<1>20. wsFrame' = [fin |-> f.fin, op |-> IF f.fin /\ f.op = 0 THEN OpOpen(s) ELSE f.op,
                   masked |-> f.masked, len |-> f.len]
  <2>1. CASE f.fin /\ f.op = 0
    BY <1>1, <1>7, <1>14, <1>18, <2>1
  <2>2. CASE ~ (f.fin /\ f.op = 0)
    BY <1>1, <1>7, <1>14, <1>18, <2>2
  <2> QED
    BY <2>1, <2>2
<1>21. wsCont' = IF f.fin /\ f.op = 0 THEN 0 ELSE IF ~f.fin /\ f.op # 0 THEN f.op ELSE OpOpen(s)
  BY <1>1, <1>7, <1>15, <1>18, <1>19
<1> HIDE DEF begins, ends
<1>22. h \in 0..Len(Unread) /\ Len(Unread) \in Nat
  BY <1>3, <1>11, <1>13, UnreadIs
<1>23. /\ wsUsed + h \in 0..Len(wsIn)
       /\ After(wsIn, wsUsed + h) \o wsLeft = After(Unread \o wsLeft, h)
  BY <1>3, <1>22, Skips
<1>24. Unread' \o wsLeft' = After(Unread \o wsLeft, h) /\ wsUsed' \in 0..Len(wsIn')
  BY <1>1, <1>2, <1>14, <1>23 DEF Unread
<1>25. IF f.len = 0 THEN Rest(After(Unread \o wsLeft, h), wsScript, g + 1, 0)
       ELSE Rest(After(Unread \o wsLeft, h), wsScript, g, h)
  <2>1. h \in 1..(FrameLen(f) - 0)
    BY <1>11
  <2>2. IF 0 + h = FrameLen(f) THEN Rest(After(Unread \o wsLeft, h), wsScript, g + 1, 0)
        ELSE Rest(After(Unread \o wsLeft, h), wsScript, g, 0 + h)
    BY <1>6, <1>7, <1>8, <1>9, <2>1, RestDrop
  <2>3. 0 + h = h /\ (h = FrameLen(f) <=> f.len = 0)
    BY <1>11
  <2> QED
    BY <2>2, <2>3
<1>26. OpOpen(s)' = OpOpen(s)
  BY <1>2 DEF OpOpen
<1>27. InFrame(g, s)'
  BY <1>1, <1>2, <1>8, <1>9, <1>11, <1>20, <1>21, <1>24, <1>25, <1>26 DEF InFrame
<1>28. WSShape' /\ Extended
  BY <1>2, <1>3, ShapeStays, NothingSent, SameScript
<1>29. WSOpened'
  BY <1>2, <1>3, OpenedStays
<1>30. Within(g, s)' /\ Collected(wsFrag, g, s)' /\ Heard(wsGot, g)' /\ Echoed(wsPongs, g)'
  BY <1>2, <1>5, <1>28, TellsNothing
<1>31. WSOpenState'
  BY <1>1, <1>2, <1>3, <1>5, <1>6, <1>24, <1>27, <1>30, OpenStateFrom, OpenStateSays
<1> QED
  BY <1>2, <1>3, <1>28, <1>29, <1>31, StaysOpen


\* The payload, once it is there, is what the client wrote.
LEMMA PayloadIs ==
  ASSUME WSShape, wsIn \in Seq(WsByte), wsUsed \in 0..Len(wsIn), wsLeft \in Seq(WsByte),
         NEW g \in Nat, g < Len(wsScript), NEW f, f = wsScript[g + 1],
         wsFrame.len = f.len, wsFrame.masked = f.masked, Len(Unread) >= f.len,
         IF f.len = 0 THEN Rest(Unread \o wsLeft, wsScript, g + 1, 0)
         ELSE Rest(Unread \o wsLeft, wsScript, g, Len(ClientHeader(f)))
  PROVE  /\ Payload = Clear(g + 1)
         /\ f.len \in 0..Len(Unread)
         /\ Rest(After(wsIn, wsUsed + f.len) \o wsLeft, wsScript, g + 1, 0)
<1>1. wsScript \in Seq(WsFrames) /\ Len(wsScript) <= WsMaxFrames /\ Len(wsScript) \in Nat
  BY ShapeSays
<1>2. g + 1 \in 1..Len(wsScript)
  BY <1>1
<1>3. PICK h : h = Len(ClientHeader(f))
  OBVIOUS
<1>4. /\ Sized(wsScript) /\ IsFrame(f) /\ f.len \in Nat /\ h \in Nat
      /\ FrameLen(f) = h + f.len
  BY <1>1, <1>2, <1>3, ScriptIs
<1>5. /\ Unread \in Seq(WsByte) /\ Len(Unread) \in Nat
      /\ \A i \in 1..Len(Unread) : (Unread \o wsLeft)[i] = Unread[i]
  BY UnreadIs
<1>6. f.len \in 0..Len(Unread)
  BY <1>4, <1>5
<1>7. /\ After(wsIn, wsUsed + f.len) \o wsLeft = After(Unread \o wsLeft, f.len)
      /\ f.len = 0 => After(wsIn, wsUsed + f.len) = Unread
  BY <1>6, Skips
<1>8. CASE f.len = 0
  <2>1. Payload = Clear(g + 1)
    BY <1>8 DEF Payload, Clear
  <2> QED
    BY <1>6, <1>7, <1>8, <2>1
<1>9. CASE f.len # 0
  <2>1. Rest(Unread \o wsLeft, wsScript, g, h)
    BY <1>3, <1>9
  <2>2. FrameLen(f) - h = f.len /\ f.len \in 1..(FrameLen(f) - h) /\ h + f.len = FrameLen(f)
    BY <1>4, <1>9
  <2>3. \A i \in 1..(FrameLen(f) - h) : (Unread \o wsLeft)[i] = ByteAt(g + 1, h + i, f)
    <3>1. PICK b : b = Unread \o wsLeft
      OBVIOUS
    <3>2. Sized(wsScript) /\ Rest(b, wsScript, g, h) /\ g < Len(wsScript) /\ f = wsScript[g + 1]
      BY <1>4, <2>1, <3>1
    <3>3. \A i \in 1..(FrameLen(wsScript[g + 1]) - h) : b[i] = ByteAt(g + 1, h + i, wsScript[g + 1])
      BY ONLY <3>2, RestFirst
    <3> QED
      BY ONLY <3>1, <3>2, <3>3
  <2>4. ASSUME NEW i \in 1..f.len
        PROVE  [Unread[i] EXCEPT !.x = IF wsFrame.masked THEN ~@ ELSE @]
                 = [f |-> g + 1, i |-> h + i, x |-> FALSE]
    <3>1. i \in 1..Len(Unread) /\ i \in 1..(FrameLen(f) - h) /\ h + i > h
      BY <1>4, <1>5, <1>6, <2>2
    <3>2. Unread[i] = ByteAt(g + 1, h + i, f)
      BY <1>5, <2>3, <3>1
    <3>3. f.masked \in BOOLEAN
      BY <1>4, SMT DEF IsFrame
    <3>4. ByteAt(g + 1, h + i, f) = [f |-> g + 1, i |-> h + i, x |-> f.masked]
      BY <1>3, <3>1, <3>3 DEF ByteAt
    <3>5. PICK j : j = h + i
      OBVIOUS
    <3>6. CASE f.masked = TRUE
      <4>1. Unread[i] = [f |-> g + 1, i |-> j, x |-> TRUE]
        BY <3>2, <3>4, <3>5, <3>6
      <4>2. [Unread[i] EXCEPT !.x = ~@] = [f |-> g + 1, i |-> j, x |-> FALSE]
        <5>1. PICK u, k : u = Unread[i] /\ k = g + 1
          OBVIOUS
        <5>2. k \in Int /\ j \in Int /\ u = [f |-> k, i |-> j, x |-> TRUE]
          BY <1>4, <3>1, <3>5, <4>1, <5>1
        <5>3. [u EXCEPT !.x = ~@] = [f |-> k, i |-> j, x |-> FALSE]
          BY ONLY <5>2, Unmasked
        <5> QED
          BY ONLY <5>1, <5>3
      <4> QED
        BY <3>5, <3>6, <4>2
    <3>7. CASE f.masked = FALSE
      <4>1. Unread[i] = [f |-> g + 1, i |-> j, x |-> FALSE]
        BY <3>2, <3>4, <3>5, <3>7
      <4>2. [Unread[i] EXCEPT !.x = @] = [f |-> g + 1, i |-> j, x |-> FALSE]
        BY <4>1
      <4> QED
        BY <3>5, <3>7, <4>2
    <3> QED
      BY <3>3, <3>6, <3>7
  <2>5. Payload = [i \in 1..f.len |-> [f |-> g + 1, i |-> h + i, x |-> FALSE]]
    BY <2>4 DEF Payload
  <2>6. Clear(g + 1) = [i \in 1..f.len |-> [f |-> g + 1, i |-> h + i, x |-> FALSE]]
    BY <1>3 DEF Clear
  <2>7. IF h + f.len = FrameLen(f) THEN Rest(After(Unread \o wsLeft, f.len), wsScript, g + 1, 0)
        ELSE Rest(After(Unread \o wsLeft, f.len), wsScript, g, h + f.len)
    BY <1>4, <2>1, <2>2, RestDrop
  <2> QED
    BY <1>6, <1>7, <2>2, <2>5, <2>6, <2>7
<1> QED
  BY <1>8, <1>9


\* Frame g + 1 is there, in a message that began with frame s: what the dispatch
\* on its opcode has.
Dispatched(g, s) ==
    /\ g \in Nat /\ g < Len(wsScript) /\ g + 1 \in 0..Len(wsScript)
    /\ Heard(wsGot, g) /\ Echoed(wsPongs, g)
    /\ OpenAfter(g, s) \in 0..(g + 1) /\ Within(g + 1, OpenAfter(g, s))
    /\ wsCont = OpOpen(OpenAfter(g, s))
    /\ wsUsed + wsFrame.len \in 0..Len(wsIn)
    /\ Rest(After(wsIn, wsUsed + wsFrame.len) \o wsLeft, wsScript, g + 1, 0)
    /\ IsSequence(Message) /\ Len(Message) <= (g + 1) * WsMaxLen /\ Fits32(Len(Message))

\* What becomes of the message, of a control frame, and of a ping
Dispatches(g, s) ==
    /\ ~wsFrame.fin => g + 1 \notin Ends \cup Pings /\ Collected(Message, g + 1, OpenAfter(g, s))
    /\ wsFrame.fin => Collected(<< >>, g + 1, OpenAfter(g, s))
    /\ wsFrame.fin /\ wsFrame.op \in {1, 2} =>
         Delivered([op |-> wsFrame.op, payload |-> Message], g + 1)
    /\ wsFrame.fin => (wsFrame.op \in {1, 2} <=> g + 1 \in Ends)
    /\ wsFrame.fin => (wsFrame.op = 9 <=> g + 1 \in Pings)
    /\ wsFrame.op = 9 => Answers(Message, g + 1)

LEMMA CompleteSays ==
  ASSUME WSInv, Complete
  PROVE  \E g, s : Dispatched(g, s) /\ Dispatches(g, s)
<1>1. wsPc = "payload" /\ Len(Unread) >= wsFrame.len
  BY DEF Complete
<1>2. /\ WSShape /\ wsIn \in Seq(WsByte) /\ wsLeft \in Seq(WsByte) /\ wsUsed \in 0..Len(wsIn)
  BY <1>1, CallOpen
<1>3. PICK g, s : Opened(g, s)
  BY <1>1, CallOpen
<1>4. /\ g \in 0..Len(wsScript) /\ s \in 0..g
      /\ Within(g, s) /\ Collected(wsFrag, g, s) /\ Heard(wsGot, g) /\ Echoed(wsPongs, g)
      /\ InFrame(g, s)
  BY <1>1, <1>3 DEF Opened, Between
<1>5. /\ Len(wsScript) \in Nat /\ DOMAIN wsScript = 1..Len(wsScript) /\ Compliant /\ Len(wsScript) <= WsMaxFrames
      /\ \A k \in 1..Len(wsScript) : /\ IsFrame(wsScript[k]) /\ Fits32(wsScript[k].len)
                                     /\ wsScript[k].len \in Nat /\ wsScript[k].len <= WsMaxLen
  BY <1>2, ShapeSays, ScriptIs
<1>6. PICK f : f = wsScript[g + 1]
  OBVIOUS
<1>7. /\ g < Len(wsScript)
      /\ IF f.len = 0 THEN Rest(Unread \o wsLeft, wsScript, g + 1, 0)
         ELSE Rest(Unread \o wsLeft, wsScript, g, Len(ClientHeader(f)))
      /\ wsFrame = [fin |-> f.fin, op |-> IF f.fin /\ f.op = 0 THEN OpOpen(s) ELSE f.op,
                    masked |-> f.masked, len |-> f.len]
      /\ wsCont = IF f.fin /\ f.op = 0 THEN 0 ELSE IF ~f.fin /\ f.op # 0 THEN f.op ELSE OpOpen(s)
  BY <1>4, <1>6 DEF InFrame
<1>8. /\ wsFrame.fin = f.fin /\ wsFrame.op = (IF f.fin /\ f.op = 0 THEN OpOpen(s) ELSE f.op)
      /\ wsFrame.masked = f.masked /\ wsFrame.len = f.len
  BY <1>7
<1>9. g \in Nat /\ g + 1 \in 1..Len(wsScript) /\ g + 1 \in 0..Len(wsScript)
  BY <1>4, <1>5, <1>7
<1>10. /\ IsFrame(f) /\ f.len \in Nat /\ f.len <= WsMaxLen
       /\ f.op \in 0..15 /\ (f.op > 2 => f.fin) /\ f.fin \in BOOLEAN
  <2>1. IsFrame(f) /\ f.len \in Nat /\ f.len <= WsMaxLen
    BY <1>5, <1>6, <1>9
  <2> QED
    BY <2>1, SMT DEF IsFrame
<1>11. /\ Payload = Clear(g + 1)
       /\ f.len \in 0..Len(Unread)
       /\ Rest(After(wsIn, wsUsed + f.len) \o wsLeft, wsScript, g + 1, 0)
  BY <1>1, <1>2, <1>6, <1>7, <1>8, <1>9, PayloadIs
<1>12. wsUsed + wsFrame.len \in 0..Len(wsIn)
  BY <1>2, <1>8, <1>11, Skips
<1>13. PICK t : t = OpenAfter(g, s)
  OBVIOUS
<1>14. /\ f.op = 0 => s # 0
       /\ f.op \in 1..7 => s = 0
       /\ s = 0 <=> ~MessageOpen(g)
       /\ t \in 0..(g + 1) /\ Within(g + 1, t)
  BY <1>4, <1>5, <1>6, <1>7, <1>9, <1>10, <1>13, WithinNext
<1>15. t = IF f.fin THEN (IF f.op <= 7 THEN 0 ELSE s) ELSE IF f.op = 0 THEN s ELSE g + 1
  BY <1>6, <1>13 DEF OpenAfter
<1>16. (OpOpen(s) = 0 /\ s = 0) \/ (OpOpen(s) \in {1, 2} /\ s # 0)
  BY <1>4, <1>9, OpOpenIs
<1>17. OpOpen(0) = 0 /\ OpOpen(g + 1) = f.op
  BY <1>6, <1>9 DEF OpOpen
<1>18. wsCont = OpOpen(t)
  <2>1. f.fin /\ f.op = 0 => t = 0
    BY <1>15
  <2>2. ~f.fin /\ f.op # 0 => t = g + 1
    BY <1>15
  <2>3. f.fin /\ f.op # 0 => t = s \/ (t = 0 /\ s = 0)
    BY <1>10, <1>14, <1>15
  <2>4. ~f.fin /\ f.op = 0 => t = s
    BY <1>15
  <2> QED
    BY <1>7, <1>10, <1>17, <2>1, <2>2, <2>3, <2>4
<1>19. IsSequence(wsFrag) /\ Len(wsFrag) <= g * WsMaxLen /\ Joins(wsFrag, Fragments(g, s))
  BY <1>4 DEF Collected
<1>20. /\ Fragments(g, s) \in SUBSET (1..g)
       /\ s = 0 => Fragments(g, s) = {}
       /\ IsData(g + 1) => /\ Beginning(g, s) \in 1..(g + 1)
                           /\ Began(Beginning(g, s), g + 1)
                           /\ Fragments(g, s) \cup {g + 1} = Kept(Beginning(g, s), g + 1)
       /\ ~IsData(g + 1) => Fragments(g + 1, s) = {}
  BY <1>4, <1>6, <1>9, <1>10, <1>14, FragmentsNext
<1>21. PICK m : m = Message
  OBVIOUS
<1>22. m = wsFrag \o Clear(g + 1)
  BY <1>11, <1>21 DEF Message
<1>23. /\ IsSequence(m) /\ Joins(m, Fragments(g, s) \cup {g + 1})
       /\ Len(m) = Len(wsFrag) + f.len
       /\ After(m, Len(m) - f.len) = Clear(g + 1)
       /\ Fragments(g, s) = {} => m = Clear(g + 1)
  <2>1. \A k \in 1..(g + 1) : IsFrame(wsScript[k]) /\ Fits32(wsScript[k].len)
    BY <1>5, <1>9
  <2> QED
    BY <1>6, <1>9, <1>19, <1>20, <1>22, <2>1, JoinsMore
<1>24. Len(m) \in Nat /\ Len(m) <= (g + 1) * WsMaxLen /\ Fits32(Len(m))
  <2>1. Len(m) \in Nat /\ Len(wsFrag) \in Nat
    BY <1>19, <1>23 DEF IsSequence
  <2>2. WsMaxLen \in Nat /\ WsMaxFrames \in Nat
    BY WsAssumption
  <2>3. g + 1 \in Nat /\ g + 1 <= WsMaxFrames
    BY <1>5, <1>9, <2>2
  <2>4. (g + 1) * WsMaxLen = g * WsMaxLen + WsMaxLen /\ g * WsMaxLen \in Nat
    BY <1>9, <2>2, <2>3, TimesMonotone
  <2>5. (g + 1) * WsMaxLen <= WsMaxFrames * WsMaxLen /\ (g + 1) * WsMaxLen \in Nat
        /\ WsMaxFrames * WsMaxLen \in Nat
    BY <2>2, <2>3, TimesMonotone
  <2>6. PICK a, b, c : a = g * WsMaxLen /\ b = (g + 1) * WsMaxLen /\ c = WsMaxFrames * WsMaxLen
    OBVIOUS
  <2>7. Len(m) <= b
    <3>1. /\ Len(m) = Len(wsFrag) + f.len /\ Len(wsFrag) <= a /\ f.len <= WsMaxLen
          /\ b = a + WsMaxLen /\ a \in Nat /\ b \in Nat
      BY <1>10, <1>19, <1>23, <2>4, <2>5, <2>6
    <3> QED
      BY ONLY <1>10, <2>1, <2>2, <3>1
  <2>8. Len(m) <= c
    <3>1. b <= c /\ b \in Nat /\ c \in Nat
      BY <2>5, <2>6
    <3> QED
      BY ONLY <2>1, <2>7, <3>1
  <2>9. Fits32(Len(m))
    BY <2>1, <2>6, <2>8, BoundFits
  <2> QED
    BY <2>1, <2>6, <2>7, <2>9
<1>25. Dispatched(g, s)
  BY <1>4, <1>7, <1>8, <1>9, <1>11, <1>12, <1>13, <1>14, <1>18, <1>21, <1>23, <1>24 DEF Dispatched
<1>26. IsData(g + 1) <=> f.op \in {0, 1, 2}
  BY <1>6 DEF IsData
<1>27. g + 1 \in Ends <=> f.fin /\ f.op \in {0, 1, 2}
  BY <1>5, <1>6, <1>9, <1>26 DEF Ends
<1>28. g + 1 \in Pings <=> f.op = 9
  BY <1>5, <1>6, <1>9 DEF Pings
<1>29. Fragments(g + 1, 0) = {}
  BY DEF Fragments
<1>30. IsSequence(<< >>) /\ Joins(<< >>, {}) /\ Len(<< >>) = 0
  BY JoinsNone
<1>31. ASSUME ~f.fin PROVE Collected(m, g + 1, t)
  <2>1. ~(f.op > 2) /\ f.op \in {0, 1, 2}
    BY <1>10, <1>31
  <2>2. t # 0 /\ t = Beginning(g, s)
    BY <1>6, <1>9, <1>14, <1>15, <1>31 DEF Beginning
  <2>3. Fragments(g + 1, t) = Kept(t, g + 1)
    BY <2>2 DEF Fragments
  <2>4. Fragments(g + 1, t) = Fragments(g, s) \cup {g + 1}
    BY <1>20, <1>26, <2>1, <2>2, <2>3
  <2> QED
    BY <1>23, <1>24, <2>4 DEF Collected
<1>32. ASSUME f.fin PROVE Collected(<< >>, g + 1, t)
  <2>1. Fragments(g + 1, t) = {}
    <3>1. CASE f.op <= 7
      BY <1>15, <1>29, <1>32, <3>1
    <3>2. CASE ~ (f.op <= 7)
      <4>1. ~IsData(g + 1) /\ t = s
        BY <1>10, <1>15, <1>26, <1>32, <3>2
      <4> QED
        BY <1>20, <4>1
    <3> QED
      BY <3>1, <3>2
  <2>2. 0 <= (g + 1) * WsMaxLen
    <3>1. PICK b : b = (g + 1) * WsMaxLen
      OBVIOUS
    <3>2. Len(m) <= b /\ b \in Int
      <4>1. WsMaxLen \in Int /\ g + 1 \in Int
        BY <1>9, WsAssumption
      <4> QED
        BY <1>24, <3>1, <4>1
    <3> QED
      BY <1>24, <3>1, <3>2
  <2> QED
    BY <1>30, <2>1, <2>2 DEF Collected
<1>33. ASSUME f.fin, f.op \in {0, 1, 2}
       PROVE  wsFrame.op \in {1, 2} /\ Delivered([op |-> wsFrame.op, payload |-> m], g + 1)
  <2>1. PICK e : e = [op |-> wsFrame.op, payload |-> m]
    OBVIOUS
  <2>2. PICK b : b = Beginning(g, s)
    OBVIOUS
  <2>3. b \in 1..(g + 1) /\ Began(b, g + 1) /\ Joins(m, Kept(b, g + 1))
    BY <1>20, <1>23, <1>26, <1>33, <2>2
  <2>4. wsFrame.op = wsScript[b].op
    <3>1. CASE f.op = 0
      BY <1>6, <1>8, <1>14, <1>33, <2>2, <3>1 DEF Beginning, OpOpen
    <3>2. CASE f.op # 0
      BY <1>6, <1>8, <2>2, <3>2 DEF Beginning
    <3> QED
      BY <3>1, <3>2
  <2>5. wsFrame.op \in {1, 2}
    BY <2>3, <2>4 DEF Began
  <2>6. e.op = wsScript[b].op /\ e.payload = m
    BY <2>1, <2>4
  <2>7. Delivered(e, g + 1)
    BY <2>3, <2>6 DEF Delivered
  <2> QED
    BY <2>1, <2>5, <2>7
<1>34. f.op \notin {0, 1, 2} => wsFrame.op = f.op
  BY <1>8
<1>35. ASSUME wsFrame.op = 9 PROVE Answers(m, g + 1)
  <2>1. (g + 1) - 1 = g
    BY <1>9
  <2>2. ~MessageOpen(g) => m = Clear(g + 1)
    BY <1>14, <1>20, <1>23
  <2> QED
    BY <1>6, <1>23, <2>1, <2>2 DEF Answers
<1>36. Dispatches(g, s)
  <2>1. ~wsFrame.fin => g + 1 \notin Ends \cup Pings /\ Collected(m, g + 1, t)
    <3>1. ~f.fin => f.op # 9
      BY <1>10
    <3> QED
      BY <1>8, <1>27, <1>28, <1>31, <3>1
  <2>2. wsFrame.fin => Collected(<< >>, g + 1, t)
    BY <1>8, <1>32
  <2>3. f.fin => (wsFrame.op \in {1, 2} <=> g + 1 \in Ends)
    <3>1. CASE f.op \in {0, 1, 2}
      BY <1>27, <1>33, <3>1
    <3>2. CASE f.op \notin {0, 1, 2}
      BY <1>27, <1>34, <3>2
    <3> QED
      BY <3>1, <3>2
  <2>4. f.fin => (wsFrame.op = 9 <=> g + 1 \in Pings)
    <3>1. CASE f.op \in {0, 1, 2}
      BY <1>28, <1>33, <3>1
    <3>2. CASE f.op \notin {0, 1, 2}
      BY <1>28, <1>34, <3>2
    <3> QED
      BY <3>1, <3>2
  <2>5. f.fin /\ g + 1 \in Ends => Delivered([op |-> wsFrame.op, payload |-> m], g + 1)
    BY <1>27, <1>33
  <2> QED
    BY <1>8, <1>13, <1>21, <1>35, <2>1, <2>2, <2>3, <2>4, <2>5 DEF Dispatches
<1> QED
  BY <1>25, <1>36


\* The dispatched frame changes what was told, and nothing of the frames left.
LEMMA FrameTold ==
  ASSUME WSInv, Complete, NEW g, NEW s, Dispatched(g, s), wsScript' = wsScript,
         NEW q, Heard(q, g + 1), wsGot' = q, NEW r, Echoed(r, g + 1), wsPongs' = r
  PROVE  /\ WSShape /\ WSOpened /\ Extended /\ wsScript # << >>
         /\ wsIn \in Seq(WsByte) /\ wsLeft \in Seq(WsByte) /\ wsUsed \in 0..Len(wsIn)
         /\ wsCont \in 0..7 /\ wsReply = "101" /\ wsState = "open"
         /\ Within(g + 1, OpenAfter(g, s))'
         /\ Heard(wsGot, g + 1)' /\ Echoed(wsPongs, g + 1)'
<1>1. wsPc # "idle"
  BY DEF Complete
<1>2. /\ wsState = "open" /\ WSShape /\ WSOpenState /\ WSOpened
      /\ wsIn \in Seq(WsByte) /\ wsLeft \in Seq(WsByte) /\ wsUsed \in 0..Len(wsIn)
  BY <1>1, CallOpen
<1>3. wsCont \in 0..7 /\ wsScript # << >> /\ wsReply = "101"
  BY <1>1, <1>2, OpenSays, OpenStateSays
<1>4. Extended
  BY <1>2, SameScript
<1>5. g + 1 \in 0..Len(wsScript)
  BY DEF Dispatched
<1>6. Heard(wsGot, g + 1)'
  BY <1>4, <1>5, HeardStays
<1>7. Echoed(wsPongs, g + 1)'
  BY <1>4, <1>5, EchoedStays
<1>8. PICK t : t = OpenAfter(g, s)
  OBVIOUS
<1>9. t \in 0..(g + 1) /\ Within(g + 1, t)
  BY <1>8 DEF Dispatched
<1>10. Within(g + 1, t)'
  BY <1>4, <1>5, <1>9, FragmentsStay
<1>11. OpenAfter(g, s)' = t
  BY <1>8 DEF OpenAfter
<1>12. Within(g + 1, OpenAfter(g, s))'
  BY <1>10, <1>11 DEF Within
<1> QED
  BY <1>2, <1>3, <1>4, <1>6, <1>7, <1>12

\* The frame is handled, and the next header comes.
LEMMA FrameDone ==
  ASSUME WSInv, Complete, NextFrame, SentOK', NEW g, NEW s, Dispatched(g, s),
         NEW p, Collected(p, g + 1, OpenAfter(g, s)), wsFrag' = p,
         NEW q, Heard(q, g + 1), wsGot' = q, NEW r, Echoed(r, g + 1), wsPongs' = r
  PROVE  WSInv'
<1>1. /\ wsUsed' = wsUsed + wsFrame.len /\ wsFrame' = NoFrame /\ wsPc' = "header"
      /\ UNCHANGED <<wsScript, wsReq, wsAsk, wsReply, wsClean, wsLeft, wsIn, wsState, wsCont, wsSends>>
  BY DEF NextFrame, wsClient
<1>2. /\ WSShape /\ WSOpened /\ Extended /\ wsScript # << >>
      /\ wsIn \in Seq(WsByte) /\ wsLeft \in Seq(WsByte) /\ wsUsed \in 0..Len(wsIn)
      /\ wsReply = "101" /\ wsState = "open"
      /\ Heard(wsGot, g + 1)' /\ Echoed(wsPongs, g + 1)'
  BY <1>1, FrameTold
<1>3. PICK t : t = OpenAfter(g, s)
  OBVIOUS
<1>4. /\ g + 1 \in 0..Len(wsScript) /\ t \in 0..(g + 1) /\ Within(g + 1, t) /\ wsCont = OpOpen(t)
      /\ wsUsed + wsFrame.len \in 0..Len(wsIn)
      /\ Rest(After(wsIn, wsUsed + wsFrame.len) \o wsLeft, wsScript, g + 1, 0)
  BY <1>3 DEF Dispatched
<1>5. Within(g + 1, t)' /\ OpOpen(t)' = OpOpen(t)
  BY <1>2, <1>4, FragmentsStay
<1>6. Collected(p, g + 1, t)
  BY <1>3
<1>7. Collected(wsFrag, g + 1, t)'
  BY <1>2, <1>4, <1>6, CollectedStays
<1>8. Between(g + 1, t)'
  BY <1>1, <1>4, <1>5 DEF Between, Unread
<1>9. WSOpenState'
  BY <1>1, <1>2, <1>4, <1>5, <1>7, <1>8, OpenStateFrom
<1>10. WSShape'
  BY <1>1, <1>2, ShapeStays
<1>11. WSOpened'
  BY <1>1, <1>2, OpenedStays
<1> QED
  BY <1>1, <1>2, <1>9, <1>10, <1>11, StaysOpen

\* The frame is handled, and the connection ends.
LEMMA FrameFails ==
  ASSUME WSInv, Complete, WSFail, wsSends' = wsSends, SentOK', NEW g, NEW s, Dispatched(g, s),
         NEW q, Heard(q, g + 1), wsGot' = q, NEW r, Echoed(r, g + 1), wsPongs' = r
  PROVE  WSInv'
<1>1. /\ wsState' = "closed" /\ wsPc' = "idle"
      /\ UNCHANGED <<wsScript, wsReq, wsAsk, wsReply, wsClean, wsLeft, wsIn, wsUsed, wsFrame, wsCont>>
  BY DEF WSFail, wsClient
<1>2. /\ WSShape /\ WSOpened /\ Extended /\ wsScript # << >>
      /\ wsIn \in Seq(WsByte) /\ wsLeft \in Seq(WsByte) /\ wsUsed \in 0..Len(wsIn)
      /\ wsCont \in 0..7
  BY <1>1, FrameTold
<1>3. WSShape'
  BY <1>1, <1>2, ShapeStays
<1>4. WSOpened'
  BY <1>1, <1>2 DEF WSOpened
<1>5. WSTypeOK'
  BY <1>1, <1>2 DEF WSTypeOK
<1>6. /\ g \in Nat /\ g + 1 \in Nat /\ wsUsed + wsFrame.len \in 0..Len(wsIn)
      /\ Rest(After(wsIn, wsUsed + wsFrame.len) \o wsLeft, wsScript, g + 1, 0)
  BY DEF Dispatched
<1>7. /\ wsScript \in Seq(WsFrames) /\ Len(wsScript) <= WsMaxFrames
      /\ Len(wsScript) \in Nat /\ DOMAIN wsScript = 1..Len(wsScript)
  BY <1>2, ShapeSays
<1>8. \A f \in 1..(g + 1) : f \in Arrived
  <2>1. After(wsIn, wsUsed + wsFrame.len) \in Seq(WsByte)
    BY <1>2, <1>6, AfterIs
  <2> QED
    BY <1>2, <1>6, <1>7, <2>1, UsedArrived
<1>9. Ends \in SUBSET (1..Len(wsScript)) /\ Pings \in SUBSET (1..Len(wsScript))
  BY <1>7, FramesSent
<1>10. \A f \in Ends \cup Pings : f <= g + 1 => f \in Arrived
  BY <1>6, <1>7, <1>8, <1>9
<1>11. Ends' = Ends /\ Pings' = Pings /\ Arrived' = Arrived
  BY <1>1 DEF Ends, Pings, Arrived, IsData
<1>12. WSDelivered'
  <2>1. /\ Len(q) <= Cardinality(Ends \cap Arrived)
        /\ \A f \in Ends : Rank(Ends, f) <= Len(q) => Delivered(q[Rank(Ends, f)], f)
    BY <1>6, <1>7, <1>10, HeardSays
  <2>2. ASSUME NEW f \in Ends, Rank(Ends, f) <= Len(q) PROVE Delivered(wsGot[Rank(Ends, f)], f)'
    <3>1. PICK m : m = q[Rank(Ends, f)]
      OBVIOUS
    <3>2. Delivered(m, f) /\ f \in 1..Len(wsScript)
      BY <1>9, <2>1, <2>2, <3>1
    <3>3. Delivered(m, f)'
      BY <1>2, <3>2, DeliveredStay
    <3>4. wsGot'[Rank(Ends, f)'] = m
      BY <1>11, <3>1 DEF Rank
    <3> QED
      BY <3>3, <3>4 DEF Delivered, Joins
  <2>3. \A f \in Ends' : Rank(Ends, f)' <= Len(wsGot') => Delivered(wsGot[Rank(Ends, f)], f)'
    BY <1>11, <2>2 DEF Rank
  <2> QED
    BY <1>1, <1>11, <2>1, <2>3 DEF WSDelivered
<1>13. WSEcho'
  <2>1. /\ Len(r) <= Cardinality(Pings \cap Arrived)
        /\ \A f \in Pings : Rank(Pings, f) <= Len(r) => Answers(r[Rank(Pings, f)], f)
    BY <1>6, <1>7, <1>10, EchoedSays
  <2>2. ASSUME NEW f \in Pings, Rank(Pings, f) <= Len(r) PROVE Answers(wsPongs[Rank(Pings, f)], f)'
    <3>1. PICK m : m = r[Rank(Pings, f)]
      OBVIOUS
    <3>2. Answers(m, f) /\ f \in 1..Len(wsScript)
      BY <1>9, <2>1, <2>2, <3>1
    <3>3. Answers(m, f)'
      BY <1>2, <3>2, AnswersStay
    <3>4. wsPongs'[Rank(Pings, f)'] = m
      BY <1>11, <3>1 DEF Rank
    <3> QED
      BY <3>3, <3>4 DEF Answers
  <2>3. \A f \in Pings' : Rank(Pings, f)' <= Len(wsPongs') => Answers(wsPongs[Rank(Pings, f)], f)'
    BY <1>11, <2>2 DEF Rank
  <2> QED
    BY <1>1, <1>11, <2>1, <2>3 DEF WSEcho
<1> QED
  BY <1>1, <1>3, <1>4, <1>5, <1>12, <1>13 DEF WSInv


LEMMA ToldNext ==
  ASSUME WSInv, NEW g, NEW s, Dispatched(g, s)
  PROVE  /\ g + 1 \notin Ends => Heard(wsGot, g + 1)
         /\ \A e : g + 1 \in Ends /\ Delivered(e, g + 1) => Heard(Append(wsGot, e), g + 1)
         /\ g + 1 \notin Pings => Echoed(wsPongs, g + 1)
         /\ \A e : g + 1 \in Pings /\ Answers(e, g + 1) => Echoed(Append(wsPongs, e), g + 1)
<1>1. Len(wsScript) \in Nat /\ DOMAIN wsScript = 1..Len(wsScript)
  BY InvSays, ShapeSays
<1>2. g \in Nat /\ Heard(wsGot, g) /\ Echoed(wsPongs, g)
  BY DEF Dispatched
<1> QED
  BY <1>1, <1>2, HeardNext, EchoedNext

LEMMA WSInvFragment == ASSUME WSInv, WSFragment PROVE WSInv'
<1>1. /\ Complete /\ ~wsFrame.fin /\ wsFrag' = Message /\ NextFrame
      /\ UNCHANGED <<wsSentClose, wsGot, wsPongs, wsCloses, wsHeader>>
  BY Zenon DEF WSFragment
<1>2. PICK g, s : Dispatched(g, s) /\ Dispatches(g, s)
  BY <1>1, CompleteSays
<1>3. g + 1 \notin Ends \cup Pings /\ Collected(Message, g + 1, OpenAfter(g, s))
  BY <1>1, <1>2 DEF Dispatches
<1>4. PICK p, q, r : p = Message /\ q = wsGot /\ r = wsPongs
  OBVIOUS
<1>5. Collected(p, g + 1, OpenAfter(g, s)) /\ Heard(q, g + 1) /\ Echoed(r, g + 1)
  BY <1>2, <1>3, <1>4, ToldNext
<1>6. wsFrag' = p /\ wsGot' = q /\ wsPongs' = r /\ SentOK'
  BY <1>1, <1>4, NothingSent, InvSays
<1> QED
  BY <1>1, <1>2, <1>5, <1>6, FrameDone

LEMMA WSInvData == ASSUME WSInv, NEW ok \in BOOLEAN, WSData(ok) PROVE WSInv'
<1> DEFINE e == [op |-> wsFrame.op, payload |-> Message]
<1>1. /\ Complete /\ wsFrame.fin /\ wsFrame.op \in {1, 2}
      /\ wsGot' = Append(wsGot, e) /\ wsPongs' = wsPongs
      /\ IF ok THEN /\ wsFrag' = << >> /\ NextFrame
                    /\ UNCHANGED <<wsSentClose, wsCloses, wsHeader>>
         ELSE SendClose /\ WSFail /\ wsSends' = wsSends
  BY Zenon DEF WSData
<1>2. PICK g, s : Dispatched(g, s) /\ Dispatches(g, s)
  BY <1>1, CompleteSays
<1>3. /\ Collected(<< >>, g + 1, OpenAfter(g, s)) /\ g + 1 \in Ends /\ g + 1 \notin Pings
      /\ Delivered(e, g + 1)
  BY <1>1, <1>2 DEF Dispatches
<1> HIDE DEF e
<1>4. PICK q, r : q = Append(wsGot, e) /\ r = wsPongs
  OBVIOUS
<1>5. Heard(q, g + 1) /\ Echoed(r, g + 1)
  BY <1>2, <1>3, <1>4, ToldNext
<1>6. wsGot' = q /\ wsPongs' = r
  BY <1>1, <1>4
<1>7. CASE ok
  <2>1. SentOK'
    BY <1>1, <1>7, NothingSent, InvSays
  <2> QED
    BY <1>1, <1>2, <1>3, <1>5, <1>6, <1>7, <2>1, FrameDone
<1>8. CASE ~ok
  <2>1. SentOK'
    BY <1>1, <1>8, CloseSent, InvSays
  <2> QED
    BY <1>1, <1>2, <1>5, <1>6, <1>8, <2>1, FrameFails
<1> QED
  BY <1>7, <1>8

\* A control frame other than a ping
LEMMA Untold ==
  ASSUME WSInv, Complete, wsFrame.fin, wsFrame.op \notin {1, 2, 9}
  PROVE  \E g, s : /\ Dispatched(g, s) /\ Collected(<< >>, g + 1, OpenAfter(g, s))
                   /\ Heard(wsGot, g + 1) /\ Echoed(wsPongs, g + 1)
<1>1. PICK g, s : Dispatched(g, s) /\ Dispatches(g, s)
  BY CompleteSays
<1>2. Collected(<< >>, g + 1, OpenAfter(g, s)) /\ g + 1 \notin Ends /\ g + 1 \notin Pings
  BY <1>1 DEF Dispatches
<1> QED
  BY <1>1, <1>2, ToldNext

LEMMA WSInvClose == ASSUME WSInv, WSClose PROVE WSInv'
<1>1. /\ Complete /\ wsFrame.fin /\ wsFrame.op = 8 /\ wsGot' = wsGot /\ wsPongs' = wsPongs
      /\ \/ SendClose /\ WSFail /\ wsSends' = wsSends
         \/ wsFrag' = << >> /\ NextFrame /\ UNCHANGED <<wsSentClose, wsCloses, wsHeader>>
  BY DEF WSClose
<1>2. PICK g, s : /\ Dispatched(g, s) /\ Collected(<< >>, g + 1, OpenAfter(g, s))
                  /\ Heard(wsGot, g + 1) /\ Echoed(wsPongs, g + 1)
  BY <1>1, Untold
<1>3. PICK q, r : q = wsGot /\ r = wsPongs
  OBVIOUS
<1>4. Heard(q, g + 1) /\ Echoed(r, g + 1) /\ wsGot' = q /\ wsPongs' = r
  BY <1>1, <1>2, <1>3
<1>5. CASE SendClose /\ WSFail /\ wsSends' = wsSends
  <2>1. SentOK'
    BY <1>5, CloseSent, InvSays
  <2> QED
    BY <1>1, <1>2, <1>4, <1>5, <2>1, FrameFails
<1>6. CASE wsFrag' = << >> /\ NextFrame /\ UNCHANGED <<wsSentClose, wsCloses, wsHeader>>
  <2>1. SentOK'
    BY <1>6, NothingSent, InvSays
  <2> QED
    BY <1>1, <1>2, <1>4, <1>6, <2>1, FrameDone
<1> QED
  BY <1>1, <1>5, <1>6

LEMMA WSInvPing == ASSUME WSInv, WSPing PROVE WSInv'
<1>1. /\ Complete /\ wsFrame.fin /\ wsFrame.op = 9
      /\ wsPongs' = Append(wsPongs, Message) /\ SendWS(TRUE, 10, Len(Message))
      /\ wsFrag' = << >> /\ NextFrame
      /\ UNCHANGED <<wsSentClose, wsGot, wsCloses>>
  BY DEF WSPing, SendPong
<1>2. PICK g, s : Dispatched(g, s) /\ Dispatches(g, s)
  BY <1>1, CompleteSays
<1>3. /\ Collected(<< >>, g + 1, OpenAfter(g, s)) /\ g + 1 \notin Ends /\ g + 1 \in Pings
      /\ Answers(Message, g + 1)
  BY <1>1, <1>2 DEF Dispatches
<1>4. PICK q, r : q = wsGot /\ r = Append(wsPongs, Message)
  OBVIOUS
<1>5. Heard(q, g + 1) /\ Echoed(r, g + 1) /\ wsGot' = q /\ wsPongs' = r
  BY <1>1, <1>2, <1>3, <1>4, ToldNext
<1>6. SentOK'
  <2>1. Len(Message) \in Nat /\ Fits32(Len(Message))
    BY <1>2 DEF Dispatched, Fits32
  <2>2. PICK fin, op, len : fin = TRUE /\ op = 10 /\ len = Len(Message)
    OBVIOUS
  <2>3. fin \in BOOLEAN /\ op \in 0..15 /\ (op > 2 => fin) /\ len \in Nat /\ Fits32(len)
    BY <2>1, <2>2
  <2>4. SendWS(fin, op, len)
    BY <1>1, <2>2
  <2>5. HeaderSent'
    BY ONLY <2>3, <2>4, SendIs
  <2> QED
    BY <1>1, <2>5, InvSays, ShapeSays DEF SentOK
<1> QED
  BY <1>1, <1>2, <1>3, <1>5, <1>6, FrameDone

LEMMA WSInvPong == ASSUME WSInv, WSPong PROVE WSInv'
<1>1. /\ Complete /\ wsFrame.fin /\ wsFrame.op = 10 /\ wsFrag' = << >> /\ NextFrame
      /\ UNCHANGED <<wsSentClose, wsGot, wsPongs, wsCloses, wsHeader>>
  BY Zenon DEF WSPong
<1>2. PICK g, s : /\ Dispatched(g, s) /\ Collected(<< >>, g + 1, OpenAfter(g, s))
                  /\ Heard(wsGot, g + 1) /\ Echoed(wsPongs, g + 1)
  BY <1>1, Untold
<1>3. PICK q, r : q = wsGot /\ r = wsPongs
  OBVIOUS
<1>4. Heard(q, g + 1) /\ Echoed(r, g + 1) /\ wsGot' = q /\ wsPongs' = r /\ SentOK'
  BY <1>1, <1>2, <1>3, NothingSent, InvSays
<1> QED
  BY <1>1, <1>2, <1>4, FrameDone

LEMMA WSInvUnknown == ASSUME WSInv, WSUnknown PROVE WSInv'
<1>1. /\ Complete /\ wsFrame.fin /\ wsFrame.op \notin {1, 2, 9} /\ SendClose /\ WSFail
      /\ wsGot' = wsGot /\ wsPongs' = wsPongs /\ wsSends' = wsSends
  BY DEF WSUnknown
<1>2. PICK g, s : /\ Dispatched(g, s) /\ Collected(<< >>, g + 1, OpenAfter(g, s))
                  /\ Heard(wsGot, g + 1) /\ Echoed(wsPongs, g + 1)
  BY <1>1, Untold
<1>3. PICK q, r : q = wsGot /\ r = wsPongs
  OBVIOUS
<1>4. Heard(q, g + 1) /\ Echoed(r, g + 1) /\ wsGot' = q /\ wsPongs' = r /\ SentOK'
  BY <1>1, <1>2, <1>3, CloseSent, InvSays
<1> QED
  BY <1>1, <1>2, <1>4, FrameFails


\* Nothing was sent, and nothing said of it.
LEMMA NothingYet ==
  ASSUME wsScript = << >>
  PROVE  /\ Ends = {} /\ Pings = {} /\ Rank(Ends, 0) = 0 /\ Rank(Pings, 0) = 0
         /\ Heard(<< >>, 0) /\ Echoed(<< >>, 0) /\ Collected(<< >>, 0, 0) /\ Within(0, 0)
         /\ Rest(<< >>, wsScript, 0, 0)
<1>1. DOMAIN wsScript = {} /\ Len(wsScript) = 0
  OBVIOUS
<1>2. Ends = {} /\ Pings = {}
  BY <1>1 DEF Ends, Pings
<1>3. Cardinality({}) = 0
  BY FS_EmptySet
<1>4. Rank(Ends, 0) = 0 /\ Rank(Pings, 0) = 0
  <2>1. {t \in Ends : t <= 0} = {} /\ {t \in Pings : t <= 0} = {}
    BY <1>2
  <2> QED
    BY <1>3, <2>1 DEF Rank
<1>5. IsSequence(<< >>) /\ Joins(<< >>, {}) /\ Len(<< >>) = 0
  BY JoinsNone
<1>6. Heard(<< >>, 0) /\ Echoed(<< >>, 0)
  BY <1>2, <1>4, <1>5 DEF Heard, Echoed
<1>7. Collected(<< >>, 0, 0)
  <2>1. 0 <= 0 * WsMaxLen
    BY WsAssumption
  <2> QED
    BY <1>5, <2>1 DEF Collected, Fragments
<1>8. Within(0, 0)
  BY DEF Within, MessageOpen
<1>9. Rest(<< >>, wsScript, 0, 0)
  BY <1>1 DEF Rest
<1> QED
  BY <1>2, <1>4, <1>6, <1>7, <1>8, <1>9

LEMMA WSInvInit == WSInit => WSInv
<1> SUFFICES ASSUME WSInit PROVE WSInv
  OBVIOUS
<1>1. /\ wsScript = << >> /\ wsReq \in WsRequests /\ wsAsk = HeadBytes(1, wsReq)
      /\ wsReply = "none" /\ wsClean = TRUE /\ wsLeft = << >> /\ wsIn = << >> /\ wsUsed = 0
      /\ wsPc = "idle" /\ wsState = "handshake" /\ wsFrame = NoFrame /\ wsCont = 0
      /\ wsFrag = << >> /\ wsSentClose = FALSE /\ wsGot = << >> /\ wsPongs = << >>
      /\ wsCloses = 0 /\ wsSends = 0
      /\ wsHeader = [fin |-> TRUE, op |-> 0, len |-> 0, bytes |-> <<128, 0>>]
  BY DEF WSInit
<1>2. IsHead(wsReq)
  BY <1>1, WsAssumption
<1>3. wsAsk \in Seq(HtByte) /\ Len(wsAsk) \in Nat /\ Len(wsAsk) >= 7
  BY <1>1, <1>2, HeadLength
<1>4. wsIn \o wsAsk = wsAsk /\ wsIn \in Seq(HtByte)
  BY <1>1, <1>3, ConcatEmptySeq
<1>5. WSHandshakeState
  BY <1>1, <1>3, <1>4, RStrStrEmpty DEF WSHandshakeState, HtByte
<1>6. EncodeHeader([fin |-> TRUE, op |-> 0, masked |-> FALSE], 0) = <<128, 0>>
  <2>1. PICK r : r = [fin |-> TRUE, op |-> 0, masked |-> FALSE]
    OBVIOUS
  <2>2. Bit(r.fin) = 128 /\ r.op = 0 /\ Bit(r.masked) = 0
    BY <2>1 DEF Bit
  <2>3. <<Bit(r.fin) + r.op>> = <<128>> /\ <<Bit(r.masked) + 0>> = <<0>>
    BY ONLY <2>2
  <2>4. EncodeHeader(r, 0) = <<Bit(r.fin) + r.op>> \o <<Bit(r.masked) + 0>>
    BY ONLY SMT DEF EncodeHeader
  <2>5. <<128>> \o <<0>> = <<128, 0>>
    BY TwoBytes
  <2> QED
    BY ONLY <2>1, <2>3, <2>4, <2>5
<1>7. HeaderSent
  <2>1. PICK fin, op, len, bytes :
          fin = wsHeader.fin /\ op = wsHeader.op /\ len = wsHeader.len /\ bytes = wsHeader.bytes
    OBVIOUS
  <2>2. fin = TRUE /\ op = 0 /\ len = 0 /\ bytes = <<128, 0>>
    BY <1>1, <2>1
  <2>3. /\ fin \in BOOLEAN /\ op \in 0..15 /\ (op > 2 => fin)
        /\ len \in Nat /\ len \div 65536 <= 65535
    BY ONLY <2>2
  <2>4. bytes = EncodeHeader([fin |-> fin, op |-> op, masked |-> FALSE], len)
    BY ONLY Zenon, <1>6, <2>2
  <2>5. wsHeader.bytes = EncodeHeader([fin |-> wsHeader.fin, op |-> wsHeader.op, masked |-> FALSE],
                                      wsHeader.len)
    BY ONLY Zenon, <2>1, <2>4
  <2>6. /\ wsHeader.fin \in BOOLEAN /\ wsHeader.op \in 0..15 /\ (wsHeader.op > 2 => wsHeader.fin)
        /\ wsHeader.len \in Nat /\ wsHeader.len \div 65536 <= 65535
    BY ONLY <2>1, <2>3
  <2> QED
    BY ONLY <2>5, <2>6 DEF HeaderSent
<1>8. WSShape
  <2>1. wsScript \in Seq(WsFrames) /\ Len(wsScript) = 0 /\ Compliant
    BY <1>1 DEF Compliant
  <2>2. Len(wsScript) + 2 * wsSends <= WsMaxFrames /\ wsSends \in Nat
    BY <1>1, WsAssumption
  <2>3. wsSentClose \in BOOLEAN /\ wsCloses = (IF wsSentClose THEN 1 ELSE 0)
    BY ONLY <1>1
  <2> QED
    BY ONLY Zenon, <1>1, <1>7, <2>1, <2>2, <2>3 DEF WSShape
<1>9. wsAsk # << >>
  BY <1>3
<1>10. WSOpened
  BY <1>9 DEF WSOpened
<1> QED
  BY <1>1, <1>5, <1>8, <1>10 DEF WSInv

\* A connection that ends before a frame was sent
LEMMA EndsEarly ==
  ASSUME WSShape', WSOpened', wsState' = "closed", wsPc' = "idle", wsUsed' = 0, wsIn' = << >>,
         wsCont' = 0, wsScript' = << >>, wsGot' = << >>, wsPongs' = << >>
  PROVE  WSInv'
<1>1. WSTypeOK'
  BY DEF WSTypeOK
<1>2. Ends' = {} /\ Pings' = {}
  BY DEF Ends, Pings
<1>3. \A S : Cardinality({} \cap S) = 0
  BY FS_EmptySet
<1>4. WSDelivered'
  BY <1>2, <1>3 DEF WSDelivered
<1>5. WSEcho'
  BY <1>2, <1>3 DEF WSEcho
<1> QED
  BY <1>1, <1>4, <1>5 DEF WSInv

\* Bytes of the request arrive.
LEMMA WSInvHandshake ==
  ASSUME WSInv, NEW n \in 1..Len(wsAsk), WSHandshake(n) PROVE WSInv'
<1> DEFINE b == wsIn \o SubSeq(wsAsk, 1, n)
           w == HeadBytes(1, wsReq)
           p == RStrStr(b)
           lines == LinesBefore(b, p, <<wsReq>>)
           whole == p + 3 = Len(b) /\ n = Len(wsAsk)
<1>1. /\ wsState = "handshake" /\ n <= Len(wsAsk)
      /\ wsIn' = IF p = 0 THEN b ELSE << >>
      /\ IF p = 0 THEN UNCHANGED <<wsState, wsReply>> ELSE Handshaken(lines, whole)
      /\ wsClean' = (wsClean /\ (p = 0 \/ n = Len(wsAsk)))
      /\ wsAsk' = After(wsAsk, n)
  BY Zenon DEF WSHandshake
<1>2. UNCHANGED <<wsScript, wsReq, wsLeft, wsUsed, wsPc, wsFrame, wsCont, wsFrag, wsSentClose,
                  wsGot, wsPongs, wsCloses, wsSends, wsHeader>>
  BY DEF WSHandshake, wsHist
<1>3. WSShape /\ WSHandshakeState
  BY <1>1, InvSays
<1>4. /\ wsScript = << >> /\ wsLeft = << >> /\ wsUsed = 0 /\ wsPc = "idle"
      /\ wsFrame = NoFrame /\ wsCont = 0 /\ wsFrag = << >> /\ wsGot = << >> /\ wsPongs = << >>
      /\ wsReply = "none" /\ wsClean = TRUE
      /\ wsIn \in Seq(HtByte) /\ wsAsk \in Seq(HtByte) /\ wsIn \o wsAsk = w
  BY <1>3 DEF WSHandshakeState, HtByte
<1>5. IsHead(wsReq)
  BY <1>3, ShapeSays, WsAssumption
<1>6. /\ MessageOf(1, wsReq, w) /\ Len(w) = 5 * Len(wsReq) + 2 /\ Len(w) \in Nat
      /\ w \in Seq(HtByte) /\ RStrStr(w) = 5 * Len(wsReq) - 1 /\ Len(wsReq) \in Nat \ {0}
  BY <1>5, HeadIs, HeadLength, RStrStrIs
<1>7. /\ b \in Seq(HtByte) /\ wsAsk' \in Seq(HtByte) /\ b \o wsAsk' = w
  BY <1>1, <1>4, Arrives
<1>8. ASSUME n = Len(wsAsk) PROVE wsAsk' = << >> /\ b = w
  <2>1. SubSeq(wsAsk, 1, n) = wsAsk
    BY <1>4, <1>8, SubSeqFull
  <2>2. b = w
    BY <1>4, <2>1
  <2>3. Len(wsAsk') = 0
    <3>1. wsAsk \in Seq(HtByte) /\ n \in 0..Len(wsAsk)
      BY <1>1, <1>4
    <3>2. Len(After(wsAsk, n)) = Len(wsAsk) - n
      BY ONLY <3>1, AfterIs
    <3> QED
      BY <1>1, <1>4, <1>8, <3>1, <3>2
  <2> QED
    BY <1>7, <2>2, <2>3
<1>9. ASSUME n # Len(wsAsk) PROVE wsAsk' # << >>
  <2>1. n \in 0..Len(wsAsk) /\ Len(wsAsk) - n # 0
    BY <1>4, <1>9
  <2>2. Len(wsAsk') = Len(wsAsk) - n
    BY <1>1, <1>4, <2>1, AfterIs
  <2>3. Len(wsAsk') # 0
    BY <2>1, <2>2
  <2> QED
    BY <2>3
<1>10. WSShape'
  BY <1>2, <1>3, ShapeStays, NothingSent
<1> HIDE DEF b, w, p, lines, whole
<1>11. CASE p = 0
  <2>1. n # Len(wsAsk)
    <3>1. 5 * Len(wsReq) - 1 # 0
      BY <1>6
    <3> QED
      BY <1>6, <1>8, <1>11, <3>1 DEF p
  <2>2. WSHandshakeState'
    BY <1>1, <1>2, <1>4, <1>7, <1>11 DEF WSHandshakeState, HtByte, w, p
  <2>3. WSOpened'
    BY <1>9, <2>1 DEF WSOpened
  <2> QED
    BY <1>1, <1>10, <1>11, <2>2, <2>3 DEF WSInv
<1>12. CASE p # 0 /\ n # Len(wsAsk)
  <2>1. ~whole
    BY <1>12 DEF whole
  <2>2. wsState' = "closed"
    BY <1>1, <1>12, <2>1 DEF Handshaken
  <2>3. WSOpened'
    BY <1>9, <1>12 DEF WSOpened
  <2> QED
    BY <1>1, <1>2, <1>4, <1>10, <1>12, <2>2, <2>3, EndsEarly
<1>13. CASE p # 0 /\ n = Len(wsAsk)
  <2>1. b = w /\ p = 5 * Len(wsReq) - 1 /\ wsAsk' = << >>
    BY <1>6, <1>8, <1>13 DEF p
  <2>2. whole
    BY <1>6, <1>13, <2>1 DEF whole
  <2>3. lines = wsReq
    <3>1. Starts(w, w)
      BY <1>6 DEF Starts
    <3>2. <<wsReq>>[1] = wsReq /\ Len(w) >= 5 * Len(wsReq) + 2
      BY <1>6
    <3>3. LinesBefore(w, 5 * Len(wsReq) - 1, <<wsReq>>) = wsReq
      BY <1>5, <1>6, <3>1, <3>2, LinesAre
    <3> QED
      BY <2>1, <3>3 DEF lines
  <2>4. /\ ~ParseOk(wsReq, FALSE) => wsState' = "closed" /\ wsReply' = "none"
        /\ ParseOk(wsReq, FALSE) /\ ~Accepted(wsReq) => wsState' = "closed" /\ wsReply' = "400"
        /\ ParseOk(wsReq, FALSE) /\ Accepted(wsReq) => wsState' = "open" /\ wsReply' = "101"
    BY <1>1, <1>4, <1>13, <2>2, <2>3 DEF Handshaken, Respond101, Respond400
  <2>5. WSOpened'
    BY <1>2, <2>4 DEF WSOpened
  <2>6. CASE wsState' = "closed"
    BY <1>1, <1>2, <1>4, <1>10, <1>13, <2>5, <2>6, EndsEarly
  <2>7. CASE wsState' = "open"
    <3>1. wsReply' = "101"
      BY <2>4, <2>7
    <3>2. wsIn' = << >> /\ wsLeft' = << >> /\ wsUsed' = 0 /\ wsPc' = "idle" /\ wsScript' = << >>
      BY <1>1, <1>2, <1>4, <1>13
    <3>3. Extended
      BY <1>2, <1>3, SameScript
    <3>4. /\ Heard(<< >>, 0) /\ Echoed(<< >>, 0) /\ Collected(<< >>, 0, 0) /\ Within(0, 0)
          /\ Rest(<< >>, wsScript, 0, 0)
      BY <1>4, NothingYet
    <3>5. 0 \in 0..Len(wsScript) /\ 0 \in 0..0
      BY <1>4
    <3>6. Within(0, 0)' /\ Collected(wsFrag, 0, 0)' /\ Heard(wsGot, 0)' /\ Echoed(wsPongs, 0)'
      BY <1>2, <1>4, <3>3, <3>4, <3>5, TellsNothing
    <3>7. Unread' \o wsLeft' = << >>
      <4>1. After(<< >>, 0) = << >> /\ << >> \o << >> = << >>
        BY DEF After
      <4> QED
        BY <3>2, <4>1 DEF Unread
    <3>8. Between(0, 0)'
      BY <1>2, <1>4, <3>2, <3>4, <3>7 DEF Between, OpOpen
    <3>9. WSOpenState'
      <4>1. << >> \in Seq(WsByte) /\ 0 \in 0..Len(<< >>)
        OBVIOUS
      <4> QED
        BY <1>2, <3>1, <3>2, <3>5, <3>6, <3>8, <4>1, OpenStateFrom
    <3> QED
      BY <1>10, <2>5, <2>7, <3>9, StaysOpen
  <2> QED
    BY <2>4, <2>6, <2>7
<1> QED
  BY <1>11, <1>12, <1>13


LEMMA WSInvCorrect == WSInv => WSCorrect
<1> SUFFICES ASSUME WSInv PROVE WSCorrect
  OBVIOUS
<1>1. WSShape /\ WSOpened /\ wsState \in {"handshake", "open", "closed"}
  BY InvSays
<1>2. WSTypeOK /\ WSDelivered /\ WSEcho
  <2>1. CASE wsState = "handshake"
    <3>1. /\ wsScript = << >> /\ wsUsed = 0 /\ wsPc = "idle" /\ wsCont = 0 /\ wsGot = << >> /\ wsPongs = << >>
          /\ wsIn \in Seq(HtByte)
      BY <2>1, InvSays DEF WSHandshakeState, HtByte
    <3>2. Ends = {} /\ Pings = {}
      BY <3>1, NothingYet
    <3>3. \A S : Cardinality({} \cap S) = 0
      BY FS_EmptySet
    <3>4. WSTypeOK
      <4>1. 0 \in 0..Len(wsIn)
        BY <3>1
      <4> QED
        BY <2>1, <3>1, <4>1 DEF WSTypeOK
    <3> QED
      BY <2>1, <3>1, <3>2, <3>3, <3>4 DEF WSDelivered, WSEcho
  <2>2. CASE wsState = "open"
    <3>1. WSOpenState
      BY <2>2, InvSays
    <3>2. WSTypeOK
      <4>1. wsPc \in {"idle", "header", "payload"} /\ wsUsed \in 0..Len(wsIn)
        BY <3>1, OpenStateSays
      <4> QED
        BY <1>1, <3>1, <4>1, OpenSays DEF WSTypeOK
    <3>3. WSDelivered
      BY <1>1, <3>1, OpenSays DEF WSDelivered
    <3>4. WSEcho
      BY <1>1, <3>1, OpenSays DEF WSEcho
    <3> QED
      BY <3>2, <3>3, <3>4
  <2>3. CASE wsState = "closed"
    BY <2>3, InvSays
  <2> QED
    BY <1>1, <2>1, <2>2, <2>3
<1>3. WSCloseOnce
  BY <1>1, ShapeSays DEF WSCloseOnce
<1>4. WSHeaderOK
  <2>1. /\ wsHeader.fin \in BOOLEAN /\ wsHeader.op \in 0..15 /\ (wsHeader.op > 2 => wsHeader.fin)
        /\ wsHeader.len \in Nat /\ Fits32(wsHeader.len)
        /\ wsHeader.bytes = EncodeHeader([fin |-> wsHeader.fin, op |-> wsHeader.op, masked |-> FALSE],
                                         wsHeader.len)
    BY <1>1, ShapeSays DEF HeaderSent, Fits32
  <2>2. PICK fin, op, len : fin = wsHeader.fin /\ op = wsHeader.op /\ len = wsHeader.len
    OBVIOUS
  <2>3. fin \in BOOLEAN /\ op \in 0..15 /\ (op > 2 => fin) /\ len \in Nat /\ Fits32(len)
    BY <2>1, <2>2
  <2>4. PICK h : h = EncodeHeader([fin |-> fin, op |-> op, masked |-> FALSE], len)
    OBVIOUS
  <2>5. DecodeHeader(h) = [size |-> Len(h), frame |-> [fin |-> fin, op |-> op, masked |-> FALSE, len |-> len]]
    BY <2>3, <2>4, DecodeServer
  <2>6. wsHeader.bytes = h
    BY <2>1, <2>2, <2>4
  <2>7. DecodeHeader(h).size = Len(h)
        /\ DecodeHeader(h).frame = [fin |-> fin, op |-> op, masked |-> FALSE, len |-> len]
    BY <2>5
  <2> QED
    BY <2>2, <2>6, <2>7 DEF WSHeaderOK
<1> QED
  BY <1>1, <1>2, <1>3, <1>4 DEF WSCorrect

LEMMA WSInvNext == WSInv /\ [WSNext]_wsVars => WSInv'
<1> SUFFICES ASSUME WSInv, [WSNext]_wsVars PROVE WSInv'
  OBVIOUS
<1>1. ASSUME NEW n \in 1..Len(wsAsk), WSHandshake(n) PROVE WSInv'
  BY <1>1, WSInvHandshake
<1>2. ASSUME NEW f \in WsFrames, WSClientSends(f) PROVE WSInv'
  BY <1>2, WSInvClientSends
<1>3. ASSUME NEW n \in 1..Len(wsLeft), WSArrive(n) PROVE WSInv'
  BY <1>3, WSInvArrive
<1>4. ASSUME WSHeaderWait PROVE WSInv'
  BY <1>4, WSInvHeaderWait
<1>5. ASSUME WSHeader PROVE WSInv'
  BY <1>5, WSInvHeader
<1>6. ASSUME WSPayloadWait PROVE WSInv'
  BY <1>6, WSInvPayloadWait
<1>7. ASSUME WSFragment PROVE WSInv'
  BY <1>7, WSInvFragment
<1>8. ASSUME NEW ok \in BOOLEAN, WSData(ok) PROVE WSInv'
  BY <1>8, WSInvData
<1>9. ASSUME WSClose PROVE WSInv'
  BY <1>9, WSInvClose
<1>10. ASSUME WSPing PROVE WSInv'
  BY <1>10, WSInvPing
<1>11. ASSUME WSPong PROVE WSInv'
  BY <1>11, WSInvPong
<1>12. ASSUME WSUnknown PROVE WSInv'
  BY <1>12, WSInvUnknown
<1>13. ASSUME UNCHANGED wsVars PROVE WSInv'
  <2>1. UNCHANGED <<wsScript, wsReq, wsAsk, wsReply, wsClean, wsLeft, wsIn, wsUsed, wsPc, wsState,
                    wsFrame, wsCont, wsFrag, wsSentClose, wsGot, wsPongs, wsCloses, wsSends, wsHeader>>
    BY <1>13 DEF wsVars, wsClient, wsConn, wsHist
  <2>2. WSShape /\ WSOpened /\ wsState \in {"handshake", "open", "closed"}
    BY InvSays
  <2>3. WSShape' /\ Extended
    BY <2>1, <2>2, ShapeStays, NothingSent, SameScript
  <2>4. WSOpened'
    BY <2>1, <2>2, OpenedStays
  <2>5. Unread' = Unread
    BY <2>1 DEF Unread
  <2>6. CASE wsState = "handshake"
    <3>1. WSHandshakeState'
      BY <2>1, <2>6, InvSays DEF WSHandshakeState
    <3> QED
      BY <2>1, <2>3, <2>4, <2>6, <3>1 DEF WSInv
  <2>7. CASE wsState = "open"
    <3>1. WSOpenState
      BY <2>7, InvSays
    <3>2. PICK g, s : Opened(g, s)
      BY <3>1, OpenStateSays
    <3>3. /\ g \in 0..Len(wsScript) /\ s \in 0..g
          /\ Within(g, s) /\ Collected(wsFrag, g, s) /\ Heard(wsGot, g) /\ Echoed(wsPongs, g)
          /\ Between(g, s) \/ InFrame(g, s)
      BY <3>2 DEF Opened
    <3>4. Within(g, s)' /\ Collected(wsFrag, g, s)' /\ Heard(wsGot, g)' /\ Echoed(wsPongs, g)'
      BY <2>1, <2>3, <3>3, TellsNothing
    <3>5. Between(g, s) => Between(g, s)'
      BY <2>1, <2>5 DEF Between, OpOpen
    <3>6. InFrame(g, s) => InFrame(g, s)'
      BY <2>1, <2>5 DEF InFrame, OpOpen
    <3>7. WSOpenState'
      BY <2>1, <3>1, <3>3, <3>4, <3>5, <3>6, OpenStateFrom, OpenStateSays
    <3> QED
      BY <2>1, <2>3, <2>4, <2>7, <3>7, StaysOpen
  <2>8. CASE wsState = "closed"
    <3>1. wsPc = "idle" /\ WSTypeOK /\ WSDelivered /\ WSEcho
      BY <2>8, InvSays
    <3>2. WSTypeOK'
      BY <2>1, <3>1 DEF WSTypeOK
    <3>3. Ends' = Ends /\ Pings' = Pings /\ Arrived' = Arrived
      BY <2>1 DEF Ends, Pings, Arrived, IsData
    <3>4. Ends \in SUBSET (1..Len(wsScript)) /\ Pings \in SUBSET (1..Len(wsScript))
      BY <2>2, ShapeSays, FramesSent
    <3>5. WSDelivered'
      <4>1. \A f \in Ends : Delivered(wsGot[Rank(Ends, f)], f) => Delivered(wsGot[Rank(Ends, f)], f)'
        <5>1. TAKE f \in Ends
        <5>2. PICK m : m = wsGot[Rank(Ends, f)]
          OBVIOUS
        <5>3. Delivered(m, f)' <=> Delivered(m, f)
          BY <2>3, <3>4, DeliveredStay
        <5>4. wsGot'[Rank(Ends, f)'] = m
          BY <2>1, <3>3, <5>2 DEF Rank
        <5> QED
          BY <5>2, <5>3, <5>4 DEF Delivered, Joins
      <4> QED
        BY <2>1, <3>1, <3>3, <4>1 DEF WSDelivered, Rank
    <3>6. WSEcho'
      <4>1. \A f \in Pings : Answers(wsPongs[Rank(Pings, f)], f) => Answers(wsPongs[Rank(Pings, f)], f)'
        <5>1. TAKE f \in Pings
        <5>2. PICK m : m = wsPongs[Rank(Pings, f)]
          OBVIOUS
        <5>3. Answers(m, f)' <=> Answers(m, f)
          BY <2>3, <3>4, AnswersStay
        <5>4. wsPongs'[Rank(Pings, f)'] = m
          BY <2>1, <3>3, <5>2 DEF Rank
        <5> QED
          BY <5>2, <5>3, <5>4 DEF Answers
      <4> QED
        BY <2>1, <3>1, <3>3, <4>1 DEF WSEcho, Rank
    <3> QED
      BY <2>1, <2>3, <2>4, <2>8, <3>1, <3>2, <3>5, <3>6 DEF WSInv
  <2> QED
    BY <2>2, <2>6, <2>7, <2>8
<1>14. ASSUME WSNext PROVE WSInv'
  BY <1>1, <1>2, <1>3, <1>4, <1>5, <1>6, <1>7, <1>8, <1>9, <1>10, <1>11, <1>12, <1>14, WSInvApp DEF WSNext
<1> QED
  BY <1>13, <1>14

\* The WebSocket side delivers the messages of a client and answers its pings,
\* whatever the chunks, for every set of frames, however many are sent and
\* however they are fragmented; it sends one close frame at most, and headers its
\* own decoder reads back.
THEOREM FramesDelivered == WSSpec => []WSCorrect
<1>1. WSInit => WSInv
  BY WSInvInit
<1>2. WSInv /\ [WSNext]_wsVars => WSInv'
  BY WSInvNext
<1>3. WSInv => WSCorrect
  BY WSInvCorrect
<1> QED
  BY <1>1, <1>2, <1>3, PTL DEF WSSpec
==============================================================================
