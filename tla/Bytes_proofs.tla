---------------------------- MODULE Bytes_proofs ----------------------------
(***************************************************************************)
(* Proofs about what is done with bytes as they arrive: IOBuffer, the url  *)
(* code, and the incremental parsers HttpClient and HTTPProtocol.           *)
(*                                                                         *)
(* IOBuffer, for every alphabet, every set of chunks and every MinChunk,   *)
(* MaxExpected and Limit: the private operations are taken one by one, each *)
(* keeps a buffer sane, and says what becomes of its content.              *)
(*                                                                         *)
(* UrlCode, for texts and buffers of every length: what the encoder has    *)
(* written and what the decoder has read are determined by where they are. *)
(*                                                                         *)
(* The parsers, for heads, bodies and numbers of messages of every length: *)
(* the buffer and the bytes that have not arrived are together the message *)
(* (for the server, the messages) being received, and strstr(), rstrstr()  *)
(* and the loop over the lines are evaluated on a part of such bytes.      *)
(***************************************************************************)
EXTENDS IOBuffer, UrlCode, HttpClient, HTTPProtocol,
        FiniteSetTheorems, SequenceTheorems, WellFoundedInduction, TLAPS

-----------------------------------------------------------------------------
(* IOBuffer *)

\* The arrays of every length.
Arrays == UNION {[0..(n - 1) -> Byte \cup {Junk}] : n \in Nat}

\* What BufferOK says, of a value the private operations transform.
Valid(b) ==
  /\ b \in [buf : Arrays, size : Nat, pub : Nat, con : Nat]
  /\ b.buf \in [0..(b.size - 1) -> Byte \cup {Junk}]
  /\ b.con <= b.pub /\ b.pub <= b.size
  /\ b.con = b.pub => b.con = 0
  /\ \A i \in b.con..(b.pub - 1) : b.buf[i] \in Byte
  /\ b.pub - b.con <= Limit
  /\ b.size <= SizeBound

\* What a reader of b sees.
ContentOf(b) == [i \in 1..(b.pub - b.con) |-> b.buf[b.con + i - 1]]

\* An array of any length is one of the arrays.
LEMMA ArrayOf ==
  ASSUME NEW n \in Nat, NEW f \in [0..(n - 1) -> Byte \cup {Junk}]
  PROVE  f \in Arrays
  BY DEF Arrays

\* The content is a sequence of bytes, and none is left over from an
\* allocation.
LEMMA ContentSeq ==
  ASSUME NEW b, Valid(b)
  PROVE  ContentOf(b) \in Seq(Byte) /\ Len(ContentOf(b)) = b.pub - b.con
<1>1. b.pub - b.con \in Nat
  BY DEF Valid
<1>2. ASSUME NEW i \in 1..(b.pub - b.con)
      PROVE  b.buf[b.con + i - 1] \in Byte
  <2>1. b.con + i - 1 \in b.con..(b.pub - 1)
    BY DEF Valid
  <2> QED
    BY <2>1 DEF Valid
<1>3. ContentOf(b) \in [1..(b.pub - b.con) -> Byte]
  BY <1>2 DEF ContentOf
<1> QED
  BY <1>1, <1>3

\* MoveData moves the bytes with the cursors, and after it, moved or not, at
\* most 2 * Limit bytes of the array are in front of published_: it leaves
\* the content where it is only when the free part in front is the smaller.
LEMMA MoveDataKeeps ==
  ASSUME NEW b, Valid(b)
  PROVE  /\ Valid(MoveData(b)) /\ ContentOf(MoveData(b)) = ContentOf(b)
         /\ MoveData(b).size = b.size /\ MoveData(b).pub <= 2 * Limit
         /\ MoveData(b).pub - MoveData(b).con = b.pub - b.con
<1> DEFINE n == b.pub - b.con
           moved == [i \in 0..(b.size - 1) |-> IF i < n THEN b.buf[b.con + i] ELSE b.buf[i]]
           m == [b EXCEPT !.buf = moved, !.pub = n, !.con = 0]
<1>0. n \in Nat /\ Limit \in Nat /\ b.size \in Nat /\ b.con \in Nat /\ b.pub \in Nat
  BY BufferAssumption DEF Valid
<1>1. CASE ~(n <= b.con)
  <2>1. MoveData(b) = b
    BY <1>1 DEF MoveData
  <2> QED
    BY <1>0, <1>1, <2>1 DEF Valid
<1>2. CASE n <= b.con
  <2>1. MoveData(b) = m
    BY <1>2 DEF MoveData
  <2>2. ASSUME NEW i \in 0..(b.size - 1)
        PROVE  moved[i] \in Byte \cup {Junk} /\ (i < n => moved[i] = b.buf[b.con + i] /\ moved[i] \in Byte)
    <3>1. CASE i < n
      <4>1. b.con + i \in b.con..(b.pub - 1)
        BY <1>0, <3>1
      <4> QED
        BY <3>1, <4>1 DEF Valid
    <3>2. CASE ~(i < n)
      BY <3>2 DEF Valid
    <3> QED
      BY <3>1, <3>2
  <2>3. moved \in [0..(b.size - 1) -> Byte \cup {Junk}]
    BY <2>2
  <2> HIDE DEF moved
  <2>4. /\ m \in [buf : Arrays, size : Nat, pub : Nat, con : Nat]
        /\ m.buf = moved /\ m.size = b.size /\ m.pub = n /\ m.con = 0
    BY <1>0, <2>3, ArrayOf DEF Valid
  <2> HIDE DEF m
  <2>5. \A i \in 0..(n - 1) : moved[i] = b.buf[b.con + i] /\ moved[i] \in Byte
    BY <1>0, <2>2 DEF Valid
  <2>6. Valid(m)
    BY <1>0, <2>3, <2>4, <2>5 DEF Valid
  <2>7. ContentOf(m) = ContentOf(b)
    <3>1. \A i \in 1..n : i - 1 \in 0..(n - 1) /\ b.con + (i - 1) = b.con + i - 1 /\ 0 + i - 1 = i - 1
      BY <1>0
    <3>2. \A i \in 1..n : moved[0 + i - 1] = b.buf[b.con + i - 1]
      BY <2>5, <3>1
    <3> QED
      BY <1>0, <2>4, <3>2 DEF ContentOf
  <2> QED
    BY <1>0, <2>1, <2>4, <2>6, <2>7 DEF Valid
<1> QED
  BY <1>1, <1>2

\* EnsureSize grows to what it needs, and by a third at most: the bound on
\* the array, for every size it had.
LEMMA GrowthBound ==
  ASSUME NEW b, Valid(b), b.pub <= 2 * Limit,
         NEW expected \in 0..MaxExpected, b.pub + expected > b.size
  PROVE  /\ Growth(b, expected) \in Nat
         /\ expected <= Growth(b, expected)
         /\ b.pub + Growth(b, expected) <= SizeBound
<1> DEFINE third == b.size \div 3
           most == 2 * Limit + MaxExpected
<1>1. /\ Limit \in Nat /\ MaxExpected \in Nat /\ MinChunk \in Nat /\ MinChunk > 0
      /\ expected \in Nat /\ expected <= MaxExpected
      /\ b.size \in Nat /\ b.pub \in Nat /\ b.pub <= b.size
  BY BufferAssumption DEF Valid
<1>2. third \in Nat /\ 3 * third <= b.size /\ most \in Nat /\ b.size <= most
  BY <1>1
<1>3. (4 * most) \div 3 \in Nat /\ 3 * ((4 * most) \div 3) + 2 >= 4 * most
  BY <1>2
<1>4. SizeBound = (4 * most) \div 3 + MinChunk
  BY DEF SizeBound
<1>5. CASE b.pub + expected - b.size < third
  <2>1. expected <= b.size + third - b.pub /\ b.size + third - b.pub \in Nat
    BY <1>1, <1>2, <1>5
  <2>2. b.size + third <= (4 * most) \div 3 + 1
    BY <1>1, <1>2, <1>3
  <2>3. Growth(b, expected) = IF b.size + third - b.pub < MinChunk
                                THEN MinChunk ELSE b.size + third - b.pub
    BY <1>5 DEF Growth
  <2> HIDE DEF third, most
  <2> QED
    BY <1>1, <1>2, <1>3, <1>4, <2>1, <2>2, <2>3
<1>6. CASE ~(b.pub + expected - b.size < third)
  <2>1. Growth(b, expected) = IF expected < MinChunk THEN MinChunk ELSE expected
    BY <1>6 DEF Growth
  <2>2. b.pub + expected <= most
    BY <1>1
  <2> HIDE DEF third
  <2> QED
    BY <1>1, <1>2, <1>3, <1>4, <2>1, <2>2
<1> QED
  BY <1>5, <1>6

\* A larger array holds the published bytes of the old one where they were.
LEMMA EnlargeKeeps ==
  ASSUME NEW b, Valid(b), b.pub <= 2 * Limit,
         NEW expected \in 0..MaxExpected, b.pub + expected > b.size
  PROVE  /\ Valid(Enlarge(b, expected)) /\ ContentOf(Enlarge(b, expected)) = ContentOf(b)
         /\ Enlarge(b, expected).pub + expected <= Enlarge(b, expected).size
         /\ Enlarge(b, expected).pub = b.pub /\ Enlarge(b, expected).con = b.con
<1> DEFINE size == b.pub + Growth(b, expected)
           grown == [i \in 0..(size - 1) |-> IF i < b.pub THEN b.buf[i] ELSE Junk]
           e == [b EXCEPT !.buf = grown, !.size = size]
<1>1. /\ size \in Nat /\ size <= SizeBound /\ b.pub + expected <= size /\ b.pub <= size
      /\ b.size \in Nat /\ b.con \in Nat /\ b.pub \in Nat /\ b.pub <= b.size /\ b.con <= b.pub
  <2>1. /\ b.size \in Nat /\ b.con \in Nat /\ b.pub \in Nat /\ b.pub <= b.size /\ b.con <= b.pub
    BY DEF Valid
  <2>2. PICK g \in Nat : g = Growth(b, expected) /\ expected <= g /\ b.pub + g <= SizeBound
    BY GrowthBound
  <2>3. size = b.pub + g /\ expected \in Nat
    BY <2>2, BufferAssumption
  <2> HIDE DEF size
  <2> QED
    BY <2>1, <2>2, <2>3
<1>2. Enlarge(b, expected) = e
  BY DEF Enlarge
<1> HIDE DEF size
<1>3. \A i \in 0..(b.pub - 1) : i \in 0..(size - 1) /\ i \in 0..(b.size - 1) /\ grown[i] = b.buf[i]
  BY <1>1
<1>4. grown \in [0..(size - 1) -> Byte \cup {Junk}]
  <2>1. ASSUME NEW i \in 0..(size - 1)  PROVE grown[i] \in Byte \cup {Junk}
    <3>1. CASE i < b.pub
      <4>1. i \in 0..(b.pub - 1)
        BY <1>1, <3>1
      <4>2. i \in 0..(b.size - 1) /\ grown[i] = b.buf[i]
        BY <1>3, <4>1
      <4>3. b.buf \in [0..(b.size - 1) -> Byte \cup {Junk}]
        BY DEF Valid
      <4> HIDE DEF grown
      <4> QED
        BY <4>2, <4>3
    <3>2. CASE ~(i < b.pub)
      BY <3>2
    <3> QED
      BY <3>1, <3>2
  <2> QED
    BY <2>1
<1> HIDE DEF grown
<1>5. /\ e \in [buf : Arrays, size : Nat, pub : Nat, con : Nat]
      /\ e.buf = grown /\ e.size = size /\ e.pub = b.pub /\ e.con = b.con
  BY <1>1, <1>4, ArrayOf DEF Valid
<1> HIDE DEF e
<1>6. \A i \in b.con..(b.pub - 1) : grown[i] = b.buf[i]
  BY <1>1, <1>3
<1>7. Valid(e)
  BY <1>1, <1>4, <1>5, <1>6 DEF Valid
<1>8. ContentOf(e) = ContentOf(b)
  <2>1. \A i \in 1..(b.pub - b.con) : b.con + i - 1 \in b.con..(b.pub - 1)
    BY <1>1
  <2> QED
    BY <1>5, <1>6, <2>1 DEF ContentOf
<1> QED
  BY <1>1, <1>2, <1>5, <1>7, <1>8

\* After EnsureSize there is room for what is expected, and the content is
\* what it was.
LEMMA EnsureSizeKeeps ==
  ASSUME NEW b, Valid(b), NEW expected \in 0..MaxExpected
  PROVE  /\ Valid(EnsureSize(b, expected))
         /\ ContentOf(EnsureSize(b, expected)) = ContentOf(b)
         /\ EnsureSize(b, expected).pub + expected <= EnsureSize(b, expected).size
         /\ EnsureSize(b, expected).pub - EnsureSize(b, expected).con = b.pub - b.con
<1> DEFINE m == MoveData(b)
<1>1. /\ Valid(m) /\ ContentOf(m) = ContentOf(b)
      /\ m.pub <= 2 * Limit /\ m.pub - m.con = b.pub - b.con
  BY MoveDataKeeps
<1> HIDE DEF m
<1>2. /\ b.pub \in Nat /\ b.size \in Nat /\ m.pub \in Nat /\ m.size \in Nat /\ expected \in Nat
  BY <1>1, BufferAssumption DEF Valid
<1>3. CASE b.pub + expected <= b.size
  <2>1. EnsureSize(b, expected) = b
    BY <1>2, <1>3 DEF EnsureSize
  <2> QED
    BY <1>3, <2>1
<1>4. CASE b.pub + expected > b.size /\ m.pub + expected <= m.size
  <2>1. EnsureSize(b, expected) = m
    BY <1>2, <1>4 DEF EnsureSize, m
  <2> QED
    BY <1>1, <1>4, <2>1
<1>5. CASE b.pub + expected > b.size /\ m.pub + expected > m.size
  <2>1. EnsureSize(b, expected) = Enlarge(m, expected)
    BY <1>2, <1>5 DEF EnsureSize, m
  <2> QED
    BY <1>1, <1>5, <2>1, EnlargeKeeps
<1> QED
  BY <1>2, <1>3, <1>4, <1>5

\* Where there is room for s, copying it changes nothing in front of
\* published_, and published_ moves past s.
LEMMA PublishCopies ==
  ASSUME NEW b, Valid(b), NEW s \in Seq(Byte), b.pub + Len(s) <= b.size
  PROVE  /\ Publish(b, s) \in [buf : Arrays, size : Nat, pub : Nat, con : Nat]
         /\ Publish(b, s).buf \in [0..(b.size - 1) -> Byte \cup {Junk}]
         /\ Publish(b, s).size = b.size /\ Publish(b, s).con = b.con
         /\ Publish(b, s).pub = b.pub + Len(s)
         /\ \A i \in b.con..(b.pub - 1) : Publish(b, s).buf[i] = b.buf[i]
         /\ \A i \in 1..Len(s) : Publish(b, s).buf[b.pub + i - 1] = s[i]
<1> DEFINE copied == [i \in 0..(b.size - 1) |->
                        IF i >= b.pub /\ i < b.pub + Len(s) THEN s[i - b.pub + 1] ELSE b.buf[i]]
<1>1. /\ b.size \in Nat /\ b.con \in Nat /\ b.pub \in Nat /\ b.pub <= b.size /\ b.con <= b.pub
      /\ Len(s) \in Nat
  BY DEF Valid
<1>2. copied \in [0..(b.size - 1) -> Byte \cup {Junk}]
  <2>1. ASSUME NEW i \in 0..(b.size - 1)  PROVE copied[i] \in Byte \cup {Junk}
    <3>1. CASE i >= b.pub /\ i < b.pub + Len(s)
      <4>1. i - b.pub + 1 \in 1..Len(s)
        BY <1>1, <3>1
      <4> QED
        BY <3>1, <4>1
    <3>2. CASE ~(i >= b.pub /\ i < b.pub + Len(s))
      BY <3>2 DEF Valid
    <3> QED
      BY <3>1, <3>2
  <2> QED
    BY <2>1
<1>3. \A i \in b.con..(b.pub - 1) : copied[i] = b.buf[i]
  BY <1>1
<1>4. ASSUME NEW i \in 1..Len(s)  PROVE copied[b.pub + i - 1] = s[i]
  <2>1. /\ b.pub + i - 1 \in 0..(b.size - 1)
        /\ b.pub + i - 1 >= b.pub /\ b.pub + i - 1 < b.pub + Len(s)
        /\ (b.pub + i - 1) - b.pub + 1 = i
    BY <1>1
  <2> QED
    BY <2>1
<1>5. Publish(b, s) = [b EXCEPT !.buf = copied, !.pub = b.pub + Len(s)]
  BY DEF Publish
<1> HIDE DEF copied
<1>6. copied \in Arrays /\ b.pub + Len(s) \in Nat
  <2>1. b.size \in Nat /\ b.pub + Len(s) \in Nat
    BY <1>1
  <2> QED
    BY <1>2, <2>1, ArrayOf
<1>7. /\ Publish(b, s) \in [buf : Arrays, size : Nat, pub : Nat, con : Nat]
      /\ Publish(b, s).buf = copied /\ Publish(b, s).size = b.size
      /\ Publish(b, s).con = b.con /\ Publish(b, s).pub = b.pub + Len(s)
  BY <1>5, <1>6 DEF Valid
<1> QED
  BY <1>2, <1>3, <1>4, <1>7

\* What is published is what the content grows by.
LEMMA PublishKeeps ==
  ASSUME NEW b, Valid(b), NEW s \in Seq(Byte), b.pub + Len(s) <= b.size,
         (b.pub - b.con) + Len(s) <= Limit
  PROVE  Valid(Publish(b, s)) /\ ContentOf(Publish(b, s)) = ContentOf(b) \o s
<1> DEFINE p == Publish(b, s)
<1>1. /\ p \in [buf : Arrays, size : Nat, pub : Nat, con : Nat]
      /\ p.buf \in [0..(b.size - 1) -> Byte \cup {Junk}]
      /\ p.size = b.size /\ p.con = b.con /\ p.pub = b.pub + Len(s)
      /\ \A i \in b.con..(b.pub - 1) : p.buf[i] = b.buf[i]
      /\ \A i \in 1..Len(s) : p.buf[b.pub + i - 1] = s[i]
  BY PublishCopies
<1> HIDE DEF p
<1>2. /\ b.size \in Nat /\ b.con \in Nat /\ b.pub \in Nat /\ b.pub <= b.size /\ b.con <= b.pub
      /\ Len(s) \in Nat /\ Limit \in Nat /\ b.size <= SizeBound
  BY BufferAssumption DEF Valid
<1>3. \A i \in p.con..(p.pub - 1) : p.buf[i] \in Byte
  <2>1. ASSUME NEW i \in p.con..(p.pub - 1)  PROVE p.buf[i] \in Byte
    <3>1. CASE i < b.pub
      <4>1. i \in b.con..(b.pub - 1)
        BY <1>1, <1>2, <3>1
      <4> QED
        BY <1>1, <4>1 DEF Valid
    <3>2. CASE i >= b.pub
      <4>1. i - b.pub + 1 \in 1..Len(s) /\ b.pub + (i - b.pub + 1) - 1 = i
        <5>1. p.con = b.con /\ p.pub = b.pub + Len(s)
          BY <1>1
        <5>2. i \in b.con..((b.pub + Len(s)) - 1)
          BY <5>1, <2>1, Zenon
        <5>3. i \in Int /\ i < b.pub + Len(s) /\ b.pub \in Nat /\ Len(s) \in Nat
          BY <1>2, <5>2
        <5> QED
          BY <3>2, <5>3
      <4>2. p.buf[i] = s[i - b.pub + 1]
        BY <1>1, <4>1
      <4> QED
        BY <4>1, <4>2
    <3> QED
      BY <1>1, <1>2, <3>1, <3>2
  <2> QED
    BY <2>1
<1>4. Valid(p)
  BY <1>1, <1>2, <1>3 DEF Valid
<1>5. ContentOf(p) = ContentOf(b) \o s
  <2>1. /\ ContentOf(p) \in Seq(Byte) /\ Len(ContentOf(p)) = p.pub - p.con
        /\ ContentOf(b) \in Seq(Byte) /\ Len(ContentOf(b)) = b.pub - b.con
    BY <1>4, ContentSeq
  <2>2. /\ ContentOf(b) \o s \in Seq(Byte)
        /\ Len(ContentOf(b) \o s) = (b.pub - b.con) + Len(s)
        /\ \A i \in 1..((b.pub - b.con) + Len(s)) :
             (ContentOf(b) \o s)[i] = IF i <= b.pub - b.con THEN ContentOf(b)[i]
                                      ELSE s[i - (b.pub - b.con)]
    BY <2>1, ConcatProperties
  <2>3. ASSUME NEW i \in 1..((b.pub - b.con) + Len(s))
        PROVE  ContentOf(p)[i] = (ContentOf(b) \o s)[i]
    <3>1. ContentOf(p)[i] = p.buf[b.con + i - 1]
      BY <1>1, <1>2 DEF ContentOf
    <3>2. CASE i <= b.pub - b.con
      <4>1. i \in 1..(b.pub - b.con) /\ b.con + i - 1 \in b.con..(b.pub - 1)
        BY <1>2, <3>2
      <4>2. ContentOf(b)[i] = b.buf[b.con + i - 1]
        BY <4>1 DEF ContentOf
      <4> QED
        BY <1>1, <2>2, <3>1, <3>2, <4>1, <4>2
    <3>3. CASE ~(i <= b.pub - b.con)
      <4>1. /\ i - (b.pub - b.con) \in 1..Len(s)
            /\ b.pub + (i - (b.pub - b.con)) - 1 = b.con + i - 1
        BY <1>2, <3>3
      <4>2. p.buf[b.con + i - 1] = s[i - (b.pub - b.con)]
        BY <1>1, <4>1
      <4> QED
        BY <2>2, <3>1, <3>3, <4>2
    <3> QED
      BY <3>2, <3>3
  <2>4. Len(ContentOf(p)) = (b.pub - b.con) + Len(s)
    <3>1. p.pub - p.con = (b.pub - b.con) + Len(s)
      <4>1. p.pub = b.pub + Len(s) /\ p.con = b.con
        BY <1>1
      <4> QED
        BY <1>2, <4>1
    <3> QED
      BY <2>1, <3>1
  <2> QED
    BY <2>1, <2>2, <2>3, <2>4, SeqEqual
<1> QED
  BY <1>4, <1>5 DEF p

\* Bytes left behind published_ by a read that failed are not content.
LEMMA PublishFails ==
  ASSUME NEW b, Valid(b), NEW s \in Seq(Byte), b.pub + Len(s) <= b.size
  PROVE  /\ Valid([Publish(b, s) EXCEPT !.pub = b.pub])
         /\ ContentOf([Publish(b, s) EXCEPT !.pub = b.pub]) = ContentOf(b)
<1> DEFINE p == Publish(b, s)
           f == [p EXCEPT !.pub = b.pub]
<1>1. /\ p \in [buf : Arrays, size : Nat, pub : Nat, con : Nat]
      /\ p.buf \in [0..(b.size - 1) -> Byte \cup {Junk}]
      /\ p.size = b.size /\ p.con = b.con
      /\ \A i \in b.con..(b.pub - 1) : p.buf[i] = b.buf[i]
  BY PublishCopies
<1> HIDE DEF p
<1>2. b.con \in Nat /\ b.pub \in Nat /\ b.con <= b.pub
  BY DEF Valid
<1>3. /\ f \in [buf : Arrays, size : Nat, pub : Nat, con : Nat]
      /\ f.buf = p.buf /\ f.size = b.size /\ f.con = b.con /\ f.pub = b.pub
  BY <1>1, <1>2
<1> HIDE DEF f
<1>4. Valid(f)
  BY <1>1, <1>2, <1>3 DEF Valid
<1>5. ContentOf(f) = ContentOf(b)
  <2>1. \A i \in 1..(b.pub - b.con) : b.con + i - 1 \in b.con..(b.pub - 1)
    BY <1>2
  <2> QED
    BY <1>1, <1>3, <2>1 DEF ContentOf
<1> QED
  BY <1>4, <1>5 DEF f, p

\* Advancing consumed_ takes bytes from the front of the content; taking the
\* last one puts both cursors at the front of the array.
LEMMA TakeKeeps ==
  ASSUME NEW b, Valid(b), NEW n \in 0..(b.pub - b.con)
  PROVE  /\ Valid(Recycle([b EXCEPT !.con = b.con + n]))
         /\ ContentOf(Recycle([b EXCEPT !.con = b.con + n]))
              = SubSeq(ContentOf(b), n + 1, Len(ContentOf(b)))
<1> DEFINE t == [b EXCEPT !.con = b.con + n]
           r == Recycle(t)
<1>1. /\ b.size \in Nat /\ b.con \in Nat /\ b.pub \in Nat /\ n \in Nat
      /\ b.con <= b.pub /\ b.pub <= b.size /\ b.con + n <= b.pub
      /\ b.pub - b.con <= Limit /\ Limit \in Nat
  BY BufferAssumption DEF Valid
<1>2. /\ t \in [buf : Arrays, size : Nat, pub : Nat, con : Nat]
      /\ t.buf = b.buf /\ t.size = b.size /\ t.con = b.con + n /\ t.pub = b.pub
  <2>1. PICK c \in Nat : c = b.con + n
    BY <1>1
  <2>2. b \in [buf : Arrays, size : Nat, pub : Nat, con : Nat]
    BY DEF Valid
  <2> QED
    BY <2>1, <2>2
<1> HIDE DEF t
<1>3. /\ ContentOf(b) \in Seq(Byte) /\ Len(ContentOf(b)) = b.pub - b.con
  BY ContentSeq
<1>4. CASE t.con # t.pub
  <2>1. r = t
    BY <1>4 DEF Recycle
  <2>2. Valid(t)
    BY <1>1, <1>2, <1>4 DEF Valid
  <2>3. ContentOf(t) = SubSeq(ContentOf(b), n + 1, Len(ContentOf(b)))
    <3>1. SubSeq(ContentOf(b), n + 1, Len(ContentOf(b)))
            = [i \in 1..(b.pub - b.con - n) |-> ContentOf(b)[i + n]]
      BY <1>1, <1>3
    <3>2. ASSUME NEW i \in 1..(b.pub - b.con - n)
          PROVE  t.buf[t.con + i - 1] = ContentOf(b)[i + n]
      <4>1. i + n \in 1..(b.pub - b.con) /\ t.con + i - 1 = b.con + (i + n) - 1
        BY <1>1, <1>2
      <4> QED
        BY <1>2, <4>1 DEF ContentOf
    <3>3. t.pub - t.con = b.pub - b.con - n
      BY <1>1, <1>2
    <3> HIDE DEF ContentOf
    <3>4. ContentOf(t) = [i \in 1..(b.pub - b.con - n) |-> t.buf[t.con + i - 1]]
      BY <3>3 DEF ContentOf
    <3> QED
      BY <3>1, <3>2, <3>4
  <2> QED
    BY <2>1, <2>2, <2>3 DEF r, t
<1>5. CASE t.con = t.pub
  <2>1. r = [t EXCEPT !.con = 0, !.pub = 0]
    BY <1>5 DEF Recycle
  <2> HIDE DEF r
  <2>2. /\ r \in [buf : Arrays, size : Nat, pub : Nat, con : Nat]
        /\ r.buf = b.buf /\ r.size = b.size /\ r.con = 0 /\ r.pub = 0
    BY <1>2, <2>1
  <2>3. Valid(r)
    BY <1>1, <2>2 DEF Valid
  <2>4. n = b.pub - b.con
    BY <1>1, <1>2, <1>5
  <2>5. SubSeq(ContentOf(b), n + 1, Len(ContentOf(b))) = <<>>
    BY <1>1, <1>3, <2>4
  <2>6. ContentOf(r) = <<>>
    <3>1. ContentOf(r) \in Seq(Byte) /\ Len(ContentOf(r)) = 0
      BY <2>2, <2>3, ContentSeq
    <3> QED
      BY <3>1, EmptySeq
  <2> QED
    BY <2>3, <2>5, <2>6 DEF r, t
<1> QED
  BY <1>4, <1>5

------------------------------------------------------------------------------
(* The members of the object.                                              *)

\* The members as a value.
LEMMA ThisValid ==
  ASSUME BufferOK
  PROVE  /\ Valid(This) /\ ContentOf(This) = content /\ This.pub - This.con = Available
         /\ This.pub = published_ /\ This.con = consumed_
<1>1. size_ \in Nat /\ buffer_ \in [0..(size_ - 1) -> Byte \cup {Junk}]
  BY DEF BufferOK, TypeOK
<1>2. buffer_ \in Arrays
  BY <1>1, ArrayOf
<1>3. /\ This \in [buf : Arrays, size : Nat, pub : Nat, con : Nat]
      /\ This.buf = buffer_ /\ This.size = size_
      /\ This.pub = published_ /\ This.con = consumed_
  BY <1>2 DEF This, BufferOK, TypeOK
<1>4. Valid(This)
  BY <1>1, <1>3 DEF Valid, BufferOK, TypeOK, Sanity, Bounded, Available
<1>5. ContentOf(This) = content
  BY <1>3 DEF ContentOf, content, Available
<1> QED
  BY <1>3, <1>4, <1>5 DEF Available

\* Assigning a sane value to the members leaves the object sane.
LEMMA BecomesValid ==
  ASSUME NEW b, Valid(b), Becomes(b)
  PROVE  BufferOK' /\ content' = ContentOf(b)
<1>1. TypeOK'
  BY DEF Becomes, Valid, TypeOK
<1>2. Sanity'
  BY DEF Becomes, Valid, Sanity
<1>3. Bounded'
  BY DEF Becomes, Valid, Bounded, Available, SizeBound
<1>4. content' = ContentOf(b)
  BY DEF Becomes, content, ContentOf, Available
<1> QED
  BY <1>1, <1>2, <1>3, <1>4 DEF BufferOK

------------------------------------------------------------------------------
(* One lemma per operation: the object stays sane, and the step is one of  *)
(* the queue's or leaves the queue alone.                                  *)

\* Room is made and nothing is read: Initialize.
LEMMA InitializeStep ==
  ASSUME BufferOK, NEW n \in 0..MaxExpected, Initialize(n)
  PROVE  BufferOK' /\ content' = content
<1>1. Valid(EnsureSize(This, n)) /\ ContentOf(EnsureSize(This, n)) = content
  BY ThisValid, EnsureSizeKeeps
<1> QED
  BY <1>1, BecomesValid DEF Initialize

\* The bytes of a buffer, a string, or a byte repeated are put at the end.
LEMMA ReadFromBufferStep ==
  ASSUME BufferOK, NEW s \in Chunks, ReadFromBuffer(s)
  PROVE  BufferOK' /\ content' = content \o s
<1> DEFINE b == EnsureSize(This, Len(s))
<1>1. s \in Seq(Byte) /\ Len(s) \in 0..MaxExpected
  BY BufferAssumption
<1>2. /\ Valid(b) /\ ContentOf(b) = content
      /\ b.pub + Len(s) <= b.size /\ b.pub - b.con = Available
  BY <1>1, ThisValid, EnsureSizeKeeps
<1> HIDE DEF b
<1>3. Available + Len(s) <= Limit /\ Becomes(Publish(b, s))
  BY DEF ReadFromBuffer, b
<1>4. Valid(Publish(b, s)) /\ ContentOf(Publish(b, s)) = content \o s
  BY <1>1, <1>2, <1>3, PublishKeeps
<1> QED
  BY <1>3, <1>4, BecomesValid

\* The source delivered s, no longer than the room made for it.
LEMMA ReadFromFdStep ==
  ASSUME BufferOK, NEW n \in 0..MaxExpected, NEW s \in Chunks, ReadFromFd(n, s)
  PROVE  BufferOK' /\ content' = content \o s
<1> DEFINE b == EnsureSize(This, n)
<1>1. s \in Seq(Byte) /\ Len(s) \in Nat /\ n \in Nat
  BY BufferAssumption
<1>2. /\ Valid(b) /\ ContentOf(b) = content
      /\ b.pub + n <= b.size /\ b.pub - b.con = Available
  BY ThisValid, EnsureSizeKeeps
<1> HIDE DEF b
<1>3. Len(s) <= n /\ Available + Len(s) <= Limit /\ Becomes(Publish(b, s))
  BY DEF ReadFromFd, b
<1>4. b.pub + Len(s) <= b.size
  BY <1>1, <1>2, <1>3 DEF Valid
<1>5. Valid(Publish(b, s)) /\ ContentOf(Publish(b, s)) = content \o s
  BY <1>1, <1>2, <1>3, <1>4, PublishKeeps
<1> QED
  BY <1>3, <1>5, BecomesValid

\* A read that fails may move the array; no byte is put or lost.
LEMMA ReadFailsStep ==
  ASSUME BufferOK, NEW n \in 0..MaxExpected, NEW s \in Chunks, ReadFails(n, s)
  PROVE  BufferOK' /\ content' = content
<1> DEFINE b == EnsureSize(This, n)
           f == [Publish(b, s) EXCEPT !.pub = b.pub]
<1>1. s \in Seq(Byte) /\ Len(s) \in Nat /\ n \in Nat
  BY BufferAssumption
<1>2. Valid(b) /\ ContentOf(b) = content /\ b.pub + n <= b.size
  BY ThisValid, EnsureSizeKeeps
<1>3. Len(s) <= n /\ Becomes(f)
  BY DEF ReadFails
<1> HIDE DEF b
<1>4. b.pub + Len(s) <= b.size
  BY <1>1, <1>2, <1>3 DEF Valid
<1>5. Valid(f) /\ ContentOf(f) = content
  BY <1>1, <1>2, <1>4, PublishFails
<1> HIDE DEF f
<1> QED
  BY <1>3, <1>5, BecomesValid

\* The bytes a destination took, or Ignore dropped, leave the front.
LEMMA TakeStep ==
  ASSUME BufferOK, NEW n \in 0..Available,
         Becomes(Recycle([This EXCEPT !.con = This.con + n]))
  PROVE  BufferOK' /\ content' = SubSeq(content, n + 1, Len(content))
<1> DEFINE r == Recycle([This EXCEPT !.con = This.con + n])
<1>1. /\ Valid(This) /\ ContentOf(This) = content /\ This.pub - This.con = Available
  BY ThisValid
<1>2. Valid(r) /\ ContentOf(r) = SubSeq(content, n + 1, Len(content))
  BY <1>1, TakeKeeps
<1> HIDE DEF r
<1> QED
  BY <1>2, BecomesValid DEF r

\* IgnoreAll takes everything.
LEMMA IgnoreAllStep ==
  ASSUME BufferOK, IgnoreAll
  PROVE  /\ BufferOK' /\ Available \in 0..Available
         /\ content' = SubSeq(content, Available + 1, Len(content))
<1>1. Available \in 0..Available
  BY DEF BufferOK, TypeOK, Sanity, Available
<1>2. This.con + Available = published_
  BY ThisValid DEF BufferOK, TypeOK, Available
<1>3. Becomes(Recycle([This EXCEPT !.con = This.con + Available]))
  BY <1>2 DEF IgnoreAll
<1> QED
  BY <1>1, <1>3, TakeStep

\* Compaction leaves the queue alone.
LEMMA CompactStep ==
  ASSUME BufferOK, Compact
  PROVE  BufferOK' /\ content' = content
<1>1. Valid(MoveData(This)) /\ ContentOf(MoveData(This)) = content
  BY ThisValid, MoveDataKeeps
<1> QED
  BY <1>1, BecomesValid DEF Compact

\* Cleanup takes everything with the array.
LEMMA CleanupStep ==
  ASSUME BufferOK, Cleanup
  PROVE  /\ BufferOK' /\ Available \in 0..Available
         /\ content' = SubSeq(content, Available + 1, Len(content))
<1> DEFINE none == [i \in 0..-1 |-> Junk]
           b == [buf |-> none, size |-> 0, pub |-> 0, con |-> 0]
<1>1. Available \in 0..Available
  BY DEF BufferOK, TypeOK, Sanity, Available
<1>2. none \in [0..(0 - 1) -> Byte \cup {Junk}]
  OBVIOUS
<1>3. Becomes(b)
  BY DEF Cleanup
<1> HIDE DEF none
<1>4. none \in Arrays
  BY <1>2, ArrayOf
<1>5. /\ b \in [buf : Arrays, size : Nat, pub : Nat, con : Nat]
      /\ b.buf = none /\ b.size = 0 /\ b.pub = 0 /\ b.con = 0
  BY <1>4
<1> HIDE DEF b
<1>6. 0 <= SizeBound /\ 0 <= Limit
  <2>1. /\ 4 * (2 * Limit + MaxExpected) \in Nat /\ MinChunk \in Nat /\ Limit \in Nat
    BY BufferAssumption
  <2> QED
    BY <2>1 DEF SizeBound
<1>7. Valid(b)
  BY <1>2, <1>5, <1>6 DEF Valid
<1>8. ContentOf(b) = <<>>
  <2>1. ContentOf(b) \in Seq(Byte) /\ Len(ContentOf(b)) = 0
    BY <1>5, <1>7, ContentSeq
  <2> QED
    BY <2>1, EmptySeq
<1>9. SubSeq(content, Available + 1, Len(content)) = <<>>
  <2>1. content \in Seq(Byte) /\ Len(content) = Available
    BY ThisValid, ContentSeq
  <2> QED
    BY <1>1, <2>1
<1> QED
  BY <1>1, <1>3, <1>7, <1>8, <1>9, BecomesValid

------------------------------------------------------------------------------
(* The theorems.                                                           *)

\* A new buffer is sane and empty.
LEMMA InitOK == Init => BufferOK /\ content = <<>>
<1> SUFFICES ASSUME Init PROVE BufferOK /\ content = <<>>
  OBVIOUS
<1>1. TypeOK /\ Sanity
  BY DEF Init, TypeOK, Sanity
<1>2. Bounded
  <2>1. /\ 4 * (2 * Limit + MaxExpected) \in Nat /\ MinChunk \in Nat /\ Limit \in Nat
    BY BufferAssumption
  <2> QED
    BY <2>1 DEF Init, Bounded, Available, SizeBound
<1>3. content = <<>>
  <2>1. BufferOK
    BY <1>1, <1>2 DEF BufferOK
  <2>2. content \in Seq(Byte) /\ Len(content) = 0
    BY <2>1, ThisValid, ContentSeq DEF Available, Init
  <2> QED
    BY <2>2, EmptySeq
<1> QED
  BY <1>1, <1>2, <1>3 DEF BufferOK

\* Every step keeps the object sane and puts, takes or does nothing.
LEMMA QueueStep ==
  ASSUME BufferOK, [Next]_vars
  PROVE  BufferOK' /\ [Queue!Next]_content
<1>1. ASSUME NEW n \in 0..MaxExpected, Initialize(n)  PROVE BufferOK' /\ content' = content
  BY <1>1, InitializeStep
<1>2. ASSUME NEW s \in Chunks, ReadFromBuffer(s)  PROVE BufferOK' /\ Queue!Put(s)
  BY <1>2, ReadFromBufferStep DEF Queue!Put
<1>3. ASSUME NEW n \in 0..MaxExpected, NEW s \in Chunks, ReadFromFd(n, s)
      PROVE  BufferOK' /\ Queue!Put(s)
  BY <1>3, ReadFromFdStep DEF Queue!Put
<1>4. ASSUME NEW n \in 0..MaxExpected, NEW s \in Chunks, ReadFails(n, s)
      PROVE  BufferOK' /\ content' = content
  BY <1>4, ReadFailsStep
<1>5. Len(content) = Available
  BY ThisValid, ContentSeq
<1>6. ASSUME NEW n \in 0..Available, WriteToFd(n) \/ Ignore(n)
      PROVE  BufferOK' /\ n \in 0..Len(content) /\ Queue!Take(n)
  <2>1. Becomes(Recycle([This EXCEPT !.con = This.con + n]))
    BY <1>6 DEF WriteToFd, Ignore
  <2> QED
    BY <1>5, <2>1, TakeStep DEF Queue!Take
<1>7. CASE IgnoreAll
  BY <1>5, <1>7, IgnoreAllStep DEF Queue!Next, Queue!Take
<1>8. CASE Compact
  BY <1>8, CompactStep
<1>9. CASE Cleanup
  BY <1>5, <1>9, CleanupStep DEF Queue!Next, Queue!Take
<1>10. CASE UNCHANGED vars
  <2>1. BufferOK'
    BY <1>10 DEF vars, BufferOK, TypeOK, Sanity, Bounded, Available
  <2>2. content' = content
    BY <1>10 DEF vars, content, Available
  <2> QED
    BY <2>1, <2>2
<1> QED
  BY <1>1, <1>2, <1>3, <1>4, <1>6, <1>7, <1>8, <1>9, <1>10 DEF Next, Queue!Next

\* However it is filled and drained, the cursors of an IOBuffer stay in its
\* array, every byte between them was written, and the array stays within
\* SizeBound (MoveData, EnsureSize and Recycle of iobuffer.cpp).
THEOREM BufferCorrect == Spec => []BufferOK
  BY InitOK, QueueStep, PTL DEF Spec

\* An IOBuffer is a queue of bytes: what is read is what was put in, in order
\* and once, whatever MoveData moves and EnsureSize reallocates in between.
THEOREM BufferImplementsQueue == Spec => ImplementsQueue
<1>1. Init => Queue!Init
  BY InitOK DEF Queue!Init
<1>2. BufferOK /\ [Next]_vars => [Queue!Next]_content
  BY QueueStep
<1> QED
  BY <1>1, <1>2, BufferCorrect, PTL DEF Spec, ImplementsQueue, Queue!Spec

-----------------------------------------------------------------------------
(* UrlCode *)

\* The characters of a text, and what a decoded character may be.
UrSome == {"%", "blank", "-", "0", "2", "z"}
UrRead == UrSome \cup {"NUL"} \cup (UrSome \X UrSome)

\* The blanks among the first t characters of s.
Blanks(s, t) == {k \in 1..t : s[k] = "blank"}

\* The length of the encoding of the first t characters of s.
Upto(s, t) == EncodedLen(SubSeq(s, 1, t))

\* out is the encoding of the first t characters of s.
EncodingOf(s, t, out) ==
    /\ Len(out) = Upto(s, t)
    /\ \A i \in 1..t :
         IF s[i] = "blank" THEN /\ out[Upto(s, i - 1) + 1] = "%"
                            /\ out[Upto(s, i - 1) + 2] = "2"
                            /\ out[Upto(s, i - 1) + 3] = "0"
         ELSE out[Upto(s, i - 1) + 1] = s[i]

\* The premise of URRoundTrip on the characters of a text.
NoFalseEscape(s) ==
    \A k \in 1..(Len(s) - 2) : s[k] = "%" /\ s[k + 1] # "blank" => ~TwoRead(s[k + 1], s[k + 2])

\* The encoding of a prefix: a byte for each character and two more for a
\* blank.
LEMMA UptoIs ==
  ASSUME NEW s \in Seq(UrSome), NEW t \in 0..Len(s)
  PROVE  /\ IsFiniteSet(Blanks(s, t)) /\ Cardinality(Blanks(s, t)) \in Nat
         /\ Upto(s, t) = t + 2 * Cardinality(Blanks(s, t))
<1> DEFINE p == SubSeq(s, 1, t)
<1>0. t \in Nat
  BY LenProperties
<1>1. Len(p) = t /\ DOMAIN p = 1..t /\ \A k \in 1..t : p[k] = s[k]
  <2>1. \A i \in 1..t : s[i] \in UrSome
    BY ElementOfSeq
  <2>2. p \in Seq(UrSome) /\ Len(p) = t /\ \A i \in 1..t : p[i] = s[i]
    BY <1>0, <2>1, SubSeqProperties
  <2> QED
    BY <2>2, LenProperties
<1> HIDE DEF p
<1>2. {k \in DOMAIN p : p[k] = "blank"} = Blanks(s, t)
  BY <1>1 DEF Blanks
<1>3. IsFiniteSet(1..t)
  BY <1>0, FS_Interval
<1>4. Blanks(s, t) \in SUBSET (1..t)
  BY DEF Blanks
<1>5. IsFiniteSet(Blanks(s, t))
  BY <1>3, <1>4, FS_Subset
<1>6. Upto(s, t) = Len(p) + 2 * Cardinality({k \in DOMAIN p : p[k] = "blank"})
  BY DEF Upto, EncodedLen, p
<1> QED
  BY <1>1, <1>2, <1>5, <1>6, FS_CardinalityType

\* The next character adds one byte or three.
LEMMA UptoNext ==
  ASSUME NEW s \in Seq(UrSome), NEW t \in 0..(Len(s) - 1)
  PROVE  /\ Upto(s, t) \in Nat
         /\ Upto(s, t + 1) = Upto(s, t) + (IF s[t + 1] = "blank" THEN 3 ELSE 1)
<1>0. t \in 0..Len(s) /\ t + 1 \in 0..Len(s) /\ t \in Nat
  BY LenProperties
<1>1. /\ IsFiniteSet(Blanks(s, t)) /\ Cardinality(Blanks(s, t)) \in Nat
      /\ Upto(s, t) = t + 2 * Cardinality(Blanks(s, t))
      /\ Upto(s, t + 1) = t + 1 + 2 * Cardinality(Blanks(s, t + 1))
  BY <1>0, UptoIs
<1>2. CASE s[t + 1] = "blank"
  <2>1. t + 1 \notin Blanks(s, t)
    BY <1>0 DEF Blanks
  <2>2. Blanks(s, t + 1) = Blanks(s, t) \cup {t + 1}
    BY <1>0, <1>2 DEF Blanks
  <2>3. Cardinality(Blanks(s, t + 1)) = Cardinality(Blanks(s, t)) + 1
    BY <1>1, <2>1, <2>2, FS_AddElement
  <2>4. Upto(s, t + 1) = Upto(s, t) + 3 /\ Upto(s, t) \in Nat
    <3> DEFINE c == Cardinality(Blanks(s, t))
    <3>1. Upto(s, t + 1) = t + 1 + 2 * (c + 1) /\ Upto(s, t) = t + 2 * c /\ c \in Nat
      BY <1>1, <2>3
    <3> HIDE DEF c
    <3> QED
      BY <1>0, <3>1
  <2> QED
    BY <1>2, <2>4
<1>3. CASE s[t + 1] # "blank"
  <2>1. Blanks(s, t + 1) = Blanks(s, t)
    BY <1>0, <1>3 DEF Blanks
  <2> QED
    BY <1>0, <1>1, <1>3, <2>1
<1> QED
  BY <1>2, <1>3

\* A longer prefix has the longer encoding.
LEMMA UptoMore ==
  ASSUME NEW s \in Seq(UrSome), NEW b \in 0..Len(s), NEW a \in 0..b
  PROVE  /\ Upto(s, a) \in Nat /\ Upto(s, b) \in Nat
         /\ Upto(s, a) + (b - a) <= Upto(s, b)
         /\ a <= Upto(s, a)
<1>0. a \in 0..Len(s) /\ a \in Nat /\ b \in Nat /\ a <= b
  BY LenProperties
<1>1. /\ IsFiniteSet(Blanks(s, b))
      /\ Cardinality(Blanks(s, a)) \in Nat /\ Cardinality(Blanks(s, b)) \in Nat
      /\ Upto(s, a) = a + 2 * Cardinality(Blanks(s, a))
      /\ Upto(s, b) = b + 2 * Cardinality(Blanks(s, b))
  BY <1>0, UptoIs
<1>2. Blanks(s, a) \in SUBSET Blanks(s, b)
  BY <1>0 DEF Blanks
<1>3. Cardinality(Blanks(s, a)) <= Cardinality(Blanks(s, b))
  BY <1>1, <1>2, FS_Subset
<1> QED
  BY <1>0, <1>1, <1>3

\* Nothing is encoded as nothing, and the whole prefix is the text.
LEMMA UptoEnds ==
  ASSUME NEW s \in Seq(UrSome)
  PROVE  Upto(s, 0) = 0 /\ Upto(s, Len(s)) = EncodedLen(s)
<1>1. Upto(s, Len(s)) = EncodedLen(s)
  BY SubSeqFull DEF Upto
<1>2. Blanks(s, 0) = {} /\ 0 \in 0..Len(s)
  BY LenProperties DEF Blanks
<1>3. Upto(s, 0) = 0 + 2 * Cardinality({})
  BY <1>2, UptoIs
<1> QED
  BY <1>1, <1>3, FS_EmptySet

\* A text without a zero byte is returned whole.
LEMMA CStringWhole ==
  ASSUME NEW s \in Seq(UrSome)
  PROVE  AsCString(s) = s
<1>1. \A k \in DOMAIN s : s[k] # "NUL"
  <2> TAKE k \in DOMAIN s
  <2>1. s[k] \in UrSome
    BY LenProperties, ElementOfSeq
  <2> QED
    BY <2>1 DEF UrSome
<1> QED
  BY <1>1 DEF AsCString

\* An iteration of encodeURIComponent() encodes one character more.
LEMMA EncodeNext ==
  ASSUME NEW s \in Seq(UrSome), NEW t \in 0..(Len(s) - 1),
         NEW out \in Seq(UrSome), EncodingOf(s, t, out)
  PROVE  /\ out \o Escape(s[t + 1]) \in Seq(UrSome)
         /\ EncodingOf(s, t + 1, out \o Escape(s[t + 1]))
<1> DEFINE c == s[t + 1]
           e == Escape(c)
           o == out \o e
           w == Upto(s, t)
<1>0. t \in Nat /\ t + 1 \in 1..Len(s) /\ c \in UrSome
  BY LenProperties, ElementOfSeq
<1>1. /\ e \in Seq(UrSome)
      /\ c = "blank" => Len(e) = 3 /\ e[1] = "%" /\ e[2] = "2" /\ e[3] = "0"
      /\ c # "blank" => Len(e) = 1 /\ e[1] = c
  <2>1. CASE c = "blank"
    <3>1. e = <<"%", "2", "0">>
      BY <2>1 DEF Escape
    <3>2. "%" \in UrSome /\ "2" \in UrSome /\ "0" \in UrSome
      BY DEF UrSome
    <3>3. <<"%", "2", "0">> \in Seq(UrSome)
      BY <3>2
    <3>4. Len(e) = 3 /\ e[1] = "%" /\ e[2] = "2" /\ e[3] = "0"
      BY <3>1
    <3> QED
      BY <2>1, <3>1, <3>3, <3>4
  <2>2. CASE c # "blank"
    <3>1. e = <<c>>
      BY <2>2 DEF Escape
    <3> QED
      BY <1>0, <2>2, <3>1
  <2> QED
    BY <2>1, <2>2
<1>2. w \in Nat /\ Upto(s, t + 1) = w + (IF c = "blank" THEN 3 ELSE 1) /\ Len(out) = w
  BY UptoNext DEF EncodingOf
<1> HIDE DEF e, w
<1>3. /\ o \in Seq(UrSome) /\ Len(o) = w + Len(e)
      /\ \A i \in 1..(w + Len(e)) : o[i] = IF i <= w THEN out[i] ELSE e[i - w]
  BY <1>1, <1>2, ConcatProperties
<1> HIDE DEF o
<1>4. Len(o) = Upto(s, t + 1)
  BY <1>1, <1>2, <1>3
<1>k. \A i \in 1..w : o[i] = out[i]
  <2>1. w \in Nat /\ Len(e) \in Nat
    BY <1>1, <1>2
  <2>2. \A i \in 1..w : i \in 1..(w + Len(e)) /\ i <= w
    BY <2>1
  <2> QED
    BY <1>3, <2>2
<1>5. ASSUME NEW i \in 1..(t + 1)
      PROVE  IF s[i] = "blank" THEN /\ o[Upto(s, i - 1) + 1] = "%"
                                /\ o[Upto(s, i - 1) + 2] = "2"
                                /\ o[Upto(s, i - 1) + 3] = "0"
             ELSE o[Upto(s, i - 1) + 1] = s[i]
  <2>1. CASE i = t + 1
    <3>1. Upto(s, i - 1) = w /\ s[i] = c
      BY <1>0, <2>1 DEF w
    <3>2. CASE c = "blank"
      <4>0. Len(e) = 3
        BY <1>1, <3>2
      <4>1. o[w + 1] = e[w + 1 - w] /\ o[w + 2] = e[w + 2 - w] /\ o[w + 3] = e[w + 3 - w]
        BY <1>2, <1>3, <4>0
      <4>2. w + 1 - w = 1 /\ w + 2 - w = 2 /\ w + 3 - w = 3
        BY <1>2
      <4>3. o[w + 1] = e[1] /\ o[w + 2] = e[2] /\ o[w + 3] = e[3]
        BY <4>1, <4>2
      <4> QED
        BY <1>1, <3>1, <3>2, <4>3
    <3>3. CASE c # "blank"
      <4>1. o[w + 1] = e[1]
        BY <1>1, <1>2, <1>3, <3>3
      <4> QED
        BY <1>1, <3>1, <3>3, <4>1
    <3> QED
      BY <3>2, <3>3
  <2>2. CASE i # t + 1
    <3>0. i \in 1..t /\ i - 1 \in 0..(Len(s) - 1) /\ i - 1 + 1 = i
      BY <1>0, <2>2
    <3> DEFINE v == Upto(s, i - 1)
    <3>1. v \in Nat /\ Upto(s, i) = v + (IF s[i] = "blank" THEN 3 ELSE 1)
      BY <3>0, UptoNext
    <3>2. Upto(s, i) <= w
      <4>1. t \in 0..Len(s) /\ i \in 0..t
        BY <1>0, <3>0
      <4>2. Upto(s, i) + (t - i) <= w
        BY <4>1, UptoMore DEF w
      <4>3. Upto(s, i) \in Nat
        BY <3>1
      <4> QED
        BY <1>0, <1>2, <3>0, <4>2, <4>3
    <3>3. IF s[i] = "blank" THEN out[v + 1] = "%" /\ out[v + 2] = "2" /\ out[v + 3] = "0"
                        ELSE out[v + 1] = s[i]
      BY <3>0 DEF EncodingOf
    <3> HIDE DEF v
    <3>5. CASE s[i] = "blank"
      <4>1. o[v + 1] = out[v + 1] /\ o[v + 2] = out[v + 2] /\ o[v + 3] = out[v + 3]
        <5>1. v \in Nat /\ v + 3 <= w /\ w \in Nat
          BY <1>2, <3>1, <3>2, <3>5
        <5>2. v + 1 \in 1..w /\ v + 2 \in 1..w /\ v + 3 \in 1..w
          BY <5>1
        <5> QED
          BY <1>k, <5>2
      <4> QED
        BY <3>3, <3>5, <4>1 DEF v
    <3>6. CASE s[i] # "blank"
      <4>1. o[v + 1] = out[v + 1]
        <5>1. v \in Nat /\ v + 1 <= w /\ w \in Nat
          BY <1>2, <3>1, <3>2, <3>6
        <5>2. v + 1 \in 1..w
          BY <5>1
        <5> QED
          BY <1>k, <5>2
      <4> QED
        BY <3>3, <3>6, <4>1 DEF v
    <3> QED
      BY <3>5, <3>6
  <2> QED
    BY <2>1, <2>2
<1> QED
  BY <1>3, <1>4, <1>5 DEF EncodingOf, o, e

\* What decodeURIComponent() finds where the encoding of a character begins:
\* the escape of a blank is read as one, and any other character as itself.
LEMMA DecodeNext ==
  ASSUME NEW s \in Seq(UrSome), NEW in \in Seq(UrSome),
         EncodingOf(s, Len(s), in), NoFalseEscape(s),
         NEW t \in 0..(Len(s) - 1), NEW i, i = Upto(s, t) + 1
  PROVE  /\ i \in Nat /\ i <= Len(in)
         /\ s[t + 1] = "blank" =>
              /\ in[i] = "%" /\ Len(in) > i + 1
              /\ TwoRead(in[i + 1], in[i + 2]) /\ ReadAs(in[i + 1], in[i + 2]) = "blank"
         /\ s[t + 1] # "blank" =>
              /\ in[i] = s[t + 1]
              /\ ~(in[i] = "%" /\ Len(in) > i + 1 /\ TwoRead(in[i + 1], in[i + 2]))
<1> DEFINE n == Len(s)
           w == Upto(s, t)
<1>0. n \in Nat /\ t \in Nat /\ t + 1 \in 1..n /\ t + 1 \in 0..n /\ n \in 0..n /\ t + 1 - 1 = t
  BY LenProperties
<1>1. w \in Nat /\ Upto(s, t + 1) = w + (IF s[t + 1] = "blank" THEN 3 ELSE 1)
  BY UptoNext
<1>2. Len(in) = Upto(s, n)
  BY DEF EncodingOf
<1>3. Upto(s, t + 1) + (n - (t + 1)) <= Upto(s, n) /\ Upto(s, n) \in Nat
  <2>1. t + 1 \in 0..n
    BY <1>0
  <2> QED
    BY <1>0, <2>1, UptoMore
<1> HIDE DEF w, n
<1>4. i = w + 1
  BY DEF w
<1>5. i \in Nat /\ i <= Len(in)
  <2>1. w + 1 <= Upto(s, t + 1)
    BY <1>1
  <2> QED
    BY <1>0, <1>1, <1>2, <1>3, <1>4, <2>1
<1>6. IF s[t + 1] = "blank" THEN in[w + 1] = "%" /\ in[w + 2] = "2" /\ in[w + 3] = "0"
                            ELSE in[w + 1] = s[t + 1]
  <2>1. t + 1 \in 1..Len(s) /\ Upto(s, t + 1 - 1) = w
    BY <1>0 DEF n, w
  <2> QED
    BY <2>1 DEF EncodingOf
<1>7. CASE s[t + 1] = "blank"
  <2>1. i + 1 = w + 2 /\ i + 2 = w + 3 /\ Len(in) > i + 1
    BY <1>0, <1>1, <1>2, <1>3, <1>4, <1>7
  <2>2. in[i] = "%" /\ in[i + 1] = "2" /\ in[i + 2] = "0"
    BY <1>4, <1>6, <1>7, <2>1
  <2>3. TwoRead("2", "0") /\ ReadAs("2", "0") = "blank"
    BY DEF TwoRead, UrDigit, ReadAs
  <2> QED
    BY <1>5, <1>7, <2>1, <2>2, <2>3
<1>8. CASE s[t + 1] # "blank"
  <2>1. in[i] = s[t + 1]
    BY <1>4, <1>6, <1>8
  <2>2. SUFFICES ASSUME s[t + 1] = "%", Len(in) > i + 1, TwoRead(in[i + 1], in[i + 2])
                 PROVE  FALSE
    BY <1>5, <1>8, <2>1
  <2>3. t + 1 < n /\ Upto(s, t + 1) = i
    <3>1. Upto(s, t + 1) = w + 1
      BY <1>1, <1>8
    <3>2. t + 1 = n => Len(in) = w + 1
      BY <1>2, <3>1
    <3> QED
      BY <1>0, <1>1, <1>4, <2>2, <3>1, <3>2
  \* the character after the "%"
  <2>4. /\ Upto(s, t + 2) = i + (IF s[t + 2] = "blank" THEN 3 ELSE 1)
        /\ IF s[t + 2] = "blank" THEN in[i + 1] = "%" ELSE in[i + 1] = s[t + 2]
    <3>1. t + 1 \in 0..(Len(s) - 1) /\ t + 2 \in 1..Len(s) /\ t + 1 + 1 = t + 2 /\ t + 2 - 1 = t + 1
      BY <1>0, <2>3 DEF n
    <3>2. Upto(s, t + 2) = Upto(s, t + 1) + (IF s[t + 2] = "blank" THEN 3 ELSE 1)
      BY <3>1, UptoNext
    <3>3. IF s[t + 2] = "blank" THEN in[Upto(s, t + 1) + 1] = "%" ELSE in[Upto(s, t + 1) + 1] = s[t + 2]
      BY <3>1 DEF EncodingOf
    <3> QED
      BY <2>3, <3>2, <3>3
  <2>5. CASE s[t + 2] = "blank"
    <3>1. in[i + 1] = "%"
      BY <2>4, <2>5
    <3>2. TwoRead("%", in[i + 2])
      BY <2>2, <3>1
    <3> QED
      BY <3>2 DEF TwoRead, UrDigit
  <2>6. CASE s[t + 2] # "blank"
    <3>1. in[i + 1] = s[t + 2] /\ Upto(s, t + 2) = i + 1
      BY <2>4, <2>6
    <3>2. t + 2 < n
      <4>1. t + 2 = n => Len(in) = i + 1
        BY <1>2, <3>1
      <4> QED
        BY <1>0, <1>5, <2>2, <2>3, <4>1
    <3>3. IF s[t + 3] = "blank" THEN in[i + 2] = "%" ELSE in[i + 2] = s[t + 3]
      <4>1. t + 3 \in 1..Len(s) /\ t + 3 - 1 = t + 2
        BY <1>0, <3>2 DEF n
      <4>2. IF s[t + 3] = "blank" THEN in[Upto(s, t + 2) + 1] = "%" ELSE in[Upto(s, t + 2) + 1] = s[t + 3]
        BY <4>1 DEF EncodingOf
      <4>3. i + 1 + 1 = i + 2
        BY <1>5
      <4> QED
        BY <3>1, <4>2, <4>3
    <3>4. CASE s[t + 3] = "blank"
      <4>1. TwoRead(in[i + 1], "%")
        BY <2>2, <3>3, <3>4
      <4> QED
        BY <4>1 DEF TwoRead, UrDigit
    <3>5. CASE s[t + 3] # "blank"
      <4>1. t + 1 \in 1..(Len(s) - 2) /\ t + 1 + 1 = t + 2 /\ t + 1 + 2 = t + 3
        BY <1>0, <3>2 DEF n
      <4>2. ~TwoRead(s[t + 2], s[t + 3])
        BY <2>2, <2>6, <4>1 DEF NoFalseEscape
      <4> QED
        BY <2>2, <3>1, <3>3, <3>5, <4>2
    <3> QED
      BY <3>4, <3>5
  <2> QED
    BY <2>5, <2>6
<1> QED
  BY <1>7, <1>8

\* What Fits says of a text.
FitsIn(s) == /\ \A n \in 1..Len(s) : Upto(s, n - 1) < UrCap - 2
             /\ EncodedLen(s) < UrCap

\* encodeURIComponent() has encoded the first i - 1 characters, and the last
\* iteration began with room for an escape.
Encoding(s, in, i, out) ==
    /\ in = s /\ i \in 1..(Len(s) + 1)
    /\ out \in Seq(UrSome) /\ EncodingOf(s, i - 1, out)
    /\ Len(out) <= UrCap
    /\ i > 1 => Upto(s, i - 2) < UrCap - 2

\* decodeURIComponent() has read i - 1 characters and written no more.
Decoding(in, i, out) ==
    /\ in \in Seq(UrSome) /\ out \in Seq(UrRead)
    /\ i \in 1..(Len(in) + 1) /\ Len(out) < i
    /\ Len(out) <= UrCap

\* After encodeURIComponent() it has decoded a prefix of the text, and stands
\* where the encoding of that prefix ends.
DecodingBack(s, in, i, out) ==
    /\ Len(in) < UrCap
    /\ FitsIn(s) => EncodingOf(s, Len(s), in)
    /\ FitsIn(s) /\ NoFalseEscape(s) =>
         /\ Len(out) \in 0..Len(s) /\ i = Upto(s, Len(out)) + 1
         /\ \A k \in 1..Len(out) : out[k] = s[k]

URInv ==
    /\ urText \in Seq(UrSome) /\ urFirst \in {"encode", "decode"}
    /\ urPc \in {"encode", "decode", "done", "unterminated"}
    /\ urPc = "encode" => urFirst = "encode" /\ Encoding(urText, urIn, urI, urOut)
    /\ urPc = "decode" =>
         /\ Decoding(urIn, urI, urOut)
         /\ urFirst = "decode" => urIn = urText
         /\ urFirst = "encode" => DecodingBack(urText, urIn, urI, urOut)
    /\ URCorrect

LEMMA FitsIs == Fits <=> FitsIn(urText)
  BY DEF Fits, FitsIn, Upto

\* What holds of the text at the end of the loop of encodeURIComponent().
LEMMA EncodeEnd ==
  ASSUME NEW s \in Seq(UrSome), NEW i, NEW out, Encoding(s, s, i, out),
         ~(i <= Len(s) /\ Len(out) < UrCap - 2)
  PROVE  /\ FitsIn(s) => EncodingOf(s, Len(s), out) /\ Len(out) < UrCap
         /\ Len(out) >= UrCap =>
              \E k \in DOMAIN s : s[k] = "blank" /\ EncodedLen(SubSeq(s, 1, k)) = UrCap
<1>0. Len(s) \in Nat /\ DOMAIN s = 1..Len(s) /\ UrCap \in Nat /\ UrCap > 2
  BY LenProperties, UrAssumption
<1>1. /\ i \in 1..(Len(s) + 1) /\ EncodingOf(s, i - 1, out) /\ Len(out) = Upto(s, i - 1)
      /\ Len(out) <= UrCap
      /\ i > 1 => Upto(s, i - 2) < UrCap - 2
  BY DEF Encoding, EncodingOf
<1>2. ASSUME FitsIn(s)
      PROVE  EncodingOf(s, Len(s), out) /\ Len(out) < UrCap
  <2>1. i <= Len(s) => Len(out) < UrCap - 2
    <3>1. i <= Len(s) => i \in 1..Len(s)
      BY <1>0, <1>1
    <3> QED
      BY <1>1, <1>2, <3>1 DEF FitsIn
  <2>2. i = Len(s) + 1 /\ i - 1 = Len(s)
    BY <1>0, <1>1, <2>1
  <2>3. Len(out) = EncodedLen(s)
    BY <1>1, <2>2, UptoEnds
  <2> QED
    BY <1>1, <1>2, <2>2, <2>3 DEF FitsIn
<1>3. ASSUME Len(out) >= UrCap
      PROVE  \E k \in DOMAIN s : s[k] = "blank" /\ EncodedLen(SubSeq(s, 1, k)) = UrCap
  <2>1. Upto(s, i - 1) = UrCap
    <3>1. Len(out) \in Nat
      BY DEF Encoding
    <3> QED
      BY <1>0, <1>1, <1>3, <3>1
  <2>2. i > 1
    <3>1. i = 1 => i - 1 = 0
      BY <1>1
    <3>2. Upto(s, 0) = 0
      BY UptoEnds
    <3> QED
      BY <1>0, <1>1, <2>1, <3>1, <3>2
  <2>3. i - 2 \in 0..(Len(s) - 1) /\ i - 2 + 1 = i - 1 /\ i - 1 \in 1..Len(s)
    BY <1>0, <1>1, <2>2
  <2>4. Upto(s, i - 2) \in Nat /\ Upto(s, i - 1) = Upto(s, i - 2) + (IF s[i - 1] = "blank" THEN 3 ELSE 1)
    BY <2>3, UptoNext
  <2>5. s[i - 1] = "blank"
    BY <1>0, <1>1, <2>1, <2>2, <2>4
  <2> QED
    BY <1>0, <2>1, <2>3, <2>5 DEF Upto
<1> QED
  BY <1>2, <1>3

\* An iteration of decodeURIComponent() writes one character and reads one or
\* three.
LEMMA DecodeStep ==
  ASSUME NEW in, NEW i, NEW out, Decoding(in, i, out), i <= Len(in), Len(out) < UrCap,
         NEW c, NEW j,
         \/ in[i] = "%" /\ Len(in) > i + 1 /\ c = ReadAs(in[i + 1], in[i + 2]) /\ j = i + 3
         \/ c = in[i] /\ j = i + 1
  PROVE  /\ Decoding(in, j, Append(out, c))
         /\ Len(Append(out, c)) = Len(out) + 1 /\ Append(out, c)[Len(out) + 1] = c
         /\ \A k \in 1..Len(out) : Append(out, c)[k] = out[k]
<1>0. /\ in \in Seq(UrSome) /\ out \in Seq(UrRead) /\ Len(in) \in Nat /\ Len(out) \in Nat
      /\ i \in 1..(Len(in) + 1) /\ Len(out) < i /\ UrCap \in Nat
  BY LenProperties, UrAssumption DEF Decoding
<1>1. c \in UrRead /\ j \in 1..(Len(in) + 1) /\ i < j
  <2>1. CASE in[i] = "%" /\ Len(in) > i + 1 /\ c = ReadAs(in[i + 1], in[i + 2]) /\ j = i + 3
    <3>1. i + 1 \in 1..Len(in) /\ i + 2 \in 1..Len(in) /\ j \in 1..(Len(in) + 1) /\ i < j
      BY <1>0, <2>1
    <3>2. in[i + 1] \in UrSome /\ in[i + 2] \in UrSome
      BY <1>0, <3>1, ElementOfSeq
    <3>3. c \in UrRead
      BY <2>1, <3>2 DEF ReadAs, UrRead, UrSome
    <3> QED
      BY <3>1, <3>3
  <2>2. CASE c = in[i] /\ j = i + 1
    <3>1. i \in 1..Len(in) /\ j \in 1..(Len(in) + 1) /\ i < j
      BY <1>0, <2>2
    <3>2. in[i] \in UrSome
      BY <1>0, <3>1, ElementOfSeq
    <3> QED
      BY <2>2, <3>1, <3>2 DEF UrRead
  <2> QED
    BY <2>1, <2>2
<1>2. /\ Append(out, c) \in Seq(UrRead) /\ Len(Append(out, c)) = Len(out) + 1
      /\ Append(out, c)[Len(out) + 1] = c
      /\ \A k \in 1..Len(out) : Append(out, c)[k] = out[k]
  BY <1>0, <1>1, AppendProperties
<1>3. Len(out) + 1 < j /\ Len(out) + 1 <= UrCap
  BY <1>0, <1>1
<1> QED
  BY <1>0, <1>1, <1>2, <1>3 DEF Decoding

\* When the text was encoded before, the character written is the next of the
\* text.
LEMMA DecodeBackStep ==
  ASSUME NEW s \in Seq(UrSome), NEW in \in Seq(UrSome), NEW i, NEW out \in Seq(UrRead),
         DecodingBack(s, in, i, out), i <= Len(in), NEW c, NEW j,
         IF in[i] = "%" /\ Len(in) > i + 1 /\ TwoRead(in[i + 1], in[i + 2])
         THEN c = ReadAs(in[i + 1], in[i + 2]) /\ j = i + 3
         ELSE c = in[i] /\ j = i + 1
  PROVE  DecodingBack(s, in, j, Append(out, c))
<1> DEFINE t == Len(out)
           a == Append(out, c)
<1>1. SUFFICES ASSUME FitsIn(s), NoFalseEscape(s)
               PROVE  /\ Len(a) \in 0..Len(s) /\ j = Upto(s, Len(a)) + 1
                      /\ \A k \in 1..Len(a) : a[k] = s[k]
  BY DEF DecodingBack
<1>2. /\ EncodingOf(s, Len(s), in) /\ t \in 0..Len(s) /\ i = Upto(s, t) + 1
      /\ \A k \in 1..t : out[k] = s[k]
  BY <1>1 DEF DecodingBack
<1>3. Len(s) \in Nat /\ Len(in) = Upto(s, Len(s)) /\ t \in Nat
  BY <1>2, LenProperties DEF EncodingOf
<1>4. /\ Len(a) = t + 1 /\ a[t + 1] = c
      /\ \A k \in 1..t : a[k] = out[k]
  OBVIOUS
<1> HIDE DEF a, t
<1>5. t \in 0..(Len(s) - 1) /\ t + 1 \in 0..Len(s)
  <2>1. Len(in) \in Nat
    BY LenProperties
  <2>2. t # Len(s)
    BY <1>2, <1>3, <2>1
  <2> QED
    BY <1>2, <1>3, <2>2
<1>6. /\ i \in Nat
      /\ s[t + 1] = "blank" =>
           /\ in[i] = "%" /\ Len(in) > i + 1
           /\ TwoRead(in[i + 1], in[i + 2]) /\ ReadAs(in[i + 1], in[i + 2]) = "blank"
      /\ s[t + 1] # "blank" =>
           /\ in[i] = s[t + 1]
           /\ ~(in[i] = "%" /\ Len(in) > i + 1 /\ TwoRead(in[i + 1], in[i + 2]))
  BY <1>1, <1>2, <1>5, DecodeNext
<1>7. c = s[t + 1] /\ j = i + (IF s[t + 1] = "blank" THEN 3 ELSE 1)
  BY <1>6
<1>8. Upto(s, t + 1) = Upto(s, t) + (IF s[t + 1] = "blank" THEN 3 ELSE 1) /\ Upto(s, t) \in Nat
  BY <1>5, UptoNext
<1>9. j = Upto(s, t + 1) + 1
  BY <1>2, <1>7, <1>8
<1>10. \A k \in 1..(t + 1) : a[k] = s[k]
  <2> TAKE k \in 1..(t + 1)
  <2>1. k \in 1..t \/ k = t + 1
    BY <1>3
  <2> QED
    BY <1>2, <1>4, <1>7, <2>1
<1> QED
  BY <1>4, <1>5, <1>9, <1>10

\* At the end of its loop it has decoded the whole text.
LEMMA DecodeBackEnd ==
  ASSUME NEW s \in Seq(UrSome), NEW in \in Seq(UrSome), NEW i, NEW out \in Seq(UrRead),
         Decoding(in, i, out), DecodingBack(s, in, i, out),
         ~(i <= Len(in) /\ Len(out) < UrCap)
  PROVE  /\ Len(out) < UrCap
         /\ FitsIn(s) /\ NoFalseEscape(s) => AsCString(out) = s
<1>0. /\ Len(in) \in Nat /\ Len(out) \in Nat /\ UrCap \in Nat
      /\ i \in 1..(Len(in) + 1) /\ Len(out) < i /\ Len(in) < UrCap
  BY LenProperties, UrAssumption DEF Decoding, DecodingBack
<1>1. Len(out) < UrCap /\ i = Len(in) + 1
  BY <1>0
<1>2. ASSUME FitsIn(s), NoFalseEscape(s)
      PROVE  AsCString(out) = s
  <2>1. /\ EncodingOf(s, Len(s), in) /\ Len(out) \in 0..Len(s) /\ i = Upto(s, Len(out)) + 1
        /\ \A k \in 1..Len(out) : out[k] = s[k]
    BY <1>2 DEF DecodingBack
  <2>2. Len(s) \in Nat /\ Len(in) = Upto(s, Len(s))
    BY <2>1, LenProperties DEF EncodingOf
  <2>3. Upto(s, Len(out)) + (Len(s) - Len(out)) <= Upto(s, Len(s)) /\ Upto(s, Len(out)) \in Nat
    <3>1. Len(s) \in 0..Len(s)
      BY <2>2
    <3> QED
      BY <2>1, <3>1, UptoMore
  <2>4. Len(out) = Len(s)
    BY <1>0, <1>1, <2>1, <2>2, <2>3
  <2>5. out = s
    <3>1. UrSome \subseteq UrRead
      BY DEF UrRead
    <3>2. s \in Seq(UrRead)
      BY <3>1, SeqMonotonic
    <3> QED
      BY <2>1, <2>4, <3>2, SeqEqual
  <2> QED
    BY <2>5, CStringWhole
<1> QED
  BY <1>1, <1>2

LEMMA URInvInit == URInit => URInv
<1> SUFFICES ASSUME URInit PROVE URInv
  OBVIOUS
<1>1. urText \in Seq(UrSome)
  <2>1. PICK n \in 0..UrMaxLen : urText \in [1..n -> UrChars]
    BY DEF URInit
  <2>2. UrChars \subseteq UrSome /\ n \in Nat
    BY UrAssumption DEF UrSome
  <2>3. urText \in [1..n -> UrSome]
    BY <2>1, <2>2
  <2> QED
    BY <2>2, <2>3
<1>2. /\ urFirst \in {"encode", "decode"} /\ urPc = urFirst
      /\ urIn = urText /\ urI = 1 /\ urOut = << >>
  BY DEF URInit
<1>3. Len(urText) \in Nat /\ Len(urOut) = 0 /\ UrCap \in Nat /\ UrCap > 2
  BY <1>1, <1>2, LenProperties, UrAssumption
<1>4. urOut \in Seq(UrSome) /\ urOut \in Seq(UrRead)
  BY <1>2
<1>5. 1 \in 1..(Len(urText) + 1) /\ 1 - 1 = 0
  BY <1>3
<1>6. EncodingOf(urText, 0, urOut)
  <2>1. 1..0 = {}
    OBVIOUS
  <2>2. Upto(urText, 0) = 0
    BY <1>1, UptoEnds
  <2> QED
    BY <1>3, <2>1, <2>2 DEF EncodingOf
<1>7. Encoding(urText, urIn, urI, urOut)
  BY <1>2, <1>3, <1>4, <1>5, <1>6 DEF Encoding
<1>8. Decoding(urIn, urI, urOut)
  BY <1>1, <1>2, <1>3, <1>4, <1>5 DEF Decoding
<1>9. URCorrect
  <2>1. Len(urOut) <= UrCap /\ urPc # "done" /\ urPc # "unterminated"
    BY <1>2, <1>3
  <2> QED
    BY <2>1 DEF URCorrect, URRoundTrip, URBounds
<1> QED
  BY <1>1, <1>2, <1>7, <1>8, <1>9 DEF URInv

\* encodeURIComponent(): an iteration, or the end.
LEMMA URInvEncode == ASSUME URInv, UREncode PROVE URInv'
<1>0. /\ urText \in Seq(UrSome) /\ urPc = "encode" /\ urFirst = "encode"
      /\ urText' = urText /\ urFirst' = urFirst
  BY DEF URInv, UREncode, UrReturn
<1>1. /\ urIn = urText /\ urI \in 1..(Len(urText) + 1)
      /\ urOut \in Seq(UrSome) /\ EncodingOf(urText, urI - 1, urOut)
      /\ Len(urOut) = Upto(urText, urI - 1) /\ Len(urOut) \in Nat
      /\ Len(urOut) <= UrCap
      /\ Encoding(urText, urText, urI, urOut)
  <2>1. Encoding(urText, urIn, urI, urOut)
    BY <1>0 DEF URInv
  <2> QED
    BY <2>1, LenProperties DEF Encoding, EncodingOf
<1>2. Len(urText) \in Nat /\ UrCap \in Nat /\ UrCap > 2
  BY <1>0, LenProperties, UrAssumption
<1>3. CASE urI <= Len(urIn) /\ Len(urOut) < UrCap - 2
  <2>1. /\ urOut' = urOut \o Escape(urText[urI]) /\ urI' = urI + 1
        /\ urPc' = "encode" /\ urIn' = urText
    BY <1>0, <1>1, <1>3 DEF UREncode
  <2>2. urI - 1 \in 0..(Len(urText) - 1) /\ urI - 1 + 1 = urI /\ urI + 1 - 1 = urI /\ urI + 1 - 2 = urI - 1
    BY <1>1, <1>2, <1>3
  <2>3. urOut' \in Seq(UrSome) /\ EncodingOf(urText, urI, urOut')
    BY <1>0, <1>1, <2>1, <2>2, EncodeNext
  <2>4. Len(urOut') <= UrCap
    <3>1. Upto(urText, urI) = Upto(urText, urI - 1) + (IF urText[urI] = "blank" THEN 3 ELSE 1)
      BY <1>0, <2>2, UptoNext
    <3>2. Len(urOut') = Upto(urText, urI)
      BY <2>3 DEF EncodingOf
    <3> QED
      BY <1>1, <1>2, <1>3, <3>1, <3>2
  <2>5. urI + 1 \in 1..(Len(urText) + 1) /\ Upto(urText, urI - 1) < UrCap - 2
    BY <1>1, <1>2, <1>3
  <2>6. Encoding(urText, urIn', urI', urOut')
    BY <2>1, <2>2, <2>3, <2>4, <2>5 DEF Encoding
  <2>7. URCorrect'
    BY <2>1, <2>4 DEF URCorrect, URRoundTrip, URBounds
  <2> QED
    BY <1>0, <2>1, <2>6, <2>7 DEF URInv
<1>4. CASE ~(urI <= Len(urIn) /\ Len(urOut) < UrCap - 2)
  <2>1. /\ urPc' = IF Len(urOut) < UrCap THEN "decode" ELSE "unterminated"
        /\ urIn' = AsCString(urOut) /\ urI' = 1 /\ urOut' = << >>
    BY <1>0, <1>4 DEF UREncode, UrReturn
  <2>2. urIn' = urOut
    BY <1>1, <2>1, CStringWhole
  <2>3. /\ FitsIn(urText) => EncodingOf(urText, Len(urText), urOut) /\ Len(urOut) < UrCap
        /\ Len(urOut) >= UrCap =>
             \E k \in DOMAIN urText : urText[k] = "blank" /\ EncodedLen(SubSeq(urText, 1, k)) = UrCap
    BY <1>0, <1>1, <1>4, EncodeEnd
  <2>4. Len(urOut') = 0 /\ 1..0 = {} /\ urOut' \in Seq(UrRead)
    BY <2>1
  <2>5. Decoding(urIn', urI', urOut')
    <3>1. 1 \in 1..(Len(urOut) + 1)
      BY <1>1
    <3> QED
      BY <1>1, <1>2, <2>1, <2>2, <2>4, <3>1 DEF Decoding
  <2>6. Len(urOut) < UrCap => DecodingBack(urText, urIn', urI', urOut')
    <3>1. Upto(urText, 0) = 0 /\ 0 \in 0..Len(urText)
      BY <1>0, <1>2, UptoEnds
    <3>2. 1 = Upto(urText, Len(urOut')) + 1 /\ Len(urOut') \in 0..Len(urText)
      BY <2>4, <3>1
    <3>3. \A k \in 1..Len(urOut') : urOut'[k] = urText[k]
      BY <2>4
    <3> QED
      BY <2>1, <2>2, <2>3, <3>2, <3>3 DEF DecodingBack
  <2>7. urPc' \in {"decode", "unterminated"} /\ (urPc' = "decode" => Len(urOut) < UrCap)
        /\ (urPc' = "unterminated" => Len(urOut) >= UrCap)
    BY <1>1, <1>2, <2>1
  <2>8. URCorrect'
    <3>1. URRoundTrip'
      BY <2>7 DEF URRoundTrip
    <3>2. Len(urOut') <= UrCap
      BY <1>2, <2>4
    <3>3. URBounds'
      BY <1>0, <2>3, <2>7, <3>2 DEF URBounds
    <3> QED
      BY <3>1, <3>3 DEF URCorrect
  <2>9. urPc' # "encode" /\ urPc' \in {"encode", "decode", "done", "unterminated"}
    BY <2>7
  <2>10. urFirst' = "encode"
    BY <1>0
  <2> QED
    BY <1>0, <2>5, <2>6, <2>7, <2>8, <2>9, <2>10 DEF URInv
<1> QED
  BY <1>3, <1>4

\* decodeURIComponent(): an iteration, or the end.
LEMMA URInvDecode == ASSUME URInv, URDecode PROVE URInv'
<1>0. /\ urText \in Seq(UrSome) /\ urPc = "decode" /\ urFirst \in {"encode", "decode"}
      /\ urText' = urText /\ urFirst' = urFirst
      /\ Decoding(urIn, urI, urOut)
      /\ urFirst = "decode" => urIn = urText
      /\ urFirst = "encode" => DecodingBack(urText, urIn, urI, urOut)
  BY DEF URInv, URDecode, UrReturn
<1>1. /\ urIn \in Seq(UrSome) /\ urOut \in Seq(UrRead)
      /\ Len(urIn) \in Nat /\ Len(urOut) \in Nat /\ UrCap \in Nat
      /\ urI \in 1..(Len(urIn) + 1) /\ Len(urOut) < urI /\ Len(urOut) <= UrCap
  BY <1>0, LenProperties, UrAssumption DEF Decoding
<1>2. CASE urI <= Len(urIn) /\ Len(urOut) < UrCap
  <2>1. urPc' = "decode" /\ urIn' = urIn
    BY <1>0, <1>2 DEF URDecode
  <2>2. PICK c, j :
          /\ urOut' = Append(urOut, c) /\ urI' = j
          /\ IF urIn[urI] = "%" /\ Len(urIn) > urI + 1 /\ TwoRead(urIn[urI + 1], urIn[urI + 2])
             THEN c = ReadAs(urIn[urI + 1], urIn[urI + 2]) /\ j = urI + 3
             ELSE c = urIn[urI] /\ j = urI + 1
    <3>1. CASE urIn[urI] = "%" /\ Len(urIn) > urI + 1 /\ TwoRead(urIn[urI + 1], urIn[urI + 2])
      BY <1>2, <3>1 DEF URDecode
    <3>2. CASE ~(urIn[urI] = "%" /\ Len(urIn) > urI + 1 /\ TwoRead(urIn[urI + 1], urIn[urI + 2]))
      BY <1>2, <3>2 DEF URDecode
    <3> QED
      BY <3>1, <3>2
  <2>3. Decoding(urIn, j, Append(urOut, c))
    <3>1. \/ urIn[urI] = "%" /\ Len(urIn) > urI + 1 /\ c = ReadAs(urIn[urI + 1], urIn[urI + 2]) /\ j = urI + 3
          \/ c = urIn[urI] /\ j = urI + 1
      BY <2>2
    <3> QED
      BY <1>0, <1>2, <3>1, DecodeStep
  <2>4. urFirst = "encode" => DecodingBack(urText, urIn, j, Append(urOut, c))
    BY <1>0, <1>1, <1>2, <2>2, DecodeBackStep
  <2>5. Len(urOut') <= UrCap
    BY <2>2, <2>3 DEF Decoding
  <2>6. URCorrect'
    BY <2>1, <2>5 DEF URCorrect, URRoundTrip, URBounds
  <2>7. Decoding(urIn', urI', urOut') /\ (urFirst = "encode" => DecodingBack(urText, urIn', urI', urOut'))
    BY <2>1, <2>2, <2>3, <2>4
  <2> QED
    BY <1>0, <2>1, <2>6, <2>7 DEF URInv
<1>3. CASE ~(urI <= Len(urIn) /\ Len(urOut) < UrCap)
  <2>1. /\ urPc' = IF Len(urOut) < UrCap THEN "done" ELSE "unterminated"
        /\ urIn' = AsCString(urOut) /\ urOut' = urOut
    BY <1>0, <1>3 DEF URDecode, UrReturn
  <2>2. urFirst = "encode" =>
          /\ Len(urOut) < UrCap
          /\ FitsIn(urText) /\ NoFalseEscape(urText) => AsCString(urOut) = urText
    BY <1>0, <1>1, <1>3, DecodeBackEnd
  <2>3. URRoundTrip'
    <3>1. Fits' <=> FitsIn(urText)
      <4>1. Fits' <=> FitsIn(urText)'
        BY FitsIs, PTL
      <4> QED
        BY <1>0, <4>1 DEF FitsIn
    <3>2. SUFFICES ASSUME urFirst = "encode", FitsIn(urText), NoFalseEscape(urText)
                   PROVE  urIn' = urText
      BY <1>0, <3>1 DEF URRoundTrip, NoFalseEscape
    <3> QED
      BY <2>1, <2>2, <3>2
  <2>4. URBounds'
    <3>1. urPc' = "unterminated" => Len(urOut) >= UrCap
      BY <1>1, <2>1
    <3>2. urPc' = "unterminated" => urFirst = "decode" /\ Len(urText) >= UrCap
      BY <1>0, <1>1, <2>2, <3>1
    <3>3. Len(urOut') <= UrCap
      BY <1>1, <2>1
    <3> QED
      BY <1>0, <3>2, <3>3 DEF URBounds
  <2>5. urPc' \in {"done", "unterminated"}
    BY <2>1
  <2> QED
    BY <1>0, <2>3, <2>4, <2>5 DEF URInv, URCorrect
<1> QED
  BY <1>2, <1>3

\* encodeURIComponent() and decodeURIComponent() give a text back where their
\* arrays allow it, and never write outside them, for every text and every
\* length of the array.
THEOREM EncodeDecode == URInit /\ [][URNext]_urVars => []URCorrect
<1>1. URInit => URInv
  BY URInvInit
<1>2. URInv /\ [URNext]_urVars => URInv'
  <2>1. ASSUME URInv, UNCHANGED urVars PROVE URInv'
    <3>1. /\ urText' = urText /\ urFirst' = urFirst /\ urPc' = urPc /\ urIn' = urIn
          /\ urI' = urI /\ urOut' = urOut
      BY <2>1 DEF urVars
    <3>2. URCorrect'
      BY <2>1, <3>1 DEF URInv, URCorrect, URRoundTrip, URBounds, Fits
    <3> QED
      BY <2>1, <3>1, <3>2 DEF URInv
  <2> QED
    BY <2>1, URInvEncode, URInvDecode DEF URNext
<1>3. URInv => URCorrect
  BY DEF URInv
<1> QED
  BY <1>1, <1>2, <1>3, PTL

-----------------------------------------------------------------------------
(* HttpText *)

\* The bytes of a peer.
HtByte == [m : Int, l : Int, k : Int]

LEMMA LineBytesIs == LineBytes = 5
  BY DEF LineBytes, TextBytes

\* A message whose head ends at 5 * Len(head) + 2, and maybe a body.
MessageOf(m, head, w) ==
    /\ Len(head) \in Nat \ {0} /\ w \in Seq(HtByte) /\ Len(w) >= 5 * Len(head) + 2
    /\ \A l \in 1..Len(head), r \in 1..5 : w[5 * (l - 1) + r] = [m |-> m, l |-> l, k |-> r]
    /\ w[5 * Len(head) + 1] = [m |-> m, l |-> Len(head) + 1, k |-> 4]
    /\ w[5 * Len(head) + 2] = [m |-> m, l |-> Len(head) + 1, k |-> 5]
    /\ \A j \in (5 * Len(head) + 3)..Len(w) : w[j].k = 0

\* Byte r of line l of a head, and the blank line at its end.
LEMMA HeadIs ==
  ASSUME NEW m \in Int, NEW head, IsHead(head)
  PROVE  MessageOf(m, head, HeadBytes(m, head)) /\ Len(HeadBytes(m, head)) = 5 * Len(head) + 2
<1> DEFINE n == Len(head)
           h == HeadBytes(m, head)
           bl(j) == (j - 1) \div 5 + 1
           bk(j) == ((j - 1) % 5) + (IF j <= 5 * n THEN 1 ELSE 4)
<1>1. n \in Nat \ {0}
  BY EmptySeq DEF IsHead, IsSequence
<1>2. h = [j \in 1..(5 * n + 2) |-> [m |-> m, l |-> bl(j), k |-> bk(j)]]
  BY LineBytesIs DEF HeadBytes, CR
<1>3. \A j \in 1..(5 * n + 2) : bl(j) \in Int /\ bk(j) \in Int
  BY <1>1
<1> HIDE DEF n
<1>4. h \in [1..(5 * n + 2) -> HtByte]
  <2> HIDE DEF bl, bk, h
  <2> QED
    BY <1>2, <1>3 DEF HtByte
<1>5. h \in Seq(HtByte) /\ Len(h) = 5 * n + 2
  <2>1. 5 * n + 2 \in Nat
    BY <1>1
  <2> QED
    BY <1>4, <2>1
<1>6. ASSUME NEW l \in 1..n, NEW r \in 1..5
      PROVE  5 * (l - 1) + r \in 1..(5 * n + 2) /\ h[5 * (l - 1) + r] = [m |-> m, l |-> l, k |-> r]
  <2> DEFINE j == 5 * (l - 1) + r
  <2>1. j \in 1..(5 * n + 2) /\ j <= 5 * n
    BY <1>1
  <2>2. (j - 1) \div 5 = l - 1 /\ (j - 1) % 5 = r - 1
    BY <1>1
  <2>3. bl(j) = l /\ bk(j) = r
    BY <1>1, <2>1, <2>2
  <2> HIDE DEF j, bl, bk
  <2> QED
    BY <1>2, <2>1, <2>3 DEF j
<1>7. h[5 * n + 1] = [m |-> m, l |-> n + 1, k |-> 4] /\ h[5 * n + 2] = [m |-> m, l |-> n + 1, k |-> 5]
  <2>1. (5 * n + 1 - 1) \div 5 = n /\ (5 * n + 1 - 1) % 5 = 0
    BY <1>1
  <2>2. (5 * n + 2 - 1) \div 5 = n /\ (5 * n + 2 - 1) % 5 = 1
    BY <1>1
  <2>3. bl(5 * n + 1) = n + 1 /\ bk(5 * n + 1) = 4 /\ bl(5 * n + 2) = n + 1 /\ bk(5 * n + 2) = 5
    BY <1>1, <2>1, <2>2
  <2>4. 5 * n + 1 \in 1..(5 * n + 2) /\ 5 * n + 2 \in 1..(5 * n + 2)
    BY <1>1
  <2> HIDE DEF bl, bk
  <2> QED
    BY <1>2, <2>3, <2>4
<1>8. \A j \in (5 * n + 3)..Len(h) : h[j].k = 0
  <2>1. (5 * n + 3)..Len(h) = {}
    BY <1>1, <1>5
  <2> QED
    BY <2>1
<1>9. Len(h) >= 5 * n + 2
  BY <1>1, <1>5
<1> HIDE DEF h
<1>10. \A l \in 1..n, r \in 1..5 : h[5 * (l - 1) + r] = [m |-> m, l |-> l, k |-> r]
  BY <1>6
<1> QED
  BY <1>1, <1>5, <1>7, <1>8, <1>9, <1>10 DEF MessageOf, n, h

\* b is how w begins.
Starts(b, w) ==
    /\ b \in Seq(HtByte) /\ Len(b) <= Len(w)
    /\ \A i \in 1..Len(b) : b[i] = w[i]

LEMMA BodyByte ==
  ASSUME NEW m \in Int, NEW body \in Nat
  PROVE  /\ BodyBytes(m, body) \in Seq(HtByte) /\ Len(BodyBytes(m, body)) = body
         /\ \A i \in 1..body : BodyBytes(m, body)[i].k = 0
<1>1. BodyBytes(m, body) = [i \in 1..body |-> [m |-> m, l |-> i, k |-> 0]]
  BY DEF BodyBytes
<1>2. \A i \in 1..body : [m |-> m, l |-> i, k |-> 0] \in HtByte
  BY DEF HtByte
<1>3. BodyBytes(m, body) \in [1..body -> HtByte]
  BY <1>1, <1>2
<1> QED
  BY <1>1, <1>3

LEMMA ResponseIs ==
  ASSUME NEW m \in Int, NEW page, IsHead(page.head), page.body \in Nat
  PROVE  LET w == HeadBytes(m, page.head) \o BodyBytes(m, page.body)
         IN  /\ MessageOf(m, page.head, w)
             /\ Len(w) = 5 * Len(page.head) + 2 + page.body
             /\ SubSeq(w, 5 * Len(page.head) + 3, Len(w)) = BodyBytes(m, page.body)
<1> DEFINE n == Len(page.head)
           h == HeadBytes(m, page.head)
           b == BodyBytes(m, page.body)
           w == h \o b
<1>1. /\ n \in Nat \ {0} /\ h \in Seq(HtByte) /\ Len(h) = 5 * n + 2
      /\ \A l \in 1..n, r \in 1..5 : h[5 * (l - 1) + r] = [m |-> m, l |-> l, k |-> r]
      /\ h[5 * n + 1] = [m |-> m, l |-> n + 1, k |-> 4]
      /\ h[5 * n + 2] = [m |-> m, l |-> n + 1, k |-> 5]
  <2>1. MessageOf(m, page.head, h) /\ Len(h) = 5 * n + 2
    BY HeadIs
  <2> QED
    BY <2>1 DEF MessageOf
<1>2. b \in Seq(HtByte) /\ Len(b) = page.body /\ \A i \in 1..page.body : b[i].k = 0
  BY BodyByte
<1> HIDE DEF n, h, b
<1>3. /\ w \in Seq(HtByte) /\ Len(w) = Len(h) + Len(b)
      /\ \A i \in 1..(Len(h) + Len(b)) : w[i] = IF i <= Len(h) THEN h[i] ELSE b[i - Len(h)]
  <2>1. h \in Seq(HtByte) /\ b \in Seq(HtByte)
    BY <1>1, <1>2
  <2> QED
    BY <2>1, ConcatProperties
<1> HIDE DEF w
<1>4. Len(w) = 5 * n + 2 + page.body /\ \A i \in 1..(5 * n + 2) : w[i] = h[i]
  <2>1. \A i \in 1..(5 * n + 2) : i \in 1..(Len(h) + Len(b)) /\ i <= Len(h)
    BY <1>1, <1>2
  <2> QED
    BY <1>1, <1>2, <1>3, <2>1
<1>5. \A l \in 1..n, r \in 1..5 : w[5 * (l - 1) + r] = [m |-> m, l |-> l, k |-> r]
  <2> TAKE l \in 1..n, r \in 1..5
  <2>1. 5 * (l - 1) + r \in 1..(5 * n + 2)
    BY <1>1
  <2> QED
    BY <1>1, <1>4, <2>1
<1>6. /\ w[5 * n + 1] = [m |-> m, l |-> n + 1, k |-> 4]
      /\ w[5 * n + 2] = [m |-> m, l |-> n + 1, k |-> 5]
  <2>1. 5 * n + 1 \in 1..(5 * n + 2) /\ 5 * n + 2 \in 1..(5 * n + 2)
    BY <1>1
  <2> QED
    BY <1>1, <1>4, <2>1
<1>7. \A i \in 1..page.body : w[5 * n + 2 + i] = b[i]
  <2> TAKE i \in 1..page.body
  <2>2. PICK j : j = 5 * n + 2 + i
    OBVIOUS
  <2>3. j \in 1..(Len(h) + Len(b)) /\ ~(j <= Len(h)) /\ j - Len(h) = i
    BY <1>1, <1>2, <2>2
  <2>4. w[j] = b[j - Len(h)]
    BY <1>3, <2>3
  <2> QED
    BY <2>2, <2>3, <2>4
<1>8. \A j \in (5 * n + 3)..Len(w) : w[j].k = 0
  <2> TAKE j \in (5 * n + 3)..Len(w)
  <2>1. j - (5 * n + 2) \in 1..page.body /\ 5 * n + 2 + (j - (5 * n + 2)) = j
    BY <1>1, <1>4
  <2> QED
    BY <1>2, <1>7, <2>1
<1>9. SubSeq(w, 5 * n + 3, Len(w)) = b
  <2> DEFINE t == SubSeq(w, 5 * n + 3, Len(w))
  <2>1. \A i \in (5 * n + 3)..Len(w) : w[i] \in HtByte
    <3> TAKE i \in (5 * n + 3)..Len(w)
    <3>1. i \in 1..Len(w)
      BY <1>1
    <3> QED
      BY <1>3, <3>1, ElementOfSeq
  <2>2. 5 * n + 3 \in Int /\ Len(w) \in Int
    BY <1>1, <1>2, <1>4
  <2>3. /\ t \in Seq(HtByte)
        /\ Len(t) = IF 5 * n + 3 <= Len(w) THEN Len(w) - (5 * n + 3) + 1 ELSE 0
        /\ \A i \in 1..(Len(w) - (5 * n + 3) + 1) : t[i] = w[5 * n + 3 + i - 1]
    BY <2>1, <2>2, SubSeqProperties
  <2> HIDE DEF t
  <2>n. page.body \in Nat /\ n \in Nat /\ Len(w) = 5 * n + 2 + page.body
    BY <1>1, <1>4
  <2>4. Len(t) = page.body
    <3>1. Len(t) = IF 5 * n + 3 <= Len(w) THEN Len(w) - (5 * n + 3) + 1 ELSE 0
      BY <2>3
    <3> QED
      BY <2>n, <3>1
  <2>5. \A i \in 1..page.body : t[i] = b[i]
    <3> TAKE i \in 1..page.body
    <3>1. Len(w) - (5 * n + 3) + 1 = page.body
      BY <2>n
    <3>2. i \in 1..(Len(w) - (5 * n + 3) + 1) /\ 5 * n + 3 + i - 1 = 5 * n + 2 + i
      BY <1>1, <3>1
    <3> QED
      BY <1>7, <2>3, <3>2
  <2>6. t = b
    BY <1>2, <2>3, <2>4, <2>5, SeqEqual
  <2> QED
    BY <2>6 DEF t
<1>10. Len(w) >= 5 * n + 2
  BY <1>1, <1>2, <1>4
<1>11. MessageOf(m, page.head, w)
  BY <1>1, <1>3, <1>5, <1>6, <1>8, <1>10 DEF MessageOf, n
<1> QED
  BY <1>4, <1>9, <1>11 DEF n, h, b, w

\* Where the CRs of a message are; no byte of it is zero.
LEMMA MessageBytesAre ==
  ASSUME NEW m, NEW head, NEW w, MessageOf(m, head, w), NEW j \in 1..Len(w)
  PROVE  /\ w[j].k # NUL
         /\ w[j].k = CR => \/ \E l \in 1..Len(head) : j = 5 * (l - 1) + 4
                           \/ j = 5 * Len(head) + 1
         /\ w[j].k = CR => w[j].m = m
<1> DEFINE n == Len(head)
<1>0. n \in Nat \ {0} /\ Len(w) \in Nat /\ j \in Nat
  BY LenProperties DEF MessageOf
<1>1. CASE j <= 5 * n
  <2> DEFINE l == (j - 1) \div 5 + 1
             r == ((j - 1) % 5) + 1
  <2>1. l \in 1..n /\ r \in 1..5 /\ j = 5 * (l - 1) + r
    BY <1>0, <1>1
  <2> HIDE DEF l, r
  <2>2. w[j] = [m |-> m, l |-> l, k |-> r]
    BY <2>1 DEF MessageOf
  <2>3. w[j].k = r /\ w[j].m = m
    BY <2>2
  <2>4. r # NUL /\ (r = CR => j = 5 * (l - 1) + 4)
    BY <2>1 DEF NUL, CR
  <2> QED
    BY <2>1, <2>3, <2>4
<1>2. CASE j = 5 * n + 1
  <2>1. w[j] = [m |-> m, l |-> n + 1, k |-> 4]
    BY <1>2 DEF MessageOf
  <2> QED
    BY <1>2, <2>1 DEF NUL
<1>3. CASE j = 5 * n + 2
  <2>1. w[j] = [m |-> m, l |-> n + 1, k |-> 5]
    BY <1>3 DEF MessageOf
  <2> QED
    BY <2>1 DEF NUL, CR
<1>4. CASE j > 5 * n + 2
  <2>1. j \in (5 * n + 3)..Len(w)
    BY <1>0, <1>4
  <2>2. w[j].k = 0
    BY <2>1 DEF MessageOf
  <2> QED
    BY <2>2 DEF NUL, CR
<1> QED
  BY <1>0, <1>1, <1>2, <1>3, <1>4

\* strstr() can find the end of the head in the beginning of a message only
\* where it is.
LEMMA EndAt ==
  ASSUME NEW m, NEW head, NEW w, MessageOf(m, head, w), NEW b, Starts(b, w),
         NEW p \in 1..(Len(b) - 3),
         b[p].k = CR, b[p + 1].k = LF, b[p + 2].k = CR
  PROVE  p = 5 * Len(head) - 1
<1> DEFINE n == Len(head)
<1>0. n \in Nat \ {0} /\ Len(w) \in Nat /\ Len(b) \in Nat /\ Len(b) <= Len(w)
  BY LenProperties DEF MessageOf, Starts
<1> HIDE DEF n
<1>1. p \in 1..Len(w) /\ p + 2 \in 1..Len(w) /\ p \in 1..Len(b) /\ p + 2 \in 1..Len(b)
  BY <1>0
<1>2. w[p].k = CR /\ w[p + 2].k = CR
  BY <1>1 DEF Starts
<1>3. (\E l \in 1..n : p = 5 * (l - 1) + 4) \/ p = 5 * n + 1
  BY <1>1, <1>2, MessageBytesAre DEF n
<1>4. (\E l \in 1..n : p + 2 = 5 * (l - 1) + 4) \/ p + 2 = 5 * n + 1
  BY <1>1, <1>2, MessageBytesAre DEF n
<1>5. p = 5 * n - 1
  <2>1. ~(p + 2 = 5 * n + 1) => \E l \in 1..n : p + 2 = 5 * (l - 1) + 4
    BY <1>4
  <2>2. ASSUME NEW l \in 1..n, p + 2 = 5 * (l - 1) + 4
        PROVE  FALSE
    <3>1. ASSUME NEW k \in 1..n, p = 5 * (k - 1) + 4 PROVE FALSE
      BY <1>0, <2>2, <3>1
    <3>2. p # 5 * n + 1
      BY <1>0, <2>2
    <3> QED
      BY <1>3, <3>1, <3>2
  <2>3. p + 2 = 5 * n + 1
    BY <2>1, <2>2
  <2> QED
    BY <1>0, <2>3
<1> QED
  BY <1>5 DEF n

\* It finds it exactly when the whole head is there.
LEMMA StrStrIs ==
  ASSUME NEW m, NEW head, NEW w, MessageOf(m, head, w), NEW b, Starts(b, w)
  PROVE  StrStr(b) = IF Len(b) >= 5 * Len(head) + 2 THEN 5 * Len(head) - 1 ELSE 0
<1> DEFINE n == Len(head)
           e == 5 * n - 1
           at == {p \in 1..(Len(b) - 3) :
                    /\ b[p].k = CR /\ b[p + 1].k = LF /\ b[p + 2].k = CR
                    /\ \A q \in 1..p : b[q].k # NUL}
<1>0. n \in Nat \ {0} /\ Len(w) \in Nat /\ Len(b) \in Nat /\ Len(b) <= Len(w)
  BY LenProperties DEF MessageOf, Starts
<1>1. \A p \in at : p = e
  BY EndAt
<1>2. StrStr(b) = IF at = {} THEN 0 ELSE Min(at)
  BY DEF StrStr
<1>3. e \in at => Len(b) >= 5 * n + 2
  <2>1. e \in at => e \in 1..(Len(b) - 3)
    OBVIOUS
  <2> HIDE DEF at, n
  <2> QED
    BY <1>0, <2>1
<1>4. ASSUME Len(b) >= 5 * n + 2 PROVE e \in at
  <2>0. e \in 1..(Len(b) - 3) /\ e \in Nat
    <3> HIDE DEF n
    <3> QED
      BY <1>0, <1>4
  <2>1. b[e].k = CR /\ b[e + 1].k = LF /\ b[e + 2].k = CR
    <3>1. /\ n \in 1..n /\ 4 \in 1..5 /\ 5 \in 1..5 /\ 5 * (n - 1) + 4 = e /\ 5 * (n - 1) + 5 = e + 1
          /\ e + 2 = 5 * n + 1
      <4> HIDE DEF n
      <4> QED
        BY <1>0
    <3>2. /\ w[5 * (n - 1) + 4] = [m |-> m, l |-> n, k |-> 4]
          /\ w[5 * (n - 1) + 5] = [m |-> m, l |-> n, k |-> 5]
          /\ w[5 * n + 1] = [m |-> m, l |-> n + 1, k |-> 4]
      BY <3>1 DEF MessageOf
    <3>3. w[e].k = 4 /\ w[e + 1].k = 5 /\ w[e + 2].k = 4
      BY <3>1, <3>2
    <3>4. e \in 1..Len(b) /\ e + 1 \in 1..Len(b) /\ e + 2 \in 1..Len(b)
      BY <1>0, <2>0
    <3>5. b[e] = w[e] /\ b[e + 1] = w[e + 1] /\ b[e + 2] = w[e + 2]
      BY <3>4 DEF Starts
    <3> QED
      BY <3>3, <3>5 DEF CR, LF
  <2>2. \A q \in 1..e : b[q].k # NUL
    <3> TAKE q \in 1..e
    <3>1. q \in 1..Len(b) /\ q \in 1..Len(w)
      BY <1>0, <2>0
    <3>2. b[q] = w[q]
      BY <3>1 DEF Starts
    <3> QED
      BY <3>1, <3>2, MessageBytesAre
  <2> HIDE DEF e
  <2> QED
    BY <2>0, <2>1, <2>2
<1>5. CASE Len(b) >= 5 * n + 2
  <2>1. at = {e}
    <3> HIDE DEF at, e
    <3> QED
      BY <1>1, <1>4, <1>5
  <2>2. Min({e}) = e
    <3>1. e <= e
      BY <1>0
    <3> HIDE DEF e
    <3> QED
      BY <3>1 DEF Min
  <2> HIDE DEF at, e
  <2>3. StrStr(b) = e
    BY <1>2, <2>1, <2>2
  <2> QED
    BY <1>5, <2>3 DEF e
<1>6. CASE ~(Len(b) >= 5 * n + 2)
  <2>1. at = {}
    <3> HIDE DEF at, e
    <3> QED
      BY <1>1, <1>3, <1>6
  <2> HIDE DEF at
  <2> QED
    BY <1>2, <1>6, <2>1
<1> QED
  BY <1>5, <1>6

\* Where line j of a head has its CR; the first j lines have j.
CrAt(j) == 5 * (j - 1) + 4

LEMMA CrCount ==
  ASSUME NEW j \in Nat
  PROVE  Cardinality({CrAt(i) : i \in 1..j}) = j
<1> DEFINE T == {CrAt(i) : i \in 1..j}
           f == [i \in 1..j |-> CrAt(i)]
<1>1. f \in [1..j -> T]
  OBVIOUS
<1>2. ASSUME NEW a \in 1..j, NEW c \in 1..j, f[a] = f[c] PROVE a = c
  <2>1. CrAt(a) = CrAt(c)
    BY <1>2
  <2> QED
    BY <2>1 DEF CrAt
<1>3. \A t \in T : \E i \in 1..j : f[i] = t
  OBVIOUS
<1> HIDE DEF f, T
<1>4. f \in Bijection(1..j, T)
  <2>1. f \in Injection(1..j, T)
    BY <1>1, <1>2 DEF Injection, IsInjective
  <2>2. f \in Surjection(1..j, T)
    BY <1>1, <1>3 DEF Surjection
  <2> QED
    BY <2>1, <2>2 DEF Bijection
<1>5. ExistsBijection(1..j, T)
  BY <1>4 DEF ExistsBijection
<1> QED
  BY <1>5, FS_CountingElements DEF T

\* The lines before the end of the head are the lines of the head: each ends
\* at one CR.
LEMMA LinesAre ==
  ASSUME NEW m, NEW head, IsHead(head), NEW w, MessageOf(m, head, w), NEW b, Starts(b, w),
         Len(b) >= 5 * Len(head) + 2, NEW heads, heads[m] = head
  PROVE  LinesBefore(b, 5 * Len(head) - 1, heads) = head
<1> DEFINE n == Len(head)
           p == 5 * n - 1
           ends == {q \in 1..p : b[q].k = CR}
           End(j) == CHOOSE q \in ends : Cardinality({r \in ends : r <= q}) = j
           Line(c) == IF c.l <= Len(heads[c.m]) THEN heads[c.m][c.l] ELSE BlankLine
<1>0. n \in Nat \ {0} /\ Len(w) \in Nat /\ Len(b) \in Nat /\ Len(b) <= Len(w) /\ Len(b) >= 5 * n + 2
  BY LenProperties DEF MessageOf, Starts
<1>1. \A j \in 1..n : CrAt(j) \in 1..p /\ b[CrAt(j)] = [m |-> m, l |-> j, k |-> 4]
  <2> TAKE j \in 1..n
  <2>1. CrAt(j) \in 1..p /\ CrAt(j) \in 1..Len(b)
    <3> HIDE DEF n
    <3> QED
      BY <1>0 DEF CrAt
  <2>2. b[CrAt(j)] = w[CrAt(j)]
    BY <2>1 DEF Starts
  <2>3. w[CrAt(j)] = [m |-> m, l |-> j, k |-> 4]
    <3>1. 4 \in 1..5
      OBVIOUS
    <3> QED
      BY <3>1 DEF MessageOf, CrAt
  <2> QED
    BY <2>1, <2>2, <2>3
<1>2. ends = {CrAt(j) : j \in 1..n}
  <2>1. ASSUME NEW q \in 1..p, b[q].k = CR PROVE \E j \in 1..n : q = CrAt(j)
    <3>1. q \in 1..Len(b) /\ q \in 1..Len(w) /\ q # 5 * n + 1
      <4> HIDE DEF n
      <4> QED
        BY <1>0
    <3>2. w[q].k = CR
      BY <2>1, <3>1 DEF Starts
    <3> QED
      BY <3>1, <3>2, MessageBytesAre DEF CrAt
  <2>2. \A j \in 1..n : CrAt(j) \in ends
    <3> TAKE j \in 1..n
    <3>1. CrAt(j) \in 1..p /\ b[CrAt(j)] = [m |-> m, l |-> j, k |-> 4]
      BY <1>1
    <3>2. b[CrAt(j)].k = 4
      BY <3>1
    <3> QED
      BY <3>1, <3>2 DEF CR
  <2> HIDE DEF p, n
  <2> QED
    BY <2>1, <2>2
<1>3. Cardinality(ends) = n
  BY <1>0, <1>2, CrCount
<1> HIDE DEF ends
<1>4. ASSUME NEW j \in 1..n PROVE Cardinality({r \in ends : r <= CrAt(j)}) = j
  <2>1. {r \in ends : r <= CrAt(j)} = {CrAt(i) : i \in 1..j}
    <3>1. \A i \in 1..n : CrAt(i) <= CrAt(j) <=> i \in 1..j
      <4> HIDE DEF n
      <4> QED
        BY <1>0 DEF CrAt
    <3>2. \A i \in 1..j : i \in 1..n
      <4> HIDE DEF n
      <4> QED
        BY <1>0
    <3> HIDE DEF n
    <3> QED
      BY <1>2, <3>1, <3>2
  <2> QED
    BY <1>0, <2>1, CrCount
<1>5. ASSUME NEW j \in 1..n PROVE End(j) = CrAt(j)
  <2>1. CrAt(j) \in ends
    BY <1>2
  <2>2. \A q \in ends : Cardinality({r \in ends : r <= q}) = j => q = CrAt(j)
    <3> TAKE q \in ends
    <3>1. PICK i \in 1..n : q = CrAt(i)
      BY <1>2
    <3>2. Cardinality({r \in ends : r <= q}) = i
      BY <1>4, <3>1
    <3> QED
      BY <3>1, <3>2
  <2> QED
    BY <1>4, <2>1, <2>2
<1>6. \A j \in 1..n : Line(b[End(j)]) = head[j]
  <2> TAKE j \in 1..n
  <2>1. b[End(j)] = [m |-> m, l |-> j, k |-> 4]
    BY <1>1, <1>5
  <2>2. Line([m |-> m, l |-> j, k |-> 4]) = head[j]
    <3>1. j <= Len(heads[m])
      BY <1>0
    <3> QED
      BY <3>1
  <2> HIDE DEF End, Line
  <2> QED
    BY <2>1, <2>2
<1>7. LinesBefore(b, p, heads) = [j \in 1..Cardinality(ends) |-> Line(b[End(j)])]
  BY DEF LinesBefore, ends
<1>8. head = [j \in 1..n |-> head[j]]
  BY DEF IsHead, IsSequence
<1>9. [j \in 1..n |-> Line(b[End(j)])] = [j \in 1..n |-> head[j]]
  <2> HIDE DEF End, Line, n
  <2> QED
    BY <1>6
<1>10. LinesBefore(b, p, heads) = [j \in 1..n |-> Line(b[End(j)])]
  BY <1>3, <1>7
<1> QED
  BY <1>8, <1>9, <1>10

-----------------------------------------------------------------------------
(* Sequences that arrive in chunks *)

LEMMA SequenceAppend ==
  ASSUME NEW s, IsSequence(s), NEW e
  PROVE  /\ IsSequence(Append(s, e)) /\ Len(Append(s, e)) = Len(s) + 1
         /\ DOMAIN s = 1..Len(s) /\ DOMAIN Append(s, e) = 1..(Len(s) + 1)
         /\ Append(s, e)[Len(s) + 1] = e
         /\ \A k \in 1..Len(s) : Append(s, e)[k] = s[k]
<1> DEFINE n == Len(s)
           S == {s[k] : k \in 1..n} \cup {e}
           a == Append(s, e)
<1>1. n \in Nat /\ s = [k \in 1..n |-> s[k]]
  BY DEF IsSequence
<1>2. s \in [1..n -> S]
  BY <1>1
<1>3. s \in Seq(S) /\ e \in S
  BY <1>1, <1>2
<1> HIDE DEF S
<1>4. /\ a \in Seq(S) /\ Len(a) = n + 1 /\ a[n + 1] = e
      /\ \A k \in 1..n : a[k] = s[k]
  BY <1>3, AppendProperties
<1> HIDE DEF a
<1>5. a \in [1..(n + 1) -> S]
  BY <1>4, LenProperties
<1>6. a = [k \in 1..(n + 1) |-> a[k]] /\ DOMAIN a = 1..(n + 1)
  BY <1>5
<1>7. IsSequence(a)
  BY <1>1, <1>4, <1>6 DEF IsSequence
<1> QED
  BY <1>1, <1>4, <1>6, <1>7 DEF a

LEMMA BytesRegroup ==
  ASSUME NEW a \in Seq(HtByte), NEW b \in Seq(HtByte), NEW c \in Seq(HtByte)
  PROVE  (a \o b) \o c = a \o (b \o c)
  BY ConcatAssociative, SMT

\* The next n bytes move from what has not arrived to the buffer.
LEMMA Arrives ==
  ASSUME NEW in \in Seq(HtByte), NEW left \in Seq(HtByte), NEW n \in 1..Len(left)
  PROVE  /\ in \o SubSeq(left, 1, n) \in Seq(HtByte) /\ After(left, n) \in Seq(HtByte)
         /\ Len(in \o SubSeq(left, 1, n)) = Len(in) + n
         /\ \A i \in 1..Len(in) : (in \o SubSeq(left, 1, n))[i] = in[i]
         /\ (in \o SubSeq(left, 1, n)) \o After(left, n) = in \o left
<1> DEFINE c == SubSeq(left, 1, n)
           r == After(left, n)
<1>0. Len(left) \in Nat /\ n \in Nat /\ n <= Len(left) /\ Len(in) \in Nat
  BY LenProperties
<1>1. \A i \in 1..Len(left) : left[i] \in HtByte
  BY ElementOfSeq
<1>2. c \in Seq(HtByte) /\ Len(c) = n
  <2>1. \A i \in 1..n : left[i] \in HtByte
    BY <1>0, <1>1
  <2> QED
    BY <1>0, <2>1, SubSeqProperties
<1>3. r \in Seq(HtByte)
  <2>1. \A i \in (n + 1)..Len(left) : left[i] \in HtByte
    BY <1>0, <1>1
  <2>2. n + 1 \in Int /\ Len(left) \in Int
    BY <1>0
  <2> QED
    BY <2>1, <2>2, SubSeqProperties DEF After
<1>4. c \o r = left
  <2>1. 1 \in 1..(Len(left) + 1) /\ n \in (1 - 1)..Len(left) /\ Len(left) \in n..Len(left)
    BY <1>0
  <2>2. SubSeq(left, 1, n) \o SubSeq(left, n + 1, Len(left)) = SubSeq(left, 1, Len(left))
    BY <2>1, ConcatAdjacentSubSeq
  <2> QED
    BY <2>2, SubSeqFull DEF After
<1> HIDE DEF c, r
<1>5. (in \o c) \o r = in \o left
  <2>1. c \in Seq(HtByte) /\ r \in Seq(HtByte)
    BY <1>2, <1>3
  <2>2. (in \o c) \o r = in \o (c \o r)
    BY <2>1, BytesRegroup
  <2> QED
    BY <1>4, <2>2, Zenon
<1>6. /\ in \o c \in Seq(HtByte) /\ Len(in \o c) = Len(in) + n
      /\ \A i \in 1..(Len(in) + Len(c)) : (in \o c)[i] = IF i <= Len(in) THEN in[i] ELSE c[i - Len(in)]
  BY <1>2, ConcatProperties
<1>7. \A i \in 1..Len(in) : (in \o c)[i] = in[i]
  BY <1>0, <1>2, <1>6
<1> QED
  BY <1>3, <1>5, <1>6, <1>7 DEF c, r

\* What has arrived of w is how w begins.
LEMMA StartsIs ==
  ASSUME NEW b \in Seq(HtByte), NEW r \in Seq(HtByte)
  PROVE  /\ Starts(b, b \o r) /\ Len(b \o r) = Len(b) + Len(r)
         /\ \A i \in 1..Len(r) : (b \o r)[Len(b) + i] = r[i]
<1>0. Len(b) \in Nat /\ Len(r) \in Nat
  BY LenProperties
<1>1. /\ Len(b \o r) = Len(b) + Len(r)
      /\ \A i \in 1..(Len(b) + Len(r)) : (b \o r)[i] = IF i <= Len(b) THEN b[i] ELSE r[i - Len(b)]
  BY ConcatProperties
<1>2. \A i \in 1..Len(b) : (b \o r)[i] = b[i]
  BY <1>0, <1>1
<1>3. \A i \in 1..Len(r) : (b \o r)[Len(b) + i] = r[i]
  <2> TAKE i \in 1..Len(r)
  <2>1. PICK j : j = Len(b) + i
    OBVIOUS
  <2>2. j \in 1..(Len(b) + Len(r)) /\ ~(j <= Len(b)) /\ j - Len(b) = i
    BY <1>0, <2>1
  <2>3. (b \o r)[j] = r[j - Len(b)]
    BY <1>1, <2>2
  <2> QED
    BY <2>1, <2>2, <2>3
<1> QED
  BY <1>0, <1>1, <1>2, <1>3 DEF Starts

\* The bytes behind the head of what has arrived, and what follows them.
LEMMA AfterHead ==
  ASSUME NEW b \in Seq(HtByte), NEW r \in Seq(HtByte), NEW h \in Nat, h <= Len(b)
  PROVE  /\ After(b, h) \in Seq(HtByte)
         /\ After(b, h) \o r = SubSeq(b \o r, h + 1, Len(b \o r))
<1> DEFINE d == After(b, h)
           w == b \o r
           t == SubSeq(w, h + 1, Len(w))
<1>0. Len(b) \in Nat /\ Len(r) \in Nat
  BY LenProperties
<1>1. \A i \in 1..Len(b) : b[i] \in HtByte
  BY ElementOfSeq
<1>2. /\ d \in Seq(HtByte) /\ Len(d) = Len(b) - h
      /\ \A i \in 1..(Len(b) - h) : d[i] = b[h + i]
  <2>1. \A i \in (h + 1)..Len(b) : b[i] \in HtByte
    BY <1>0, <1>1
  <2>2. h + 1 \in Int /\ Len(b) \in Int
    BY <1>0
  <2>3. /\ d \in Seq(HtByte)
        /\ Len(d) = IF h + 1 <= Len(b) THEN Len(b) - (h + 1) + 1 ELSE 0
        /\ \A i \in 1..(Len(b) - (h + 1) + 1) : d[i] = b[h + 1 + i - 1]
    BY <2>1, <2>2, SubSeqProperties DEF After
  <2> HIDE DEF d
  <2>4. Len(d) = Len(b) - h /\ Len(b) - (h + 1) + 1 = Len(b) - h
    BY <1>0, <2>3
  <2>5. \A i \in 1..(Len(b) - h) : h + 1 + i - 1 = h + i
    BY <1>0
  <2> QED
    BY <2>3, <2>4, <2>5
<1>3. w \in Seq(HtByte) /\ Len(w) = Len(b) + Len(r)
      /\ \A i \in 1..(Len(b) + Len(r)) : w[i] = IF i <= Len(b) THEN b[i] ELSE r[i - Len(b)]
  BY ConcatProperties
<1> HIDE DEF d, w
<1>4. /\ t \in Seq(HtByte) /\ Len(t) = Len(w) - h
      /\ \A i \in 1..(Len(w) - h) : t[i] = w[h + i]
  <2>0. Len(w) \in Nat /\ h <= Len(w)
    BY <1>0, <1>3
  <2>1. \A i \in (h + 1)..Len(w) : w[i] \in HtByte
    <3>1. \A i \in (h + 1)..Len(w) : i \in 1..Len(w)
      BY <2>0
    <3> QED
      BY <1>3, <3>1, ElementOfSeq
  <2>2. h + 1 \in Int /\ Len(w) \in Int
    BY <2>0
  <2>3. /\ t \in Seq(HtByte)
        /\ Len(t) = IF h + 1 <= Len(w) THEN Len(w) - (h + 1) + 1 ELSE 0
        /\ \A i \in 1..(Len(w) - (h + 1) + 1) : t[i] = w[h + 1 + i - 1]
    BY <2>1, <2>2, SubSeqProperties
  <2> HIDE DEF t
  <2>4. Len(t) = Len(w) - h /\ Len(w) - (h + 1) + 1 = Len(w) - h
    BY <2>0, <2>3
  <2>5. \A i \in 1..(Len(w) - h) : h + 1 + i - 1 = h + i
    BY <2>0
  <2> QED
    BY <2>3, <2>4, <2>5
<1>5. /\ d \o r \in Seq(HtByte) /\ Len(d \o r) = Len(d) + Len(r)
      /\ \A i \in 1..(Len(d) + Len(r)) : (d \o r)[i] = IF i <= Len(d) THEN d[i] ELSE r[i - Len(d)]
  <2>1. d \in Seq(HtByte)
    BY <1>2
  <2> QED
    BY <2>1, ConcatProperties
<1> HIDE DEF t
<1>6. Len(d \o r) = Len(t) /\ Len(t) = Len(b) - h + Len(r)
  BY <1>0, <1>2, <1>3, <1>4, <1>5
<1>7. ASSUME NEW i \in 1..Len(t) PROVE (d \o r)[i] = t[i]
  <2>1. t[i] = w[h + i] /\ i \in 1..(Len(d) + Len(r)) /\ i \in Nat
    BY <1>0, <1>2, <1>3, <1>4, <1>6
  <2>2. CASE i <= Len(b) - h
    <3>1. h + i \in 1..(Len(b) + Len(r)) /\ h + i <= Len(b) /\ i \in 1..(Len(b) - h) /\ i <= Len(d)
      BY <1>0, <1>2, <2>1, <2>2
    <3>2. w[h + i] = b[h + i] /\ d[i] = b[h + i] /\ (d \o r)[i] = d[i]
      BY <1>2, <1>3, <1>5, <2>1, <3>1
    <3> QED
      BY <2>1, <3>2
  <2>3. CASE ~(i <= Len(b) - h)
    <3>1. PICK j : j = h + i
      OBVIOUS
    <3>2. j \in 1..(Len(b) + Len(r)) /\ ~(j <= Len(b)) /\ j - Len(b) = i - Len(d) /\ ~(i <= Len(d))
      BY <1>0, <1>2, <1>6, <2>1, <2>3, <3>1
    <3>3. w[j] = r[j - Len(b)] /\ (d \o r)[i] = r[i - Len(d)]
      BY <1>3, <1>5, <2>1, <3>2
    <3> QED
      BY <2>1, <3>1, <3>2, <3>3
  <2> QED
    BY <2>2, <2>3
<1>8. d \o r = t
  BY <1>4, <1>5, <1>6, <1>7, SeqEqual
<1> QED
  BY <1>2, <1>8 DEF d, w, t

-----------------------------------------------------------------------------
(* HttpClient *)

\* The number of answers to fetch t.
CountIn(answers, t) == Cardinality({k \in DOMAIN answers : answers[k].try = t})

LEMMA CountAppend ==
  ASSUME NEW s, IsSequence(s), NEW e, NEW t
  PROVE  /\ CountIn(s, t) \in Nat
         /\ CountIn(Append(s, e), t) = CountIn(s, t) + (IF e.try = t THEN 1 ELSE 0)
<1> DEFINE n == Len(s)
           a == Append(s, e)
           S == {k \in 1..n : s[k].try = t}
           A == {k \in 1..(n + 1) : a[k].try = t}
<1>1. /\ n \in Nat /\ DOMAIN s = 1..n /\ DOMAIN a = 1..(n + 1)
      /\ a[n + 1] = e /\ \A k \in 1..n : a[k] = s[k]
  BY SequenceAppend DEF IsSequence
<1> HIDE DEF n, a
<1>2. IsFiniteSet(S) /\ Cardinality(S) \in Nat
  <2>1. IsFiniteSet(1..n)
    BY <1>1, FS_Interval
  <2>2. S \in SUBSET (1..n)
    OBVIOUS
  <2>3. IsFiniteSet(S)
    BY <2>1, <2>2, FS_Subset
  <2> QED
    BY <2>3, FS_CardinalityType
<1>3. CountIn(s, t) = Cardinality(S) /\ CountIn(a, t) = Cardinality(A)
  BY <1>1 DEF CountIn
<1>4. CASE e.try = t
  <2>1. A = S \cup {n + 1} /\ n + 1 \notin S
    BY <1>1, <1>4
  <2> HIDE DEF A, S
  <2>2. Cardinality(A) = Cardinality(S) + 1
    BY <1>2, <2>1, FS_AddElement
  <2> QED
    BY <1>2, <1>3, <1>4, <2>2 DEF a
<1>5. CASE e.try # t
  <2>1. A = S
    BY <1>1, <1>5
  <2> HIDE DEF A, S
  <2> QED
    BY <1>2, <1>3, <1>5, <2>1 DEF a
<1> QED
  BY <1>4, <1>5

\* What the server sends for fetch m.
PageBytes(m, page) == HeadBytes(m, page.head) \o BodyBytes(m, page.body)

\* What Process() has of the response so far.  Its head cannot have arrived:
\* the next call would have overwritten its last byte.
Heading(m, page, length, in, left) ==
    /\ length = 0 /\ in \in Seq(HtByte) /\ left \in Seq(HtByte)
    /\ Len(in) < 4 /\ in \o left = PageBytes(m, page)

\* A byte was overwritten, and strstr() finds nothing in front of it.
Broken(length, in, left) ==
    /\ length = 0 /\ in \in Seq(HtByte) /\ left \in Seq(HtByte)
    /\ \E c \in 1..Len(in) :
         /\ in[c].k = NUL
         /\ \A p \in 1..(c - 3) : ~(in[p].k = CR /\ in[p + 1].k = LF /\ in[p + 2].k = CR)

\* The head was read, and some of the body is missing.
Bodying(m, page, length, fields, in, left) ==
    /\ length # 0 /\ length = page.body /\ fields = Fields(page.head)
    /\ in \in Seq(HtByte) /\ left \in Seq(HtByte)
    /\ in \o left = BodyBytes(m, page.body) /\ Len(in) # length

\* The head was read, and says that there is no body.
Bodiless(page, length, in, left) ==
    page.body = 0 /\ length = 0 /\ in = << >> /\ left = << >>

Receiving(m, page, length, fields, in, left) ==
    \/ Heading(m, page, length, in, left)
    \/ Broken(length, in, left)
    \/ Bodying(m, page, length, fields, in, left)
    \/ Bodiless(page, length, in, left)

HCShape ==
    /\ hcTry \in Nat /\ IsSequence(hcPage) /\ Len(hcPage) = hcTry
    /\ \A t \in 1..hcTry : IsResponse(hcPage[t])
    /\ hcStatus \in {"DISCONNECT", "CONNECTING", "CONNECTED", "SYS_ERROR"}
    /\ hcAttached \subseteq 1..hcTry
    /\ IsSequence(hcAnswers)
    /\ \A k \in DOMAIN hcAnswers : hcAnswers[k].try \in 1..hcTry

HCFetching ==
    /\ hcStatus \in {"CONNECTING", "CONNECTED"} => hcTry >= 1 /\ hcServer = TRUE
    /\ hcStatus = "CONNECTING" => hcTry \notin hcAttached /\ hcIn = << >> /\ hcLength = 0
    /\ hcStatus = "CONNECTED" =>
         /\ hcTry \in hcAttached
         /\ Receiving(hcTry, hcPage[hcTry], hcLength, hcFields, hcIn, hcLeft)

HCInv == HCShape /\ HCFetching /\ HCOnce /\ HCBodyOK

LEMMA PageIs ==
  ASSUME NEW m \in Int, NEW page, IsResponse(page)
  PROVE  /\ IsHead(page.head) /\ page.body \in Nat
         /\ MessageOf(m, page.head, PageBytes(m, page))
         /\ Len(PageBytes(m, page)) = 5 * Len(page.head) + 2 + page.body
         /\ SubSeq(PageBytes(m, page), 5 * Len(page.head) + 3, Len(PageBytes(m, page)))
              = BodyBytes(m, page.body)
         /\ PageBytes(m, page) \in Seq(HtByte)
<1>1. IsHead(page.head) /\ page.body \in Nat
  BY DEF IsResponse
<1>2. /\ MessageOf(m, page.head, PageBytes(m, page))
      /\ Len(PageBytes(m, page)) = 5 * Len(page.head) + 2 + page.body
      /\ SubSeq(PageBytes(m, page), 5 * Len(page.head) + 3, Len(PageBytes(m, page)))
           = BodyBytes(m, page.body)
  BY <1>1, ResponseIs DEF PageBytes
<1>3. PageBytes(m, page) \in Seq(HtByte)
  BY <1>2 DEF MessageOf
<1> QED
  BY <1>1, <1>2, <1>3

\* A connection that waits with nothing left to arrive waits for good reason.
LEMMA AnsweredFrom ==
  ASSUME HCInv PROVE HCAnswered
<1> SUFFICES ASSUME hcStatus = "CONNECTED", hcLeft = << >>
             PROVE  Cut(hcIn) \/ hcPage[hcTry].body = 0
  BY DEF HCAnswered
<1> DEFINE page == hcPage[hcTry]
<1>0. hcTry \in Int /\ hcTry \in 1..hcTry /\ IsResponse(page)
  BY DEF HCInv, HCShape, HCFetching
<1>1. Receiving(hcTry, page, hcLength, hcFields, hcIn, hcLeft)
  BY DEF HCInv, HCFetching
<1> HIDE DEF page
<1>2. CASE Heading(hcTry, page, hcLength, hcIn, hcLeft)
  <2>1. hcIn \in Seq(HtByte) /\ Len(hcIn) < 4 /\ hcIn \o hcLeft = PageBytes(hcTry, page)
    BY <1>2 DEF Heading
  <2>2. hcIn = PageBytes(hcTry, page)
    BY <2>1, ConcatEmptySeq
  <2>3. Len(hcIn) = 5 * Len(page.head) + 2 + page.body /\ page.body \in Nat /\ Len(page.head) \in Nat \ {0}
    BY <1>0, <2>2, PageIs DEF MessageOf
  <2> QED
    BY <2>1, <2>3
<1>3. CASE Broken(hcLength, hcIn, hcLeft)
  <2>1. DOMAIN hcIn = 1..Len(hcIn) /\ \E c \in 1..Len(hcIn) : hcIn[c].k = NUL
    BY <1>3, LenProperties DEF Broken
  <2> QED
    BY <2>1 DEF Cut
<1>4. CASE Bodying(hcTry, page, hcLength, hcFields, hcIn, hcLeft)
  <2>1. /\ hcIn \in Seq(HtByte) /\ hcIn \o hcLeft = BodyBytes(hcTry, page.body)
        /\ Len(hcIn) # page.body
    BY <1>4 DEF Bodying
  <2>2. hcIn = BodyBytes(hcTry, page.body)
    BY <2>1, ConcatEmptySeq
  <2>3. Len(BodyBytes(hcTry, page.body)) = page.body
    BY <1>0, BodyByte DEF IsResponse
  <2> QED
    BY <2>1, <2>2, <2>3
<1>5. CASE Bodiless(page, hcLength, hcIn, hcLeft)
  BY <1>5 DEF Bodiless, page
<1> QED
  BY <1>1, <1>2, <1>3, <1>4, <1>5 DEF Receiving

\* An answer tells of its own fetch.
AnswerOK(a, pages) ==
    a.code = 200 => /\ a.body = BodyBytes(a.try, pages[a.try].body)
                    /\ a.fields = Fields(pages[a.try].head)

LEMMA NoneLater ==
  ASSUME NEW s, IsSequence(s), NEW n \in Nat, \A k \in DOMAIN s : s[k].try \in 1..n
  PROVE  CountIn(s, n + 1) = 0
<1>1. {k \in DOMAIN s : s[k].try = n + 1} = {}
  <2>1. n + 1 \notin 1..n
    OBVIOUS
  <2> QED
    BY <2>1
<1> QED
  BY <1>1, FS_EmptySet DEF CountIn

\* The answer to a fetch that has a connection is its only one.
LEMMA AnswersAre ==
  ASSUME HCInv, hcStatus = "CONNECTED", NEW a, a.try = hcTry, AnswerOK(a, hcPage)
  PROVE  LET as == Append(hcAnswers, a)
         IN  /\ IsSequence(as)
             /\ \A k \in DOMAIN as : as[k].try \in 1..hcTry /\ AnswerOK(as[k], hcPage)
             /\ \A t \in 1..hcTry : CountIn(as, t) = IF t \in hcAttached THEN 1 ELSE 0
<1> DEFINE as == Append(hcAnswers, a)
           n == Len(hcAnswers)
<1>1. /\ IsSequence(hcAnswers) /\ hcTry \in Nat /\ hcTry >= 1 /\ hcTry \in hcAttached
      /\ \A k \in DOMAIN hcAnswers : hcAnswers[k].try \in 1..hcTry
  BY DEF HCInv, HCShape, HCFetching
<1>2. /\ IsSequence(as) /\ DOMAIN hcAnswers = 1..n /\ DOMAIN as = 1..(n + 1)
      /\ as[n + 1] = a /\ \A k \in 1..n : as[k] = hcAnswers[k]
  BY <1>1, SequenceAppend
<1>3. n \in Nat
  BY <1>1 DEF IsSequence
<1>4. \A k \in 1..n : AnswerOK(hcAnswers[k], hcPage)
  BY <1>2 DEF HCInv, HCBodyOK, AnswerOK
<1>5. \A t \in 1..hcTry : CountIn(as, t) = IF t \in hcAttached THEN 1 ELSE 0
  <2> TAKE t \in 1..hcTry
  <2>1. CountIn(hcAnswers, t) = IF t \in hcAttached /\ t # hcTry THEN 1 ELSE 0
    BY DEF HCInv, HCOnce, Count, CountIn
  <2>2. CountIn(as, t) = CountIn(hcAnswers, t) + (IF hcTry = t THEN 1 ELSE 0)
    BY <1>1, CountAppend
  <2> HIDE DEF as
  <2>3. CASE t = hcTry
    <3>1. CountIn(hcAnswers, t) = 0
      BY <2>1, <2>3
    <3> QED
      BY <1>1, <2>2, <2>3, <3>1
  <2>4. CASE t # hcTry
    <3>1. CountIn(hcAnswers, t) = IF t \in hcAttached THEN 1 ELSE 0
      BY <2>1, <2>4
    <3>2. CountIn(as, t) = CountIn(hcAnswers, t) + 0
      BY <2>2, <2>4
    <3> QED
      BY <3>1, <3>2
  <2> QED
    BY <2>3, <2>4
<1> HIDE DEF as, n
<1>6. ASSUME NEW k \in DOMAIN as PROVE as[k].try \in 1..hcTry /\ AnswerOK(as[k], hcPage)
  <2>1. k \in 1..n \/ k = n + 1
    BY <1>2, <1>3
  <2>2. CASE k \in 1..n
    BY <1>1, <1>2, <1>4, <2>2
  <2>3. CASE k = n + 1
    <3>1. as[k] = a
      BY <1>2, <2>3
    <3>2. hcTry \in 1..hcTry
      BY <1>1
    <3> QED
      BY <3>1, <3>2
  <2> QED
    BY <2>1, <2>2, <2>3
<1> QED
  BY <1>2, <1>5, <1>6 DEF as

\* The page of a new fetch leaves those of the earlier ones alone.
LEMMA PagesAre ==
  ASSUME HCShape, NEW page, IsResponse(page)
  PROVE  /\ IsSequence(Append(hcPage, page)) /\ Len(Append(hcPage, page)) = hcTry + 1
         /\ \A t \in 1..(hcTry + 1) : IsResponse(Append(hcPage, page)[t])
         /\ \A t \in 1..hcTry : Append(hcPage, page)[t] = hcPage[t]
<1>1. /\ hcTry \in Nat /\ IsSequence(hcPage) /\ Len(hcPage) = hcTry
      /\ \A t \in 1..hcTry : IsResponse(hcPage[t])
  BY DEF HCShape
<1>2. /\ IsSequence(Append(hcPage, page)) /\ Len(Append(hcPage, page)) = hcTry + 1
      /\ Append(hcPage, page)[hcTry + 1] = page
      /\ \A t \in 1..hcTry : Append(hcPage, page)[t] = hcPage[t]
  BY <1>1, SequenceAppend
<1>3. \A t \in 1..(hcTry + 1) : IsResponse(Append(hcPage, page)[t])
  <2> TAKE t \in 1..(hcTry + 1)
  <2>1. t \in 1..hcTry \/ t = hcTry + 1
    BY <1>1
  <2> QED
    BY <1>1, <1>2, <2>1
<1> QED
  BY <1>2, <1>3

\* A connection ends with the one answer a.
LEMMA HCEnds ==
  ASSUME HCInv, hcStatus = "CONNECTED", NEW a, a.try = hcTry, AnswerOK(a, hcPage),
         hcAnswers' = Append(hcAnswers, a), hcStatus' = "DISCONNECT",
         hcTry' = hcTry, hcPage' = hcPage, hcAttached' = hcAttached
  PROVE  HCInv'
<1>1. /\ IsSequence(hcAnswers')
      /\ \A k \in DOMAIN hcAnswers' : hcAnswers'[k].try \in 1..hcTry /\ AnswerOK(hcAnswers'[k], hcPage)
      /\ \A t \in 1..hcTry : CountIn(hcAnswers', t) = IF t \in hcAttached THEN 1 ELSE 0
  BY AnswersAre
<1>2. HCShape'
  <2>1. HCShape
    BY DEF HCInv
  <2> QED
    BY <1>1, <2>1 DEF HCShape
<1>3. HCFetching'
  BY DEF HCFetching
<1>4. HCOnce'
  BY <1>1 DEF HCOnce, Count, CountIn
<1>5. HCBodyOK'
  BY <1>1 DEF HCBodyOK, AnswerOK
<1> QED
  BY <1>2, <1>3, <1>4, <1>5 DEF HCInv

\* A new fetch begins, after the answers as.
LEMMA HCBegins ==
  ASSUME HCShape, NEW page \in HcPages, hcTry' = hcTry + 1, hcPage' = Append(hcPage, page),
         hcStatus' \in {"CONNECTING", "SYS_ERROR"}, hcServer' = TRUE, hcLength' = 0, hcIn' = << >>,
         hcAttached' = hcAttached, IsSequence(hcAnswers'),
         \A k \in DOMAIN hcAnswers' : hcAnswers'[k].try \in 1..hcTry /\ AnswerOK(hcAnswers'[k], hcPage),
         \A t \in 1..hcTry : CountIn(hcAnswers', t) = IF t \in hcAttached THEN 1 ELSE 0
  PROVE  HCInv'
<1>0. hcTry \in Nat /\ hcAttached \subseteq 1..hcTry /\ IsResponse(page)
  BY HcAssumption DEF HCShape
<1>1. /\ IsSequence(hcPage') /\ Len(hcPage') = hcTry'
      /\ \A t \in 1..hcTry' : IsResponse(hcPage'[t])
      /\ \A t \in 1..hcTry : hcPage'[t] = hcPage[t]
  BY <1>0, PagesAre
<1>2. \A k \in 1..hcTry : k \in 1..hcTry'
  BY <1>0
<1>3. HCShape'
  <2>1. hcTry' \in Nat /\ hcAttached' \subseteq 1..hcTry'
    BY <1>0, <1>2
  <2>2. \A k \in DOMAIN hcAnswers' : hcAnswers'[k].try \in 1..hcTry'
    BY <1>2
  <2> QED
    BY <1>1, <2>1, <2>2 DEF HCShape
<1>4. HCFetching'
  <2>1. hcTry' >= 1 /\ hcTry' \notin hcAttached'
    BY <1>0
  <2> QED
    BY <2>1 DEF HCFetching
<1>5. HCOnce'
  <2>1. CountIn(hcAnswers', hcTry + 1) = 0
    BY <1>0, NoneLater
  <2>2. ASSUME NEW t \in 1..hcTry'
        PROVE  CountIn(hcAnswers', t) = IF t \in hcAttached' THEN 1 ELSE 0
    <3>1. t \in 1..hcTry \/ t = hcTry + 1
      BY <1>0
    <3>2. hcTry + 1 \notin hcAttached'
      BY <1>0
    <3> QED
      BY <2>1, <3>1, <3>2
  <2> QED
    BY <2>2 DEF HCOnce, Count, CountIn
<1>6. HCBodyOK'
  <2>1. ASSUME NEW k \in DOMAIN hcAnswers' PROVE AnswerOK(hcAnswers'[k], hcPage')
    <3>1. hcAnswers'[k].try \in 1..hcTry /\ AnswerOK(hcAnswers'[k], hcPage)
      OBVIOUS
    <3>2. hcPage'[hcAnswers'[k].try] = hcPage[hcAnswers'[k].try]
      BY <1>1, <3>1
    <3> QED
      BY <3>1, <3>2 DEF AnswerOK
  <2> QED
    BY <2>1 DEF HCBodyOK, AnswerOK
<1> QED
  BY <1>3, <1>4, <1>5, <1>6 DEF HCInv

\* Without a connection every fetch that had one is answered.
LEMMA AllAnswered ==
  ASSUME HCInv, hcStatus # "CONNECTED"
  PROVE  /\ IsSequence(hcAnswers)
         /\ \A k \in DOMAIN hcAnswers : hcAnswers[k].try \in 1..hcTry /\ AnswerOK(hcAnswers[k], hcPage)
         /\ \A t \in 1..hcTry : CountIn(hcAnswers, t) = IF t \in hcAttached THEN 1 ELSE 0
<1>1. \A t \in 1..hcTry : CountIn(hcAnswers, t) = IF t \in hcAttached THEN 1 ELSE 0
  BY DEF HCInv, HCOnce, Count, CountIn
<1>2. \A k \in DOMAIN hcAnswers : AnswerOK(hcAnswers[k], hcPage)
  BY DEF HCInv, HCBodyOK, AnswerOK
<1> QED
  BY <1>1, <1>2 DEF HCInv, HCShape

LEMMA HCInvConnectBadUrl == ASSUME HCInv, HCConnectBadUrl PROVE HCInv'
<1>1. /\ hcStatus \notin {"CONNECTING", "CONNECTED"} /\ hcStatus' = hcStatus
      /\ UNCHANGED <<hcTry, hcPage, hcAttached, hcAnswers>>
  BY DEF HCConnectBadUrl, MayConnect
<1>2. HCShape' /\ HCOnce' /\ HCBodyOK'
  BY <1>1 DEF HCInv, HCShape, HCOnce, Count, HCBodyOK
<1>3. HCFetching'
  BY <1>1 DEF HCFetching
<1> QED
  BY <1>2, <1>3 DEF HCInv

LEMMA HCInvConnectFails ==
  ASSUME HCInv, NEW page \in HcPages, HCConnectFails(page) PROVE HCInv'
<1>1. /\ hcStatus # "CONNECTED" /\ hcTry' = hcTry + 1 /\ hcPage' = Append(hcPage, page)
      /\ hcStatus' = "SYS_ERROR" /\ hcServer' = TRUE /\ hcLength' = 0 /\ hcIn' = << >>
      /\ hcAttached' = hcAttached /\ hcAnswers' = hcAnswers
  BY DEF HCConnectFails, MayConnect, Reset
<1>2. HCShape
  BY DEF HCInv
<1> QED
  BY <1>1, <1>2, AllAnswered, HCBegins

LEMMA HCInvConnect ==
  ASSUME HCInv, NEW page \in HcPages, HCConnect(page) PROVE HCInv'
<1>1. /\ hcStatus # "CONNECTED" /\ hcTry' = hcTry + 1 /\ hcPage' = Append(hcPage, page)
      /\ hcStatus' = "CONNECTING" /\ hcServer' = TRUE /\ hcLength' = 0 /\ hcIn' = << >>
      /\ hcAttached' = hcAttached /\ hcAnswers' = hcAnswers
  BY DEF HCConnect, MayConnect, Reset
<1>2. HCShape
  BY DEF HCInv
<1> QED
  BY <1>1, <1>2, AllAnswered, HCBegins

LEMMA HCInvConnected == ASSUME HCInv, HCConnected PROVE HCInv'
<1>1. /\ hcStatus = "CONNECTING" /\ hcStatus' = "CONNECTED"
      /\ hcAttached' = hcAttached \cup {hcTry}
      /\ hcLeft' = PageBytes(hcTry, hcPage[hcTry])
      /\ UNCHANGED <<hcTry, hcPage, hcServer, hcLength, hcFields, hcIn, hcAnswers>>
  BY DEF HCConnected, hcFetch, PageBytes
<1>2. /\ hcTry \in Nat /\ hcTry >= 1 /\ hcServer = TRUE /\ hcTry \notin hcAttached
      /\ hcIn = << >> /\ hcLength = 0 /\ hcTry \in 1..hcTry /\ IsResponse(hcPage[hcTry])
  BY <1>1 DEF HCInv, HCShape, HCFetching
<1>3. HCShape'
  BY <1>1, <1>2 DEF HCInv, HCShape
<1>4. Heading(hcTry, hcPage[hcTry], hcLength, hcIn, hcLeft')
  <2>1. PageBytes(hcTry, hcPage[hcTry]) \in Seq(HtByte)
    <3>1. hcTry \in Int
      BY <1>2
    <3> QED
      BY <1>2, <3>1, PageIs
  <2>2. << >> \o hcLeft' = hcLeft' /\ Len(hcIn) < 4 /\ hcIn \in Seq(HtByte)
    BY <1>1, <1>2, <2>1, ConcatEmptySeq
  <2> QED
    BY <1>1, <1>2, <2>1, <2>2 DEF Heading
<1>5. HCFetching'
  BY <1>1, <1>2, <1>4 DEF HCFetching, Receiving
<1>6. HCOnce'
  <2>1. ASSUME NEW t \in 1..hcTry
        PROVE  Count(t) = IF t \in hcAttached \cup {hcTry} /\ t # hcTry THEN 1 ELSE 0
    <3>1. Count(t) = IF t \in hcAttached THEN 1 ELSE 0
      BY <1>1 DEF HCInv, HCOnce
    <3> QED
      BY <1>2, <3>1
  <2> QED
    BY <1>1, <2>1 DEF HCOnce, Count
<1>7. HCBodyOK'
  BY <1>1 DEF HCInv, HCBodyOK
<1> QED
  BY <1>3, <1>5, <1>6, <1>7 DEF HCInv

LEMMA HCInvRefused == ASSUME HCInv, HCRefused PROVE HCInv'
<1>1. /\ hcStatus = "CONNECTING" /\ hcStatus' = "SYS_ERROR"
      /\ UNCHANGED <<hcTry, hcPage, hcAttached, hcAnswers>>
  BY DEF HCRefused
<1>2. HCShape' /\ HCBodyOK'
  BY <1>1 DEF HCInv, HCShape, HCBodyOK
<1>3. HCOnce'
  BY <1>1 DEF HCInv, HCOnce, Count
<1>4. HCFetching'
  BY <1>1 DEF HCFetching
<1> QED
  BY <1>2, <1>3, <1>4 DEF HCInv

LEMMA HCInvPeerEnds == ASSUME HCInv, HCPeerEnds PROVE HCInv'
<1>1. hcStatus = "CONNECTED" /\ EndWith(hcServer, hcAnswers)
  BY DEF HCPeerEnds
<1>2. hcServer = TRUE
  BY <1>1 DEF HCInv, HCFetching
<1> DEFINE a == Answer(-1, hcFields, << >>)
<1>3. a.try = hcTry /\ AnswerOK(a, hcPage)
  BY DEF Answer, AnswerOK
<1> HIDE DEF a
<1>4. /\ hcAnswers' = Append(hcAnswers, a) /\ hcStatus' = "DISCONNECT"
      /\ hcTry' = hcTry /\ hcPage' = hcPage /\ hcAttached' = hcAttached
  BY <1>1, <1>2 DEF EndWith, Detached, a
<1> QED
  BY <1>1, <1>3, <1>4, HCEnds

LEMMA HCInvPeerEndsRetry ==
  ASSUME HCInv, NEW page \in HcPages, HCPeerEndsRetry(page) PROVE HCInv'
<1> DEFINE a == Answer(-1, hcFields, << >>)
<1>1. a.try = hcTry /\ AnswerOK(a, hcPage)
  BY DEF Answer, AnswerOK
<1>2. /\ hcStatus = "CONNECTED" /\ hcTry' = hcTry + 1 /\ hcPage' = Append(hcPage, page)
      /\ hcStatus' = "CONNECTING" /\ hcServer' = TRUE /\ hcLength' = 0 /\ hcIn' = << >>
      /\ hcAttached' = hcAttached /\ hcAnswers' = Append(hcAnswers, a)
  BY DEF HCPeerEndsRetry, Reset, Detached
<1> HIDE DEF a
<1>3. /\ IsSequence(hcAnswers')
      /\ \A k \in DOMAIN hcAnswers' : hcAnswers'[k].try \in 1..hcTry /\ AnswerOK(hcAnswers'[k], hcPage)
      /\ \A t \in 1..hcTry : CountIn(hcAnswers', t) = IF t \in hcAttached THEN 1 ELSE 0
  BY <1>1, <1>2, AnswersAre
<1>4. HCShape
  BY DEF HCInv
<1> QED
  BY <1>2, <1>3, <1>4, HCBegins

\* The connection stays, and Process() has one of the parts of the response.
LEMMA HCWaits ==
  ASSUME HCInv, hcStatus = "CONNECTED", hcStatus' = "CONNECTED",
         UNCHANGED <<hcTry, hcPage, hcAttached, hcAnswers, hcServer>>,
         Receiving(hcTry, hcPage[hcTry], hcLength', hcFields', hcIn', hcLeft')
  PROVE  HCInv'
<1>1. HCShape'
  BY DEF HCInv, HCShape
<1>2. HCFetching'
  BY DEF HCInv, HCFetching
<1>3. HCOnce' /\ HCBodyOK'
  BY DEF HCInv, HCOnce, Count, HCBodyOK
<1> QED
  BY <1>1, <1>2, <1>3 DEF HCInv

\* The second part of Process(), with data of the body there and rest to come.
LEMMA HCBodyKeeps ==
  ASSUME HCInv, hcStatus = "CONNECTED",
         NEW data \in Seq(HtByte), NEW rest \in Seq(HtByte), NEW length, NEW fields,
         length = hcPage[hcTry].body, fields = Fields(hcPage[hcTry].head),
         data \o rest = BodyBytes(hcTry, hcPage[hcTry].body),
         HCBody(data, length, fields),
         hcLeft' = IF hcStatus' = "CONNECTED" THEN rest ELSE << >>
  PROVE  HCInv'
<1> DEFINE page == hcPage[hcTry]
<1>0. hcTry \in Int /\ page.body \in Nat
  BY DEF HCInv, HCShape, HCFetching, IsResponse
<1>1. /\ Len(BodyBytes(hcTry, page.body)) = page.body
      /\ Len(data \o rest) = Len(data) + Len(rest) /\ Len(data) \in Nat /\ Len(rest) \in Nat
  BY <1>0, BodyByte, StartsIs, LenProperties
<1>2. Len(data) + Len(rest) = length
  BY <1>1
<1>3. hcLength' = length /\ hcFields' = fields /\ hcIn' = data
  BY DEF HCBody
<1>4. CASE length # 0 /\ length = Len(data)
  <2> DEFINE a == Answer(200, fields, data)
  <2>1. data = BodyBytes(hcTry, page.body)
    <3>1. Len(rest) = 0
      BY <1>1, <1>2, <1>4
    <3>2. rest = << >>
      BY <3>1, EmptySeq
    <3> QED
      BY <3>2, ConcatEmptySeq
  <2>2. a.try = hcTry /\ AnswerOK(a, hcPage)
    BY <2>1 DEF Answer, AnswerOK
  <2> HIDE DEF a
  <2>3. EndWith(FALSE, Append(hcAnswers, a))
    BY <1>4 DEF HCBody, a
  <2>4. /\ hcAnswers' = Append(hcAnswers, a) /\ hcStatus' = "DISCONNECT"
        /\ hcTry' = hcTry /\ hcPage' = hcPage /\ hcAttached' = hcAttached
    BY <2>3 DEF EndWith, Detached
  <2> QED
    BY <2>2, <2>4, HCEnds
<1>5. CASE ~(length # 0 /\ length = Len(data))
  <2>1. UNCHANGED <<hcServer, hcAnswers, hcTry, hcPage, hcStatus, hcIo, hcAttached>>
    BY <1>5 DEF HCBody
  <2>2. hcLeft' = rest /\ hcStatus' = "CONNECTED"
    BY <2>1
  <2>3. CASE length = 0
    <3>1. Len(data) = 0 /\ Len(rest) = 0
      BY <1>1, <1>2, <2>3
    <3>2. data = << >> /\ rest = << >>
      BY <3>1, EmptySeq
    <3>3. Bodiless(page, hcLength', hcIn', hcLeft')
      BY <1>3, <2>2, <2>3, <3>2 DEF Bodiless
    <3> QED
      BY <2>1, <2>2, <3>3, HCWaits DEF Receiving
  <2>4. CASE length # 0
    <3>1. Bodying(hcTry, page, hcLength', hcFields', hcIn', hcLeft')
      BY <1>3, <1>5, <2>2, <2>4 DEF Bodying
    <3> QED
      BY <2>1, <2>2, <3>1, HCWaits DEF Receiving
  <2> QED
    BY <2>3, <2>4
<1> QED
  BY <1>4, <1>5

\* Process(), while the head is not known.
LEMMA HCInvHeading ==
  ASSUME HCInv, hcStatus = "CONNECTED", NEW n \in 1..Len(hcLeft), HCProcess(n),
         Heading(hcTry, hcPage[hcTry], hcLength, hcIn, hcLeft)
  PROVE  HCInv'
<1> DEFINE page == hcPage[hcTry]
           w == PageBytes(hcTry, page)
           b == hcIn \o SubSeq(hcLeft, 1, n)
           rest == After(hcLeft, n)
           L == Len(page.head)
<1>0. /\ hcTry \in Int /\ hcTry \in 1..hcTry /\ IsResponse(page) /\ hcLength = 0
      /\ hcServer = TRUE
      /\ hcIn \in Seq(HtByte) /\ hcLeft \in Seq(HtByte) /\ hcIn \o hcLeft = w
  BY DEF HCInv, HCShape, HCFetching, Heading
<1>1. /\ IsHead(page.head) /\ page.body \in Nat /\ MessageOf(hcTry, page.head, w)
      /\ SubSeq(w, 5 * L + 3, Len(w)) = BodyBytes(hcTry, page.body)
      /\ L \in Nat \ {0}
  <2>1. /\ IsHead(page.head) /\ page.body \in Nat /\ MessageOf(hcTry, page.head, w)
        /\ SubSeq(w, 5 * L + 3, Len(w)) = BodyBytes(hcTry, page.body)
    BY <1>0, PageIs
  <2> HIDE DEF w, page
  <2>2. L \in Nat \ {0}
    BY <2>1 DEF MessageOf
  <2> QED
    BY <2>1, <2>2
<1>2. b \in Seq(HtByte) /\ rest \in Seq(HtByte) /\ b \o rest = w /\ Len(b) \in Nat
  BY <1>0, Arrives, LenProperties
<1>3. hcLeft' = IF hcStatus' = "CONNECTED" THEN rest ELSE << >>
  BY DEF HCProcess
<1>4. IF StrStr(b) = 0 THEN HCNoHead(b) ELSE HCHead(b, StrStr(b))
  BY <1>0 DEF HCProcess
<1> HIDE DEF b, rest, w
<1>5. Starts(b, w)
  BY <1>2, StartsIs
<1>6. StrStr(b) = IF Len(b) >= 5 * L + 2 THEN 5 * L - 1 ELSE 0
  BY <1>1, <1>5, StrStrIs
<1>7. ASSUME NEW i \in 1..Len(b) PROVE b[i].k # NUL
  <2>1. i \in 1..Len(w) /\ b[i] = w[i]
    <3>1. Len(w) \in Nat
      BY <1>1, LenProperties DEF MessageOf
    <3> QED
      BY <1>2, <1>5, <3>1 DEF Starts
  <2> QED
    BY <1>1, <2>1, MessageBytesAre
<1>8. ~Cut(b)
  BY <1>2, <1>7, LenProperties DEF Cut
<1>9. CASE ~(Len(b) >= 5 * L + 2)
  <2>1. StrStr(b) = 0 /\ HCNoHead(b)
    BY <1>4, <1>6, <1>9
  <2>2. /\ UNCHANGED <<hcServer, hcLength, hcFields, hcAnswers, hcTry, hcPage, hcStatus, hcIo, hcAttached>>
        /\ hcIn' = IF Len(b) < 4 THEN b ELSE [b EXCEPT ![Len(b)].k = NUL]
    BY <1>8, <2>1 DEF HCNoHead, Untouched
  <2>3. hcStatus' = "CONNECTED" /\ hcLeft' = rest
    BY <1>3, <2>2
  <2>4. CASE Len(b) < 4
    <3>1. Heading(hcTry, page, hcLength', hcIn', hcLeft')
      BY <1>0, <1>2, <2>2, <2>3, <2>4 DEF Heading, w
    <3> QED
      BY <2>2, <2>3, <3>1, HCWaits DEF Receiving
  <2>5. CASE ~(Len(b) < 4)
    <3> DEFINE c == Len(b)
               x == [b[c] EXCEPT !.k = NUL]
               d == [b EXCEPT ![c] = x]
    <3>0. c \in 1..Len(b) /\ c \in Nat
      BY <1>2, <2>5
    <3>1. hcIn' = d
      BY <2>2, <2>5
    <3>2. x \in HtByte /\ x.k = NUL
      <4>1. b[c] \in HtByte
        BY <1>2, <3>0, ElementOfSeq
      <4> QED
        BY <4>1 DEF HtByte, NUL
    <3> HIDE DEF x
    <3>3. /\ d \in Seq(HtByte) /\ Len(d) = Len(b)
          /\ \A j \in 1..Len(b) : d[j] = IF j = c THEN x ELSE b[j]
      BY <1>2, <3>0, <3>2, ExceptSeq
    <3> HIDE DEF d
    <3>4. d[c].k = NUL
      BY <3>0, <3>2, <3>3
    <3>5. ASSUME NEW p \in 1..(c - 3)
          PROVE  ~(d[p].k = CR /\ d[p + 1].k = LF /\ d[p + 2].k = CR)
      <4>1. /\ p \in 1..Len(b) /\ p + 1 \in 1..Len(b) /\ p + 2 \in 1..Len(b)
            /\ p # c /\ p + 1 # c /\ p + 2 # c /\ p \in 1..(Len(b) - 3)
        BY <3>0
      <4>2. d[p] = b[p] /\ d[p + 1] = b[p + 1] /\ d[p + 2] = b[p + 2]
        BY <3>3, <4>1
      <4>3. p = 5 * L - 1 => Len(b) >= 5 * L + 2
        BY <1>1, <3>0
      <4>4. b[p].k = CR /\ b[p + 1].k = LF /\ b[p + 2].k = CR => p = 5 * L - 1
        BY <1>1, <1>5, <4>1, EndAt
      <4> QED
        BY <1>9, <4>2, <4>3, <4>4
    <3>6. Broken(hcLength', hcIn', hcLeft')
      <4>1. c \in 1..Len(d)
        BY <3>0, <3>3
      <4> QED
        BY <1>0, <1>2, <2>2, <2>3, <3>1, <3>3, <3>4, <3>5, <4>1 DEF Broken
    <3> QED
      BY <2>2, <2>3, <3>6, HCWaits DEF Receiving
  <2> QED
    BY <2>4, <2>5
<1>10. CASE Len(b) >= 5 * L + 2
  <2> DEFINE p == 5 * L - 1
             hash == Fields(page.head)
  <2>1. StrStr(b) = p /\ p # 0 /\ p + 3 = 5 * L + 2
    BY <1>1, <1>6, <1>10
  <2>2. HCHead(b, p)
    BY <1>4, <2>1
  <2>3. LinesBefore(b, p, PageHeads) = page.head
    <3>1. PageHeads[hcTry] = page.head
      <4>1. DOMAIN hcPage = 1..Len(hcPage) /\ Len(hcPage) = hcTry
        BY SequenceAppend DEF HCInv, HCShape
      <4> QED
        BY <1>0, <4>1 DEF PageHeads
    <3> QED
      BY <1>1, <1>5, <1>10, <3>1, LinesAre
  <2>4. IF ParseOk(page.head, TRUE) /\ "Content-Length" \in DOMAIN hash
        THEN HCBody(After(b, p + 3), hash["Content-Length"], hash)
        ELSE EndWith(hcServer, hcAnswers)
    BY <2>2, <2>3 DEF HCHead
  <2>5. CASE ParseOk(page.head, TRUE) /\ "Content-Length" \in DOMAIN hash
    <3> DEFINE data == After(b, 5 * L + 2)
    <3>1. hash["Content-Length"] = page.body
      BY <1>0, <2>5 DEF IsResponse
    <3>2. HCBody(data, page.body, hash)
      BY <2>1, <2>4, <2>5, <3>1
    <3>3. data \in Seq(HtByte) /\ data \o rest = BodyBytes(hcTry, page.body)
      <4>1. 5 * L + 2 \in Nat /\ 5 * L + 2 <= Len(b) /\ 5 * L + 2 + 1 = 5 * L + 3
        BY <1>1, <1>2, <1>10
      <4> DEFINE h == 5 * L + 2
      <4>2. data \in Seq(HtByte) /\ data \o rest = SubSeq(b \o rest, h + 1, Len(b \o rest))
        BY <1>2, <4>1, AfterHead
      <4>3. h + 1 = 5 * L + 3
        BY <4>1
      <4> HIDE DEF h, data
      <4> QED
        BY <1>1, <1>2, <4>2, <4>3
    <3> HIDE DEF data, hash
    <3> QED
      BY <1>2, <1>3, <3>2, <3>3, HCBodyKeeps DEF hash
  <2>6. CASE ~(ParseOk(page.head, TRUE) /\ "Content-Length" \in DOMAIN hash)
    <3> DEFINE a == Answer(-1, hcFields, << >>)
    <3>1. EndWith(hcServer, hcAnswers)
      BY <2>4, <2>6
    <3>2. a.try = hcTry /\ AnswerOK(a, hcPage)
      BY DEF Answer, AnswerOK
    <3> HIDE DEF a
    <3>3. /\ hcAnswers' = Append(hcAnswers, a) /\ hcStatus' = "DISCONNECT"
          /\ hcTry' = hcTry /\ hcPage' = hcPage /\ hcAttached' = hcAttached
      BY <1>0, <3>1 DEF EndWith, Detached, a
    <3> QED
      BY <3>2, <3>3, HCEnds
  <2> QED
    BY <2>5, <2>6
<1> QED
  BY <1>9, <1>10

\* Process(), after a byte of the head was overwritten.
LEMMA HCInvBroken ==
  ASSUME HCInv, hcStatus = "CONNECTED", NEW n \in 1..Len(hcLeft), HCProcess(n),
         Broken(hcLength, hcIn, hcLeft)
  PROVE  HCInv'
<1> DEFINE b == hcIn \o SubSeq(hcLeft, 1, n)
           rest == After(hcLeft, n)
<1>0. hcLength = 0 /\ hcIn \in Seq(HtByte) /\ hcLeft \in Seq(HtByte)
  BY DEF Broken
<1>1. /\ b \in Seq(HtByte) /\ rest \in Seq(HtByte) /\ Len(b) = Len(hcIn) + n
      /\ \A i \in 1..Len(hcIn) : b[i] = hcIn[i]
      /\ Len(b) \in Nat /\ Len(hcIn) \in Nat /\ DOMAIN b = 1..Len(b)
  BY <1>0, Arrives, LenProperties
<1>2. hcLeft' = IF hcStatus' = "CONNECTED" THEN rest ELSE << >>
  BY DEF HCProcess
<1>3. IF StrStr(b) = 0 THEN HCNoHead(b) ELSE HCHead(b, StrStr(b))
  BY <1>0 DEF HCProcess
<1> HIDE DEF b, rest
<1>4. PICK c \in 1..Len(hcIn) :
        /\ hcIn[c].k = NUL
        /\ \A p \in 1..(c - 3) : ~(hcIn[p].k = CR /\ hcIn[p + 1].k = LF /\ hcIn[p + 2].k = CR)
  BY DEF Broken
<1>5. c \in 1..Len(b) /\ b[c].k = NUL
  BY <1>1, <1>4
<1>6. ASSUME NEW p \in 1..(c - 3)
      PROVE  ~(b[p].k = CR /\ b[p + 1].k = LF /\ b[p + 2].k = CR)
  <2>1. p \in 1..Len(hcIn) /\ p + 1 \in 1..Len(hcIn) /\ p + 2 \in 1..Len(hcIn)
    BY <1>1
  <2>2. b[p] = hcIn[p] /\ b[p + 1] = hcIn[p + 1] /\ b[p + 2] = hcIn[p + 2]
    BY <1>1, <2>1
  <2> QED
    BY <1>4, <2>2
<1>7. StrStr(b) = 0
  <2> DEFINE at == {p \in 1..(Len(b) - 3) :
                      /\ b[p].k = CR /\ b[p + 1].k = LF /\ b[p + 2].k = CR
                      /\ \A q \in 1..p : b[q].k # NUL}
  <2>1. ASSUME NEW p \in at PROVE FALSE
    <3>1. /\ p \in 1..(Len(b) - 3)
          /\ b[p].k = CR /\ b[p + 1].k = LF /\ b[p + 2].k = CR
          /\ \A q \in 1..p : b[q].k # NUL
      OBVIOUS
    <3>2. ~(c \in 1..p)
      BY <1>5, <3>1
    <3>3. p < c /\ p \in 1..Len(b) /\ c \in Nat
      BY <1>1, <1>5, <3>1, <3>2
    <3>4. c # p + 1 /\ c # p + 2
      BY <1>5, <3>1 DEF NUL, LF, CR
    <3>5. p \in 1..(c - 3)
      BY <3>3, <3>4
    <3> QED
      BY <1>6, <3>1, <3>5
  <2>2. at = {}
    BY <2>1
  <2>3. StrStr(b) = IF at = {} THEN 0 ELSE Min(at)
    BY DEF StrStr
  <2> HIDE DEF at
  <2> QED
    BY <2>2, <2>3
<1>8. Cut(b)
  BY <1>1, <1>5 DEF Cut
<1>9. /\ UNCHANGED <<hcServer, hcLength, hcFields, hcAnswers, hcTry, hcPage, hcStatus, hcIo, hcAttached>>
      /\ hcIn' = b
  BY <1>3, <1>7, <1>8 DEF HCNoHead, Untouched
<1>10. hcStatus' = "CONNECTED" /\ hcLeft' = rest
  BY <1>2, <1>9
<1>11. Broken(hcLength', hcIn', hcLeft')
  BY <1>0, <1>1, <1>5, <1>6, <1>9, <1>10 DEF Broken
<1> QED
  BY <1>9, <1>10, <1>11, HCWaits DEF Receiving

LEMMA HCInvProcess ==
  ASSUME HCInv, NEW n \in 1..Len(hcLeft), HCProcess(n) PROVE HCInv'
<1> DEFINE page == hcPage[hcTry]
<1>1. hcStatus = "CONNECTED"
  BY DEF HCProcess
<1>2. Receiving(hcTry, page, hcLength, hcFields, hcIn, hcLeft)
  BY <1>1 DEF HCInv, HCFetching
<1>3. CASE Bodying(hcTry, page, hcLength, hcFields, hcIn, hcLeft)
  <2> DEFINE b == hcIn \o SubSeq(hcLeft, 1, n)
             rest == After(hcLeft, n)
  <2>1. /\ hcLength # 0 /\ hcLength = page.body /\ hcFields = Fields(page.head)
        /\ hcIn \in Seq(HtByte) /\ hcLeft \in Seq(HtByte)
        /\ hcIn \o hcLeft = BodyBytes(hcTry, page.body)
    BY <1>3 DEF Bodying
  <2>2. b \in Seq(HtByte) /\ rest \in Seq(HtByte) /\ b \o rest = hcIn \o hcLeft
    BY <2>1, Arrives
  <2>3. HCBody(b, hcLength, hcFields) /\ hcLeft' = IF hcStatus' = "CONNECTED" THEN rest ELSE << >>
    BY <2>1 DEF HCProcess
  <2> HIDE DEF b, rest
  <2> QED
    BY <1>1, <2>1, <2>2, <2>3, HCBodyKeeps
<1>4. CASE Bodiless(page, hcLength, hcIn, hcLeft)
  <2>1. hcLeft = << >>
    BY <1>4 DEF Bodiless
  <2>2. 1..Len(hcLeft) = {}
    BY <2>1
  <2> QED
    BY <2>2
<1> QED
  BY <1>1, <1>2, <1>3, <1>4, HCInvHeading, HCInvBroken DEF Receiving

LEMMA HCInvInit == HCInit => HCInv
<1> SUFFICES ASSUME HCInit PROVE HCInv
  OBVIOUS
<1>1. /\ hcTry = 0 /\ hcPage = << >> /\ hcStatus = "DISCONNECT"
      /\ hcAttached = {} /\ hcAnswers = << >>
  BY DEF HCInit
<1>2. 1..0 = {} /\ Len(<< >>) = 0 /\ DOMAIN << >> = {}
  OBVIOUS
<1>3. IsSequence(<< >>)
  <2>1. << >> = [k \in 1..Len(<< >>) |-> << >>[k]]
    OBVIOUS
  <2> QED
    BY <1>2, <2>1 DEF IsSequence
<1>4. HCShape
  BY <1>1, <1>2, <1>3 DEF HCShape
<1>5. HCFetching
  BY <1>1 DEF HCFetching
<1>6. HCOnce /\ HCBodyOK
  BY <1>1, <1>2 DEF HCOnce, HCBodyOK
<1> QED
  BY <1>4, <1>5, <1>6 DEF HCInv

\* Each fetch that gets a connection is answered once, with its own page or
\* with -1, and as soon as the page is there, for every set of pages whose
\* Content-Length is true and every number of fetches.
THEOREM FetchAnswered == HCSpec => []HCCorrect
<1>1. HCInit => HCInv
  BY HCInvInit
<1>2. HCInv /\ [HCNext]_hcVars => HCInv'
  <2>1. ASSUME HCInv, UNCHANGED hcVars PROVE HCInv'
    <3>1. UNCHANGED <<hcTry, hcPage, hcStatus, hcServer, hcLength, hcFields, hcLeft, hcIn,
                      hcAttached, hcAnswers>>
      BY <2>1 DEF hcVars, hcFetch
    <3> QED
      BY <2>1, <3>1 DEF HCInv, HCShape, HCFetching, HCOnce, Count, HCBodyOK
  <2> QED
    BY <2>1, HCInvConnectBadUrl, HCInvConnectFails, HCInvConnect, HCInvConnected, HCInvRefused,
       HCInvPeerEnds, HCInvPeerEndsRetry, HCInvProcess DEF HCNext
<1>3. HCInv => HCCorrect
  BY AnsweredFrom DEF HCInv, HCCorrect
<1> QED
  BY <1>1, <1>2, <1>3, PTL DEF HCSpec

-----------------------------------------------------------------------------
(* HTTPProtocol, the server *)

\* s is the requests g + 1 to a, one after the other; request k ends at e[k].
Requests(s, msgs, g, a, e) ==
    /\ s \in Seq(HtByte)
    /\ e \in [g..a -> Nat] /\ e[g] = 0 /\ e[a] = Len(s)
    /\ \A j, k \in g..a : j <= k => e[j] <= e[k]
    /\ \A k \in (g + 1)..a :
         /\ IsHead(msgs[k])
         /\ e[k] = e[k - 1] + Len(HeadBytes(k, msgs[k]))
         /\ \A i \in 1..Len(HeadBytes(k, msgs[k])) :
              s[e[k - 1] + i] = HeadBytes(k, msgs[k])[i]

LEMMA HeadLength ==
  ASSUME NEW m \in Int, NEW head, IsHead(head)
  PROVE  /\ HeadBytes(m, head) \in Seq(HtByte)
         /\ Len(HeadBytes(m, head)) \in Nat /\ Len(HeadBytes(m, head)) >= 7
         /\ Len(HeadBytes(m, head)) = 5 * Len(head) + 2 /\ Len(head) \in Nat \ {0}
<1>1. MessageOf(m, head, HeadBytes(m, head)) /\ Len(HeadBytes(m, head)) = 5 * Len(head) + 2
  BY HeadIs
<1> DEFINE h == HeadBytes(m, head)
<1> HIDE DEF h
<1>2. h \in Seq(HtByte) /\ Len(head) \in Nat \ {0} /\ Len(h) = 5 * Len(head) + 2
  BY <1>1 DEF MessageOf, h
<1>3. Len(h) \in Nat /\ Len(h) >= 7
  BY <1>2
<1> QED
  BY <1>2, <1>3 DEF h

\* The peer sends the next request.
LEMMA RequestsAppend ==
  ASSUME NEW s, NEW msgs, NEW g \in Nat, NEW a \in Nat, g <= a, NEW e,
         Requests(s, msgs, g, a, e), IsHead(msgs[a + 1])
  PROVE  \E f : Requests(s \o HeadBytes(a + 1, msgs[a + 1]), msgs, g, a + 1, f)
<1> DEFINE h == HeadBytes(a + 1, msgs[a + 1])
           t == s \o h
           f == [k \in g..(a + 1) |-> IF k = a + 1 THEN Len(s) + Len(h) ELSE e[k]]
<1>1. h \in Seq(HtByte) /\ Len(h) \in Nat
  <2>1. a + 1 \in Int
    OBVIOUS
  <2> QED
    BY <2>1, HeadLength
<1>2. /\ s \in Seq(HtByte) /\ Len(s) \in Nat
      /\ e \in [g..a -> Nat] /\ e[g] = 0 /\ e[a] = Len(s)
      /\ \A j, k \in g..a : j <= k => e[j] <= e[k]
      /\ \A k \in (g + 1)..a :
           /\ IsHead(msgs[k])
           /\ e[k] = e[k - 1] + Len(HeadBytes(k, msgs[k]))
           /\ \A i \in 1..Len(HeadBytes(k, msgs[k])) :
                s[e[k - 1] + i] = HeadBytes(k, msgs[k])[i]
  BY LenProperties DEF Requests
<1>h. h = HeadBytes(a + 1, msgs[a + 1])
  OBVIOUS
<1> HIDE DEF h
<1>3. /\ t \in Seq(HtByte) /\ Len(t) = Len(s) + Len(h)
      /\ \A i \in 1..Len(s) : t[i] = s[i]
      /\ \A i \in 1..Len(h) : t[Len(s) + i] = h[i]
  <2>1. t \in Seq(HtByte)
    BY <1>1, <1>2, ConcatProperties
  <2>2. Starts(s, t) /\ Len(t) = Len(s) + Len(h) /\ \A i \in 1..Len(h) : t[Len(s) + i] = h[i]
    BY <1>1, <1>2, StartsIs
  <2> QED
    BY <2>1, <2>2 DEF Starts
<1> HIDE DEF t
<1>4. \A k \in g..a : k \in g..(a + 1) /\ k # a + 1 /\ f[k] = e[k] /\ e[k] \in Nat
  BY <1>2
<1>5. a + 1 \in g..(a + 1) /\ f[a + 1] = Len(s) + Len(h) /\ g \in g..a /\ a \in g..a
  OBVIOUS
<1>6. f \in [g..(a + 1) -> Nat]
  <2>1. \A k \in g..(a + 1) : k = a + 1 \/ k \in g..a
    OBVIOUS
  <2>2. \A k \in g..(a + 1) : f[k] \in Nat
    <3> TAKE k \in g..(a + 1)
    <3>1. CASE k = a + 1
      BY <1>1, <1>2, <3>1
    <3>2. CASE k \in g..a
      BY <1>4, <3>2
    <3> QED
      BY <2>1, <3>1, <3>2
  <2> QED
    BY <2>2
<1> HIDE DEF f
<1>7. ASSUME NEW j \in g..(a + 1), NEW k \in g..(a + 1), j <= k PROVE f[j] <= f[k]
  <2>1. CASE k = a + 1
    <3>1. CASE j = a + 1
      BY <1>1, <1>2, <1>5, <2>1, <3>1
    <3>2. CASE j # a + 1
      <4>1. j \in g..a /\ j <= a
        BY <3>2
      <4>2. f[j] = e[j] /\ e[j] <= e[a] /\ e[j] \in Nat
        BY <1>2, <1>4, <1>5, <4>1
      <4> QED
        BY <1>1, <1>2, <1>5, <2>1, <4>2
    <3> QED
      BY <3>1, <3>2
  <2>2. CASE k # a + 1
    <3>1. k \in g..a /\ j \in g..a
      BY <1>7, <2>2
    <3> QED
      BY <1>2, <1>4, <1>7, <3>1
  <2> QED
    BY <2>1, <2>2
<1>8. ASSUME NEW k \in (g + 1)..(a + 1)
      PROVE  /\ IsHead(msgs[k])
             /\ f[k] = f[k - 1] + Len(HeadBytes(k, msgs[k]))
             /\ \A i \in 1..Len(HeadBytes(k, msgs[k])) :
                  t[f[k - 1] + i] = HeadBytes(k, msgs[k])[i]
  <2>1. CASE k = a + 1
    <3>1. f[k] = Len(s) + Len(h) /\ f[k - 1] = Len(s) /\ HeadBytes(k, msgs[k]) = h
      <4>1. k - 1 = a
        BY <2>1
      <4> QED
        BY <1>2, <1>4, <1>5, <1>h, <2>1, <4>1
    <3>2. HeadBytes(k, msgs[k]) = h /\ IsHead(msgs[k])
      BY <2>1, <3>1
    <3>3. f[k] = f[k - 1] + Len(h) /\ \A i \in 1..Len(h) : t[f[k - 1] + i] = h[i]
      BY <1>3, <3>1
    <3> QED
      BY <3>2, <3>3
  <2>2. CASE k # a + 1
    <3>1. k \in (g + 1)..a /\ k \in g..a /\ k - 1 \in g..a /\ k <= a
      BY <2>2
    <3>2. f[k] = e[k] /\ f[k - 1] = e[k - 1] /\ e[k] <= Len(s) /\ e[k] \in Nat /\ e[k - 1] \in Nat
      BY <1>2, <1>4, <1>5, <3>1
    <3> DEFINE n == Len(HeadBytes(k, msgs[k]))
    <3>n. n \in Nat /\ IsHead(msgs[k])
      <4>1. k \in Int /\ IsHead(msgs[k])
        BY <1>2, <3>1
      <4> QED
        BY <4>1, HeadLength
    <3>3. e[k] = e[k - 1] + n /\ \A i \in 1..n : s[e[k - 1] + i] = HeadBytes(k, msgs[k])[i]
      BY <1>2, <3>1
    <3> HIDE DEF n
    <3>4. ASSUME NEW i \in 1..n PROVE t[f[k - 1] + i] = HeadBytes(k, msgs[k])[i]
      <4>1. i <= n /\ i >= 1 /\ i \in Int
        BY <3>n
      <4>2. e[k - 1] + i \in 1..Len(s)
        <5>1. PICK u : u = e[k - 1]
          OBVIOUS
        <5>2. PICK v : v = e[k]
          OBVIOUS
        <5>3. v = u + n /\ u \in Nat /\ n \in Nat /\ v <= Len(s) /\ Len(s) \in Nat
          BY <1>2, <3>2, <3>n, <3>3, <5>1, <5>2
        <5>4. u + i \in 1..Len(s)
          BY <4>1, <5>3
        <5> QED
          BY <5>1, <5>4
      <4>3. t[e[k - 1] + i] = s[e[k - 1] + i]
        BY <1>3, <4>2
      <4> QED
        BY <3>2, <3>3, <4>3
    <3> QED
      BY <3>2, <3>3, <3>4, <3>n DEF n
  <2> QED
    BY <2>1, <2>2
<1>9. f[g] = 0 /\ f[a + 1] = Len(t)
  BY <1>2, <1>3, <1>4, <1>5
<1>10. Requests(t, msgs, g, a + 1, f)
  BY <1>3, <1>6, <1>7, <1>8, <1>9 DEF Requests
<1> QED
  BY <1>10 DEF t, h

\* The first of them, and what follows it.
LEMMA RequestsFirst ==
  ASSUME NEW s, NEW msgs, NEW g \in Nat, NEW a \in Nat, g < a, NEW e,
         Requests(s, msgs, g, a, e), IsHead(msgs[g + 1])
  PROVE  /\ Len(HeadBytes(g + 1, msgs[g + 1])) <= Len(s)
         /\ \A i \in 1..Len(HeadBytes(g + 1, msgs[g + 1])) : s[i] = HeadBytes(g + 1, msgs[g + 1])[i]
         /\ \E f : Requests(After(s, Len(HeadBytes(g + 1, msgs[g + 1]))), msgs, g + 1, a, f)
<1> DEFINE h == HeadBytes(g + 1, msgs[g + 1])
           c == Len(h)
           t == After(s, c)
           f == [k \in (g + 1)..a |-> e[k] - c]
<1>1. c \in Nat
  <2>1. g + 1 \in Int
    OBVIOUS
  <2> QED
    BY <2>1, HeadLength
<1>2. /\ s \in Seq(HtByte) /\ Len(s) \in Nat
      /\ e \in [g..a -> Nat] /\ e[g] = 0 /\ e[a] = Len(s)
      /\ \A j, k \in g..a : j <= k => e[j] <= e[k]
      /\ \A k \in (g + 1)..a :
           /\ IsHead(msgs[k])
           /\ e[k] = e[k - 1] + Len(HeadBytes(k, msgs[k]))
           /\ \A i \in 1..Len(HeadBytes(k, msgs[k])) :
                s[e[k - 1] + i] = HeadBytes(k, msgs[k])[i]
  BY LenProperties DEF Requests
<1>3. g + 1 \in (g + 1)..a /\ g + 1 \in g..a /\ a \in g..a /\ g + 1 <= a /\ g + 1 - 1 = g
  OBVIOUS
<1>4. e[g + 1] = c /\ c <= Len(s) /\ \A i \in 1..c : s[i] = h[i]
  <2>1. e[g + 1] = e[g] + c /\ \A i \in 1..c : s[e[g] + i] = h[i]
    <3>1. PICK k : k = g + 1
      OBVIOUS
    <3>2. /\ e[k] = e[k - 1] + Len(HeadBytes(k, msgs[k]))
          /\ \A i \in 1..Len(HeadBytes(k, msgs[k])) :
               s[e[k - 1] + i] = HeadBytes(k, msgs[k])[i]
      BY <1>2, <1>3, <3>1
    <3>3. k - 1 = g
      BY <3>1
    <3> QED
      BY <3>1, <3>2, <3>3, Zenon
  <2> HIDE DEF c, h
  <2>2. e[g + 1] = c
    BY <1>1, <1>2, <2>1
  <2>3. c <= Len(s)
    <3>1. e[g + 1] <= e[a]
      BY <1>2, <1>3
    <3> QED
      BY <1>2, <2>2, <3>1
  <2>4. \A i \in 1..c : 0 + i = i
    BY <1>1
  <2> QED
    BY <1>2, <2>1, <2>2, <2>3, <2>4
<1>c. c = Len(h) /\ h = HeadBytes(g + 1, msgs[g + 1])
  OBVIOUS
<1> HIDE DEF c, h
<1>5. /\ t \in Seq(HtByte) /\ Len(t) = Len(s) - c
      /\ \A i \in 1..(Len(s) - c) : t[i] = s[c + i]
  <2>1. \A i \in (c + 1)..Len(s) : s[i] \in HtByte
    <3> TAKE i \in (c + 1)..Len(s)
    <3>1. i \in 1..Len(s)
      BY <1>1, <1>2
    <3> QED
      BY <1>2, <3>1, ElementOfSeq
  <2>2. c + 1 \in Int /\ Len(s) \in Int
    BY <1>1, <1>2
  <2>3. t = SubSeq(s, c + 1, Len(s))
    BY DEF After
  <2> HIDE DEF t
  <2>4. /\ t \in Seq(HtByte)
        /\ Len(t) = IF c + 1 <= Len(s) THEN Len(s) - (c + 1) + 1 ELSE 0
        /\ \A i \in 1..(Len(s) - (c + 1) + 1) : t[i] = s[c + 1 + i - 1]
    BY <2>1, <2>2, <2>3, SubSeqProperties
  <2>5. Len(s) - (c + 1) + 1 = Len(s) - c /\ (~(c + 1 <= Len(s)) => Len(s) - c = 0)
    BY <1>1, <1>2, <1>4
  <2>6. \A i \in 1..(Len(s) - c) : c + 1 + i - 1 = c + i
    BY <1>1, <1>2
  <2> QED
    BY <2>4, <2>5, <2>6
<1> HIDE DEF t
<1>6. \A k \in (g + 1)..a : k \in g..a /\ e[k] \in Nat /\ c <= e[k] /\ e[k] <= Len(s) /\ f[k] = e[k] - c
  <2> TAKE k \in (g + 1)..a
  <2>1. k \in g..a /\ g + 1 <= k /\ k <= a
    OBVIOUS
  <2>2. e[k] \in Nat /\ e[g + 1] <= e[k] /\ e[k] <= e[a]
    BY <1>2, <1>3, <2>1
  <2> QED
    BY <1>2, <1>4, <2>1, <2>2
<1>7. f \in [(g + 1)..a -> Nat]
  <2>1. \A k \in (g + 1)..a : e[k] - c \in Nat
    BY <1>1, <1>6
  <2> QED
    BY <2>1
<1> HIDE DEF f
<1>8. ASSUME NEW j \in (g + 1)..a, NEW k \in (g + 1)..a, j <= k PROVE f[j] <= f[k]
  <2>1. e[j] <= e[k] /\ e[j] \in Nat /\ e[k] \in Nat /\ f[j] = e[j] - c /\ f[k] = e[k] - c
    BY <1>2, <1>6, <1>8
  <2> QED
    BY <1>1, <2>1
<1>9. ASSUME NEW k \in (g + 1 + 1)..a
      PROVE  /\ IsHead(msgs[k])
             /\ f[k] = f[k - 1] + Len(HeadBytes(k, msgs[k]))
             /\ \A i \in 1..Len(HeadBytes(k, msgs[k])) :
                  t[f[k - 1] + i] = HeadBytes(k, msgs[k])[i]
  <2> DEFINE n == Len(HeadBytes(k, msgs[k]))
  <2>1. k \in (g + 1)..a /\ k - 1 \in (g + 1)..a
    OBVIOUS
  <2>2. /\ f[k] = e[k] - c /\ f[k - 1] = e[k - 1] - c
        /\ e[k] \in Nat /\ e[k - 1] \in Nat /\ c <= e[k - 1] /\ e[k] <= Len(s)
    BY <1>6, <2>1
  <2>3. e[k] = e[k - 1] + n /\ \A i \in 1..n : s[e[k - 1] + i] = HeadBytes(k, msgs[k])[i]
    BY <1>2, <2>1
  <2> HIDE DEF n
  <2>4. n \in Int /\ f[k] = f[k - 1] + n /\ IsHead(msgs[k])
    <3>1. n = e[k] - e[k - 1] /\ IsHead(msgs[k])
      <4>1. IsHead(msgs[k])
        BY <1>2, <2>1
      <4>2. n \in Nat
        <5>1. k \in Int /\ IsHead(msgs[k])
          BY <1>2, <2>1
        <5> QED
          BY <5>1, HeadLength DEF n
      <4>3. e[k] = e[k - 1] + n
        BY <2>3
      <4> QED
        BY <2>2, <4>1, <4>2, <4>3
    <3>2. PICK u : u = e[k - 1]
      OBVIOUS
    <3>3. PICK v : v = e[k]
      OBVIOUS
    <3>4. n = v - u /\ u \in Nat /\ v \in Nat /\ f[k] = v - c /\ f[k - 1] = u - c
      BY <2>2, <3>1, <3>2, <3>3
    <3>5. n \in Int /\ v - c = u - c + n
      BY <1>1, <3>4
    <3> QED
      BY <3>1, <3>4, <3>5
  <2>5. ASSUME NEW i \in 1..n PROVE t[f[k - 1] + i] = HeadBytes(k, msgs[k])[i]
    <3>1. PICK p : p = f[k - 1] + i
      OBVIOUS
    <3>2. p \in Int /\ p >= 1 /\ p <= Len(s) - c /\ c + p = e[k - 1] + i
      <4>1. i \in 1..n /\ n \in Int /\ e[k] = e[k - 1] + n
        BY <2>3, <2>4
      <4>2. /\ i \in Int /\ i >= 1 /\ i <= n /\ e[k - 1] \in Int /\ e[k] <= Len(s)
            /\ c <= e[k - 1] /\ c \in Int /\ Len(s) \in Int /\ p = e[k - 1] - c + i
        BY <1>1, <1>2, <2>2, <3>1, <4>1
      <4>3. PICK u : u = e[k - 1]
        OBVIOUS
      <4>4. PICK v : v = e[k]
        OBVIOUS
      <4>5. /\ v = u + n /\ n \in Int /\ u \in Int /\ v <= Len(s) /\ c <= u /\ p = u - c + i
            /\ i \in Int /\ i >= 1 /\ i <= n /\ c \in Int /\ Len(s) \in Int
        BY <4>1, <4>2, <4>3, <4>4
      <4>6. p \in Int /\ p >= 1 /\ p <= Len(s) - c /\ c + p = u + i
        BY <4>5
      <4> QED
        BY <4>3, <4>6
    <3>3. t[p] = s[c + p]
      <4>1. p \in 1..(Len(s) - c)
        BY <1>1, <1>2, <3>2
      <4> QED
        BY <1>5, <4>1
    <3> QED
      BY <2>3, <3>1, <3>2, <3>3
  <2> QED
    BY <2>4, <2>5 DEF n
<1>10. f[g + 1] = 0 /\ f[a] = Len(t)
  <2>1. g + 1 \in (g + 1)..a /\ a \in (g + 1)..a
    OBVIOUS
  <2>2. f[g + 1] = e[g + 1] - c /\ f[a] = e[a] - c
    BY <1>6, <2>1
  <2> QED
    BY <1>1, <1>2, <1>4, <1>5, <2>2
<1>11. Requests(t, msgs, g + 1, a, f)
  BY <1>5, <1>7, <1>8, <1>9, <1>10 DEF Requests
<1> QED
  BY <1>4, <1>11 DEF c, h, t

\* A set of numbers has a least one.
LEMMA LeastNumber ==
  ASSUME NEW T \in SUBSET Nat, T # {}
  PROVE  \E n \in T : \A i \in T : n <= i
<1> DEFINE R == OpToRel(<, Nat)
<1>1. IsWellFoundedOn(R, Nat)
  BY NatLessThanWellFounded
<1>2. \A x, y \in Nat : x < y => <<x, y>> \in R
  BY DEF OpToRel
<1> HIDE DEF R
<1>3. PICK n \in T : \A y \in T : ~(<<y, n>> \in R)
  BY <1>1, WFMin
<1>4. ASSUME NEW i \in T PROVE n <= i
  <2>1. n \in Nat /\ i \in Nat /\ ~(i < n)
    BY <1>2, <1>3, <1>4
  <2> QED
    BY <2>1
<1> QED
  BY <1>4

\* rstrstr() finds something as soon as a CR has three bytes behind it.
LEMMA RStrStrFinds ==
  ASSUME NEW b, Len(b) \in Nat, NEW p \in 1..(Len(b) - 3), b[p].k = CR
  PROVE  RStrStr(b) # 0
<1> DEFINE n == Len(b)
           at == {q \in 1..(n - 3) : b[q].k = CR}
           T == {n - q : q \in at}
<1>1. p \in at /\ at # {}
  OBVIOUS
<1>2. RStrStr(b) = IF at = {} THEN 0 ELSE Max(at)
  BY DEF RStrStr
<1>3. \A q \in at : q \in Int /\ q >= 1 /\ q <= n
  OBVIOUS
<1> HIDE DEF at, n
<1>4. n \in Nat
  BY DEF n
<1>5. T \in SUBSET Nat /\ T # {}
  BY <1>1, <1>3, <1>4
<1>6. PICK d \in T : \A i \in T : d <= i
  BY <1>5, LeastNumber
<1>7. PICK q \in at : d = n - q
  OBVIOUS
<1>8. \A r \in at : q >= r
  <2> TAKE r \in at
  <2>1. n - q <= n - r
    BY <1>6, <1>7
  <2> QED
    BY <1>3, <1>4, <2>1
<1>9. Max(at) \in at
  BY <1>8 DEF Max
<1> QED
  BY <1>1, <1>2, <1>3, <1>9

\* In a whole request that is the end of its last line.
LEMMA RStrStrIs ==
  ASSUME NEW m \in Int, NEW head, IsHead(head)
  PROVE  RStrStr(HeadBytes(m, head)) = 5 * Len(head) - 1
<1> DEFINE h == HeadBytes(m, head)
           n == Len(head)
           e == 5 * n - 1
           at == {q \in 1..(Len(h) - 3) : h[q].k = CR}
<1>1. MessageOf(m, head, h) /\ Len(h) = 5 * n + 2 /\ n \in Nat \ {0}
  BY HeadIs, HeadLength
<1>2. RStrStr(h) = IF at = {} THEN 0 ELSE Max(at)
  BY DEF RStrStr
<1> HIDE DEF h, n
<1>3. e \in 1..(Len(h) - 3) /\ 5 * (n - 1) + 4 = e /\ n \in 1..n /\ 4 \in 1..5
  BY <1>1
<1>4. h[5 * (n - 1) + 4] = [m |-> m, l |-> n, k |-> 4]
  BY <1>1, <1>3 DEF MessageOf, n
<1>5. h[e].k = CR
  BY <1>3, <1>4 DEF CR
<1>6. e \in at /\ \A q \in at : q <= e
  BY <1>1, <1>3, <1>5
<1> HIDE DEF at
<1>7. \A q \in at : e >= q
  BY <1>6
<1>8. \A q \in at : q \in Int
  BY DEF at
<1>9. e \in Int
  BY <1>1
<1> HIDE DEF e
<1>10. Max(at) = e
  <2>1. Max(at) \in at /\ \A q \in at : Max(at) >= q
    BY <1>6, <1>7 DEF Max
  <2>2. Max(at) >= e /\ Max(at) <= e /\ Max(at) \in Int
    BY <1>6, <1>8, <2>1
  <2> QED
    BY <1>9, <2>2
<1> QED
  BY <1>2, <1>6, <1>10 DEF e, h, n

\* A buffer in which it finds nothing is too short for a request.
LEMMA RStrStrShort ==
  ASSUME NEW m \in Int, NEW head, IsHead(head), NEW b, Len(b) \in Nat,
         Len(b) >= 4 => b[4] = HeadBytes(m, head)[4], RStrStr(b) = 0
  PROVE  Len(b) < Len(HeadBytes(m, head))
<1> DEFINE h == HeadBytes(m, head)
<1>1. MessageOf(m, head, h) /\ Len(h) >= 7 /\ Len(h) \in Nat /\ Len(head) \in Nat \ {0}
  BY HeadIs, HeadLength
<1>2. h[4].k = CR
  <2>1. 1 \in 1..Len(head) /\ 4 \in 1..5 /\ 5 * (1 - 1) + 4 = 4
    BY <1>1
  <2>2. h[5 * (1 - 1) + 4] = [m |-> m, l |-> 1, k |-> 4]
    BY <1>1, <2>1 DEF MessageOf
  <2> HIDE DEF h
  <2> QED
    BY <2>1, <2>2 DEF CR
<1> HIDE DEF h
<1>3. ASSUME Len(b) >= 7 PROVE FALSE
  <2>1. 4 \in 1..(Len(b) - 3) /\ b[4].k = CR
    BY <1>2, <1>3 DEF h
  <2> QED
    BY <2>1, RStrStrFinds
<1> QED
  BY <1>1, <1>3 DEF h

LEMMA RStrStrEmpty == RStrStr(<< >>) = 0
<1>1. 1..(Len(<< >>) - 3) = {}
  OBVIOUS
<1> QED
  BY <1>1 DEF RStrStr

-----------------------------------------------------------------------------
(* HTTPProtocol, both sides *)

HTShape ==
    /\ htMode \in {"server", "client"} /\ IsSequence(htMsgs)
    /\ \A k \in 1..Len(htMsgs) :
         IF htMode = "server" THEN IsHead(htMsgs[k]) ELSE IsResponse(htMsgs[k])
    /\ htAsked \in Nat /\ htAsked <= Len(htMsgs)
    /\ IsSequence(htGot)

\* The buffer and what has not arrived are the requests not handled yet.
HTServing ==
    htMode = "server" /\ htClean =>
        /\ \A k \in DOMAIN htGot : k \in DOMAIN htMsgs /\ htGot[k] = Fields(htMsgs[k])
        /\ htOpen =>
             /\ Len(htGot) <= htAsked /\ RStrStr(htIn) = 0
             /\ htIn \in Seq(HtByte) /\ htLeft \in Seq(HtByte)
             /\ \E e : Requests(htIn \o htLeft, htMsgs, Len(htGot), htAsked, e)

\* Response m is on its way: its head is not known, or some of its body is
\* missing.
HeadAwaited(m, page, length, in, left) ==
    /\ length = -1 /\ in \in Seq(HtByte) /\ left \in Seq(HtByte)
    /\ in \o left = PageBytes(m, page) /\ Len(in) < 5 * Len(page.head) + 2

BodyAwaited(m, page, length, in, left) ==
    /\ length # -1 /\ length = page.body /\ in \in Seq(HtByte) /\ left \in Seq(HtByte)
    /\ in \o left = BodyBytes(m, page.body) /\ Len(in) < length

HTIdle == htAsked = Len(htGot) /\ htIn = << >> /\ htLeft = << >>

HTAwaiting ==
    /\ htAsked = Len(htGot) + 1
    /\ \/ HeadAwaited(htAsked, htMsgs[htAsked], htLength, htIn, htLeft)
       \/ BodyAwaited(htAsked, htMsgs[htAsked], htLength, htIn, htLeft)

HTResponding ==
    htMode = "client" =>
        /\ \A k \in DOMAIN htGot : htGot[k] = BodyBytes(k, htMsgs[k].body)
        /\ Len(htGot) <= htAsked
        /\ htOpen => HTIdle \/ HTAwaiting

HTInv == HTShape /\ HTServing /\ HTResponding

LEMMA HTInvInit == HtAssumption /\ HTInit => HTInv
<1> SUFFICES ASSUME HtAssumption, HTInit PROVE HTInv
  OBVIOUS
<1>1. /\ htAsked = 0 /\ htLeft = << >> /\ htIn = << >> /\ htGot = << >>
      /\ htMode \in {"server", "client"}
      /\ htMode = "server" => htMsgs \in HtRequests
      /\ htMode = "client" => htMsgs \in HtResponses
  BY DEF HTInit
<1>2. Len(<< >>) = 0 /\ DOMAIN << >> = {} /\ IsSequence(<< >>)
  <2>1. Len(<< >>) = 0 /\ DOMAIN << >> = {} /\ << >> = [k \in 1..Len(<< >>) |-> << >>[k]]
    OBVIOUS
  <2> QED
    BY <2>1 DEF IsSequence
<1>3. HTShape
  <2>1. /\ IsSequence(htMsgs)
        /\ \A k \in DOMAIN htMsgs :
             IF htMode = "server" THEN IsHead(htMsgs[k]) ELSE IsResponse(htMsgs[k])
    BY <1>1 DEF HtAssumption
  <2>2. Len(htMsgs) \in Nat /\ DOMAIN htMsgs = 1..Len(htMsgs)
    BY <2>1, SequenceAppend DEF IsSequence
  <2>3. 0 \in Nat /\ 0 <= Len(htMsgs)
    BY <2>2
  <2> QED
    BY <1>1, <1>2, <2>1, <2>2, <2>3 DEF HTShape
<1>4. HTServing
  <2> DEFINE e == [k \in 0..0 |-> 0]
  <2>1. << >> \o << >> = << >> /\ << >> \in Seq(HtByte)
    OBVIOUS
  <2>2. /\ e \in [0..0 -> Nat] /\ e[0] = 0
        /\ \A j, k \in 0..0 : j <= k => e[j] <= e[k]
        /\ (0 + 1)..0 = {}
    OBVIOUS
  <2> HIDE DEF e
  <2>3. Requests(<< >>, htMsgs, 0, 0, e)
    BY <1>2, <2>1, <2>2 DEF Requests
  <2>4. 0 <= 0
    OBVIOUS
  <2> QED
    BY <1>1, <1>2, <2>1, <2>3, <2>4, RStrStrEmpty DEF HTServing
<1>5. HTResponding
  BY <1>1, <1>2 DEF HTResponding, HTIdle
<1> QED
  BY <1>3, <1>4, <1>5 DEF HTInv

LEMMA HTInvPeerSends == ASSUME HTInv, HTPeerSends PROVE HTInv'
<1> DEFINE a == htAsked
           g == Len(htGot)
           h == HeadBytes(a + 1, htMsgs[a + 1])
<1>1. /\ htMode = "server" /\ htOpen /\ a < Len(htMsgs) /\ htAsked' = a + 1
      /\ htLeft' = htLeft \o h
      /\ UNCHANGED <<htMode, htMsgs, htIn, htOpen, htFields, htLength, htGot, htClean>>
  BY DEF HTPeerSends, MessageBytes
<1>2. /\ HTShape /\ HTServing /\ a \in Nat /\ IsSequence(htGot) /\ g \in Nat /\ Len(htMsgs) \in Nat
      /\ \A k \in 1..Len(htMsgs) : IsHead(htMsgs[k])
  BY <1>1 DEF HTInv, HTShape, IsSequence
<1>3. HTShape'
  <2>1. a + 1 \in Nat /\ a + 1 <= Len(htMsgs)
    BY <1>1, <1>2
  <2> QED
    BY <1>1, <1>2, <2>1 DEF HTShape
<1>4. IsHead(htMsgs[a + 1]) /\ h \in Seq(HtByte)
  <2>1. a + 1 \in 1..Len(htMsgs) /\ a + 1 \in Int
    BY <1>1, <1>2
  <2> QED
    BY <1>2, <2>1, HeadLength
<1> HIDE DEF h
<1>5. ASSUME htClean PROVE HTServing'
  <2>1. /\ \A k \in DOMAIN htGot : k \in DOMAIN htMsgs /\ htGot[k] = Fields(htMsgs[k])
        /\ g <= a /\ RStrStr(htIn) = 0 /\ htIn \in Seq(HtByte) /\ htLeft \in Seq(HtByte)
        /\ \E e : Requests(htIn \o htLeft, htMsgs, g, a, e)
    BY <1>1, <1>2, <1>5 DEF HTServing
  <2>2. PICK e : Requests(htIn \o htLeft, htMsgs, g, a, e)
    BY <2>1
  <2> HIDE DEF a, g
  <2>3. \E f : Requests((htIn \o htLeft) \o h, htMsgs, g, a + 1, f)
    BY <1>2, <1>4, <2>1, <2>2, RequestsAppend DEF h
  <2>4. (htIn \o htLeft) \o h = htIn \o (htLeft \o h)
    BY <1>4, <2>1, BytesRegroup
  <2>5. \E f : Requests(htIn' \o htLeft', htMsgs', g, htAsked', f)
    BY <1>1, <2>3, <2>4
  <2>6. htLeft \o h \in Seq(HtByte)
    BY <1>4, <2>1, ConcatProperties
  <2>7. g <= htAsked'
    BY <1>1, <1>2, <2>1
  <2> QED
    BY <1>1, <2>1, <2>5, <2>6, <2>7 DEF HTServing, g
<1>6. ~htClean => HTServing'
  BY <1>1 DEF HTServing
<1>7. HTResponding'
  BY <1>1 DEF HTResponding
<1> QED
  BY <1>3, <1>5, <1>6, <1>7 DEF HTInv

\* A chunk that holds exactly request g + 1.
LEMMA WholeRequest ==
  ASSUME NEW s \in Seq(HtByte), NEW b \in Seq(HtByte), NEW r \in Seq(HtByte), s = b \o r,
         Len(b) >= 1, NEW msgs, NEW g \in Nat, NEW a \in Nat, g <= a,
         NEW e, Requests(s, msgs, g, a, e),
         \A k \in (g + 1)..a : IsHead(msgs[k]), b = HeadBytes(b[1].m, msgs[b[1].m])
  PROVE  /\ g < a /\ IsHead(msgs[g + 1]) /\ b = HeadBytes(g + 1, msgs[g + 1])
         /\ \E f : Requests(r, msgs, g + 1, a, f)
<1>1. Len(b) \in Nat /\ Len(r) \in Nat /\ Len(s) = Len(b) + Len(r) /\ Starts(b, s)
  BY LenProperties, StartsIs
<1>2. g < a
  <2>1. ASSUME g = a PROVE FALSE
    <3>1. Len(s) = 0
      BY <2>1 DEF Requests
    <3> QED
      BY <1>1, <3>1
  <2> QED
    BY <2>1
<1>3. IsHead(msgs[g + 1]) /\ g + 1 \in Int
  BY <1>2
<1> DEFINE h == HeadBytes(g + 1, msgs[g + 1])
<1>4. /\ Len(h) <= Len(s) /\ \A i \in 1..Len(h) : s[i] = h[i]
      /\ \E f : Requests(After(s, Len(h)), msgs, g + 1, a, f)
  <2>1. g \in Nat /\ a \in Nat /\ Requests(s, msgs, g, a, e)
    OBVIOUS
  <2> QED
    BY ONLY <1>2, <1>3, <2>1, RequestsFirst
<1>5. h[1] = [m |-> g + 1, l |-> 1, k |-> 1] /\ Len(h) >= 7 /\ Len(h) \in Nat
  <2>1. MessageOf(g + 1, msgs[g + 1], h) /\ Len(h) >= 7 /\ Len(h) \in Nat /\ Len(msgs[g + 1]) \in Nat \ {0}
    BY <1>3, HeadIs, HeadLength
  <2> HIDE DEF h
  <2>2. 1 \in 1..Len(msgs[g + 1]) /\ 1 \in 1..5 /\ 5 * (1 - 1) + 1 = 1
    BY <2>1
  <2>3. h[5 * (1 - 1) + 1] = [m |-> g + 1, l |-> 1, k |-> 1]
    BY <2>1, <2>2 DEF MessageOf
  <2> QED
    BY <2>1, <2>2, <2>3
<1> HIDE DEF h
<1>6. b[1] = h[1]
  <2>1. 1 \in 1..Len(b) /\ 1 \in 1..Len(h)
    BY <1>1, <1>5
  <2> QED
    BY <1>1, <1>4, <2>1 DEF Starts
<1>7. b[1].m = g + 1
  BY <1>5, <1>6
<1>8. b = h
  BY <1>7 DEF h
<1>9. After(s, Len(b)) = r
  <2>1. After(b, Len(b)) \o r = SubSeq(s, Len(b) + 1, Len(s)) /\ After(b, Len(b)) \in Seq(HtByte)
    <3>1. Len(b) <= Len(b)
      BY <1>1
    <3> QED
      BY <1>1, <3>1, AfterHead
  <2>2. After(b, Len(b)) = << >>
    BY <1>1 DEF After
  <2>3. << >> \o r = r
    BY ConcatEmptySeq
  <2> QED
    BY <2>1, <2>2, <2>3 DEF After
<1> QED
  BY <1>2, <1>3, <1>4, <1>8, <1>9 DEF h

LEMMA HTInvRequest ==
  ASSUME HTInv, NEW n \in 1..Len(htLeft), NEW ok \in BOOLEAN, HTArriveRequest(n, ok)
  PROVE  HTInv'
<1> DEFINE b == htIn \o SubSeq(htLeft, 1, n)
           rest == After(htLeft, n)
           g == Len(htGot)
           a == htAsked
<1>1. /\ htMode = "server" /\ htOpen
      /\ HTRequest(b, ok)
      /\ htClean' = (htClean /\ CleanChunk(b))
      /\ htLeft' = rest
      /\ UNCHANGED <<htMode, htMsgs, htAsked, htLength>>
  BY DEF HTArriveRequest
<1>2. /\ HTShape /\ HTServing /\ a \in Nat /\ a <= Len(htMsgs) /\ IsSequence(htGot) /\ g \in Nat
      /\ Len(htMsgs) \in Nat /\ \A k \in 1..Len(htMsgs) : IsHead(htMsgs[k])
      /\ DOMAIN htMsgs = 1..Len(htMsgs)
  <2>1. HTShape /\ HTServing
    BY DEF HTInv
  <2>2. IsSequence(htMsgs) /\ IsSequence(htGot)
    BY <2>1 DEF HTShape
  <2>3. Len(htMsgs) \in Nat /\ g \in Nat
    BY <2>2 DEF IsSequence
  <2>4. DOMAIN htMsgs = 1..Len(htMsgs)
    BY <2>2, SequenceAppend
  <2> QED
    BY <1>1, <2>1, <2>2, <2>3, <2>4 DEF HTShape
<1> HIDE DEF b, rest, a
<1> DEFINE p == RStrStr(b)
           lines == LinesBefore(b, p, Heads)
<1>3. /\ p = 0 => htIn' = b /\ UNCHANGED <<htGot, htOpen>>
      /\ p # 0 => /\ htGot' = IF ParseOk(lines, FALSE) THEN Append(htGot, Fields(lines)) ELSE htGot
                  /\ htIn' = After(b, p + 3)
                  /\ htOpen' => ParseOk(lines, FALSE)
  BY <1>1 DEF HTRequest
<1> HIDE DEF p, lines
<1>4. IsSequence(htGot')
  <2>1. IsSequence(Append(htGot, Fields(lines)))
    BY <1>2, SequenceAppend
  <2> QED
    BY <1>2, <1>3, <2>1
<1>5. HTShape'
  BY <1>1, <1>2, <1>4 DEF HTShape
<1>6. HTResponding'
  BY <1>1 DEF HTResponding
<1>7. ASSUME htClean' PROVE HTServing'
  <2>1. htClean /\ CleanChunk(b)
    BY <1>1, <1>7
  <2>2. /\ \A k \in DOMAIN htGot : k \in DOMAIN htMsgs /\ htGot[k] = Fields(htMsgs[k])
        /\ g <= a /\ htIn \in Seq(HtByte) /\ htLeft \in Seq(HtByte)
        /\ \E e : Requests(htIn \o htLeft, htMsgs, g, a, e)
    BY <1>1, <1>2, <2>1 DEF HTServing, a
  <2>3. /\ b \in Seq(HtByte) /\ rest \in Seq(HtByte) /\ b \o rest = htIn \o htLeft
        /\ Len(b) >= 1 /\ Len(b) \in Nat
    <3>1. /\ b \in Seq(HtByte) /\ rest \in Seq(HtByte) /\ b \o rest = htIn \o htLeft
          /\ Len(b) = Len(htIn) + n /\ Len(htIn) \in Nat /\ Len(htLeft) \in Nat
      BY <2>2, Arrives, LenProperties DEF b, rest
    <3> QED
      BY <3>1
  <2>4. PICK e : Requests(b \o rest, htMsgs, g, a, e)
    BY <2>2, <2>3
  <2>5. CASE p = 0
    <3>1. htIn' = b /\ htGot' = htGot /\ htOpen'
      BY <1>1, <1>3, <2>5
    <3>2. Requests(htIn' \o htLeft', htMsgs', g, htAsked', e)
      BY <1>1, <2>4, <3>1 DEF a
    <3>3. g <= htAsked' /\ RStrStr(htIn') = 0 /\ htIn' \in Seq(HtByte) /\ htLeft' \in Seq(HtByte)
      BY <1>1, <2>2, <2>3, <2>5, <3>1 DEF a, p
    <3> QED
      BY <1>1, <2>2, <3>1, <3>2, <3>3 DEF HTServing
  <2>6. CASE p # 0
    <3> DEFINE head == htMsgs[g + 1]
    <3>1. b = HeadBytes(b[1].m, htMsgs[b[1].m])
      BY <2>1, <2>6 DEF CleanChunk, MessageBytes, p
    <3>2. \A k \in (g + 1)..a : IsHead(htMsgs[k])
      <4>1. \A k \in (g + 1)..a : k \in 1..Len(htMsgs)
        BY <1>2
      <4> QED
        BY <1>2, <4>1
    <3> HIDE DEF g
    <3>3. /\ g < a /\ IsHead(head) /\ b = HeadBytes(g + 1, head)
          /\ \E f : Requests(rest, htMsgs, g + 1, a, f)
      <4> DEFINE s == b \o rest
      <4>1. s \in Seq(HtByte) /\ s = b \o rest
        BY <2>3, ConcatProperties
      <4>2. Requests(s, htMsgs, g, a, e)
        BY <2>4
      <4>3. g \in Nat /\ a \in Nat /\ g <= a
        BY <1>2, <2>2 DEF g
      <4> HIDE DEF s, head
      <4>4. /\ g < a /\ IsHead(htMsgs[g + 1]) /\ b = HeadBytes(g + 1, htMsgs[g + 1])
            /\ \E f : Requests(rest, htMsgs, g + 1, a, f)
        BY <2>3, <3>1, <3>2, <4>1, <4>2, <4>3, WholeRequest
      <4> QED
        BY <4>4 DEF head
    <3>4. g \in Nat /\ g + 1 \in 1..Len(htMsgs) /\ g + 1 \in Int /\ g + 1 <= a
      BY <1>2, <3>3 DEF g
    <3>5. /\ MessageOf(g + 1, head, b) /\ Len(b) = 5 * Len(head) + 2 /\ Len(head) \in Nat \ {0}
          /\ p = 5 * Len(head) - 1
      <4> HIDE DEF head
      <4>1. /\ MessageOf(g + 1, head, b) /\ Len(b) = 5 * Len(head) + 2
            /\ RStrStr(b) = 5 * Len(head) - 1
        BY <3>3, <3>4, HeadIs, RStrStrIs
      <4> QED
        BY <3>3, <3>4, <4>1, HeadLength DEF p
    <3>6. Heads[g + 1] = head
      BY <1>1, <1>2, <3>4 DEF Heads
    <3> HIDE DEF head
    <3>7. lines = head
      <4>1. Starts(b, b)
        BY <2>3 DEF Starts
      <4>2. Len(b) >= 5 * Len(head) + 2
        BY <2>3, <3>5
      <4>3. LinesBefore(b, 5 * Len(head) - 1, Heads) = head
        BY <3>3, <3>5, <3>6, <4>1, <4>2, LinesAre
      <4> QED
        BY <3>5, <4>3 DEF lines
    <3>8. htIn' = << >>
      <4>1. p + 3 = Len(b)
        BY <3>5
      <4> QED
        BY <1>3, <2>3, <2>6, <4>1 DEF After
    <3>9. CASE ParseOk(head, FALSE)
      <4> DEFINE got == Append(htGot, Fields(head))
      <4>1. htGot' = got
        BY <1>3, <2>6, <3>7, <3>9
      <4>2. /\ Len(got) = g + 1 /\ DOMAIN htGot = 1..g /\ DOMAIN got = 1..(g + 1)
            /\ got[g + 1] = Fields(head) /\ \A k \in 1..g : got[k] = htGot[k]
        BY <1>2, SequenceAppend DEF g
      <4> HIDE DEF got
      <4>3. ASSUME NEW k \in DOMAIN got PROVE k \in DOMAIN htMsgs /\ got[k] = Fields(htMsgs[k])
        <5>1. k \in 1..g \/ k = g + 1
          BY <3>4, <4>2
        <5>2. CASE k \in 1..g
          BY <2>2, <4>2, <5>2
        <5>3. CASE k = g + 1
          BY <1>2, <3>4, <4>2, <5>3 DEF head
        <5> QED
          BY <5>1, <5>2, <5>3
      <4>4. \E f : Requests(htIn' \o htLeft', htMsgs', Len(htGot'), htAsked', f)
        <5>1. << >> \o rest = rest
          BY <2>3, ConcatEmptySeq
        <5> QED
          BY <1>1, <3>3, <3>8, <4>1, <4>2, <5>1 DEF a
      <4>5. /\ Len(htGot') <= htAsked' /\ RStrStr(htIn') = 0
            /\ htIn' \in Seq(HtByte) /\ htLeft' \in Seq(HtByte)
        <5>1. << >> \in Seq(HtByte)
          OBVIOUS
        <5> QED
          BY <1>1, <2>3, <3>4, <3>8, <4>1, <4>2, <5>1, RStrStrEmpty DEF a
      <4> QED
        BY <1>1, <4>1, <4>3, <4>4, <4>5 DEF HTServing
    <3>10. CASE ~ParseOk(head, FALSE)
      <4>1. htGot' = htGot /\ ~htOpen'
        BY <1>3, <2>6, <3>7, <3>10
      <4> QED
        BY <1>1, <2>2, <4>1 DEF HTServing
    <3> QED
      BY <3>9, <3>10
  <2> QED
    BY <2>5, <2>6
<1>8. ~htClean' => HTServing'
  BY DEF HTServing
<1> QED
  BY <1>5, <1>6, <1>7, <1>8 DEF HTInv

LEMMA HTInvGet == ASSUME HTInv, HTGet PROVE HTInv'
<1> DEFINE a == htAsked
           page == htMsgs[a + 1]
<1>1. /\ htMode = "client" /\ htOpen /\ a = Len(htGot) /\ a < Len(htMsgs)
      /\ htAsked' = a + 1 /\ htLength' = -1 /\ htLeft' = htLeft \o PageBytes(a + 1, page)
      /\ UNCHANGED <<htMode, htMsgs, htIn, htOpen, htGot, htClean>>
  BY DEF HTGet, ParseUrl, MessageBytes, PageBytes
<1>2. /\ HTShape /\ HTResponding /\ a \in Nat /\ Len(htMsgs) \in Nat /\ Len(htGot) \in Nat
      /\ \A k \in 1..Len(htMsgs) : IsResponse(htMsgs[k])
  BY <1>1 DEF HTInv, HTShape, IsSequence
<1>3. HTShape'
  <2>1. a + 1 \in Nat /\ a + 1 <= Len(htMsgs)
    BY <1>1, <1>2
  <2> QED
    BY <1>1, <1>2, <2>1 DEF HTShape
<1>4. HTServing'
  BY <1>1 DEF HTServing
<1>5. /\ IsHead(page.head) /\ page.body \in Nat /\ PageBytes(a + 1, page) \in Seq(HtByte)
      /\ Len(page.head) \in Nat \ {0}
  <2>1. a + 1 \in 1..Len(htMsgs) /\ a + 1 \in Int
    BY <1>1, <1>2
  <2>2. IsResponse(page)
    BY <1>2, <2>1
  <2> HIDE DEF page
  <2>3. IsHead(page.head) /\ page.body \in Nat /\ PageBytes(a + 1, page) \in Seq(HtByte)
    BY <2>1, <2>2, PageIs
  <2>4. Len(page.head) \in Nat \ {0}
    BY <2>1, <2>3, HeadLength
  <2> QED
    BY <2>3, <2>4
<1>6. htIn = << >> /\ htLeft = << >>
  <2>1. HTIdle \/ HTAwaiting
    BY <1>1, <1>2 DEF HTResponding
  <2>2. ~HTAwaiting
    BY <1>1, <1>2 DEF HTAwaiting
  <2> QED
    BY <2>1, <2>2 DEF HTIdle
<1> HIDE DEF page
<1>7. HeadAwaited(a + 1, page, -1, << >>, PageBytes(a + 1, page))
  <2>1. << >> \in Seq(HtByte) /\ Len(<< >>) = 0 /\ << >> \o PageBytes(a + 1, page) = PageBytes(a + 1, page)
    BY <1>5, ConcatEmptySeq
  <2>2. 0 < 5 * Len(page.head) + 2
    BY <1>5
  <2> QED
    BY <1>5, <2>1, <2>2 DEF HeadAwaited
<1>8. htLeft' = PageBytes(a + 1, page) /\ htIn' = << >>
  BY <1>1, <1>5, <1>6, ConcatEmptySeq
<1>9. HTAwaiting'
  BY <1>1, <1>7, <1>8 DEF HTAwaiting, page
<1>10. HTResponding'
  <2>1. Len(htGot) <= a + 1
    BY <1>1, <1>2
  <2> QED
    BY <1>1, <1>2, <1>9, <2>1 DEF HTResponding
<1> QED
  BY <1>3, <1>4, <1>10 DEF HTInv

\* The second part of HandlerProtocolRespond, given the body so far.
LEMMA HTBodyKeeps ==
  ASSUME HTInv, htMode = "client", htOpen, htAsked = Len(htGot) + 1,
         NEW ok \in BOOLEAN, NEW data \in Seq(HtByte), NEW rest \in Seq(HtByte),
         data \o rest = BodyBytes(htAsked, htMsgs[htAsked].body),
         HTBody(data, htMsgs[htAsked].body, ok),
         htLeft' = rest, UNCHANGED <<htMode, htMsgs, htAsked, htClean>>
  PROVE  HTInv'
<1> DEFINE length == htMsgs[htAsked].body
           body == BodyBytes(htAsked, length)
<1>1. /\ HTShape /\ htAsked \in Nat /\ length \in Nat /\ IsSequence(htGot) /\ Len(htGot) \in Nat
      /\ \A k \in DOMAIN htGot : htGot[k] = BodyBytes(k, htMsgs[k].body)
  <2>1. HTShape /\ HTResponding /\ htAsked \in Nat /\ IsSequence(htGot)
    BY DEF HTInv, HTShape
  <2>2. Len(htGot) \in Nat
    BY <2>1 DEF IsSequence
  <2>3. htAsked \in 1..Len(htMsgs)
    <3>1. Len(htMsgs) \in Nat
      BY <2>1 DEF HTShape, IsSequence
    <3> QED
      BY <2>1, <2>2, <3>1 DEF HTShape
  <2>4. IsResponse(htMsgs[htAsked])
    BY <2>1, <2>3 DEF HTShape
  <2> QED
    BY <2>1, <2>2, <2>4 DEF HTResponding, IsResponse
<1>2. body \in Seq(HtByte) /\ Len(body) = length /\ data \o rest = body
  <2>1. data \o rest = body
    OBVIOUS
  <2>2. htAsked \in Int /\ length \in Nat
    BY <1>1
  <2> HIDE DEF length
  <2>3. BodyBytes(htAsked, length) \in Seq(HtByte) /\ Len(BodyBytes(htAsked, length)) = length
    BY <2>2, BodyByte
  <2> QED
    BY <2>1, <2>3
<1>3. Len(data) \in Nat /\ Len(rest) \in Nat /\ Len(data) + Len(rest) = length
  <2>1. Len(data) \in Nat /\ Len(rest) \in Nat
    BY LenProperties
  <2>2. Len(data \o rest) = Len(data) + Len(rest)
    BY StartsIs
  <2> QED
    BY <1>2, <2>1, <2>2
<1>4. htLength' = length
  BY DEF HTBody
<1> HIDE DEF length
<1>5. CASE length = 0
  <2>1. ~htOpen' /\ htGot' = htGot
    <3>1. htMsgs[htAsked].body = 0
      BY <1>5 DEF length
    <3>2. HTBody(data, 0, ok)
      BY <3>1
    <3>3. htOpen' = FALSE /\ UNCHANGED <<htIn, htGot>>
      BY ONLY <3>2 DEF HTBody
    <3> QED
      BY <3>3
  <2>2. HTShape'
    BY <1>1, <2>1 DEF HTShape
  <2>3. HTServing' /\ HTResponding'
    BY <1>1, <2>1 DEF HTServing, HTResponding, HTInv
  <2> QED
    BY <2>2, <2>3 DEF HTInv
<1>6. CASE length # 0 /\ length > Len(data)
  <2>1. htIn' = data /\ htOpen' = htOpen /\ htGot' = htGot
    BY <1>6 DEF HTBody, length
  <2>2. HTShape'
    BY <1>1, <2>1 DEF HTShape
  <2>3. BodyAwaited(htAsked, htMsgs[htAsked], length, data, rest)
    <3>1. length # -1 /\ Len(data) < length
      BY <1>1, <1>3, <1>6
    <3> QED
      BY <1>2, <3>1 DEF BodyAwaited, length
  <2>4. HTAwaiting'
    BY <1>4, <2>1, <2>3 DEF HTAwaiting
  <2>5. Len(htGot) <= htAsked
    BY <1>1
  <2>6. HTServing' /\ HTResponding'
    BY <1>1, <2>1, <2>4, <2>5 DEF HTServing, HTResponding
  <2> QED
    BY <2>2, <2>6 DEF HTInv
<1>7. CASE length # 0 /\ ~(length > Len(data))
  <2> DEFINE got == Append(htGot, body)
             g == Len(htGot)
  <2>1. Len(data) = length /\ Len(rest) = 0 /\ rest = << >>
    <3>1. Len(data) = length /\ Len(rest) = 0
      BY <1>1, <1>3, <1>7
    <3> QED
      BY <3>1, EmptySeq
  <2>2. data = body /\ SubSeq(data, 1, length) = body
    <3>1. data = body
      BY <1>2, <2>1, ConcatEmptySeq
    <3>2. SubSeq(data, 1, Len(data)) = data
      BY <1>3
    <3> QED
      BY <2>1, <3>1, <3>2
  <2>3. htGot' = Append(htGot, SubSeq(data, 1, length)) /\ htIn' = << >> /\ htOpen' = ok
    BY <1>7 DEF HTBody, length
  <2>4. htGot' = got
    BY <2>2, <2>3
  <2> HIDE DEF body
  <2>5. /\ IsSequence(got) /\ Len(got) = g + 1 /\ DOMAIN htGot = 1..g /\ DOMAIN got = 1..(g + 1)
        /\ got[g + 1] = body /\ \A k \in 1..g : got[k] = htGot[k]
    BY <1>1, SequenceAppend
  <2> HIDE DEF got
  <2>6. HTShape'
    BY <1>1, <2>4, <2>5 DEF HTShape
  <2>7. ASSUME NEW k \in DOMAIN got PROVE got[k] = BodyBytes(k, htMsgs[k].body)
    <3>1. k \in 1..g \/ k = g + 1
      BY <1>1, <2>5
    <3>2. CASE k \in 1..g
      BY <1>1, <2>5, <3>2
    <3>3. CASE k = g + 1
      BY <2>5, <3>3 DEF body, length
    <3> QED
      BY <3>1, <3>2, <3>3
  <2>8. HTIdle'
    BY <2>1, <2>3, <2>4, <2>5 DEF HTIdle
  <2>9. Len(got) <= htAsked
    BY <1>1, <2>5
  <2>10. HTServing' /\ HTResponding'
    BY <2>4, <2>7, <2>8, <2>9 DEF HTServing, HTResponding
  <2> QED
    BY <2>6, <2>10 DEF HTInv
<1> QED
  BY <1>5, <1>6, <1>7

LEMMA HTInvRespond ==
  ASSUME HTInv, NEW n \in 1..Len(htLeft), NEW ok \in BOOLEAN, HTArriveRespond(n, ok)
  PROVE  HTInv'
<1> DEFINE b == htIn \o SubSeq(htLeft, 1, n)
           rest == After(htLeft, n)
           page == htMsgs[htAsked]
<1>1. /\ htMode = "client" /\ htOpen /\ HTRespond(b, ok) /\ htLeft' = rest
      /\ UNCHANGED <<htMode, htMsgs, htAsked, htClean>>
  BY DEF HTArriveRespond
<1>2. HTAwaiting /\ htAsked = Len(htGot) + 1
  <2>1. HTIdle \/ HTAwaiting
    BY <1>1 DEF HTInv, HTResponding
  <2>2. ~HTIdle
    <3>1. htLeft = << >> => 1..Len(htLeft) = {}
      OBVIOUS
    <3> QED
      BY <3>1 DEF HTIdle
  <2> QED
    BY <2>1, <2>2 DEF HTAwaiting
<1>3. /\ htAsked \in Int /\ htAsked \in 1..Len(htMsgs) /\ IsResponse(page)
      /\ IsSequence(htMsgs) /\ DOMAIN htMsgs = 1..Len(htMsgs) /\ HTShape /\ HTResponding
      /\ Len(htGot) \in Nat
  <2>1. HTShape /\ HTResponding
    BY DEF HTInv
  <2>2. IsSequence(htMsgs) /\ IsSequence(htGot) /\ htAsked \in Nat /\ htAsked <= Len(htMsgs)
    BY <2>1 DEF HTShape
  <2>3. Len(htMsgs) \in Nat /\ Len(htGot) \in Nat /\ DOMAIN htMsgs = 1..Len(htMsgs)
    BY <2>2, SequenceAppend DEF IsSequence
  <2>4. htAsked \in 1..Len(htMsgs)
    BY <1>2, <2>2, <2>3
  <2> QED
    BY <1>1, <2>1, <2>2, <2>3, <2>4 DEF HTShape
<1> HIDE DEF page
<1>4. CASE BodyAwaited(htAsked, page, htLength, htIn, htLeft)
  <2>1. /\ htLength # -1 /\ htLength = page.body
        /\ htIn \in Seq(HtByte) /\ htLeft \in Seq(HtByte)
        /\ htIn \o htLeft = BodyBytes(htAsked, page.body)
    BY <1>4 DEF BodyAwaited
  <2>2. b \in Seq(HtByte) /\ rest \in Seq(HtByte) /\ b \o rest = BodyBytes(htAsked, page.body)
    BY <2>1, Arrives
  <2>3. HTBody(b, page.body, ok)
    BY <1>1, <2>1 DEF HTRespond
  <2> HIDE DEF b, rest
  <2> QED
    BY <1>1, <1>2, <2>2, <2>3, HTBodyKeeps DEF page
<1>5. CASE HeadAwaited(htAsked, page, htLength, htIn, htLeft)
  <2> DEFINE w == PageBytes(htAsked, page)
             L == Len(page.head)
             hash == Fields(page.head)
  <2>1. /\ htLength = -1 /\ htIn \in Seq(HtByte) /\ htLeft \in Seq(HtByte) /\ htIn \o htLeft = w
    BY <1>5 DEF HeadAwaited
  <2>2. b \in Seq(HtByte) /\ rest \in Seq(HtByte) /\ b \o rest = w
    BY <2>1, Arrives
  <2>3. /\ IsHead(page.head) /\ page.body \in Nat /\ MessageOf(htAsked, page.head, w)
        /\ SubSeq(w, 5 * L + 3, Len(w)) = BodyBytes(htAsked, page.body)
    BY <1>3, PageIs
  <2> HIDE DEF b, rest, w
  <2>4. L \in Nat \ {0} /\ Len(b) \in Nat /\ Starts(b, w)
    BY <2>2, <2>3, StartsIs, LenProperties DEF MessageOf
  <2>5. StrStr(b) = IF Len(b) >= 5 * L + 2 THEN 5 * L - 1 ELSE 0
    BY <2>3, <2>4, StrStrIs
  <2>6. CASE ~(Len(b) >= 5 * L + 2)
    <3>1. StrStr(b) = 0
      BY <2>5, <2>6
    <3>2. htIn' = b /\ UNCHANGED <<htFields, htOpen, htGot, htLength>>
      BY <1>1, <2>1, <3>1 DEF HTRespond
    <3>3. HeadAwaited(htAsked, page, -1, b, rest)
      <4>1. Len(b) < 5 * L + 2
        BY <2>4, <2>6
      <4> QED
        BY <2>2, <4>1 DEF HeadAwaited, w
    <3>4. HTAwaiting'
      BY <1>1, <1>2, <2>1, <3>2, <3>3 DEF HTAwaiting, page
    <3>5. HTShape' /\ HTServing' /\ HTResponding'
      BY <1>1, <1>3, <3>2, <3>4 DEF HTShape, HTServing, HTResponding
    <3> QED
      BY <3>5 DEF HTInv
  <2>7. CASE Len(b) >= 5 * L + 2
    <3> DEFINE p == 5 * L - 1
    <3>1. StrStr(b) = p /\ p # 0 /\ p + 3 = 5 * L + 2
      BY <2>4, <2>5, <2>7
    <3>2. LinesBefore(b, p, Heads) = page.head
      <4>1. Heads[htAsked] = page.head
        BY <1>1, <1>3 DEF Heads, page
      <4> QED
        BY <2>3, <2>4, <2>7, <4>1, LinesAre
    <3> HIDE DEF L
    <3>3. IF ParseOk(page.head, TRUE) /\ "Content-Length" \in DOMAIN hash
            THEN HTBody(After(b, p + 3), hash["Content-Length"], ok)
            ELSE HTFail
      BY <1>1, <2>1, <3>1, <3>2 DEF HTRespond
    <3>4. CASE ParseOk(page.head, TRUE) /\ "Content-Length" \in DOMAIN hash
      <4> DEFINE h == 5 * L + 2
                 data == After(b, h)
      <4>1. hash["Content-Length"] = page.body
        BY <1>3, <3>4 DEF IsResponse
      <4>2. HTBody(data, page.body, ok)
        BY <3>1, <3>3, <3>4, <4>1
      <4>3. h \in Nat /\ h <= Len(b) /\ h + 1 = 5 * L + 3
        BY <2>4, <2>7
      <4> HIDE DEF h
      <4>4. data \in Seq(HtByte) /\ data \o rest = SubSeq(b \o rest, h + 1, Len(b \o rest))
        BY <2>2, <4>3, AfterHead
      <4> HIDE DEF data
      <4>5. data \o rest = BodyBytes(htAsked, page.body)
        BY <2>2, <2>3, <4>3, <4>4 DEF L
      <4> QED
        BY <1>1, <1>2, <2>2, <4>2, <4>4, <4>5, HTBodyKeeps DEF page
    <3>5. CASE ~(ParseOk(page.head, TRUE) /\ "Content-Length" \in DOMAIN hash)
      <4>1. ~htOpen' /\ htGot' = htGot
        BY <3>3, <3>5 DEF HTFail
      <4>2. HTShape' /\ HTServing' /\ HTResponding'
        BY <1>1, <1>3, <4>1 DEF HTShape, HTServing, HTResponding
      <4> QED
        BY <4>2 DEF HTInv
    <3> QED
      BY <3>4, <3>5
  <2> QED
    BY <2>6, <2>7
<1> QED
  BY <1>2, <1>4, <1>5 DEF HTAwaiting, page

\* Nothing is left to arrive: every message was handled.
LEMMA AllServed == ASSUME HTInv PROVE HTServed
<1> SUFFICES ASSUME htMode = "server", htClean, htOpen, htLeft = << >>
             PROVE  Len(htGot) = htAsked
  BY DEF HTInv, HTServing, HTServed
<1> DEFINE g == Len(htGot)
           a == htAsked
<1>1. /\ g <= a /\ RStrStr(htIn) = 0 /\ htIn \in Seq(HtByte)
      /\ \E e : Requests(htIn \o htLeft, htMsgs, g, a, e)
  BY DEF HTInv, HTServing
<1>2. PICK e : Requests(htIn, htMsgs, g, a, e)
  <2>1. htIn \o htLeft = htIn
    BY <1>1, ConcatEmptySeq
  <2> QED
    BY <1>1, <2>1
<1>3. g \in Nat /\ a \in Nat
  BY DEF HTInv, HTShape, IsSequence
<1>4. ASSUME g < a PROVE FALSE
  <2> DEFINE h == HeadBytes(g + 1, htMsgs[g + 1])
  <2>1. IsHead(htMsgs[g + 1]) /\ g + 1 \in Int
    <3>1. g + 1 \in 1..Len(htMsgs)
      <4>1. Len(htMsgs) \in Nat /\ a <= Len(htMsgs)
        BY DEF HTInv, HTShape, IsSequence
      <4> QED
        BY <1>3, <1>4, <4>1
    <3> QED
      BY <1>3, <3>1 DEF HTInv, HTShape
  <2> HIDE DEF g, a
  <2>2. Len(h) <= Len(htIn) /\ \A i \in 1..Len(h) : htIn[i] = h[i]
    BY <1>2, <1>3, <1>4, <2>1, RequestsFirst
  <2>3. Len(h) \in Nat /\ Len(h) >= 7 /\ Len(htIn) \in Nat
    BY <1>1, <2>1, HeadLength, LenProperties
  <2>4. htIn[4] = h[4]
    <3>1. 4 \in 1..Len(h)
      BY <2>3
    <3> QED
      BY <2>2, <3>1
  <2>5. Len(htIn) < Len(h)
    BY <1>1, <2>1, <2>3, <2>4, RStrStrShort
  <2> QED
    BY <2>2, <2>3, <2>5
<1> QED
  BY <1>1, <1>3, <1>4

LEMMA AllResponded == ASSUME HTInv PROVE HTResponses
<1> SUFFICES ASSUME htMode = "client", htOpen, htLeft = << >>
             PROVE  Len(htGot) = htAsked
  BY DEF HTInv, HTResponding, HTResponses
<1> DEFINE page == htMsgs[htAsked]
<1>1. HTIdle \/ HTAwaiting
  BY DEF HTInv, HTResponding
<1>2. CASE HTIdle
  BY <1>2 DEF HTIdle
<1>3. CASE HTAwaiting
  <2>1. htAsked \in Int /\ IsResponse(page)
    <3>1. /\ htAsked \in Nat /\ htAsked <= Len(htMsgs) /\ Len(htMsgs) \in Nat /\ Len(htGot) \in Nat
          /\ \A k \in 1..Len(htMsgs) : IsResponse(htMsgs[k])
      BY DEF HTInv, HTShape, IsSequence
    <3>2. htAsked = Len(htGot) + 1
      BY <1>3 DEF HTAwaiting
    <3>3. htAsked \in 1..Len(htMsgs)
      BY <3>1, <3>2
    <3> QED
      BY <3>1, <3>3
  <2> HIDE DEF page
  <2>2. CASE HeadAwaited(htAsked, page, htLength, htIn, htLeft)
    <3>1. /\ htIn \in Seq(HtByte) /\ htIn \o htLeft = PageBytes(htAsked, page)
          /\ Len(htIn) < 5 * Len(page.head) + 2
      BY <2>2 DEF HeadAwaited
    <3>2. htIn = PageBytes(htAsked, page)
      BY <3>1, ConcatEmptySeq
    <3>3. Len(htIn) = 5 * Len(page.head) + 2 + page.body /\ page.body \in Nat /\ IsHead(page.head)
      BY <2>1, <3>2, PageIs
    <3>4. Len(page.head) \in Nat
      BY <2>1, <3>3, HeadLength
    <3> QED
      BY <3>1, <3>3, <3>4
  <2>3. CASE BodyAwaited(htAsked, page, htLength, htIn, htLeft)
    <3>1. /\ htIn \in Seq(HtByte) /\ htIn \o htLeft = BodyBytes(htAsked, page.body)
          /\ Len(htIn) < page.body
      BY <2>3 DEF BodyAwaited
    <3>2. htIn = BodyBytes(htAsked, page.body)
      BY <3>1, ConcatEmptySeq
    <3>3. Len(htIn) = page.body /\ page.body \in Nat
      BY <2>1, <3>2, BodyByte DEF IsResponse
    <3> QED
      BY <3>1, <3>3
  <2> QED
    BY <1>3, <2>2, <2>3 DEF HTAwaiting, page
<1> QED
  BY <1>1, <1>2, <1>3

\* The server handles each request of a clean stream once, in order and with
\* its own fields, and the client gets the whole body of each response it asked
\* for, whatever the chunks, for all requests and responses that are heads,
\* with a Content-Length that is true.
THEOREM MessagesHandled == HTSpec => []HTCorrect
<1>1. HTInit => HTInv
  BY HtAssumption, HTInvInit
<1>2. HTInv /\ [HTNext]_htVars => HTInv'
  <2>1. ASSUME HTInv, UNCHANGED htVars PROVE HTInv'
    <3>1. UNCHANGED <<htMode, htMsgs, htAsked, htLeft, htIn, htOpen, htFields,
                      htLength, htGot, htClean>>
      BY <2>1 DEF htVars
    <3> QED
      BY <2>1, <3>1 DEF HTInv, HTShape, HTServing, HTResponding, HTIdle, HTAwaiting
  <2> QED
    BY <2>1, HTInvPeerSends, HTInvRequest, HTInvRespond, HTInvGet DEF HTNext
<1>3. HTInv => HTCorrect
  BY AllServed, AllResponded DEF HTCorrect
<1> QED
  BY <1>1, <1>2, <1>3, PTL DEF HTSpec
=============================================================================
