----------------------------- MODULE IOBuffer ------------------------------
(***************************************************************************)
(* gsdm::IOBuffer: one array, the bytes between consumed_ and published_    *)
(* are the content.  Reading from a source appends at published_, writing   *)
(* to a destination or Ignore() advances consumed_.  The array is compacted *)
(* (MoveData) or replaced by a larger one (EnsureSize) when the room behind *)
(* published_ is too small.                                                *)
(***************************************************************************)
EXTENDS Integers, Sequences

CONSTANTS Byte,        \* the values of a byte
          Junk,        \* what memory holds that nothing was written to
          Chunks,      \* the byte sequences a source may deliver in one call
          MaxExpected, \* the longest read that is asked for
          MinChunk,    \* min_chunk_size_
          Limit        \* the users keep at most Limit bytes unread

ASSUME BufferAssumption ==
  /\ Junk \notin Byte
  /\ Chunks \subseteq Seq(Byte)
  /\ MaxExpected \in Nat
  /\ \A s \in Chunks : Len(s) <= MaxExpected
  /\ MinChunk \in Nat \ {0}
  /\ Limit \in Nat

VARIABLES buffer_,     \* [0 .. size_ - 1 -> bytes]
          size_, published_, consumed_

vars == <<buffer_, size_, published_, consumed_>>

\* GETAVAILABLEBYTESCOUNT
Available == published_ - consumed_

\* The content, as its readers see it from GETIBPOINTER on.
content == [i \in 1..Available |-> buffer_[consumed_ + i - 1]]

\* The state as a value, which the private operations transform in turn.
This == [buf |-> buffer_, size |-> size_, pub |-> published_, con |-> consumed_]

Becomes(b) == /\ buffer_' = b.buf
              /\ size_' = b.size
              /\ published_' = b.pub
              /\ consumed_' = b.con

Init == /\ size_ = 0
        /\ buffer_ = [i \in 0..(size_ - 1) |-> Junk]
        /\ published_ = 0
        /\ consumed_ = 0

-----------------------------------------------------------------------------
\* Mutant: the cursors are moved and the bytes are not.
MoveDataNoCopy(b) ==
  IF b.pub - b.con <= b.con THEN [b EXCEPT !.pub = b.pub - b.con, !.con = 0] ELSE b

\* Compacts the array, but only when the two areas of its memcpy are disjoint.
MoveData(b) ==
  LET n == b.pub - b.con IN
  IF n <= b.con
    THEN [b EXCEPT !.buf = [i \in 0..(b.size - 1) |->
                              IF i < n THEN b.buf[b.con + i] ELSE b.buf[i]],
                   !.pub = n, !.con = 0]
    ELSE b

\* How many bytes EnsureSize() allocates behind the published ones.
Growth(b, expected) ==
  LET third == IF b.pub + expected - b.size < b.size \div 3
                 THEN b.size + b.size \div 3 - b.pub ELSE expected
  IN  IF third < MinChunk THEN MinChunk ELSE third

Enlarge(b, expected) ==
  LET size == b.pub + Growth(b, expected) IN
  [b EXCEPT !.buf = [i \in 0..(size - 1) |-> IF i < b.pub THEN b.buf[i] ELSE Junk],
            !.size = size]

\* Mutant: the test for room is off by one.
EnsureSizeNoCheck(b, expected) ==
  IF b.pub + expected <= b.size + 1 THEN b ELSE Enlarge(MoveData(b), expected)

EnsureSize(b, expected) ==
  LET m == MoveData(b) IN
  CASE b.pub + expected <= b.size -> b
    [] b.pub + expected > b.size /\ m.pub + expected <= m.size -> m
    [] OTHER -> Enlarge(m, expected)

\* An empty buffer starts again at the front of its array.
Recycle(b) == IF b.con # b.pub THEN b ELSE [b EXCEPT !.con = 0, !.pub = 0]

\* Copies s to published_, where room for it has been made.
Publish(b, s) ==
  [b EXCEPT !.buf = [i \in 0..(b.size - 1) |->
                       IF i >= b.pub /\ i < b.pub + Len(s) THEN s[i - b.pub + 1] ELSE b.buf[i]],
            !.pub = b.pub + Len(s)]

-----------------------------------------------------------------------------
(***************************************************************************)
(* The public operations.  Limit stands for what the users do: SendMsg     *)
(* refuses to buffer more than send_buffer_size_, a protocol ends a         *)
(* connection whose request is too long.                                   *)
(***************************************************************************)
\* Initialize: asserts that the buffer was not used yet.
Initialize(expected) ==
  /\ size_ = 0 /\ published_ = 0 /\ consumed_ = 0
  /\ Becomes(EnsureSize(This, expected))

\* ReadFromBuffer, and ReadFromString, ReadFromByte, ReadFromRepeat and
\* ReadFromInputBuffer, which differ in where the bytes come from.
ReadFromBuffer(s) ==
  /\ Available + Len(s) <= Limit
  /\ Becomes(Publish(EnsureSize(This, Len(s)), s))

\* ReadFromTCPFd, ReadFromUDPFd, ReadFromFd and ReadFromTCPPoolSocket: room is
\* made for what is expected, and the source delivers no more than that.
ReadFromFd(expected, s) ==
  /\ Len(s) <= expected
  /\ Available + Len(s) <= Limit
  /\ Becomes(Publish(EnsureSize(This, expected), s))

\* The same calls when the source delivers nothing or fails: the array may
\* have moved, and a file may have left bytes behind published_ (ReadFromFs).
ReadFails(expected, s) ==
  /\ Len(s) <= expected
  /\ LET b == EnsureSize(This, expected)
     IN  Becomes([Publish(b, s) EXCEPT !.pub = b.pub])

\* WriteToTCPFd, WriteToFd: the destination took n bytes (0 for EAGAIN; an
\* error leaves the buffer as it is).
WriteToFd(n) == Becomes(Recycle([This EXCEPT !.con = @ + n]))

\* Ignore: the callers pass no more than what is available.
Ignore(n) == Becomes(Recycle([This EXCEPT !.con = @ + n]))

IgnoreAll == Becomes(Recycle([This EXCEPT !.con = published_]))

Compact == Becomes(MoveData(This))

\* Cleanup, the destructor: the array is released.
Cleanup == Becomes([buf |-> [i \in 0..-1 |-> Junk], size |-> 0, pub |-> 0, con |-> 0])

Next == \/ \E n \in 0..MaxExpected : Initialize(n)
        \/ \E s \in Chunks : ReadFromBuffer(s)
        \/ \E n \in 0..MaxExpected, s \in Chunks : ReadFromFd(n, s)
        \/ \E n \in 0..MaxExpected, s \in Chunks : ReadFails(n, s)
        \/ \E n \in 0..Available : WriteToFd(n)
        \/ \E n \in 0..Available : Ignore(n)
        \/ IgnoreAll
        \/ Compact
        \/ Cleanup

Spec == Init /\ [][Next]_vars

-----------------------------------------------------------------------------
\* Every member has a value the code can give it: the indices are words and
\* the array has the length size_ says (EnsureSize).
TypeOK ==
  /\ size_ \in Nat /\ published_ \in Nat /\ consumed_ \in Nat
  /\ buffer_ \in [0..(size_ - 1) -> Byte \cup {Junk}]

(***************************************************************************)
(* What SANITY_INPUT_BUFFER asserts (iobuffer.cpp:12), that an empty       *)
(* buffer is at its front, and that no byte anyone can read is left over   *)
(* from an allocation: MoveData and EnsureSize lost or skipped nothing.    *)
(***************************************************************************)
Sanity ==
  /\ consumed_ <= published_
  /\ published_ <= size_
  /\ consumed_ = published_ => consumed_ = 0
  /\ \A i \in consumed_..(published_ - 1) : buffer_[i] \in Byte

(***************************************************************************)
(* However many bytes pass through a buffer, its array stays within a      *)
(* multiple of what its users keep unread: the condition of MoveData       *)
(* (iobuffer.cpp:347) and the growth by a third never add up.              *)
(***************************************************************************)
SizeBound == (4 * (2 * Limit + MaxExpected)) \div 3 + MinChunk

Bounded == size_ <= SizeBound /\ Available <= Limit

\* The cursors stay in their array and the bytes between them were written,
\* which SANITY_INPUT_BUFFER asserts in part, without the array growing for
\* ever: EnsureSize neither moves nor grows too little or too often.
BufferOK == TypeOK /\ Sanity /\ Bounded

\* An IOBuffer is a queue of bytes: whatever is moved and reallocated, what is
\* read is what was put in, in order and once.
Queue == INSTANCE ByteQueue WITH q <- content

ImplementsQueue == Queue!Spec
=============================================================================
