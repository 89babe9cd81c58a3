----------------------------- MODULE ByteQueue -----------------------------
(***************************************************************************)
(* What an IOBuffer promises its users: a queue of bytes.  Bytes are put at *)
(* the end in chunks of any length and taken from the front, all of them   *)
(* and none but them, in order.                                            *)
(***************************************************************************)
EXTENDS Integers, Sequences

CONSTANTS Byte,     \* the values of a byte
          Chunks    \* the sequences of bytes one call may bring

VARIABLE q          \* the bytes that can be read, oldest first

Init == q = <<>>

Put(s) == q' = q \o s

Take(n) == q' = SubSeq(q, n + 1, Len(q))

Next == \/ \E s \in Chunks : Put(s)
        \/ \E n \in 0..Len(q) : Take(n)

Spec == Init /\ [][Next]_q
=============================================================================
