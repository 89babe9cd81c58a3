---------------------------- MODULE MC_IOBuffer ----------------------------
(* Chunks of up to two bytes, which differ.                                *)
EXTENDS IOBuffer

MCByte == {1, 2}
MCChunks == UNION {[1..n -> MCByte] : n \in 0..2}
=============================================================================
