--------------------------- MODULE MC_Connection ---------------------------
(***************************************************************************)
(* A process on every kind of connection and a second one, on TCP, that    *)
(* sends nothing; as many handlers and descriptors as they need at once,   *)
(* which are interchangeable.                                              *)
(***************************************************************************)
EXTENDS Connection, TLC

Symm == Permutations(Handlers) \cup Permutations(Fds)
=============================================================================
