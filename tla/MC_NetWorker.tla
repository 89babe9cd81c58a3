---------------------------- MODULE MC_NetWorker -----------------------------
(***************************************************************************)
(* Two workers.  Worker 0 accepts and deals connections out to worker 1    *)
(* and to itself; worker 1 sends commands of its own to worker 0.          *)
(***************************************************************************)
EXTENDS NetWorker, TLC

CONSTANTS a01, a00, u10, s1, s2

MC_src == [c \in Chan |-> IF c = u10 THEN 1 ELSE 0]
MC_dst == [c \in Chan |-> IF c = a01 THEN 1 ELSE 0]
MC_other == 0 :> SelectSeq(<<a01, a00>>, LAMBDA c : c \in Chan) @@ 1 :> <<>>

==============================================================================
