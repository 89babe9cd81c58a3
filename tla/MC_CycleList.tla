---------------------------- MODULE MC_CycleList ----------------------------
(* CycleList on a heap of a few nodes, the two placeholders included.      *)
EXTENDS CycleList, TLC

CONSTANTS a, b, c, d, e

MCNode == {a, b, c, d, e}
=============================================================================
