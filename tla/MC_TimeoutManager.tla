-------------------------- MODULE MC_TimeoutManager --------------------------
(***************************************************************************)
(* Four connections and a clock that lets two of them time out in a scan.  *)
(***************************************************************************)
EXTENDS TimeoutManager, TLC

CONSTANTS e1, e2, e3, e4

Symmetry == Permutations({e1, e2, e3, e4})

==============================================================================
