--------------------------- MODULE MC_TimersManager ---------------------------
(***************************************************************************)
(* Three timers with periods of one, two and three milliseconds.           *)
(***************************************************************************)
EXTENDS TimersManager, TLC

CONSTANTS t1, t2, t3

MC_period == t1 :> 1 @@ t2 :> 2 @@ t3 :> 3

==============================================================================
