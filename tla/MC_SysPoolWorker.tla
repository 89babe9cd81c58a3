--------------------------- MODULE MC_SysPoolWorker ---------------------------
(***************************************************************************)
(* Two handles and three processes: one more than the pool can hold.       *)
(***************************************************************************)
EXTENDS SysPoolWorker

CONSTANTS h1, h2, p1, p2, p3

==============================================================================
