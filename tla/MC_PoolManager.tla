---------------------------- MODULE MC_PoolManager ----------------------------
(* Two workers; signals, deaths and failing forks are counted.             *)
EXTENDS PoolManager
===============================================================================
