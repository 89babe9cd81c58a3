--------------------------- MODULE MC_StPoolWorker ---------------------------
(* Three processes for two handles, one message at the socket.              *)
EXTENDS StPoolWorker
==============================================================================
