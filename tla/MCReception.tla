--------------------------- MODULE MCReception --------------------------
(* One room.  A tick is longer than the event window; each window is at    *)
(* least a tick longer than the one before it where the code's is.         *)
EXTENDS Reception
=========================================================================
