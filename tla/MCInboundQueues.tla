--------------------------- MODULE MCInboundQueues ---------------------------
(* A small instance of InboundQueues: two traffic classes, the data class    *)
(* with room for two packets, the announce class with room for one.          *)
EXTENDS InboundQueues, TLC

MCSizes == (0 :> 2) @@ (1 :> 1)
=============================================================================
