--------------------------- MODULE MCWsClientMaster ---------------------------
(* Two queues, one of which may overfill while the other is read.            *)
EXTENDS WsClientMaster, TLC
MCMaxSent == (0 :> 4) @@ (1 :> 3)
=============================================================================
