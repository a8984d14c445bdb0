--------------------------- MODULE MCWsServerMaster ---------------------------
(* Three services, of which the last two send (VIDEO and AUDIO), with room   *)
(* for only two hosts; a pool as large as the number of senders.             *)
EXTENDS WsServerMaster
MCSenders == {2, 3}
===============================================================================
