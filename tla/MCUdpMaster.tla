----------------------------- MODULE MCUdpMaster -----------------------------
(* Two endpoints on one socket, or only one of them.                         *)
EXTENDS UdpMaster
MCIds == {0, 1}
OneId == {0}
=============================================================================
