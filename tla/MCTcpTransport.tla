---------------------------- MODULE MCTcpTransport ----------------------------
(* Two clients with a name each, or the first one with an address.           *)
EXTENDS TcpTransport, TLC
CONSTANTS c1, c2
MCNamesOf == {c1 :> "hub" @@ c2 :> "edge", c1 :> "10.0.0.1" @@ c2 :> "edge"}
=============================================================================
