----------------------------- MODULE MCGateway -----------------------------
(* Model values and symmetry for the runs of GatewayServer.                 *)
EXTENDS GatewayServer, TLC

Symmetry == Permutations(Node) \cup Permutations(Conn)
=============================================================================
