---------------------------- MODULE MCPeerWatch -----------------------------
(* The watch of discovery as cmd/discovery and cmd/routing start it.       *)
EXTENDS PeerWatch

CONSTANTS p1, p2
=============================================================================
