----------------------------- MODULE MCDiscovery -----------------------------
(* A tick is 5 s: TTL 60 s, registerSlow 45 s, peerForget 90 s, and a round *)
(* that waits for a dead server takes ten seconds.                          *)
EXTENDS Discovery

CONSTANTS n1, n2

MCPeers == {n1, n2}
=============================================================================
