--------------------------- MODULE MCSignalServer ---------------------------
(* Two networks where the registry holds one, three nodes where it holds two. *)
EXTENDS SignalServer

CONSTANTS net1, net2, n1, n2, n3

MCTags == {net1, net2}
MCPeers == {n1, n2, n3}
=============================================================================
