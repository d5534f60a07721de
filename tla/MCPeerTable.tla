---------------------------- MODULE MCPeerTable -----------------------------
(* Two networks and three peers, two of which have the same virtual IP: the   *)
(* smallest tables in which a path is shared by networks, a network has       *)
(* several peers, and an address is disputed.                                 *)
EXTENDS PeerTable, TLC

CONSTANTS t1, t2, p1, p2, p3, ip1, ip3

MCTags == {t1, t2}
MCPeers == {p1, p2, p3}
MCVirtualIP == [p \in MCPeers |-> IF p = p3 THEN ip3 ELSE ip1]
Symmetry == Permutations(MCTags) \cup Permutations({p1, p2})

(* Bound: a state in which networks joined and peerStates made are together   *)
(* more than this is not extended.  Two networks with a peer each, or one     *)
(* with three peerStates of which one may be forgotten and made again, or one *)
(* network left and joined again twice, but not everything at once.           *)
FewMade ==
    joins[t1] + joins[t2] + Cardinality({s \in PeerStates : s[3] <= made[s[1]][s[2]]}) <= 4
=============================================================================
