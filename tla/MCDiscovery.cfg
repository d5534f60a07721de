SPECIFICATION FairSpec
CONSTANTS
    n1 = n1
    n2 = n2
    Peers <- MCPeers
    TTL = 12
    Slow = 9
    Round = 2
    PeerForget = 18
    MaxMissed = 1
PROPERTIES NobodyIsForgotten SomebodyFindsOut
