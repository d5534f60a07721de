SPECIFICATION FairSpec
CONSTANTS
    net1 = net1
    net2 = net2
    n1 = n1
    n2 = n2
    n3 = n3
    Tags <- MCTags
    Peers <- MCPeers
    TTL = 1
    MaxNets = 1
    MaxPeersPerNet = 2
    Nobody = Nobody
INVARIANT TypeOK
PROPERTIES KeepsPresence PlacesComeBack
