SPECIFICATION Spec
CONSTANTS
    t1 = t1
    t2 = t2
    p1 = p1
    p2 = p2
    p3 = p3
    ip1 = ip1
    ip3 = ip3
    Tags <- MCTags
    Peers <- MCPeers
    VirtualIP <- MCVirtualIP
    MaxLearned = 1
    MaxJoin = 2
    MaxInc = 2
    MaxEpoch = 2
SYMMETRY Symmetry
INVARIANT NoNilPath
CONSTRAINT FewMade
CHECK_DEADLOCK FALSE
