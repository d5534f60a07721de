SPECIFICATION Spec
CONSTANTS
    a1 = a1
    a2 = a2
    a3 = a3
    loop = loop
    final = final
    Addrs <- MCAddrs
    Savers <- MCSavers
    MaxPerPeer = 2
    TTL = 3
    MaxClock = 4
SYMMETRY Symmetry
INVARIANTS TypeOK FileNeverTorn FreshFirst OnlyLateIsLost
