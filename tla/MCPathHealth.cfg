SPECIFICATION FairSpec
CONSTANTS
    lan = lan
    dht = dht
    Nets <- MCNets
    RelayNets <- MCRelayNets
    SignalNets <- MCSignalNets
    RelayGrace = 1
    PeerTimeout = 2
    PeerForget = 3
    LearnedExpire = 4
INVARIANTS LearnedIsHeard
PROPERTIES WayHolds ForgottenWhenGone PathKeptWhole GoneIsForgotten
