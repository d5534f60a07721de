SPECIFICATION FairSpec
CONSTANTS
    sig = sig
    dht1 = dht1
    dht2 = dht2
    Tags <- MCTags
    DHTTags <- MCDHTTags
    MaxObj = 3
    MaxNode = 2
    MaxDHT = 2
INVARIANTS DHTCounted NodeServesNets JoinedIsServed
PROPERTIES LeftLoopsEnd
