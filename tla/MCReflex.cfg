SPECIFICATION FairSpec
CONSTANTS
    s1 = s1
    s2 = s2
    Servers <- MCServers
    MaxMove = 1
    MaxWord = 2
INVARIANTS NewsIsAnnounced
PROPERTIES SourcesConverge FirstFollows
