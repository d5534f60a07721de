SPECIFICATION FairSpec
CONSTANTS
    p1 = p1
    p2 = p2
    Reflex = Reflex
    Frozen = Frozen
    None = None
    MaxLife = 2
    PortExts <- MCPortExts
INVARIANTS MappingIsShown NoRuleLeft
PROPERTIES MappingEnds AnnouncedFollows
CHECK_DEADLOCK FALSE
