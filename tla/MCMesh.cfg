SPECIFICATION FairSpec
CONSTANTS
    n1 = n1
    n2 = n2
    Nodes <- MCNodes
    Narrow <- MCNarrow
    MaxMove <- MCMaxMove
    MaxCands = 2
    MaxFrame = 1
INVARIANTS TypeOK
PROPERTIES PathHeals DataArrives
