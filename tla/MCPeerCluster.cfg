SPECIFICATION FairSpec
CONSTANTS
    a = a
    b = b
    c = c
    Nodes <- ThreeNodes
    Starts <- FewStarts
    MaxConns = 2
    Free = Free
INVARIANTS SourcesShared NoSourcesOfStrangers 
 
CHECK_DEADLOCK FALSE
