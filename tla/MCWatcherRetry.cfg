SPECIFICATION WatcherSpec
SYMMETRY Symm
CONSTANTS
    p1 = p1
    p2 = p2
    Paths <- MCPaths
    MaxScope = 2
    MaxAttempts = 2
    MaxOpens = 2
    MaxProcs = 2
INVARIANTS
    AcceptedChangesAreOwed
    FencedStaysFenced
PROPERTIES
    OwnOutcomeOnly
CHECK_DEADLOCK FALSE
