SPECIFICATION WatcherSpec
CONSTANTS
    p1 = p1
    p2 = p2
    Paths = {p1}
    MaxScope = 1
    MaxAttempts = 1
    MaxOpens = 2
    MaxProcs = 2
PROPERTIES
    RestartReconcilesFences
CHECK_DEADLOCK FALSE
