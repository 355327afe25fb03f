SPECIFICATION PublicationSpec
CONSTANTS
    p1 = p1
    p2 = p2
    None = None
    Paths <- MCPaths
    Contents <- MCContents
    Stream <- MCStream
    MaxResumeFailures = 3
    MaxEdits = 1
    MaxFaults = 0
INVARIANTS EmptySourceConverges
