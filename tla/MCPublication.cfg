SPECIFICATION FairPublicationSpec
CONSTANTS
    p1 = p1
    p2 = p2
    None = None
    Paths <- MCPaths
    Contents <- MCContents
    Stream <- MCStream
    MaxResumeFailures = 3
    MaxEdits = 2
    MaxFaults = 2
INVARIANTS
    ServedProofIsBacked
    NoStrayPoints
    FreshStream
    RecoversUnaided
PROPERTIES
    SuccessIsCurrent
    Converges
