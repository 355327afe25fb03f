CONSTANTS
    Collections = {code, vault}
    Points = {p,q}
    GraceEmpty = 1
    GraceData = 2
    GraceEphemeral = 1
    IdleWindow = 1
    MaxWrites = 1
    MaxJobs = 1
    MaxFaults = 1
SPECIFICATION FairReclamationSpec
INVARIANTS
    DestroyedIsRecoverable
PROPERTIES
    DanglingIsReclaimed
