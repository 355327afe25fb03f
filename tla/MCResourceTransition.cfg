CONSTANTS
    Waiters = {c1, c2}
    MaxTicket = 3
    MaxEpoch = 3
    Faults = {"quiesce_request", "release", "rebuild", "persistence"}
SPECIFICATION FairResidencySpec
INVARIANTS
    ComputeKeepsItsStack
    SafeMeansNoModel
    DrainAccountsForCompute
PROPERTIES
    NoHollowReopen
    TransitionEnds
