CONSTANTS
    NumFiles = 3
    Parts <- TreeParts
    Weight <- TreeWeight
    Limit = 2
    Window = 2
    Modes = {"serial", "pool"}
    Faults = {"chunk", "measure", "encode", "wedge", "store", "ledger", "sample", "pool"}
    Sentinel = Sentinel
    Nothing = Nothing
SPECIFICATION FairSpec
INVARIANTS SuccessIsComplete LedgerMatchesStore NeverBlamesTheConsumer
PROPERTIES RunEnds
CHECK_DEADLOCK FALSE
