CONSTANTS
    w1 = w1
    w2 = w2
    MaxJobs = 3
    Works <- OneWork
    Recoverable <- OneWork
    MaxActive = 1
    MaxHistory = 3
    MaxClock = 1
    MaxProgress = 2
    WriteFaults <- AnyWriteFault
SPECIFICATION HistorySpec
INVARIANTS OneOwnerPerWork LineageSettled CleanIsDurable
PROPERTIES ReplaysOnlyUnclaimedWork AdmittedWorkIsKept
