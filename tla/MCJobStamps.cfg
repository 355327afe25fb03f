CONSTANTS
    j1 = j1
    Jobs <- OneJob
    Watched <- None
    Recoverable <- OneJob
    Commands <- AllCommands
    WriteFaults <- AllFaults
    MaxClock = 1
SPECIFICATION StampedSpec
INVARIANTS OnlyHeldWorkUnreadable
