CONSTANTS
    watched = watched
    tool = tool
    heldtool = heldtool
    Jobs <- AllJobs
    Watched <- WatchedJob
    Recoverable <- CorpusJobs
    Commands <- Asked
    WriteFaults <- AllFaults
SPECIFICATION OneJobSpec
INVARIANTS IntentIsDurable SignalMatchesRecord HeldWorkReturns AttemptsLetGo
PROPERTIES OnlyIntentQueues OutcomesAreFinal ControlSettles
