CONSTANTS
    Clients = {c1}
    Descendants = {"escaped"}
    MaxChunks = 2
    MaxRestarts = 1
    MaxResizes = 1
    PipeCap = 1
    LogMayFail = TRUE
SPECIFICATION TTYFairSpec
INVARIANTS
    TTYNoOrphan
    FinalScreenIsComplete
    TTYSuccessMeansRecorded
PROPERTIES
    TTYStopTerminates
    ClosedClientIsRemoved
CHECK_DEADLOCK FALSE
