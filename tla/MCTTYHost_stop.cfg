CONSTANTS
    Clients = {c1}
    Descendants = {}
    MaxChunks = 1
    MaxRestarts = 0
    MaxResizes = 0
    PipeCap = 1
    LogMayFail = FALSE
SPECIFICATION TTYFairSpec
PROPERTIES
    StopIsServed
CHECK_DEADLOCK FALSE
