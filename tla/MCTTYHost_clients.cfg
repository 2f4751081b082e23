CONSTANTS
    Clients = {c1, c2}
    Descendants = {}
    MaxChunks = 2
    MaxRestarts = 1
    MaxResizes = 1
    PipeCap = 1
    LogMayFail = FALSE
SPECIFICATION TTYSpec
SYMMETRY ClientSymmetry
INVARIANTS
    TTYTypeOK
    StreamContinuesSnapshot
CHECK_DEADLOCK FALSE
