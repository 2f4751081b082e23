CONSTANTS
    Calls = {c1}
    Fds = {1}
    Descendants = {}
    ExitCodes = {0}
    MaxLines = 1
    LogMayFail = FALSE
SPECIFICATION SessionSpec
SYMMETRY CallSymmetry
INVARIANTS
    KillLeavesNoTask
