CONSTANTS
    Calls = {c1, c2}
    Fds = {1}
    Descendants = {"escaped"}
    ExitCodes = {0}
    MaxLines = 1
    LogMayFail = TRUE
SPECIFICATION Spec
SYMMETRY CallSymmetry
INVARIANTS
    TypeOK
    IncarnationsInOrder
    OutputComplete
    NoOrphanedTask
    SuccessMeansRecorded
    KillIsEffective
PROPERTIES
    RestartIsExclusive
    ForceOnlyAfterTerm
