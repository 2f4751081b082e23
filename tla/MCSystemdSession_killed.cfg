CONSTANTS
    MaxLines = 1
    MaxRestarts = 0
    SinkMayFail = FALSE
    MaxBusErrors = 0
SPECIFICATION SysSpec
CHECK_DEADLOCK FALSE
INVARIANTS
    KilledMeansNoExit
