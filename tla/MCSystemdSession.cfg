CONSTANTS
    MaxLines = 1
    MaxRestarts = 1
    SinkMayFail = TRUE
    MaxBusErrors = 2
SPECIFICATION SysFairSpec
CHECK_DEADLOCK FALSE
INVARIANTS
    SystemdFollowPrintsAll
    KilledMeansOver
    HistoryIsTruthful
PROPERTIES
    FollowEndsWithUnit
