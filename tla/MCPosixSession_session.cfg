CONSTANTS
    Calls = {c1}
    Fds = {1}
    Descendants = {"escaped"}
    ExitCodes = {0}
    MaxLines = 1
    LogMayFail = TRUE
SPECIFICATION FairSessionSpec
INVARIANTS
    SessionTypeOK
    FollowPrintsAll
    GoneMeansInHistory
PROPERTIES
    StopEndsHost
    KillEndsHost
    FollowEnds
