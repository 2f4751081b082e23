CONSTANTS
    Calls = {c1}
    Fds = {1}
    Descendants = {"child", "escaped"}
    ExitCodes = {0}
    MaxLines = 1
    LogMayFail = TRUE
SPECIFICATION FairSpec
PROPERTIES
    StopTerminates
    EndRequestsAreServed
    KillEndsTask
