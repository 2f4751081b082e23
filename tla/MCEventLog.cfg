CONSTANTS
    host = host
    cmd = cmd
    out = out
    waiter = waiter
    emit = emit
    fol = fol
    NoOne = NoOne
    Procs = {host, cmd}
    Writers = {out, waiter, emit}
    Followers = {fol}
    ProcOf <- MCProcOf
    Records <- MCRecords
    Filters <- MCFilters
    MaxWrites = 1
    WriteMayFail = TRUE
    Mortal = {host}
SPECIFICATION EventFairSpec
CHECK_DEADLOCK FALSE
INVARIANTS
    EventTypeOK
PROPERTIES
    ImplementsAppendLog
    WriteReturns
    FollowerCatchesUp
