CONSTANTS
    Clients = {c1, c2}
    Sizes = {1, 2}
    InitSize = 1
    MaxRestarts = 1
    MaxWinch = 2
    ChanCap = 1
SPECIFICATION AttachSpec
SYMMETRY ClientSymmetry
INVARIANTS
    AttachTypeOK
    EmulatorFollowsFields
    PTYFollowsFields
    ClientFollowsHost
    ExitCodeIsOfSeenTask
