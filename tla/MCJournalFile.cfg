CONSTANTS
    NoWriter = NoWriter
    Writers = {w1}
    Readers = {r1}
    Data = {a, b}
    FieldOf <- MCFieldOf
    ArrayCap = 1
    OffsetMod = 100
    MaxEntries = 3
    MaxOpens = 2
SPECIFICATION JSpec
CHECK_DEADLOCK FALSE
INVARIANTS
    SyncedEntriesSurvive
    IndexIsExact
    ReaderMissesNothing
