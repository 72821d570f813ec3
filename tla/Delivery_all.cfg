SPECIFICATION FairSpec
CONSTANTS
    Clients = {c1}
    BufferLimit = 2
    RecordLimit = 1
    MaxRevision = 4
    MaxTemporary = 1
    MaxTrouble = 1
INVARIANTS NoSilentGap 
PROPERTY RecvReturns
CHECK_DEADLOCK FALSE
