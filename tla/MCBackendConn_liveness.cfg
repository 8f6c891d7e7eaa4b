SPECIFICATION FairSpec
CONSTANTS
    r1 = r1
    r2 = r2
    r3 = r3
    NoReq = NoReq
    Requests <- ThreeRequests
    Unbatched <- OnePing
    ReadOnly <- OneRead
    InputCap = 2
    TaskCap = 0
    FreeRetries = 0
    MaxConns = 1
PROPERTIES
    PromiseKept
    EveryRequestAnswered
INVARIANT
    WriterBlockedReaderFed
CHECK_DEADLOCK FALSE
