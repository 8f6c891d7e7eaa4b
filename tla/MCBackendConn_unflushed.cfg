SPECIFICATION Spec
CONSTANTS
    r1 = r1
    r2 = r2
    r3 = r3
    NoReq = NoReq
    Requests <- TwoRequests
    Unbatched <- NoRequests
    ReadOnly <- OneRead
    InputCap = 2
    TaskCap = 2
    FreeRetries = 1
    MaxConns = 1
INVARIANT
    IdleWriterFlushed
CHECK_DEADLOCK FALSE
