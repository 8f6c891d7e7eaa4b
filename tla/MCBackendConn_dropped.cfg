SPECIFICATION Spec
CONSTANTS
    r1 = r1
    r2 = r2
    r3 = r3
    NoReq = NoReq
    Requests <- TwoRequests
    Unbatched <- NoRequests
    ReadOnly <- NoRequests
    InputCap = 1
    TaskCap = 1
    FreeRetries = 1
    MaxConns = 1
INVARIANT
    AnsweredHasOutcome
CHECK_DEADLOCK FALSE
