SPECIFICATION Spec
CONSTANTS
    r1 = r1
    r2 = r2
    r3 = r3
    NoReq = NoReq
    Requests <- ThreeRequests
    Unbatched <- OnePing
    ReadOnly <- OneRead
    InputCap = 2
    TaskCap = 2
    FreeRetries = 1
    MaxConns = 2
INVARIANTS
    RightReply
    WaitGroupExact
    ConnectedOnlyWhileServing
    PingLostOnlyToBurst
    ClosingRoundServesAll
    UnbrokenIdleFlushed
CHECK_DEADLOCK FALSE
