SPECIFICATION Spec
CONSTANTS
    Byte <- MCByte
    Requests <- MCRequests
    Replies <- MCReplies
    Foreign <- MCForeign
    MaxMessages = 2
    Limits <- MCLimits
    Pieces = {1, 2, 3, 5, 99}
    ReaderSize = 5
    WriterSize = 4
    BlockSize = 12
    OwnSize = 6
    minItoa <- MCminItoa
    maxItoa = 3
    MaxBulkBytesLen = 8
    MaxArrayLen = 4
INVARIANTS
    TypeOK
    DecodedIsEncoded
    FlushedArrives
    PiecesDoNotMatter
CHECK_DEADLOCK FALSE
