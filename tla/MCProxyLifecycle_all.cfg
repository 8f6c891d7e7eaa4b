SPECIFICATION FairSpec
CONSTANTS
    Tickers = {"keepAlive"}
    SentinelMode = TRUE
    Gets = {"get"}
    CallbackCap = 1
INVARIANTS
    TypeOK
    ExitIsClean
PROPERTIES
    ProcessEnds
    ApiAnswers
CHECK_DEADLOCK FALSE
