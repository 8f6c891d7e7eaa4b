SPECIFICATION FairSpec
CONSTANTS
    MaxCommands = 3
    MaxPipeline = 0
INVARIANTS
    RepliesInOrder
    NoLostWakeup
    CountedOnce
    ErrorEndsSession
PROPERTIES
    GoneSessionEnds
    EveryCommandReplied
CHECK_DEADLOCK FALSE
