SPECIFICATION FairSpec
CONSTANTS
    Zones <- ThreeZones
    Current = "z1"
    SentinelZones <- TwoSentinelZones
    Monitored <- SharedSentinels
    Addrs = {"a", "b"}
    ZoneLists <- Lists
    Sessions = {"s1"}
    NSentinels = 2
    MaxFailovers = 1
    MaxFaults = 1
INVARIANTS
    TypeOK
    UsersCounted
    PoolExact
    PanicsNeedSwitch
PROPERTIES
    MastersFollowed
    CloseCompletes
CHECK_DEADLOCK FALSE
