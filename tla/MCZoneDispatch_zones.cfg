SPECIFICATION FairSpec
CONSTANTS
    Zones <- TwoZones
    Clients <- TwoClients
    Home <- ClientHome
    Writers = {"c1"}
    Owners <- AllOwners
    Sets <- SomeSets
    Faults <- SomeFaults
    MaxCommands = 2
INVARIANTS
    TypeOK
    AgreeWhenQuiet
    RolledBackRestores
    AcknowledgedEverywhere
    ValuesWereSet
PROPERTY
    EveryCommandEnds
CHECK_DEADLOCK FALSE
