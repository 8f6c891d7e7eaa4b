SPECIFICATION Spec
CONSTANTS
    Zones <- TwoZones
    Clients <- TwoClients
    Home <- ClientHome
    Writers = {"c1"}
    Owners <- ThisOwner
    Sets <- OneValue
    Faults <- ErrorReplies
    MaxCommands = 2
INVARIANT
    OnlyValuesStored
CHECK_DEADLOCK FALSE
