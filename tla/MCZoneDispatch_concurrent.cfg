SPECIFICATION Spec
CONSTANTS
    Zones <- TwoZones
    Clients <- TwoClients
    Home <- ClientHome
    Writers = {"c1", "c2"}
    Owners <- NoOwner
    Sets <- TwoValues
    Faults <- NoFaults
    MaxCommands = 2
INVARIANT
    AgreeWhenQuiet
CHECK_DEADLOCK FALSE
