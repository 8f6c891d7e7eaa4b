SPECIFICATION ReportSpec
CONSTANTS
    c1 = c1
    c2 = c2
    c3 = c3
    Conns = {c1, c2, c3}
    MaxClients = 2
    MaxCommands = 3
    DelayMin = 1
    DelayMax = 1
SYMMETRY Symmetry
INVARIANTS
    TypeOK
    AliveExact
    StatisticsComplete
    ReportedWereReceived
PROPERTIES
    RejectedOnlyWhenFull
