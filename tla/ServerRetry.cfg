SPECIFICATION SystemSpec
CONSTANTS
    Clients <- MCClients
    Conns <- MCConns
    Workers <- MCConns
    Placement <- MCPlacement
    Units = {u1, u2}
    Jids = {0}
    Cids = {0, 1}
    Cores = 2
    Overlap = TRUE
    MaxFaults = 1
    None = None
CHECK_DEADLOCK FALSE
INVARIANTS
    ClientTypeOK
    KilledUnitIsQuiet
    NoWorkWithoutWaiter
    IdNamesOwnCommand
    ForeignResultsAreStale
    FinishedClientsLeaveNothing
