SPECIFICATION Spec
CONSTANTS
    Conns = {c1, c2, c3}
    Workers = {w1, w2}
    Units = {u1, u2}
    Jids = {j1, j2}
    Cids = {0, 1}
    Cores = 2
    Overlap = FALSE
    None = None
SYMMETRY Perms
INVARIANTS
    TypeOK
    KilledUnitIsQuiet
    HeldCommandStays
    NoOrphanThreads
    WaiterHasItsOneToken
PROPERTIES
    LiveIdsAreStable
    IdReplyNamesTheCommand
    ImplementsService
