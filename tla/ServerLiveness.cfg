SPECIFICATION FairSpec
CONSTANTS
    Conns = {c1, c2, c3}
    Workers = {w1, w2}
    Units = {u1}
    Jids = {j1}
    Cids = {0}
    Cores = 2
    Overlap = FALSE
    None = None
PROPERTIES
    StopCompletes
    DrainsWhenClientsStop
