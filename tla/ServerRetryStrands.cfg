SPECIFICATION FairSpec
CONSTANTS
    Conns = {c1, c2}
    Workers = {w1, w2}
    Units = {u1}
    Jids = {j1}
    Cids = {0}
    Cores = 2
    Overlap = TRUE
    None = None
CHECK_DEADLOCK FALSE
PROPERTIES
    WaitersAreAnswered
