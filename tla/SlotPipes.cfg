SPECIFICATION FairSpec
CONSTANTS
    Jobs = {j1, j2}
    Cores = 2
    Capacity = 1
    MaxSize = 2
    Host = host
    None = None
CHECK_DEADLOCK FALSE
INVARIANTS
    TypeOK
    OutputsAreWholeAndOwn
    NoDescriptorLeaks
PROPERTIES
    JobsAreAnswered
