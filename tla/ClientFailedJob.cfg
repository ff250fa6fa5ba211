SPECIFICATION FairSpec
CONSTANTS
    Locals = {l1}
    Remotes = {r1}
    MaxInputs = 2
    MaxBreaks = 1
    NodeErrors = FALSE
    None = None

CHECK_DEADLOCK FALSE
PROPERTIES
    FailedJobIsPassed
