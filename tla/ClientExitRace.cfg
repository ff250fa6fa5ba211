SPECIFICATION FairSpec
CONSTANTS
    Locals = {l1}
    Remotes = {}
    MaxInputs = 2
    MaxBreaks = 0
    NodeErrors = FALSE
    None = None

CHECK_DEADLOCK FALSE
PROPERTIES
    ExitsOnceAllProcessed
