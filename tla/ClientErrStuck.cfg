SPECIFICATION FairSpec
CONSTANTS
    Locals = {}
    Remotes = {r1}
    MaxInputs = 1
    MaxBreaks = 0
    NodeErrors = TRUE
    None = None

CHECK_DEADLOCK FALSE
PROPERTIES
    AnsweredSlotsReturn
