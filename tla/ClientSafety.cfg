SPECIFICATION Spec
CONSTANTS
    Locals = {l1}
    Remotes = {r1, r2}
    MaxInputs = 3
    MaxBreaks = 2
    NodeErrors = TRUE
    None = None
SYMMETRY Perms
CHECK_DEADLOCK FALSE
INVARIANTS
    TypeOK
    JobIsInOnePlace
    KillOnlyWhenAllPrinted
