SPECIFICATION Spec
CONSTANTS
    MaxNodes = 2
    ArgumentLists <- MCArgumentLists
    None = None
CHECK_DEADLOCK FALSE
INVARIANTS
    TypeOK
    ArgumentsAreKept
    NothingIsLeftBehind
PROPERTIES
    StartEnds
