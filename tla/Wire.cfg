SPECIFICATION Spec
CONSTANTS
    Commands <- MCCommands
    Texts <- MCTexts
    Results <- MCResults
    Jids <- MCJids
    Cids <- MCCids
    Listings <- MCListings
    MaxInputs = 2
    None = None
CHECK_DEADLOCK FALSE
INVARIANTS
    RequestsArriveIntact
    ResultsArriveIntact
    ResultsKeepTheirId
    CommandIsUnderstood
    OnlyOwnCommandIsDeleted
    CommandIsDeleted
