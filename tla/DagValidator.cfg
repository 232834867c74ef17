SPECIFICATION FairSpec
CONSTANTS
    NodeId <- IdsUsed
    Definitions <- AllDefinitions
INVARIANTS
    TypeOK
    AcceptsTheWellFormed
    OrderIsTopological
    RejectionShowsACycle
PROPERTIES
    Terminates
CHECK_DEADLOCK FALSE
