CONSTANTS
    Task = {t1}
    NoTask = NoTask
    MaxNodes = 4
    MaxSlots = 2
    ResourceCap = 5
    Units = {3, 6}
    MaxIgnored = 0
    DirectSubmit = TRUE
    ReplayParents = TRUE
SPECIFICATION FairSpec
INVARIANTS
    AccountsExact
PROPERTIES
    NoBypass
    ImplementsPool
    
CHECK_DEADLOCK FALSE
