CONSTANTS
    Task = {t1, t2, t3}
    NoTask = NoTask
    MaxNodes = 4
    MaxSlots = 2
    ResourceCap = 2
    Units = {1}
    MaxIgnored = 1
    DirectSubmit = FALSE
    ReplayParents = FALSE
SPECIFICATION Spec
SYMMETRY Symmetry
INVARIANTS
    WaitsCanEnd

    
CHECK_DEADLOCK FALSE
