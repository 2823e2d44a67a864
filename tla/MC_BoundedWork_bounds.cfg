CONSTANTS
    parent = parent
    child = child
    Scope = {parent, child}
    Chains <- SmallChains
    MaxAttempts = 2
    MaxDirect = 0
    Limits = {4}
    Bounds = {2}
    Sends = {1, 2}
    Tokens = {1}
    MaxTickets = 1
    MaxCrashes = 1
    MaxLost = 1
    Foreign = FALSE
SPECIFICATION WFairSpec
PROPERTIES
    WorkersStayBounded
CHECK_DEADLOCK FALSE
