CONSTANTS
    Scope = {s1, s2}
    MaxAttempts = 2
    MaxDirect = 1
    Limits = {2}
    Bounds = {2}
    Sends = {1}
    Tokens = {1, 3}
    MaxTickets = 2
    MaxCrashes = 1
    MaxLost = 1
    Foreign = TRUE
    MaxSettlements = 3
    MaxSends = 2
    Cohorts <- CohortMC
    Usage <- UsageMC
    Absent = 9
    MaxFaults = 2
    Obligation = {"o1", "o2"}
    MaxRows = 3
    MaxProofs = 1
    MaxIntents = 1
    FoldedLine = 3
    RecordLine = 2
    TwoDigits = 3
    Fork <- ForksMC
    SLOTS = 2
    MaxForks = 3
    Check = {"c1"}
    Assertion = {"a", "b"}
    GapCause = {"fixture", "import"}
    MaxRestores = 2
    MaxBuilds = 2
    Part <- PartMC
    MaxParts = 3
    ARRAY_MAX_ITEMS = 3
    TaskCriteria = {{}, {1}, {1, 2}}
INIT SumInit
NEXT SumNext
SYMMETRY Symmetry
INVARIANTS
    LedgerExact
    BudgetHeld
    EconomyIsProven
PROPERTIES
    SettledIsFinal
    EvidenceHolds
    PlansAreSound
CHECK_DEADLOCK FALSE
