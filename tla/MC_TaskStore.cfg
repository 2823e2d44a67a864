CONSTANTS
    Criteria = {c1, c2}
    Attempts = {a1}
    Requests <- Requested
    MaxIntent = 2
    MaxQuestions = 2
    MaxSelections = 2
    MaxPlans = 2
INIT TaskInit
NEXT TaskNext
INVARIANTS
    PlanHoldsTask
PROPERTIES
    PlanReleasesItsOwn
    EndsAreProven
CHECK_DEADLOCK FALSE
