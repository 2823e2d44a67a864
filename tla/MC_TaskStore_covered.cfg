CONSTANTS
    Criteria = {}
    Attempts = {}
    Requests <- Relearned
    MaxIntent = 1
    MaxQuestions = 0
    MaxSelections = 1
    MaxPlans = 2
INIT TaskInit
NEXT TaskNext
INVARIANTS
    GateIsJudged
CHECK_DEADLOCK FALSE
