CONSTANTS
    EffectId = {e1, e2}
    EffectClass = {"Read", "Write", "Exec"}
    Mode = {"Auto"}
    MaxChanges = 1
    MaxFlips = 1
    SourceFile = {f1, f2}
    MaxEdits = 1
    LockRow <- LockRowMC
    MaxLockRows = 2
    Digest = {"good", "other"}
    Garbage = {"other"}
    LEAF_MAX = 2
    STAGED_MAX = 2
    FirstFiles <- FirstFilesMC
    MaxHostSteps = 1
    File = {f1, f2}
    MaxVersion = 2
    MaxGeneration = 2
    INDEX_GENERATION_RETENTION = 1
    WATCH_PATH_CAPACITY = 1
    DeltaId = {d1, d2, d3}
    Offered <- ChangeMC
    Facts <- FactsMC
    CorpusCalls <- CallsMC
    BaseBytes = 1
    DELTA_INSTRUCTION_MAX_BYTES = 3
    DEFINITION_MAX_BYTES = 7
    LEARNING_DELTA_RETENTION = 2
    Procedure = {f1, f2}
    Steps = 2
    MaxRuns = 3
    MaxTries = 2
    PROCEDURE_RUN_RETENTION = 1
INIT SumInit
NEXT SumNext
SYMMETRY Symmetry
INVARIANTS
    FreshIsCurrent
PROPERTIES
    EffectsAreAdmitted
    ChecksAreSound
    
CHECK_DEADLOCK FALSE
