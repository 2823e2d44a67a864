CONSTANTS
    Attempt = {a1, a2}
    NoAttempt = na
    Process = {p1, p2}
    MaxInodes = 2
    STORE_PARKED_MAX = 1
    MaxVersion = 3
    Install <- InstallMC
    Rule <- RuleMC
    UserRecords = {2, 3}
    RoleBinding = {11}
    ActionBinding = {21, 22}
    FirstBound <- FirstBoundMC
    Effect <- EffectMC
    BASE_VERSION_RETENTION = 1
    MaxEpoch = 4
    PageSize = 1
    MaxAttempts = 3
    MaxBase = 3
    EVIDENCE_MAX_RECORDS = 2
    PROJECTION_MAX_RECORDS = 2
    MaxThreads = 4
    MaxSweeps = 2
    MaxPinned = 3
    Command = {c1, c2}
    Bootstrap = {b1, b2}
    MaxIntent = 2
    MaxAnswers = 2
    MaxEdits = 2
    Content <- ContentsMC
    PAGE = 1
    MaxTasks = 3
    MaxRevision = 2
    MaxLog = 4
    Class = {"read", "test"}
    Threshold <- ThresholdMC
    Observations <- ObservationsMC
    WATCH_LIMIT = 2
    MaxObservations = 5
    Profile <- ProfileMC
    MaxTokens = 5
    Shape <- ShapeMC
    Files = 2
    Bounds = {1, 3}
    MaxTreeChanges = 1
    Document = {1, 2, 3, 4, 5}
    Relation <- RelationMC
    Seed = 1
    Depths = {1, 4}
    Nodes = {1, 2, 4}
    ArgTokens <- TokenMC
    MaxArgs = 3
    Resource = {"as", "cpu"}
    WORKER <- WorkerLimit
    CHECK <- CheckLimit
    Ceilings = {1, 3, 5}
    Budgets = {1, 2}
    MaxMoves = 2
    Machine = {"x86_64", "aarch64"}
    Flags <- FlagMC
    SocketArg <- SocketArgMC
INIT SumInit
NEXT SumNext
INVARIANTS
    ClaimRunsOnce
    OneWriterHolds
    ConfinementHolds
    BindingIsRight
    ReadersAreHonest
PROPERTIES
    
    UpdateIsHonest
    RequestsCountOnce
    ReadsAreWhole
    LoopsAreCaught
CHECK_DEADLOCK FALSE
