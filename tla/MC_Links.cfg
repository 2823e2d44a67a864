CONSTANTS
    Dialect = {"chat", "responses", "messages", "gemini", "converse", "ollama"}
    MaxEvents <- EventsMC
    MAX_TOOL_CALLS = 2
    MaxInput = 4
    MaxFrames = 5
    MAX_LINE_BYTES = 2
    MAX_DATA_BYTES = 4
    MAX_EVENTSTREAM_FRAME_BYTES = 4
    MAX_EVENTSTREAM_BYTES = 6
    Caller = {c1, c2, c3}
    NoCaller = NoCaller
    MaxToken = 2
    MaxFlights = 2
    Kinds = {"openai", "gitlab", "device", "copilot", "cursor"}
    MaxSessions = 2
    MaxTime = 4
    Window = 2
    Interval = 1
    SLOW_DOWN = 1
    MAX_INTERVAL = 2
    POLL_MAX_ATTEMPTS = 2
    TRANSPORT_ERROR_LIMIT = 2
    MaxCalls = 2
    Inode = {1, 2}
    MaxRows = 2
    MaxForeign = 1
    Connections = {k1, k2}
    Groups = {g1}
    Purposes = {q1, q2}
    Profiles = {r1}
    Connection = {"a", "b", "c"}
    Pool <- PoolMC
    RowsOf <- RowsMC
    Pinned = {"c"}
    Chain <- ChainMC
    Contract <- ContractMC
    OneShot = {"x"}
    MaxAttempts = 3
    MaxMoves = 1
    Lineage <- LineageMC
    Blob = {"x"}
    ModelId = {"m", "n"}
    MODEL_WIRE_MAX = 2
    MaxItems = 2
    MaxSends = 3
INIT SumInit
NEXT SumNext
SYMMETRY Symmetry
INVARIANTS
    RepliesAreExact
    CredentialsAreCurrent
    CallsAreHonest
    BrokerIsSound
    LineagesStayTrue
PROPERTIES
    ConfigurationStands
CHECK_DEADLOCK FALSE
