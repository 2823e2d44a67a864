CONSTANTS
    AnswerCap = 2
    Answer = 2
    MaxOutput = 3
    Deadline = 2
    Grace = 1
    HOOK_MAX_DEPTH = 2
    Grant = {g1}
    Peer = {n1, n2}
    Ttl = 1
    MAX_CONNECTIONS = 1
    MAX_FRAMES_PER_TURN = 2
    MaxTime = 2
    MaxQuestions = 2
    MaxKeys = 4
    PRE_PAINT_DRAIN_CAP = 4
SPECIFICATION SumSpec
INVARIANTS
    ProcessesAreFenced
    SharingIsGranted
    

    
CHECK_DEADLOCK FALSE
