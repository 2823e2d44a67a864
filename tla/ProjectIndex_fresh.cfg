CONSTANTS
    File = {f1}
    MaxVersion = 2
    MaxGeneration = 3
    INDEX_GENERATION_RETENTION = 3
    WATCH_PATH_CAPACITY = 1
INIT IndexInit
NEXT IndexNext
INVARIANTS
    OneFresh
CHECK_DEADLOCK FALSE
