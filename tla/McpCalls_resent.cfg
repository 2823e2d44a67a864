CONSTANTS
    MaxCalls = 3
INIT McpInit
NEXT McpNext
INVARIANTS
    NeverResent
CHECK_DEADLOCK FALSE
