CONSTANTS
    Req <- MCPair
    Workers = 1
    MaxConcurrent = 2
    MaxQueueDepth = 1
    Capacity = 1
    Tokens = 2
    MaxRuntimes = 1
SPECIFICATION EngineFairSpec
PROPERTIES
    EveryCallReturns
CHECK_DEADLOCK FALSE
