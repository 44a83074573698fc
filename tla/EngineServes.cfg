CONSTANTS
    Req <- MCPair
    Workers = 2
    MaxConcurrent = 2
    MaxQueueDepth = 2
    Capacity = 1
    Tokens = 2
    MaxRuntimes = 2
SPECIFICATION EngineFairSpec
INVARIANTS
    EngineTypeOK
    OneDriver
    InFlightIsDriven
    EngineInv
PROPERTIES
    EveryCallReturns
    ResponseEndsOrPumpFails
\* The engine stops when every request has been served.
CHECK_DEADLOCK FALSE
