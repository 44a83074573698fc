CONSTANTS
    Req <- MCPair
    PromptLen <- MCPairPromptLen
    MaxNew <- MCPairMaxNew
    PrefillStep = 2
    MaxSlots = 2
    MaxQueueDepth = 1
    BlockSize = 2
    MaxBlocks = 0
    Hits = {0}
    Capacity = 3
    MaxFaults = 1
SPECIFICATION PumpFairSpec
PROPERTIES
    EveryStreamEnds
