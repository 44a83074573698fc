CONSTANTS
    Req <- MCReqShort
    PromptLen <- MCPromptLenShort
    MaxNew <- MCMaxNewShort
    PrefillStep = 1
    MaxSlots = 3
    MaxQueueDepth = 2
    BlockSize = 1
    MaxBlocks = 0
    Hits = {0}
SPECIFICATION BatcherFairSpec
PROPERTIES
    EveryRequestStarts
CHECK_DEADLOCK FALSE
