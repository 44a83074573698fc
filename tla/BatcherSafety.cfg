CONSTANTS
    Req <- MCReq
    PromptLen <- MCPromptLen
    MaxNew <- MCMaxNew
    PrefillStep = 2
    MaxSlots = 3
    MaxQueueDepth = 2
    BlockSize = 2
    MaxBlocks = 4
    Hits = {0, 1}
SPECIFICATION BatcherSpec
INVARIANTS
    BatcherTypeOK
    Conservation
    PoolWithinCapacity
    WithinBlockBudget
    SerialPrefill
    LengthLimit
PROPERTIES
    PrefillOrder
\* The scheduler stops when there is nothing to do; slots cancelled while no
\* step is due are only drained by the next step.
CHECK_DEADLOCK FALSE
