CONSTANTS
    Req <- MCReq
    PromptLen <- MCPromptLen
    MaxNew <- MCMaxNew
    PrefillStep = 2
    MaxSlots = 2
    MaxQueueDepth = 1
    BlockSize = 5
    MaxBlocks = 2
    Hits = {0, 1}
    Capacity = 2
    MaxFaults = 2
SPECIFICATION PumpFairSpec
INVARIANTS
    PumpTypeOK
    RowsMatchSlots
    AdmitFindsRow
    DecodeInputsReady
    KVMatchesHistory
    FirstEventsArrive
PROPERTIES
    StreamRefinement
    StreamsEndOrStrand
