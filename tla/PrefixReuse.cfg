CONSTANTS
    Req <- MCReq
    Prompts <- MCPrompts
    Configs <- MCConfigs
    Limits <- MCLimits
    MaxClock = 4
    Step = 2
SPECIFICATION PrefixSpec
INVARIANTS
    PrefixTypeOK
    RestoredIsPrefix
    EntriesFaithful
    BudgetsHold
PROPERTIES
    EvictsLeastRecent
\* The bound on the clock ends the run.
CHECK_DEADLOCK FALSE
