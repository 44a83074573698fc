CONSTANTS
    L = 2
    K = 2
    Experts = 4
    Window = 3
    Windows = 2
    Workers <- MCWorkers
    MaxForwards = 3
SPECIFICATION PrefetchSpec
INVARIANTS
    PoolInv
    OneOutstanding
PROPERTIES
    EveryForwardEnds
CHECK_DEADLOCK FALSE
