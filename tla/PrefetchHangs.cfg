CONSTANTS
    L = 2
    K = 1
    Experts = 2
    Window = 2
    Windows = 1
    Workers <- MCWorkers
    MaxForwards = 1
SPECIFICATION PrefetchSpec
PROPERTIES
    EveryForwardEnds
CHECK_DEADLOCK FALSE
