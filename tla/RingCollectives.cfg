CONSTANTS
    N = 3
    Calls <- MCCalls
    Buffered = 0
SPECIFICATION RingSpec
INVARIANTS
    BarrierHolds
    SumsAreWhole
PROPERTIES
    RingCompletes
