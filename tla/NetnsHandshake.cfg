SPECIFICATION FairSpec
CONSTANTS
    NAddrs = 3
INVARIANTS
    HeldIsLive
PROPERTIES
    StartReturns
    HelperEnds
CHECK_DEADLOCK FALSE
