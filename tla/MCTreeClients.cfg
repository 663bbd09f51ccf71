SPECIFICATION ClientsSpec
CONSTANTS
    NBlocks = 4
    Cfgs <- MCCfgs
    Junk <- MCJunk
INVARIANTS
    FrontiersTypeOK
    OrderListsReachable
    LaterTargetsCloseCycles
    IdomsCorrect
    TreeKeepsDominators
    FingersInTree
    ParentsLater
    FrontiersCorrect
    LoopsTypeOK
    LoopsAreNatural
    LoopsNest
PROPERTIES
    BlocksMoveUp
    ClientsEnd
CHECK_DEADLOCK FALSE
