SPECIFICATION LiveSpec
CONSTANTS
    WORD_SIZE = 64
    INT_SIZE = 32
    NBlocks = 3
    Programs <- MCPrograms
    Cfgs <- MCCfgs
INVARIANTS
    LiveTypeOK
    GatherExact
    LiveOutExact
PROPERTIES
    TablesFilled
    LiveEnds
CHECK_DEADLOCK FALSE
