SPECIFICATION LiveSpec
CONSTANTS
    WORD_SIZE = 4
    INT_SIZE = 2
    NBlocks = 5
    Programs <- MCPrograms
    Cfgs <- MCCfgs
INVARIANTS
    EquationsHold
CHECK_DEADLOCK FALSE
