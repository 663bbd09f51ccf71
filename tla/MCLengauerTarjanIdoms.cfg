SPECIFICATION Spec
CONSTANTS
    NBlocks = 5
    Cfgs <- MCCfgs
INVARIANTS
    IdomsCorrect
CHECK_DEADLOCK FALSE
