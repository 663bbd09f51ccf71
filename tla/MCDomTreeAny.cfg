SPECIFICATION BuildSpec
CONSTANTS
    NBlocks = 4
    Cfgs <- MCCfgs
    Junk <- MCJunk
INVARIANTS
    IdomsCorrectOnAnyGraph
CHECK_DEADLOCK FALSE
