SPECIFICATION LoopsSpec
CONSTANTS
    NBlocks = 4
    Cfgs <- MCCfgs
    Junk <- MCJunk
INVARIANTS
    LoopsAreBackEdges
CHECK_DEADLOCK FALSE
