SPECIFICATION FlowSpec
CONSTANTS
    NBlocks = 4
    Cfgs <- MCCfgs
INVARIANTS
    FlowTypeOK
    SolutionExact
    SolutionKept
PROPERTIES
    FlowEnds
CHECK_DEADLOCK FALSE
