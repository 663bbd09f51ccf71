SPECIFICATION Spec
CONSTANTS
    NBlocks = 5
    Cfgs <- MCCfgs
INVARIANTS
    TypeOK
    SearchTreeIsDepthFirst
    SemisCorrect
    BucketsSettleIdoms
    IdomsCorrectButLast
    AbortsExplained
PROPERTIES
    Ends
CHECK_DEADLOCK FALSE
