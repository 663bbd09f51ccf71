SPECIFICATION ParserSpec
CONSTANTS
    NBlocks = 2
    INT_MAX = 15
    Texts <- MCTexts
INVARIANTS
    ParserTypeOK
    ListsInOrder
    CfgFollowsCode
PROPERTY
    ParserEnds
CHECK_DEADLOCK FALSE
