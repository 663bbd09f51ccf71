SPECIFICATION ValuesSpec
CONSTANTS
    Programs <- MCPrograms
    Registers <- MCRegisters
INVARIANTS
    RewriteKeepsValues
CHECK_DEADLOCK FALSE
