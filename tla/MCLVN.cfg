SPECIFICATION ValuesSpec
CONSTANTS
    Programs <- MCPrograms
    Registers <- MCRegisters
INVARIANTS
    ValuesTypeOK
    NumbersAreValues
    ValuesKept
CHECK_DEADLOCK FALSE
