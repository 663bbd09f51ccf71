SPECIFICATION Spec
CONSTANTS
    MinCap = 2
    Junk = Junk
    Values <- MCValues
    MaxLen = 5
    MaxNodes = 5
INVARIANTS
    ContainersTypeOK
PROPERTIES
    ArraysAreSequences
    ListIsSequence
CHECK_DEADLOCK FALSE
