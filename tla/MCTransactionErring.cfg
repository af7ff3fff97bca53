CONSTANTS
    Writes = {w1}
    MaxDepth = 1
    MaxMarks = 1
    MaxBlocks = 1
    FailAborts = FALSE
    SavePointsFail = FALSE
SPECIFICATION Spec
INVARIANTS EndedInAnyCase
CHECK_DEADLOCK FALSE
