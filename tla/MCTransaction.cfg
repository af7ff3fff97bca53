CONSTANTS
    Writes = {w1, w2}
    MaxDepth = 3
    MaxMarks = 4
    MaxBlocks = 2
    FailAborts = TRUE
    SavePointsFail = FALSE
SPECIFICATION Spec
INVARIANTS AlwaysEnded
PROPERTIES ImplementsAtomicBlocks ErrorMeansRolledBack
CHECK_DEADLOCK FALSE
