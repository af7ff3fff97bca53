CONSTANTS
    Writes = {w1, w2}
    MaxDepth = 2
    MaxMarks = 2
    MaxBlocks = 1
    FailAborts = FALSE
    SavePointsFail = TRUE
SPECIFICATION Spec
PROPERTIES ErrorMeansRolledBack
CHECK_DEADLOCK FALSE
