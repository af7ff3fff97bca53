CONSTANTS
    Defaults <- Processor
    Calls <- PlainPairs
    Reuse = FALSE
    MaxCalls = 4
SPECIFICATION CSpec
INVARIANTS PlainWishes OrderAsAsked
CHECK_DEADLOCK FALSE
