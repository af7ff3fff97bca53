CONSTANTS
    Defaults <- Processor
    Calls <- OneWish
    Reuse = FALSE
    MaxCalls = 4
SPECIFICATION CSpec
INVARIANTS LatestRunsOnce OrderAsAsked
CHECK_DEADLOCK FALSE
