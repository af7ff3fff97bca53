CONSTANTS
    Defaults <- Processor
    Calls <- ReplacesStar
    Reuse = FALSE
    MaxCalls = 3
SPECIFICATION CSpec
INVARIANTS LatestRunsOnce
CHECK_DEADLOCK FALSE
