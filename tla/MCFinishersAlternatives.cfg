CONSTANTS
    Ids = {0, 1, 2, 3, 4}
    Rank <- Unordered
    Limits <- SomeLimits
    Looses <- SomeLooses
    MaxOffset = 1
    MaxSize = 3
    MaxBatches = 6
    Names = {n1, n2}
    Datas = {d1, d2}
    MaxKey = 7
    MaxRows = 1
    MaxValues = 3
    MaxOthers = 2
SPECIFICATION FSpec
\* Each is violated; leave one in at a time.
INVARIANTS EachOnce NoMoreThanRows OnlyMatched
CHECK_DEADLOCK FALSE
