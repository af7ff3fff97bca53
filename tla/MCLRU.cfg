CONSTANTS
    Keys = {k1, k2, k3}
    Values = {v1}
    Sizes = {0, 2}
    TTL = 1
    NumBuckets = 2
    MaxTime = 3
SPECIFICATION FairSpec
INVARIANTS TypeOK ViewsAgree
PROPERTIES SweepOnlyExpired ImplementsCache ExpiredAreSwept
CHECK_DEADLOCK FALSE
