CONSTANTS
    Procs = {t, p1, p2}
    TxProcs = {t}
    Closers = {p1}
    TxQueries = {q1}
    PlainQueries = {q1}
    Capacity = 1
    MaxConns = 2
    MayExpire = TRUE
    CtxMayExpire = TRUE
    MaxCalls = 3
    MaxStmts = 3
    None = None
SPECIFICATION FairSpec
INVARIANT ReturnedIsReady
PROPERTY EveryCallReturns
CHECK_DEADLOCK FALSE
