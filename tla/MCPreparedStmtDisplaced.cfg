CONSTANTS
    Procs = {t, p1, p2}
    TxProcs = {t}
    Closers = {}
    TxQueries = {q1}
    PlainQueries = {q1}
    Capacity = 1
    MaxConns = 2
    MayExpire = TRUE
    CtxMayExpire = TRUE
    MaxCalls = 2
    MaxStmts = 3
    None = None
SPECIFICATION Spec
INVARIANT NothingForgotten
CHECK_DEADLOCK FALSE
