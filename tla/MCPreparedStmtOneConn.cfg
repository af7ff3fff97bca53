CONSTANTS
    Procs = {t, p1, p2}
    TxProcs = {t}
    Closers = {}
    TxQueries = {insert}
    PlainQueries = {select}
    Capacity = 2
    MaxConns = 1
    MayExpire = FALSE
    CtxMayExpire = FALSE
    MaxCalls = 4
    MaxStmts = 4
    None = None
SPECIFICATION Spec
INVARIANT NoDeadlock
CHECK_DEADLOCK FALSE
