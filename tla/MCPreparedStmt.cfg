CONSTANTS
    Procs = {t, p1, p2}
    TxProcs = {t}
    Closers = {p1, p2}
    TxQueries = {q1, q2}
    PlainQueries = {q1, q2}
    Capacity = 1
    MaxConns = 2
    MayExpire = TRUE
    CtxMayExpire = TRUE
    MaxCalls = 4
    MaxStmts = 3
    None = None
SPECIFICATION Spec
INVARIANTS CachedIsOpen NoLeak NoDeadlock
SYMMETRY PlainSymmetry
CHECK_DEADLOCK FALSE
