CONSTANTS
    d = d
    o = o
    a1 = a1
    a2 = a2
    t1 = t1
    Clients = {d}
    DefaultClient = d
    Callers = {a1, a2}
    ClientOf <- AllDefault
    NonIdempotent = {a1, a2}
    Abortable = {}
    RecoveryTasks = {t1}
    MaxEpoch = 1
    MaxForgets = 1
    Drains = FALSE
SPECIFICATION Spec
INVARIANT ExecutedOnce
CHECK_DEADLOCK FALSE
