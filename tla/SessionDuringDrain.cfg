CONSTANTS
    d = d
    o = o
    a1 = a1
    t1 = t1
    Clients = {d}
    DefaultClient = d
    Callers = {a1}
    ClientOf <- AllDefault
    NonIdempotent = {}
    Abortable = {a1}
    RecoveryTasks = {t1}
    MaxEpoch = 2
    MaxForgets = 1
    Drains = TRUE
SPECIFICATION LiveSpec
INVARIANTS
    SessionInv
PROPERTY DefaultClientSettles
CHECK_DEADLOCK FALSE
