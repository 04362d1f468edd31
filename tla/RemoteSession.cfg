CONSTANTS
    d = d
    o = o
    a1 = a1
    t1 = t1
    t2 = t2
    Clients = {d, o}
    DefaultClient = d
    Callers = {a1}
    ClientOf <- AllOther
    NonIdempotent = {}
    Abortable = {a1}
    RecoveryTasks = {t1, t2}
    MaxEpoch = 1
    MaxForgets = 1
    Drains = FALSE
SPECIFICATION LiveSpec
INVARIANT RecoveryHasOwner
PROPERTIES
    CallReturns
    UnknownClientRecovers
CHECK_DEADLOCK FALSE
