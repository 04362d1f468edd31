CONSTANTS
    t1 = t1
    t2 = t2
    r1 = r1
    r2 = r2
    NoRequest = NoRequest
    Tasks = {t1, t2}
    Requests = {r1, r2}
    MaxApiCalls = 1
    MaxPending = 1
SPECIFICATION FairSpec
INVARIANTS
    NoWorkAfterCommit
    DrainHasOwner
    SignalKeepsGateClosed
    NoLostWakeup
PROPERTIES
    GateSpec
    DrainEnds
