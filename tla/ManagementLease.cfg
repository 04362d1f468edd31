CONSTANTS
    i1 = i1
    i2 = i2
    q1 = q1
    q2 = q2
    h1 = h1
    h2 = h2
    NoHandler = NoHandler
    Installations = {i1, i2}
    RequestIds = {q1, q2}
    Handlers = {h1, h2}
    Operations = {"claim", "renew", "release", "restart", "takeover", "rotate"}
    LeaseDuration = 1
    DrainTimeout = 2
    MaxGeneration = 3
    MaxTime = 1
    MaxInstance = 2
SPECIFICATION Spec
SYMMETRY Symmetry
INVARIANTS
    LeaseInv
    CommitIsFenced
    RotatesOnce
PROPERTY LiveLeaseIsKept
