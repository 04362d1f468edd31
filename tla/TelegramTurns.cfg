CONSTANTS
    QueueMax = 1
    NoticeHistory = 2
    MaxTurns = 2
    MaxItems = 1
    MaxMessages = 1
    MaxTokens = 2
    MaxRestarts = 0
    Faults = {"orphan", "late", "lag"}
SPECIFICATION Spec
INVARIANTS
    TurnInv
    FailureToldOnce
    QueueHasStarter
CHECK_DEADLOCK FALSE
