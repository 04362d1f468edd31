CONSTANTS
    QueueMax = 1
    NoticeHistory = 2
    MaxTurns = 2
    MaxItems = 2
    MaxMessages = 2
    MaxTokens = 0
    MaxRestarts = 1
    Faults = {"refusal", "failure", "notice"}
SPECIFICATION LiveSpec
INVARIANTS
    QueueKept
    ReservationHasOwner
PROPERTY QueueMoves
CHECK_DEADLOCK FALSE
