CONSTANTS
    c1 = c1
    c2 = c2
    Conversations = {c1, c2}
    Capacity = 1
    MaxMessages = 3
    MaxWorkers <- WorkersNeeded
    MaxPanics = 1
SPECIFICATION LiveSpec
INVARIANTS
    OneAtATime
    HandledInOrder
    NothingLost
PROPERTY MessagesSettle
CHECK_DEADLOCK FALSE
