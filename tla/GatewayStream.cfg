SPECIFICATION LiveSpec
CONSTANTS
    ToolKind <- MCToolKind
    Parses <- MCParses
    Readers = {r1}
    Capacity = 2
    MaxParts = 3
    MaxChunks = 3
    MaxWatched = 1
    MaxReads = 1
    MaxPurges = 1
INVARIANTS StreamInv WholeAnswer LogTellsTruth ReadIsSettled
PROPERTIES AnswerEnds LogServes
CHECK_DEADLOCK FALSE
