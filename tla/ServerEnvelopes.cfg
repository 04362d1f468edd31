CONSTANTS
    Seqs = {1, 2, 3, 4, 5}
    Segments <- Mixed
    USIZE_MAX = 9
    Capacity = 2
SPECIFICATION EnvelopesSpec
INVARIANTS
    StrictlyOrdered
    AckedIsKept
CHECK_DEADLOCK FALSE
