SPECIFICATION ClientSpec
CONSTANTS
    NULL = NULL
    Reqs = {u1, u2}
    Runs = {}
    Chunks = 2
    MaxVersion = 2
    MaxTime = 0
    MaxFaults = 0
    SameSecond = TRUE
    Keep = 1
SYMMETRY MCSymmetry
INVARIANT SnapshotReplies
CHECK_DEADLOCK FALSE
