SPECIFICATION ClientSpec
CONSTANTS
    NULL = NULL
    Reqs = {r1, r2, u1}
    Runs = {r1, r2}
    Chunks = 2
    MaxVersion = 2
    MaxTime = 2
    MaxFaults = 1
    SameSecond = FALSE
    Keep = 1
SYMMETRY MCSymmetry
INVARIANT SnapshotReplies
INVARIANT FailsOnlyByFault
INVARIANT BackupInv
INVARIANT SomeCompleteBackup
CHECK_DEADLOCK FALSE
