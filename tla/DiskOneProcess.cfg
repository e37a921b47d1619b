SPECIFICATION Spec
CONSTANTS
    p1 = p1
    p2 = p2
    Process = {p1}
    Nobody = Nobody
    MaxBytes = 2
    MaxRotated = 2
    MaxBatch = 2
    MaxRecords = 7
    MaxShort = 1
    MaxStuck = 1
    MaxBroken = 1
CHECK_DEADLOCK FALSE
INVARIANT LogIsKept
INVARIANT LossIsAccounted
