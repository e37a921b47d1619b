SPECIFICATION Spec
CONSTANTS
    p1 = p1
    p2 = p2
    Process = {p1, p2}
    Nobody = Nobody
    MaxBytes = 2
    MaxRotated = 1
    MaxBatch = 1
    MaxRecords = 5
    MaxShort = 0
    MaxStuck = 0
    MaxBroken = 0
CHECK_DEADLOCK FALSE
INVARIANT LossIsAccounted
