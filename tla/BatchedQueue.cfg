SPECIFICATION FairSpec
CONSTANTS
    t1 = t1
    t2 = t2
    a = a
    b = b
    Caller = {t1, t2}
    Flusher = Flusher
    Switch = {a}
    May <- MayShare
    MaxRecords = 3
    MaxFaults = 2
CHECK_DEADLOCK FALSE
INVARIANT NothingLost
INVARIANT WrittenInOrder
INVARIANT FlushPointsHold
PROPERTY EventuallyWritten
