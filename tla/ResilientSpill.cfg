SPECIFICATION FairSpec
CONSTANTS
    t1 = t1
    t2 = t2
    Caller = {t1, t2}
    Switch = {1, 2}
    May <- MayOneWriter
    Capacity = 2
    ProbeEvery = 3
    MaxRecords = 3
    MaxFaults = 2
CHECK_DEADLOCK FALSE
INVARIANT SpillIsKept
INVARIANT ReadIsComplete
 
PROPERTY ImplementsOutcomeLog
