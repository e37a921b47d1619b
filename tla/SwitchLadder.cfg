SPECIFICATION FairSpec
CONSTANTS
    t1 = t1
    t2 = t2
    Thread = {t1, t2}
    Free = Free
    May <- MayBatchOperator
    StartingPhase = 3
    PhaseLimit = 4
    SafetyCritical = FALSE
    AutoAdvance = TRUE
    AutoDemote = TRUE
    Interval = 2
    Cooldown = 2
    HasModel = TRUE
    HasVerifier = FALSE
    HeadSource = "explicit"
    Persist = TRUE
    StorageFaults = TRUE
    MaxRows = 2
    MaxFits = 0
    MaxCrashes = 1
INVARIANT JudgedPhaseStands
PROPERTY RefinesLifecycle
PROPERTY BatchFinishes
PROPERTY HeadLoads
