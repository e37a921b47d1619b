SPECIFICATION Spec
CONSTANTS
    t1 = t1
    t2 = t2
    Thread = {t1, t2}
    Free = Free
    May <- MayOwner
    StartingPhase = 3
    PhaseLimit = 5
    SafetyCritical = FALSE
    AutoAdvance = TRUE
    AutoDemote = TRUE
    Interval = 2
    Cooldown = 3
    HasModel = TRUE
    HasVerifier = FALSE
    HeadSource = "strategy"
    Persist = TRUE
    StorageFaults = FALSE
    MaxRows = 1
    MaxFits = 2
    MaxCrashes = 1
 
INVARIANT DiscardedHeadStaysDiscarded
PROPERTY AutoMovesCooled
