SPECIFICATION Spec
CONSTANTS
    t1 = t1
    t2 = t2
    Thread = {t1, t2}
    Free = Free
    May <- MayServe
    StartingPhase = 4
    PhaseLimit = 5
    SafetyCritical = FALSE
    AutoAdvance = TRUE
    AutoDemote = TRUE
    Interval = 2
    Cooldown = 1
    HasModel = TRUE
    HasVerifier = TRUE
    HeadSource = "strategy"
    Persist = TRUE
    StorageFaults = FALSE
    MaxRows = 1
    MaxFits = 0
    MaxCrashes = 1
INVARIANT NoPredictBehindOpenBreaker
INVARIANT BatchRestoresAutoAdvance
PROPERTY TripMeansHeadFailed
