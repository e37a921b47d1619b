SPECIFICATION Spec
CONSTANTS
    None = None
    Truth = Truth
    Mistake = Mistake
    Blank = Blank
    Num = 3
    Den = 5
    DropNum = 3
    DropDen = 5
    MinPaired = 2
    MinRecords = 3
    Margin = 10
    Case <- Every
    Gates = {"v2", "guarded", "either"}
    Answers = {"judges", "abstains"}
    Slow = {5}
    StartingPhase = 5
    PhaseLimit = 5
    SafetyCritical = FALSE
    HasModel = TRUE
    HasVerifier = TRUE
    Adjudicate = TRUE
    AutoAdvance = TRUE
    AutoDemote = TRUE
    Interval = 1
    Cooldown = 1
    MaxRows = 4
 
 
 
PROPERTY PromotedOnTruth
