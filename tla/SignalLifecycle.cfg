SPECIFICATION FairSpec
CONSTANTS
    a = a
    b = b
    own = own
    None = None
    Untrained = Untrained
    Judge = {a, b}
    Rule = {1}
    Version = {1, 2, 3}
    Embedded = {1, 2}
    Baseline = 1
    OwnGate = {own}
    Counting = {1}
    Selecting = {b}
    Action = "demote"
    StartingPhase = 1
    May <- Everything
    Rollout <- Upgrades
    MaxRestarts = 2
    MaxMoves = 1
INVARIANT HeadFitsJudge
INVARIANT GateMatchesPin
PROPERTY LockIsLeft
