SPECIFICATION Spec
CONSTANTS
    Caller = {c1, c2}
    Verbs <- AllVerbs
    MaxCalls = 2
    MaxFaults = 1
INVARIANT VerdictForCarriesShadows
CHECK_DEADLOCK FALSE
