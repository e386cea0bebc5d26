SPECIFICATION Spec
CONSTANTS
    VenusLimit = {20}
    WebLimit = {}
    Clamp <- Ceiling
    LockFor = {"timed"}
    MaxInflight = 1
    LastTTL = 2
    StateTTL = 3
    LockTTL = 4
    Fault = {"tear"}
    Missing = Missing
INVARIANTS TypeOK LimitSurvivesRestart DrainedMeansQuiet
