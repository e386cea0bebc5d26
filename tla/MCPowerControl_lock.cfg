SPECIFICATION Spec
CONSTANTS
    VenusLimit = {20}
    WebLimit = {}
    Clamp <- Release
    LockFor = {"timed"}
    MaxInflight = 1
    LastTTL = 2
    StateTTL = 3
    LockTTL = 6
    Fault = {}
    Missing = Missing
INVARIANTS LockedRunsAtFullPower
