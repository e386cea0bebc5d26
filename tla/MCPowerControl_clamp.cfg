SPECIFICATION Spec
CONSTANTS
    VenusLimit = {20, 80}
    WebLimit = {60}
    Clamp <- Ordered
    LockFor = {"permanent"}
    MaxInflight = 1
    LastTTL = 2
    StateTTL = 3
    LockTTL = 4
    Fault = {}
    Missing = Missing
INVARIANTS ClampBoundsVenus
