SPECIFICATION FairSpec
CONSTANTS
    MaxUpdates = 2
    Keep = 1
    Faults = {"kill", "crash", "reboot", "restart", "flip", "raise", "unlink"}
    None = None
INVARIANTS TypeOK WayBack NeededAreKept OutcomeIsTrue
PROPERTIES BootIsSafe UpdateEnds BlueGreenPromise
