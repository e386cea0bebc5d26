SPECIFICATION Spec
CONSTANTS
    MaxUpdates = 2
    Keep = 1
    Faults = {"late"}
    None = None
INVARIANTS WayBack

CHECK_DEADLOCK FALSE
