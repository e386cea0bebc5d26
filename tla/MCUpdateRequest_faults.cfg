SPECIFICATION FairSpec
CONSTANTS
    Clients = {a, b}
    MaxRequests = 2
    MaxNonces = 1
    Faults = {"disk", "kill", "crash", "reboot"}
    None = None
INVARIANTS TypeOK AtMostOnce BusyBeforeUpdate
PROPERTIES RefusalEnds OutcomeTold
