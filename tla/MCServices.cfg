SPECIFICATION Spec
CONSTANTS
    Required = 3
    HardTimeout = 8
    Interval = 1
    Tolerance = 4
    RequestTimeout = 1
    AsksVersion = FALSE
    Tags = {1, 2}
    Untagged = FALSE
    Odd = 0
    Keys = {"device", "virtual"}
    Virtual = "virtual"
    Pollers = {a}
    QueueSize = 2
    MaxReading = 1
    MaxFaults = 1
    PollInterval = 1
    InitialBackoff = 1
    MaxBackoff = 6
    NightThreshold = 12
    Failures = 3
    Devices = {a, b}
    Width = 64
    StaleTimeout = 2
    a = a
    b = b
    Empty = Empty
    None = None
INVARIANTS TypeOK VerdictIsRight TagMatchesCache SkipIsRight StateFollowsDevice WrongTotalEnds
PROPERTIES EndsInTime OfferFollows BrokerCatchesUp PageFollows
