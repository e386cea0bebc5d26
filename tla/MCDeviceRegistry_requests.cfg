SPECIFICATION FairSpec
CONSTANTS
    Ids = {d1, d2}
    Handlers = {1, 2}
    Requests = {"add", "edit", "delete", "save", "import", "scan"}
    MaxTasks = 3
    MaxRequests = 5
INVARIANTS TypeOK PollsOpenPlugin ConfigIsPolled CleanWhenSerial PollingResumes
PROPERTIES RequestsEnd
CHECK_DEADLOCK FALSE
