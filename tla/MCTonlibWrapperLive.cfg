SPECIFICATION FairSpec
CONSTANTS
    Requests = {r1, r2, r3}
    Workers = 1
    MaxRequests = 1
    MaxRestartTasks = 2
    Faults <- NoFaults
PROPERTIES Answered Drains
CHECK_DEADLOCK FALSE
