SPECIFICATION Spec
CONSTANTS
    Requests = {r1, r2}
    Workers = 2
    MaxRequests = 1
    MaxRestartTasks = 2
    Faults <- AllFaults
SYMMETRY Symmetry
INVARIANTS TableInv LossCausesRestart OneReconnect
PROPERTIES SettledForGood ReaderLeavesNobody ImplementsChannel
CHECK_DEADLOCK FALSE
