SPECIFICATION Spec
CONSTANTS
    Clients = {c1, c2}
    Rounds = 1
    LogLines = 1
    PipeSize = 4
    AppLines = 1
INVARIANT StdoutBackInPlace
CHECK_DEADLOCK FALSE
