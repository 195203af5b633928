SPECIFICATION PartsSpec
CONSTANTS
    t1 = t1  t2 = t2  a1 = a1  a2 = a2  i1 = i1  i2 = i2
    Tasks = {t1, t2}
    Addresses = {a1}
    Ids = {i1, i2}
    NoLimit = NoLimit
    Budgets <- FewBudgets
    MaxWrappers = 2
    MaxInits = 1
    Clients = {c1}
    Rounds = 2
    LogLines = 3
    PipeSize = 5
    AppLines = 2
INVARIANT CaptureInv
PROPERTIES RequestsAnswered RestartRecovers CaptureEnds
CHECK_DEADLOCK FALSE
