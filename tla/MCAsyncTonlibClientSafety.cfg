SPECIFICATION Spec
CONSTANTS
    t1 = t1  t2 = t2  a1 = a1  a2 = a2  i1 = i1  i2 = i2
    Tasks = {t1, t2}
    Addresses = {a1, a2}
    Ids = {i1, i2}
    NoLimit = NoLimit
    Budgets <- SomeBudgets
    MaxWrappers = 3
    MaxInits = 2
CONSTRAINT ExploredPart
SYMMETRY Symmetry
INVARIANTS WrapperInv LimitCountsDown MixedUpOnlyByReconnect
CHECK_DEADLOCK FALSE
