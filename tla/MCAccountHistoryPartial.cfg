CONSTANTS
    MaxTop = 6
    PageSize = 3
    Limits = {0, 1, 2, 4, 9}
SPECIFICATION Spec
INVARIANTS ReturnsAllAsked
