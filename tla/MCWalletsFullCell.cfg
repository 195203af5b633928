CONSTANTS
    MAX_SHIFT = 2
    SigningBits = {64, 104}
    AmountBytes = {4}
    Texts = {0, 20, 72, 73, 124, 125}
    PayloadCells <- SomePayloads
    Counts = {0, 1, 2, 3, 4, 5}
    Owners = {0, 1}
    Careless = {1}
    OrderRefs = 2
    Queries = {q1}
    Span = 4
    Timeouts = {1, 2}
    Recipients = {p1}
    GivenIds = {0, 1}
    Grace = 1
    MaxClock = 2
    MaxMade = 1
    English = 3
    WordsCount = 2
    ByteBits = 2
    Ranges = {5}
    Versions = {"v2r2"}
    MaxWallets = 1
    MaxSeqno = 1
    Decimals = 3
    MaxVal = 9999
    Plain = 1
    Digits <- SomeDigits
    Points <- SomePoints
    Exponents <- SomeExponents
SPECIFICATION WalletsSpec
CONSTRAINT SavedNearBoundary
INVARIANT NoFullCell
