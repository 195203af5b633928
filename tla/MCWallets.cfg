CONSTANTS
    MAX_SHIFT = 2
    SigningBits = {64, 104}
    AmountBytes = {4}
    Texts = {0, 20, 72, 73, 124, 125}
    PayloadCells <- SomePayloads
    Counts = {0, 1, 2, 3, 4, 5}
    Owners = {0, 1}
    Careless = {1}
    OrderRefs = 2
    Queries = {q1}
    Span = 4
    Timeouts = {1, 2}
    Recipients = {p1}
    GivenIds = {0, 1}
    Grace = 1
    MaxClock = 6
    MaxMade = 3
    English = 3
    WordsCount = 2
    ByteBits = 2
    Ranges = {1, 2, 4, 5, 6, 7, 8, 9, 12, 16, 17}
    Versions = {"v2r2", "v3r1", "v4r2", "hv2"}
    MaxWallets = 2
    MaxSeqno = 1
    Decimals = 3
    MaxVal = 9999
    Plain = 1
    Digits <- SomeDigits
    Points <- SomePoints
    Exponents <- SomeExponents
SPECIFICATION WalletsSpec
CONSTRAINT SavedNearBoundary
INVARIANTS IdsInv SentMessagesFit CleanOrdersAreTaken QueriesInv DrawnEvenly FoundAgain AmountExact
PROPERTY ImplementsCounter
