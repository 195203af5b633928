CONSTANTS
    MaxTop = 6
    PageSize = 3
    Limits = {0, 1, 2, 4, 9}
    MaxSize = 6
    Counts = {0, 1, 2, 5}
    ServerPage = 3
    Shards = 2
    Blocks = 2
    Span = 2
    Step = 1
    MinLimit = 1
    MaxTxs = 3
    Queries = {q1, q2, q3}
    RunMethods = {q3}
    Hashes = {"zero", "h"}
    Special = {"h"}
    MaxSteps = 5
    MaxRepeats = 3
SPECIFICATION CallsSpec
INVARIANTS CallsInvariant HistoryReturnsNewestOrAll ListingListsRestOnce SearchNothingMissed SessionAnswersKept FormsKept RetryKeepsSuccess
PROPERTIES CallsEnd SessionCallsReturn
