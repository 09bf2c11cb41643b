SPECIFICATION Spec
CONSTANTS
    MaxRequests = 3
    RetryCounts = {0, 1, 2}
    MatchCounts = {0, 2}
    RequestBytes = 8
    MaxWords = 2
INVARIANTS
    TypeOK
    ReadsInOrder
    OKMeansDone
    CountTellsWrites
    MatchIsGenuine
PROPERTY
    HandlerReturns
