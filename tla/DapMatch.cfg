SPECIFICATION Spec
CONSTANTS
    MaxRequests = 2
    RetryCounts = {0, 1}
    MatchCounts = {0, 2}
    RequestBytes = 8
    MaxWords = 2
INVARIANT
    MatchIsCompared
