SPECIFICATION FairSpec
CONSTANTS
    w1 = w1
    w2 = w2
    v1 = v1
    LotWorkers = {w1, w2}
    RequestWorkers = {v1}
    Programs <- JustHalf
    Amounts = {1, 3}
    Ttl = 1
    BatchSize = 1
    MaxLots = 2
    MaxTxs = 3
    MaxRequests = 2
    MaxTime = 2
INVARIANTS
    BurnedOnce
PROPERTIES
    DeadlineRespected
    LotsBurn
    RequestsResolve
\* The clock and the bounds run out.
CHECK_DEADLOCK FALSE
