SPECIFICATION Spec
CONSTANTS
    v1 = v1
    Programs <- Fixed
    Ttl = 1
    BatchSize = 1
    RequestWorkers = {v1}
    MaxGifts = 2
    MaxTxs = 6
    MaxRequests = 2
    MaxTime = 1
INVARIANT
    VisitsAccountedFor
CHECK_DEADLOCK FALSE
