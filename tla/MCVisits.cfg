SPECIFICATION FairSpec
CONSTANTS
    v1 = v1
    Programs <- Changing
    Ttl = 1
    BatchSize = 1
    RequestWorkers = {v1}
    MaxGifts = 2
    MaxTxs = 7
    MaxRequests = 2
    MaxTime = 2
INVARIANTS
    TypeOK
    CountersMatch
    RedeemedOnce
    CancelledWithVisit
    NoVisitLost
PROPERTIES
    KeepsWallet
    GiftsComeBack
CHECK_DEADLOCK FALSE
