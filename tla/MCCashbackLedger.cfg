SPECIFICATION Spec
CONSTANTS
    w1 = w1
    w2 = w2
    v1 = v1
    LotWorkers = {w1}
    RequestWorkers = {}
    Programs <- ShortAndLong
    Amounts = {1, 3}
    Ttl = 1
    BatchSize = 2
    MaxLots = 3
    MaxTxs = 5
    MaxRequests = 1
    MaxTime = 2
INVARIANTS
    TypeOK
    LedgerBalance
    AggregateMatchesLots
    TotalsMatchLedger
    LotConservation
    LotIntegrity
    ConfirmedOnce
PROPERTIES
    DeadLotsStayDead
    KeepsAccount
\* The clock and the bounds run out.
CHECK_DEADLOCK FALSE
