SPECIFICATION FairSpec
CONSTANTS
    Devices = {d1, d2}
    Workers = {w1, w2}
    MaxRetries = 1
    MaxNotes = 2
    MaxFaults = 1
INVARIANT TypeOK
PROPERTIES SettledQuiet NotificationsSettle
CHECK_DEADLOCK FALSE
