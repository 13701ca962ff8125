CONSTANTS
    Devices = {d1}
    Threads = {t1, t2}
    PinMaxAttempts = 2
    Lockout = 1
    MaxTokens = 3
    MaxPins = 2
    MaxQrs = 2
    MaxTime = 2
CONSTRAINT RowOrTokens
SYMMETRY Symmetry
CHECK_DEADLOCK FALSE
SPECIFICATION Spec
INVARIANTS TypeOK RotatedDead
PROPERTIES LoggedOutSilent StaleWrites
