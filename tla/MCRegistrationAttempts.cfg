CONSTANTS
    Phones = {phone1}
    Threads = {t1, t2}
    Ttl = 1
    VerificationTtl = 2
    Cooldown = 1
    Keep = 3
    MaxAttempts = 2
    MaxWrong = 2
    Mistyped = {1}
    MaxChallenges = 3
    MaxTime = 3
CHECK_DEADLOCK FALSE
SPECIFICATION Spec
INVARIANT AttemptsLimited
