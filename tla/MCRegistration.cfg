CONSTANTS
    Phones = {phone1}
    Threads = {t1, t2}
    Ttl = 1
    VerificationTtl = 2
    Cooldown = 1
    Keep = 3
    MaxAttempts = 1
    MaxWrong = 1
    Mistyped = {3}
    MaxChallenges = 3
    MaxTime = 3
CHECK_DEADLOCK FALSE
SPECIFICATION FairSpec
INVARIANTS TypeOK PinsVerified RegisteredOnce
PROPERTY ChallengesSettle
