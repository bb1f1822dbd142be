SPECIFICATION FairSpec
CONSTANTS
    t1 = t1
    t2 = t2
    None = None
    Requests = {r1, r2}
    Tokens = {t1, t2}
    Expiry <- MCExpiry
    TTL = 2
    CallTimeout = 1
    MaxTime = 3
INVARIANTS
    RevocationWithinTTL
    ExpiryRespected
    SingleFlight
    UnauthorizedMeansEnded
PROPERTIES
    EveryoneAnswered
    ExpiredSwept
CHECK_DEADLOCK FALSE
