SPECIFICATION FairSpec
CONSTANTS
    p1 = p1
    p2 = p2
    h1 = h1
    h2 = h2
    Bad = Bad
    Posts = {p1, p2}
    Workers = {w1}
    Hashes = {h1, h2}
    Content <- MCSpellings
    Renormalized <- MCDotted
    Oversized = {}
    LongErrors = {h2}
    SuccessTTL = 1
    ErrorTTL = 1
    MaxAttempts = 2
    MaxTime = 1
    MaxFaults = 0
INVARIANTS
    DoneMeansLinked
PROPERTIES
    JobsFinish
    UrlsSettle
CHECK_DEADLOCK FALSE
