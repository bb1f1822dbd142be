SPECIFICATION FairSpec
CONSTANTS
    p1 = p1
    p2 = p2
    h1 = h1
    h2 = h2
    Bad = Bad
    Posts = {p1, p2}
    Workers = {w1}
    Hashes = {h1, h2}
    Content <- MCPages
    Renormalized <- MCSame
    Oversized = {h1}
    LongErrors = {}
    SuccessTTL = 2
    ErrorTTL = 1
    MaxAttempts = 2
    MaxTime = 1
    MaxFaults = 0
PROPERTIES
    JobsFinish
CHECK_DEADLOCK FALSE
