SPECIFICATION Spec
CONSTANTS
    p1 = p1
    p2 = p2
    h1 = h1
    h2 = h2
    Bad = Bad
    Posts = {p1, p2}
    Workers = {w1, w2}
    Hashes = {h1, h2}
    Content <- MCTwice
    Renormalized <- MCSame
    Oversized = {h2}
    LongErrors = {h1}
    SuccessTTL = 1
    ErrorTTL = 1
    MaxAttempts = 2
    MaxTime = 1
    MaxFaults = 2
SYMMETRY Symmetry
INVARIANTS
    ClaimExclusive
    LinksAtOwnSlot
    AttemptBudget
PROPERTIES
    FinishedJobFinal
CHECK_DEADLOCK FALSE
