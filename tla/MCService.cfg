SPECIFICATION MCSpec
CHECK_DEADLOCK FALSE
SYMMETRY MCSymmetry
CONSTANTS
    p1 = p1
    p2 = p2
    p3 = p3
    None = None
    Users = {u1, u2}
    Posts = {p1, p2, p3}
    Requests = {r1, r2, r3}
    Seed = {p1, p2}
    SeedParent <- MCReply
    root = root
    user = user
    seed = seed
    Subs = {root, user}
    Reqs = {q1, q2}
    Tokens <- MCTokens
    Keys = {1, 2}
    Seeded <- MCSeeded
    Priorities = {0}
    Second = 2
    FallbackMaxAge = 3
    LastTick = 3
    Callers = {c1, c2}
    Scopes = {1, 2}
    TTLs = {0, 2, 4}
    DefaultTTL = 5
    Lead = 2
    LastClock = 7
    Handlers = {h1}
    Configs <- MCConfigs
INVARIANTS
    LikesNeverUndercounted
    LikesCountedOnce
    LikeTransitionsAlternate
    RepliesNeverUndercounted
    ThreadRooted
    KeyHasOneBadge
    CookieBounded
    HitHasLead
    PoolOutlivesWorker
PROPERTIES
    DeletedRowFrozen
    WithdrawalStops
