SPECIFICATION GateSpec
CHECK_DEADLOCK FALSE
CONSTANTS
    root = root
    user = user
    seed = seed
    Subs = {root, user}
    Reqs = {q1}
    Tokens <- MCTokens
    Keys = {1, 2}
    Seeded <- MCSeeded
    Priorities = {0}
    Second = 2
    FallbackMaxAge = 1
    LastTick = 3
INVARIANT CookieEnds
