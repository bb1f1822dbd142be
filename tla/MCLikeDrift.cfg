SPECIFICATION Spec
CONSTANTS
    p1 = p1
    p2 = p2
    p3 = p3
    None = None
    Users = {u1, u2}
    Posts = {p1, p2, p3}
    Requests = {r1, r2}
    Seed = {p1, p2}
    SeedParent <- MCReply
SYMMETRY Symmetry
INVARIANT LikesCountConsistent
CHECK_DEADLOCK FALSE
