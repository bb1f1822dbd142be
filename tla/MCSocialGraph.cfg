SPECIFICATION Spec
CONSTANTS
    None = None
    NoBio = NoBio
    Users = {u1, u2}
    Requests = {r1, r2, r3}
    Seed = {u2}
    Bios = {NoBio, b1}
    TTL = 1
    MaxTime = 3
    MaxProfile = 2
SYMMETRY Symmetry
INVARIANTS
    FollowCountsCover
    MirrorDated
PROPERTIES
    FreshMeansRecent
    BioNotErased
CHECK_DEADLOCK FALSE
