SPECIFICATION Spec
CONSTANTS
    None = None
    NoBio = NoBio
    Users = {u1, u2}
    Requests = {r1, r2}
    Seed = {u2}
    Bios = {NoBio, b1}
    TTL = 1
    MaxTime = 2
    MaxProfile = 2
SYMMETRY Symmetry
PROPERTY BioOnlyByUpdate
CHECK_DEADLOCK FALSE
