\* Three requests of any kind, each a step at a time.
SPECIFICATION Spec
CONSTANTS
    Users <- MCUsers
    Requests = {r1, r2, r3}
    SeedPosts <- MCSeedPosts
    SeedImages <- MCSeedImages
    SeedFollows <- MCSeedFollows
    ImageLists <- MCImageLists
    RawLimits <- MCRawLimits
    DefaultPageLimit = 2
    MaxPageLimit = 2
    MaxImagesPerPost = 2
    MaxId = 5
    MaxFaults = 1
SYMMETRY Symmetry
INVARIANTS ShownOnceInOrder ScrollComplete LiveImageBacked OrphanTraced AttachedOwn
CHECK_DEADLOCK FALSE
