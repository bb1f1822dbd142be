SPECIFICATION FairSpec
CONSTANTS
    Producers = {r1, r2}
    MaxCalls = 2
    QueueCapacity = 2
    BatchSize = 2
INVARIANTS
    InOrderOnce
PROPERTIES
    OutboxSpec
    AcceptedLeaves
    ShutdownCompletes
CHECK_DEADLOCK FALSE
