SPECIFICATION FairSpec
CONSTANTS
    Cap = 2
    MaxChunks = 4
    MaxFlushes = 2
    MaxFails = 2
    MayDie = TRUE
INVARIANTS
    GapOnlyAfterDroppedError
    LossIsReported
PROPERTIES
    Terminates
    KeepsStream
