SPECIFICATION Spec
CONSTANTS
    Cap = 2
    MaxChunks = 2
    MaxFlushes = 1
    MaxFails = 1
    MayDie = FALSE
INVARIANTS
    TruncationIsWarned
