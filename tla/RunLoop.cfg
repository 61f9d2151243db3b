SPECIFICATION FairSpec
CONSTANTS
    NProcs = 2
    EdgeProcs = {2}
    Delays = {0, 1}
    CaDelay = 1
    MaxDelay = 1
    MaxTime = 1
    MaxDeltas = 5
    Fuel = 2
INVARIANTS
    TypeOK
    OneEntry
    QueueSorted
    NothingOverdue
    StopsForGood
PROPERTIES
    StepComplete
    RunEnds
