SPECIFICATION Spec
CONSTANTS
    NProcs = 1
    EdgeProcs = {}
    Delays = {0}
    CaDelay = 0
    MaxDelay = 0
    MaxTime = 0
    MaxDeltas = 6
    Fuel = 2
INVARIANTS
    VerdictNotLost
