SPECIFICATION Spec
CONSTANTS
    NProc = 2
    MaxArms = 2
    MaxActs = 4
    MaxBarriers = 2
    MaxGen = 1
    MaxReports = 0
    TieHalf = 3
INVARIANTS
    BarrierCount
    RecycledIsGone
    OneContinuation
    WaitForkCount
PROPERTIES
    KeepsPromise
