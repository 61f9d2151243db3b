SPECIFICATION Spec
CONSTANTS
    Nets <- MCNets
    Inputs <- MCInputs
    NAssigns = 8
    Lhs <- MCLhs
    Deps <- MCDeps
    Rhs <- MCRhs
    Delayed <- MCDelayed
    Runtime <- MCRuntime
    Delay <- MCDelay
    Resolve <- MCResolve
    InitVal <- MCInitVal
    Initializers <- MCInputs
    None = None
    Never <- MCNever
    MaxDeltas = 6
    MaxTime = 5
    MaxWrites = 3
CHECK_DEADLOCK FALSE
INVARIANTS
    SettledComplete
    FollowsRhs
    InitFirst
PROPERTIES
    KeepsInertial
    SettleEnds
