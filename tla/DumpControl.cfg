SPECIFICATION Spec
CONSTANTS
    Nets = {a, b}
    Values = {lo, hi}
    X = x
    MaxTime = 2
    Limits = {0, 7, 13}
    MaxBytes = 16
CHECK_DEADLOCK FALSE
INVARIANTS
    ViewFaithful
    StampsIncrease
PROPERTIES
    LimitIsFinal
    
