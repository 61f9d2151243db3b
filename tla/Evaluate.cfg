SPECIFICATION Spec
CONSTANTS
    WordBits = 3
    GrowCap = 8
    MaxIndex = 63
    WideCap = 7
    Operands <- MCOperands
    Contexts <- MCContexts
    Conditions <- MCConditions
    Leaves <- MCLeaves
    IntBits = 5
    MaxNetWidth = 7
    WorkCap = 60
    Literals <- MCLiterals
    PartWidths = {1, 2, 4}
CHECK_DEADLOCK FALSE
INVARIANTS
    Canonical
    ArithmeticExact
    
    TruthExact
    PlacementExact
    FoldAgrees
