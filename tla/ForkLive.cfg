SPECIFICATION FairSpec
CONSTANTS
    NProc = 1
    MaxArms = 2
    MaxActs = 3
    MaxBarriers = 2
    MaxGen = 0
    MaxReports = 0
    TieHalf = 3
PROPERTIES
    HeldIsReleased
