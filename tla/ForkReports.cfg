SPECIFICATION Spec
CONSTANTS
    NProc = 1
    MaxArms = 2
    MaxActs = 3
    MaxBarriers = 2
    MaxGen = 1
    MaxReports = 2
    TieHalf = 3
PROPERTIES
    FreshReportKey
    ReportLostOnlyByOwner
