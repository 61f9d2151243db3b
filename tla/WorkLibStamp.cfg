SPECIFICATION Spec
CONSTANTS
    a = a
    b = b
    h = h
    top = top
    topx = topx
    leaf = leaf
    both = both
    h1 = h1
    h2 = h2
    d1 = d1
    d2 = d2
    p1 = p1
    p2 = p2
    None = None
    Paths <- MCPaths
    Contents <- MCContents
    Initial <- MCInitial
    Texts <- MCTexts
    Length <- MCSameLength
    Defines <- MCDefines
    Instances <- MCInstances
    Includes <- MCIncludes
    Dirs = {d1, d2}
    Requests <- MCRequests
    SearchOrder <- MCSearchOrder
    Tops = {"t"}
    Vcmps = {p1, p2}
    MaxEdits = 1
    MaxRuns = 2
    MaxStops = 0
INVARIANTS
    StampIsContent
