SPECIFICATION Spec
CONSTANTS
    a = a
    b = b
    h = h
    top = top
    topx = topx
    leaf = leaf
    both = both
    h1 = h1
    h2 = h2
    d1 = d1
    d2 = d2
    p1 = p1
    p2 = p2
    None = None
    Paths <- MCPaths
    Contents <- MCContents
    Initial <- MCInitial
    Texts <- MCTexts
    Length <- MCLength
    Defines <- MCDefines
    Instances <- MCInstances
    Includes <- MCIncludes
    Dirs = {d1, d2}
    Requests <- MCRequests
    SearchOrder <- MCSearchOrder
    Tops = {"t"}
    Vcmps = {p1, p2}
    MaxEdits = 1
    MaxRuns = 3
    MaxStops = 1
SYMMETRY VcmpSymmetry
INVARIANTS
    ManifestConsistent
    BlobsPresent
    
    AcceptedIsCurrent
PROPERTIES
    ReplacedInPlace
    
