SPECIFICATION Spec
CONSTANTS
    Puts = {w1}
    Sessions = {r1}
    Paths = {a}
    Hashes = {x, y}
    None = None
    TreeOp = TreeOp
    GC = GC
    MaxBody = 2
    MaxId = 2
    MaxBlobs = 2
    MaxSnaps = 0
    Retain = 1
    GCEnabled = TRUE
    TreeOps = TRUE
    CanCrash = TRUE
    CanLoseMeta = FALSE
SYMMETRY Symmetry
INVARIANT TypeOK
INVARIANT RefcountExact
INVARIANT FilesWhole
INVARIANT GCLeavesNoOrphans
 
