SPECIFICATION Spec
CONSTANTS
    Puts = {}
    Sessions = {r1}
    Paths = {a, b}
    Hashes = {x, y}
    None = None
    TreeOp = TreeOp
    GC = GC
    MaxBody = 1
    MaxId = 2
    MaxBlobs = 2
    MaxSnaps = 1
    Retain = 1
    GCEnabled = TRUE
    TreeOps = TRUE
    CanCrash = FALSE
    CanLoseMeta = TRUE
SYMMETRY Symmetry
INVARIANT ContentAsWritten
