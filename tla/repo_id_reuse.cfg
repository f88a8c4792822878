SPECIFICATION Spec
CONSTANTS
    Puts = {w1}
    Sessions = {}
    Paths = {a, b}
    Hashes = {x, y}
    None = None
    TreeOp = TreeOp
    GC = GC
    MaxBody = 2
    MaxId = 3
    MaxBlobs = 3
    MaxSnaps = 0
    Retain = 1
    GCEnabled = FALSE
    TreeOps = TRUE
    CanCrash = FALSE
    CanLoseMeta = FALSE
SYMMETRY Symmetry
INVARIANT ContentAsWritten
