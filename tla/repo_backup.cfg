SPECIFICATION Spec
CONSTANTS
    Puts = {w1}
    Sessions = {}
    Paths = {a}
    Hashes = {x, y}
    None = None
    TreeOp = TreeOp
    GC = GC
    MaxBody = 1
    MaxId = 2
    MaxBlobs = 2
    MaxSnaps = 2
    Retain = 1
    GCEnabled = TRUE
    TreeOps = FALSE
    CanCrash = TRUE
    CanLoseMeta = FALSE
SYMMETRY Symmetry
INVARIANT RowsHaveBlobs
INVARIANT SnapshotsRestorable
INVARIANT VerifiedBackupRestorable
