SPECIFICATION FairSpec
CONSTANTS
    Puts = {w1, w2}
    Sessions = {}
    Paths = {a}
    Hashes = {x}
    None = None
    TreeOp = TreeOp
    GC = GC
    MaxBody = 1
    MaxId = 2
    MaxBlobs = 2
    MaxSnaps = 0
    Retain = 1
    GCEnabled = TRUE
    TreeOps = TRUE
    CanCrash = FALSE
    CanLoseMeta = FALSE
PROPERTY PutTerminates
PROPERTY GCTerminates
