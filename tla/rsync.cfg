SPECIFICATION ConnSpec
CONSTANTS
    Clients = {c1, c2}
    c1 = c1
    q = q
    Paths = {p, q}
    Subtree <- MCSubtree
    Tree <- MCTree
    Contents <- MCContents
    x = x
    y = y
    Zero = zero
    None = None
    MaxEdits <- MCEdits
    MaxFaults = 1
    Modes <- MCModes
    Filters = FALSE
    FilesChangeSize = FALSE
    MatchesGoBack = FALSE
    LongNames = {}
    MaxChanges = 1
    MaxPullFaults = 1
INVARIANT TypeOK
INVARIANT SuccessMeansConverged
 
 
PROPERTY DeletesOnlyVanished
PROPERTY WritesAreWhole
 
PROPERTY RestoresSucceed
