SPECIFICATION FairSpec
CONSTANTS
    Requests = {q1}
    Workers = {k1, k2}
    Slots = 2
    MaxBlocks = 3
    BodyMayBreak = FALSE
INVARIANT SlotsExact
 
INVARIANT FailureLeavesNoRows
PROPERTY FailedReturns
PROPERTY AllReturn
