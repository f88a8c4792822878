SPECIFICATION Spec
CONSTANTS
    Clients = {c1, c2}
    a = a
    b = b
    x = x
    old = old
    new = new
    Names = {a, b, x}
    Paths <- MCPaths
    Bodies = {new}
    None = None
    Dir = Dir
    Part = Part
    Trees <- MCTrees
    Moves <- MCMoves
    MaxRequests = 4
    MaxFaults = 1
SYMMETRY Symmetry
INVARIANT TreeConnected
 
INVARIANT CallsAreExact
CHECK_DEADLOCK FALSE
