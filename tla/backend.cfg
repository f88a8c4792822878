SPECIFICATION BackendSpec
CONSTANTS
    Clients = {c1, c2}
    n1 = n1
    n2 = n2
    m1 = m1
    Blobs = {n1, n2}
    Metas = {m1}
    Parts <- MCParts
    Strays <- MCStrays
    MissingParent = "notFound"
    MaxFaults = 1
    MaxRemovals = 1
    MaxDirFaults = 2
INVARIANT MetaDurable
 
 
PROPERTY PutsHeal
