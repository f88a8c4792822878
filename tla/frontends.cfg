SPECIFICATION FrontSpec
CONSTANTS
    Conns = {c1, c2}
    Requests = {r1, r2}
    Nobody = Nobody
    MaxConnections = 1
    Cooldown = 2
    MaxOpenFaults = 1
INVARIANT LimitRespected
INVARIANT SlotsComeBackWithoutAuth
INVARIANT OneOpen
PROPERTY StalledClientsLeave
 
PROPERTY ModuleHeals
