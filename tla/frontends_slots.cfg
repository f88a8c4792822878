SPECIFICATION FrontSpec
CONSTANTS
    Conns = {c1, c2}
    Requests = {r1}
    Nobody = Nobody
    MaxConnections = 1
    Cooldown = 1
    MaxOpenFaults = 1
INVARIANT SlotsComeBack
