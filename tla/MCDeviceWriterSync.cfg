SPECIFICATION NodeSpec
CONSTANTS
    i1 = i1
    p1 = p1
    p2 = p2
    p3 = p3
    c1 = c1
    Refresh = Refresh
    None = None
    Identities = {i1}
    Providers = {p1, p2}
    Clients = {c1}
    Reach <- MCReach
    Wants <- MCWants
    MaxConcurrency = 1
    QueueCapacity = 1
    MaxLen = 1
    Slots = 4
    Devices = {p1, p2, p3}
    MaxMutations = 2
    MaxDrops = 1
CHECK_DEADLOCK FALSE
INVARIANT WaitersAreOwned
INVARIANT OwedAreInLine
PROPERTY CacheNeverRegresses
PROPERTY SyncSettles
