CONSTANTS
    i1 = i1
    i2 = i2
    u1 = u1
    u2 = u2
    f1 = f1
    f2 = f2
    None = None
    Ids = {i1}
    Urls = {u1, u2}
    Configs = {f1, f2}
    InitConfig = f1
    Bodies <- MCBodies
    HealthyThreshold = 2
    UnhealthyThreshold = 2
    MaxGen = 2
    MaxWork = 2
    MaxEvents = 1
SPECIFICATION FairSpec
INVARIANTS RoutableHasGrounds
PROPERTIES DeadEdgeUnrouted RouterFollowsTable
