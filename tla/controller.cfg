CONSTANTS
    r1 = r1
    r2 = r2
    u1 = u1
    u2 = u2
    c1 = c1
    c2 = c2
    None = None
    MirrorRows = {r1, r2}
    UpstreamRows = {u1, u2}
    Customs = {c1, c2}
    InitConfig <- Start
    Mode = "managed"
    HistoryLimit = 1
    MaxVersion = 9
    MaxFaults = 1
    MaxWork = 2
SPECIFICATION FairSpec
INVARIANTS PublishedTested ServesActive  MemoryFollowsActive
PROPERTIES  Converges
