CONSTANTS
    r1 = r1
    r2 = r2
    u1 = u1
    u2 = u2
    c1 = c1
    c2 = c2
    None = None
    MirrorRows = {r1, r2}
    UpstreamRows = {u1}
    Customs = {c1}
    InitConfig <- Start
    Mode = "external"
    HistoryLimit = 2
    MaxVersion = 5
    MaxFaults = 2
    MaxWork = 2
SPECIFICATION Spec
CHECK_DEADLOCK FALSE
INVARIANTS ServesActive
