CONSTANTS
    f1 = f1
    f2 = f2
    e1 = e1
    e2 = e2
    e3 = e3
    k1 = k1
    k2 = k2
    None = None
    Configs = {f1, f2}
    Epochs = {e1}
    Calls = {k1, k2}
    InitConfig = f1
    InitEpoch = e1
    CoordMode = "managed"
    MaxGen = 1
    MaxFaults = 3
    MaxChanges = 0
SPECIFICATION FairSpec
PROPERTIES RetriesSucceed
