CONSTANTS
    f1 = f1
    f2 = f2
    e1 = e1
    e2 = e2
    e3 = e3
    k1 = k1
    k2 = k2
    None = None
    Configs = {f1, f2}
    Epochs = {e1, e2, e3}
    Calls = {k1, k2}
    InitConfig = f1
    InitEpoch = e1
    CoordMode = "managed"
    MaxGen = 3
    MaxFaults = 2
    MaxChanges = 2
SPECIFICATION Spec
SYMMETRY SlotSymmetry
INVARIANTS AppliedIsActive ReplayDefense AcceptedOnce AckWasApplied
