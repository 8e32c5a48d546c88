CONSTANTS
    j1 = j1
    j2 = j2
    x1 = x1
    x2 = x2
    None = None
    Bodies <- MCBodies
    Jobs = {j1}
    Runs = {x1, x2}
    MaxConcurrency = 1
    MetadataDepth = 1
    MaxTargets = 2
    MaxWork = 1
    MaxEvents = 1
SPECIFICATION FairSpec
INVARIANTS OneRunPerJob StopWaits RunsAccounted
PROPERTIES ScheduledJobsRun RunsStop
