SPECIFICATION MCSpec
CONSTANTS
  Addresses = {"a1", "a2"}
  Repositories = {"meta", "pkg"}
  MaxTotal = 2
  MaxIP = 1
  MirrorMax <- MCMirrorMax
  MaxEntries = 1
  Requests = {r1, r2, r3}
  Sources = {"u1", "u2"}
  Orders <- MCOrders
  Calls <- MCCalls
  Profile <- MCProfile
  MaxEpoch = 2
  Targets <- MCTargets
  Bases <- MCBases
  RewriteOrigins = {"B"}
  BlockedPackages <- MCBlocked
  AllowedPackages = {}
  MaxHops = 2
  Repos = {"m1", "m2"}
  Expects404 = {"m2"}
  FirstUpstreams <- MCFirstUpstreams
  Priorities = {1}
  Workers = {w1, w2}
  QueueCapacity = 1
  MaxServers = 3
  Ids = {1, 2}
  Rows <- MCRows
  Layouts <- MCLayouts
  Probes <- MCProbes
SYMMETRY MCSymmetry
CHECK_DEADLOCK FALSE
INVARIANTS PurgeHonoured ErrorMeansAllFailed ResourcesBounded RedirectsKeepPolicy HealthSound RoutesSound
