SPECIFICATION MCSpec
CONSTANTS
  Positions = {1, 2}
  URLs = {"u1", "u2"}
  Tokens = {"p", "t1", "t2"}
  Appearances = {"dark", "light"}
  FileConfig <- MCFile
  EnvToken = "p"
  Inputs <- MCInputs
  Imports <- MCImports
  HistoryLimit = 2
  MaxChanges = 4
  Coordinator = c
  Edges = {e1}
  Upstreams = {up1, up2}
  Paths = {p1}
  MaxPurges = 3
  Alerts = {a1, a2, a3, a4}
  Wanted = {a1, a2, a3}
  QueueSize = 2
  Mirrors = {m1, m2}
  Retention = 1
  MaxHour = 2
  MaxRecords = 3
CHECK_DEADLOCK FALSE
INVARIANTS SettingsSurviveRestart CredentialsContained PurgedStaysPurged CountedOnce ReopenPending
PROPERTIES ImplementsAlertFeed
