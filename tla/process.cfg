SPECIFICATION ProcessSpec
CONSTANTS
  Pids <- MCPids
  RestartMaxFailures = 1
  RestartWindow = 2
CHECK_DEADLOCK FALSE
INVARIANTS RestartsBounded StopLeavesNoMaster
PROPERTIES RestartsResume
