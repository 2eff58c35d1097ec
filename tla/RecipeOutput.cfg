SPECIFICATION OutputSpec
CONSTANTS
  PipeCap = 3
  MaxLines = 6
  LineKinds = {"short", "long"}
  MayFork = TRUE
  MaxProgress = 2
  MaxLogs = 3
  ProgressCap = 1
  LogCap = 2
  EventCap = 1
INVARIANTS
  FullOutput
  CompleteIsLast
PROPERTIES
  ServerStopped
  Returns
CHECK_DEADLOCK FALSE
