SPECIFICATION RSpec
CONSTANTS
  PipeCap = 3
  MaxLines = 6
  LineKinds = {"short"}
  MayFork = FALSE
INVARIANT NeverAborts
CHECK_DEADLOCK FALSE
