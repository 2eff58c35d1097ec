SPECIFICATION FairSpec
CONSTANTS
  j1 = j1
  j2 = j2
  Jobs <- MCJobs
  None = None
  Targets <- MCTargets
  Steps <- MCSteps
  Cap <- MCCap
INVARIANT SingleEngine Controllable
PROPERTY TerminalStable RunEnds
CHECK_DEADLOCK FALSE
