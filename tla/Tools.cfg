SPECIFICATION ToolsSpec
CONSTANTS
  Parts = {"requests", "directory"}
  Together <- MCPairs
  Registry <- MCTwoTools
  Runtimes = {"java-runtime"}
  RuntimeDeps <- MCDeps
  DownloadKey <- MCDownloadKey
  ToolOf <- MCOnGhidra
  Jobs = {"j1", "j2", "j3"}
  Kind <- MCMixed
  Starts <- MCFlat
  Installers = {"i1"}
  Deleters = {"d1"}
  Attempts = 3
  MayCrash = TRUE
INVARIANTS
  NoGhostOp
  RecordedIsThere
  InstalledIsWhole
PROPERTY JobsEnd
CHECK_DEADLOCK FALSE
