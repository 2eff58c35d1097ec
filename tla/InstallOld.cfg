SPECIFICATION ToolsSpec
CONSTANTS
  Parts = {"directory"}
  Together <- MCOnly
  Registry <- MCGhidra
  Runtimes = {}
  RuntimeDeps <- MCDeps
  DownloadKey <- MCDownloadKey
  ToolOf <- MCOnGhidra
  Jobs = {"j1"}
  Kind <- MCAll
  Starts <- MCPlain
  Installers = {"i1"}
  Deleters = {}
  Attempts = 3
  MayCrash = FALSE
INVARIANT VersionIsTrue
CHECK_DEADLOCK FALSE
