SPECIFICATION ToolsSpec
CONSTANTS
  Parts = {"requests"}
  Together <- MCOnly
  Registry <- MCGhidra
  Runtimes = {"java-runtime"}
  RuntimeDeps <- MCDeps
  DownloadKey <- MCDownloadKey
  ToolOf <- MCOnGhidra
  Jobs = {"j1"}
  Kind <- MCInstall
  Starts <- MCPlain
  Installers = {"i1"}
  Deleters = {}
  Attempts = 1
  MayCrash = FALSE
PROPERTY WaitEnds
CHECK_DEADLOCK FALSE
