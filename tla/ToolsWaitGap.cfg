SPECIFICATION ToolsSpec
CONSTANTS
  Parts = {"requests"}
  Together <- MCOnly
  Registry <- MCTwoTools
  Runtimes = {}
  RuntimeDeps <- MCDeps
  DownloadKey <- MCDownloadKey
  ToolOf <- MCOnGhidra
  Jobs = {"j1"}
  Kind <- MCAll
  Starts <- MCPlain
  Installers = {"i1"}
  Deleters = {}
  Attempts = 1
  MayCrash = FALSE
PROPERTY ToldTheTruth
CHECK_DEADLOCK FALSE
