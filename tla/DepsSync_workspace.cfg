SPECIFICATION FairSpec
CONSTANTS
  Coord <- MCCoord
  Engine = "os"
  Version <- MCVersion
  MajorOf <- MCMajorOf
  MaxBuild = 2
  Releases <- MCSmall
  Published <- MCSmall
  Contents <- MCOneContent
  Manifest <- MCManifest
  Fitting <- MCFitting
  Carries <- MCSmall
  EngineRange = {1, 2}
  Configs <- MCWsConfigs
  WorkspaceMode = TRUE
  Kinds = {"sync"}
  CrashPoints = {"pick"}
  Losses = {}
  None = None
  Torn = Torn
PROPERTIES
  WorkspaceLocks
  CommandsEnd
CHECK_DEADLOCK FALSE
