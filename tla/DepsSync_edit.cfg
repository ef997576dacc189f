SPECIFICATION Spec
CONSTANTS
  Coord <- MCCoord
  Engine = "os"
  Version <- MCVersion
  MajorOf <- MCMajorOf
  MaxBuild = 2
  Releases <- MCSmall
  Published <- MCEditPublished
  Contents <- MCOneContent
  Manifest <- MCManifest
  Fitting <- MCSmall
  Carries <- MCSmall
  EngineRange = {1, 2}
  Configs <- MCEditConfigs
  WorkspaceMode = FALSE
  Kinds = {"sync", "add", "add-no-sync", "remove", "remove-no-sync"}
  CrashPoints = {"save", "drop"}
  Losses = {}
  None = None
  Torn = Torn
CONSTRAINT FewPartial
PROPERTIES
  KeepsContract
  RootsAreDeclared
  AddedRangeHolds
CHECK_DEADLOCK FALSE
