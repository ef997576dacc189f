SPECIFICATION Spec
CONSTANTS
  Coord <- MCCoord
  Engine = "os"
  Version <- MCVersion
  MajorOf <- MCMajorOf
  MaxBuild = 2
  Releases <- MCReleases
  Published <- MCPublished
  Contents <- MCContents
  Manifest <- MCManifest
  Fitting <- MCReleases
  Carries <- MCNothing
  EngineRange = {1, 2}
  Configs <- MCConfigs
  WorkspaceMode = FALSE
  Kinds = {"sync"}
  CrashPoints = {}
  Losses = {}
  None = None
  Torn = Torn
CONSTRAINT FewPartial
INVARIANTS
  TransitivesAreLocked
CHECK_DEADLOCK FALSE
