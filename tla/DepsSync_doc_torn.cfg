SPECIFICATION Spec
CONSTANTS
  Coord <- MCCoord
  Engine = "os"
  Version <- MCVersion
  MajorOf <- MCMajorOf
  MaxBuild = 2
  Releases <- MCReleases
  Published <- MCPublished
  Contents <- MCContents
  Manifest <- MCManifest
  Fitting <- MCReleases
  Carries <- MCReleases
  EngineRange = {1, 2}
  Configs <- MCConfigs
  WorkspaceMode = FALSE
  Kinds = {"sync", "update"}
  CrashPoints = {"load", "pick", "materialize", "clear", "fetch", "extract", "save", "drop"}
  Losses = {}
  None = None
  Torn = Torn
CONSTRAINT FewPartial
INVARIANTS
  ContentsAreEnsured
CHECK_DEADLOCK FALSE
