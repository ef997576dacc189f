SPECIFICATION Spec
CONSTANTS
  Coord <- MCCoord
  Engine = "os"
  Version <- MCVersion
  MajorOf <- MCMajorOf
  MaxBuild = 2
  Releases <- MCReleases
  Published <- MCPublished
  Contents <- MCContents
  Manifest <- MCManifest
  Fitting <- MCReleases
  Carries <- MCReleases
  EngineRange = {1, 2}
  Configs <- MCConfigs
  WorkspaceMode = FALSE
  Kinds = {"sync"}
  CrashPoints = {"load", "pick", "materialize", "clear", "fetch", "extract", "save", "drop"}
  Losses = {"origin", "via", "root", "checksum"}
  None = None
  Torn = Torn
CONSTRAINT FewPartial
INVARIANTS
  IInv
PROPERTIES
  PinsAreKept
  ChecksumsAreKept
CHECK_DEADLOCK FALSE
