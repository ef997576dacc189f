SPECIFICATION ToolsSpec
CONSTANTS
  Folder <- MCFolder
  Root = "w"
  File <- MCFile
  Chain <- MCChain
  MaxRev = 3
  Findings <- MCFindings
  Assembles <- MCAssembles
  Breaks <- MCBreaks
  Unreadable <- MCUnreadable
  Locked <- MCLocked
  Projects <- MCProjects
  MaxMessages = 3
  MaxMoves = 1
  None = None
  Package <- MCPackage
  Engine <- MCEngine
  Authored <- MCBeginnings
  Drafts <- MCDrafts
  First <- MCFirst
  MaxVersion = 2
  MaxEdits = 1
  MaxRuns = 2
  Cases <- MCCases
  MaxKeys = 5
  Prefix <- MCPrefix
  LabelOf <- MCLabelOf
  Iri <- MCIri
  InIri <- MCInIri
  Script <- MCScripts
  Table <- MCTable
  Number <- MCNumber
  Written <- MCWritten
  Requests <- MCRequests
  Items <- MCItems
  Bare <- MCBare
  MaxChanges = 1
  MaxCommands = 2
  Torn = Torn
  Word = Word
  Os = Os
  Dep = Dep
INVARIANTS
  SquigglesMatchResult
  LastIsCurrent
  CleanMeansChecked
  CleanBuilds
  ArchiveIsOwn
  PublishedIsBuilt
  ConflictIsReal
  BindingsHold
  SecretIsAsTyped
  InlinedResolves
  RangesHold
  ToldIsDone
PROPERTIES
  ServerSettles
  FixesConverge
  CommandsEnd
CHECK_DEADLOCK FALSE
