SPECIFICATION FairSpec
CONSTANTS
  Client = {c1, c2}
  c1 = c1
  c2 = c2
  Version = {1, 2}
  Published <- MCPublished
  Requests <- MCRequests
  MaxCommands = 2
  MaxEvents = 1
  None = None
CHECK_DEADLOCK FALSE
INVARIANTS
  IInv
  OneCommandPerRun
  BoundAgainstInstalled
  SuccessIsReal
  AllEventsShown
PROPERTIES
  RunsEnd
CONSTRAINT Stocked
