SPECIFICATION FairSpec
CONSTANTS
  Proc = {p1, p2}
  Interactive = {p1}
  p1 = p1
  p2 = p2
  WithKey = {p2}
  Runs <- MCRuns
  Workspaces = {w1}
  MaxRetries = 1
  MaxToken = 2
  Key = Key
  None = None
CONSTRAINT UntilDisturbed
INVARIANTS
  IInv
  SessionFollowsConfig
  AppliedOnce
  RetryCarriesNewToken
  LoginIsKept
PROPERTIES
  RequestsEnd
CHECK_DEADLOCK FALSE
