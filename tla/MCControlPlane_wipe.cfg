SPECIFICATION Spec
CONSTANTS
  c1 = c1
  c2 = c2
  r1 = r1
  r2 = r2
  Clients <- MCOneClient
  Requests <- MCRequests
  MaxGeneration = 1
  MaxRuns = 0
  MaxTokens = 2
INVARIANT RejectedStartKeepsPlan
CHECK_DEADLOCK FALSE
