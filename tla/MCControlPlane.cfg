\* Two clients, three identities, two runs of the runner and two plans: enough for a target
\* case of either kind between or beside two other sessions.
SPECIFICATION Spec
CONSTANTS
  c1 = c1
  c2 = c2
  r1 = r1
  r2 = r2
  Clients <- MCClients
  Requests <- MCRequests
  MaxGeneration = 3
  MaxRuns = 2
  MaxTokens = 2
SYMMETRY MCSymmetry
INVARIANTS
  TypeOK
  OneInputSession
  TargetReplayInsideHost
  StopRunnerSparesUserReplay
  CaseOncePerToken
\* When every generation is spent nothing is left to start.
CHECK_DEADLOCK FALSE
