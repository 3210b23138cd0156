\* Two runs, so that a stop of the first may meet the second.
SPECIFICATION FairSpec
CONSTANTS
  c1 = c1
  c2 = c2
  Clients <- MCClients
  MaxRuns = 2
INVARIANTS
  TypeOK
  OneProcess
  MarkerIsForThisRun
  StoppedRunIsReported
  HiddenOverlayIsAnswered
PROPERTIES
  StopConverges
\* After the shutdown nothing is left to do.
CHECK_DEADLOCK FALSE
