\* A delayed owner stop against the session that comes next.
SPECIFICATION Spec
CONSTANTS
  c1 = c1
  c2 = c2
  r1 = r1
  r2 = r2
  Clients <- MCClients
  Requests <- MCRequests
  MaxGeneration = 2
INVARIANTS
  OwnedStopTargetsOwnSession
CHECK_DEADLOCK FALSE
