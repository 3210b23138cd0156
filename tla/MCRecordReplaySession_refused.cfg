\* A recording whose draft cannot be written.
SPECIFICATION Spec
CONSTANTS
  c1 = c1
  c2 = c2
  Clients <- MCClients
  MaxGeneration = 2
  MaxAttempts = 2
  MaxCrashes = 0
INVARIANTS
  RefusedStartLeavesNothing
CHECK_DEADLOCK FALSE
