\* Three identities, two finalizations, one crash.
SPECIFICATION Spec
CONSTANTS
  c1 = c1
  c2 = c2
  Clients <- MCClients
  MaxGeneration = 3
  MaxAttempts = 2
  MaxCrashes = 1
SYMMETRY MCSymmetry
INVARIANTS
  TypeOK
  SessionOwnsDevice
  FinalizedAfterCapture
  ExclusiveSessions
  PendingIsOnDisk
  IdleMeansReturned
PROPERTIES
  RunsUnderLease
\* When every generation is spent nothing is left to start.
CHECK_DEADLOCK FALSE
