\* The exploration session and one client that stops it: three identities, so that two
\* explorations may have a recording or a hosted replay between or inside them.
SPECIFICATION FairSpec
CONSTANTS
  c1 = c1
  c2 = c2
  r1 = r1
  r2 = r2
  Clients <- MCOneClient
  Requests <- MCRequests
  MaxGeneration = 3
INVARIANTS
  XTypeOK
  DriverOwnsDevice
  FlagsFollowGoroutine
  DoneAfterRelease
  AcceptedStopIsReported
  HiddenOverlayIsAnswered
PROPERTIES
  RunsUnderLease
  CallsReturn
\* When every generation is spent and every call has returned, nothing is left to do.
CHECK_DEADLOCK FALSE
