\* Three identities of performance sessions and startup measurements; two of recordings and
\* replays, with two saves; three of explorations, with two plans; two sessions for the overlay.
\* No symmetry, which would be unsound for a liveness property.
SPECIFICATION WaitsSpec
CONSTANTS
  c1 = c1
  c2 = c2
  r1 = r1
  r2 = r2
  Clients <- MCClients
  MaxRecordings = 2
  MaxSaves = 2
  MaxGeneration = 3
  MaxPlans = 2
  MaxSessions = 2
INVARIANTS
  StateIsSamplers
  SamplerOwnsDevice
  MeasuresAlone
  
PROPERTIES
  StopConverges
  GateIsReleased
  ExplorationStopConverges
  MenuComesBack
\* When every generation is spent nothing is left to start.
CHECK_DEADLOCK FALSE
