\* Each service on an instance of its own; the bounds are those of the services.
SPECIFICATION Spec
CONSTANTS
  Pages <- MCPages
  PageInfo <- MCPageInfo
  ActivityKind <- MCActivityKind
  EnableScroll = TRUE
  EnableBacktrack = TRUE
  RecoverPopups = TRUE
  MaxBacktracks = 2
  MaxStableScrolls = 2
  MaxNonScrolls = 2
  StuckLimit = 2
  CycleRepetitions = 2
  CycleMaxPeriod = 2
  RepeatedTransitionLimit = 2
  MaxActions = 2
  Scenes <- MCScenes
  Policies <- MCPolicies
  Shells = {"main"}
  AdActivities = {"ad"}
  Handoffs = {"chooser"}
  MaxAttempts = 2
  MaxExternal = 1
  MaxEscapes = 2
  MaxUnstable = 1
  MaxFailures = 1
  MaxNumber = 1
  Slots = {0, 1}
  Places = {"page"}
  Overlay = {"page"}
  Requests = {"q"}
  LongTicks = 1
  DoubleTicks = 0
  MaxTicks = 1
  MaxInputs = 3
  MaxRecordings = 2
  Users = {u1}
  Readers = {r1}
  Timer = timer
  MaxInstrumentations = 3
  MaxTries = 1
  Viewers = {v1, v2}
  Injectors = {i1}
  MaxScrcpy = 3
  Controllers = {c1, c2}
  Tickets = {1, 2}
  AckQueueSize = 1
  MaxControls = 2
  MaxAcks = 2
  MaxDownloads = 3
  UserPaths = {11}
  MaxConcurrentTasks = 2
  MaxRetainedTasks = 2
  Parts <- MCParts
  Apks = {"companion", "host"}
  MaxBoots = 2
  Recorded <- MCRecorded
  Layouts <- MCLayouts
  Loops <- MCLoops
  MaxCycles = 2
  MaxReplays = 2
  MaxRecorded = 2
  MaxSaves = 3
  MaxCases = 1
  MaxLosses = 1
  Seconds = {1, 2}
  MaxSessions = 2
  MaxBegun = 4
  MaxDeaths = 1
INVARIANTS
  GraphSafe
  RecoverySafe
  CasesAndReplays
  AutomationSafe
  ScrcpyChannels
  DeviceFilesSafe
\* With their bounds spent the services have nothing left to do.
CHECK_DEADLOCK FALSE
