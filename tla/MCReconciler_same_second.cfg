SPECIFICATION Spec
CONSTANTS
  TicksPerSecond = 2
  Timeout = 1
  CreationGrace = 8
  RecoveryGrace = 8
  ReobserveInterval = 1
  PollInterval = 2
  PollJitter = 0
  RetryDelay = 2
  DeferDelays = {1}
  PassGap = 0
  RestartDelay = 2
  MaxTries = 2
  Deferrals = {}
  VisibilityLag = 4
  NamedByServer = FALSE
  AmbiguousCreate = FALSE
  Crashes = TRUE
  LateInitializes = FALSE
  InitialExternals = {0}
  UserEdits = {}
  MaxEdits = 0
  MaxFaults = 1
  MaxCreates = 2
  MaxTime = 6
  InitialManagement = {""}
  InitialDeletion = {""}
INVARIANT NoDuplicate
