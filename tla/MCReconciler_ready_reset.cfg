SPECIFICATION Spec
CONSTANTS
  TicksPerSecond = 1
  Timeout = 1
  CreationGrace = 3
  RecoveryGrace = 4
  ReobserveInterval = 1
  PollInterval = 2
  PollJitter = 0
  RetryDelay = 1
  DeferDelays = {1}
  PassGap = 1
  RestartDelay = 1
  MaxTries = 2
  Deferrals = {}
  VisibilityLag = 0
  NamedByServer = FALSE
  AmbiguousCreate = FALSE
  Crashes = FALSE
  LateInitializes = FALSE
  InitialExternals = {1}
  UserEdits = {}
  MaxEdits = 0
  MaxFaults = 1
  MaxCreates = 2
  MaxTime = 6
  InitialManagement = {""}
  InitialDeletion = {""}
INVARIANT ReadyFollowsObserve
