SPECIFICATION Spec
CONSTANTS
  TicksPerSecond = 1
  Timeout = 1
  CreationGrace = 3
  RecoveryGrace = 4
  ReobserveInterval = 1
  PollInterval = 2
  PollJitter = 0
  RetryDelay = 1
  DeferDelays = {1}
  PassGap = 1
  RestartDelay = 1
  MaxTries = 2
  Deferrals = {}
  VisibilityLag = 0
  NamedByServer = FALSE
  AmbiguousCreate = TRUE
  Crashes = FALSE
  LateInitializes = FALSE
  InitialExternals = {0}
  UserEdits = {"delete", "policy", "vanish"}
  MaxEdits = 2
  MaxFaults = 1
  MaxCreates = 2
  MaxTime = 4
  InitialManagement = {"", "observe"}
  InitialDeletion = {""}
INVARIANT NoLeak
INVARIANT OwnedIsFinalized
INVARIANT CreateMarked
