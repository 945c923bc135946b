SPECIFICATION Spec
CONSTANTS
  TicksPerSecond = 1
  Timeout = 1
  CreationGrace = 1
  RecoveryGrace = 2
  ReobserveInterval = 1
  PollInterval = 2
  PollJitter = 1
  RetryDelay = 1
  DeferDelays = {1}
  PassGap = 1
  RestartDelay = 1
  MaxTries = 2
  Deferrals = {"ramping", "deferred"}
  VisibilityLag = 0
  NamedByServer = FALSE
  AmbiguousCreate = FALSE
  Crashes = FALSE
  LateInitializes = TRUE
  InitialExternals = {0, 1}
  UserEdits = {"spec", "delete", "pause"}
  MaxEdits = 2
  MaxFaults = 1
  MaxCreates = 2
  MaxTime = 3
  InitialManagement = {"", "observe", "observe-delete", "observe-create-update"}
  InitialDeletion = {""}
PROPERTY SuccessMeansApplied
PROPERTY EditsSurvive
INVARIANT NeverStranded
