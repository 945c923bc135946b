SPECIFICATION Spec
CONSTANTS
  TicksPerSecond = 2
  Timeout = 1
  CreationGrace = 5
  RecoveryGrace = 6
  ReobserveInterval = 1
  PollInterval = 2
  PollJitter = 0
  RetryDelay = 2
  DeferDelays = {1}
  PassGap = 2
  RestartDelay = 2
  MaxTries = 2
  Deferrals = {}
  VisibilityLag = 3
  NamedByServer = FALSE
  AmbiguousCreate = FALSE
  Crashes = TRUE
  LateInitializes = FALSE
  InitialExternals = {0}
  UserEdits = {}
  MaxEdits = 0
  MaxFaults = 2
  MaxCreates = 2
  MaxTime = 10
  InitialManagement = {""}
  InitialDeletion = {""}
INVARIANT TypeOK
INVARIANT NoDuplicate
INVARIANT CreateDetectable
PROPERTY HandshakeSpec
