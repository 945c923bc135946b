SPECIFICATION GatedSpec
CONSTANTS
  TicksPerSecond = 1
  Timeout = 1
  CreationGrace = 1
  RecoveryGrace = 1
  ReobserveInterval = 1
  PollInterval = 9
  PollJitter = 0
  RetryDelay = 1
  DeferDelays = {1, 2}
  PassGap = 1
  RestartDelay = 1
  MaxTries = 2
  Deferrals = {"ramping", "deferred"}
  VisibilityLag = 0
  NamedByServer = FALSE
  AmbiguousCreate = FALSE
  Crashes = FALSE
  LateInitializes = FALSE
  InitialExternals = {0}
  UserEdits = {"spec", "delete"}
  MaxEdits = 1
  MaxFaults = 1
  MaxCreates = 2
  MaxTime = 6
  InitialManagement = {""}
  InitialDeletion = {""}
  k1 = k1
  Keys = {k1}
  PerController = 1
  Recovery = 1
  Saturation = TRUE
  IgnoreSignals = FALSE
  MinJitter = 1
  StartupRamp = 1
  SamplePeriod = 1
  Signals <- MCSignals
  Samples <- MCSamples
  MaxStall = 0
  MaxReconcilers = 2
  SignalsUntil = 1
  ExperimentalMemoryWorkingSet = FALSE
  CPUPressureThreshold = 50
  WorkingSetSoftRatio = 80
  WorkingSetHardRatio = 90
  ConnectKeys = {}
  ClientKeys = {k1}
INVARIANT SlotsFollowCalls
INVARIANT RampIsQuiet
INVARIANT DeferralLeavesNoHandshake
INVARIANT NeverStranded
PROPERTY Settles
