SPECIFICATION HttpSpec
CONSTANTS
  k1 = k1
  otherKey = otherKey
  NoKey = NoKey
  Keys = {k1}
  PerController = 3
  Recovery = 2
  Saturation = FALSE
  IgnoreSignals = FALSE
  MinJitter = 1
  StartupRamp = 1
  SamplePeriod = 1
  MaxStall = 1
  MaxReconcilers = 1
  SignalsUntil = 3
  MaxTime = 9
  Signals = {}
  Samples = {}
  ExperimentalMemoryWorkingSet = FALSE
  CPUPressureThreshold = 50
  WorkingSetSoftRatio = 80
  WorkingSetHardRatio = 90
  MaxSeconds = 100
  MaxCount = 100
  MaxEpoch = 100
  Requests <- MCRequests
  Responses <- MCResponses
PROPERTY KeysRecover
PROPERTY RecoveryPaced
PROPERTY HoldNeverShortens
PROPERTY RefusalsHonoured
