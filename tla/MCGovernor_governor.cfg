SPECIFICATION Spec
CONSTANTS
  Keys = {k1, k2}
  PerController = 1
  Recovery = 2
  Saturation = TRUE
  IgnoreSignals = FALSE
  MinJitter = 1
  StartupRamp = 1
  SamplePeriod = 1
  MaxStall = 1
  MaxReconcilers = 2
  SignalsUntil = 2
  MaxTime = 4
  Signals <- MCSignals
  Samples <- MCSamples
  ExperimentalMemoryWorkingSet = TRUE
  CPUPressureThreshold = 50
  WorkingSetSoftRatio = 80
  WorkingSetHardRatio = 90
INVARIANT TypeOK
INVARIANT SlotsConserved
INVARIANT CapacityBounded
INVARIANT UnheardNeverDeferred
INVARIANT DeferralWakes
PROPERTY LocalPaced
PROPERTY GateSpec
SYMMETRY KeySymmetry
