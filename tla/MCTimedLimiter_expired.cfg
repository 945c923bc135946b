SPECIFICATION LimiterSpec
CONSTANTS
  Items = {i1}
  BaseDelay = 1
  MaxDelay = 2
  Int64Bound = 64
  MaxAttempts = 3
  MaxTime = 14
PROPERTY FailuresSlowDown
