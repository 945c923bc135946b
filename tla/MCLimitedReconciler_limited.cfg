SPECIFICATION Spec
CONSTANTS
  Items = {i1, i2}
  BaseDelay = 1
  MaxDelay = 3
  Int64Bound = 7
  MaxAttempts = 5
  MaxTime = 18
INVARIANT TypeOK
INVARIANT OnePassPerWhen
INVARIANT DelaysBounded
PROPERTY DelaysGrow
PROPERTY QuietRestarts
