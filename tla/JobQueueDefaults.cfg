SPECIFICATION Spec
CONSTANTS
  MaxJobs = 3
  Worker = {w1, w2}
  BatchSize = 3
  MaxAttempts = 1
  Lease = 1
  HandlerTimeout = 1
  BackoffBase = 1
  BackoffCap = 1
  JitterPercent = 0
  MaxDelay = 1
  Stalls = FALSE
  MaxLosses = 0
  MaxRevives = 0
  AttemptBound = 3
INVARIANT ExclusiveClaims
SYMMETRY WorkerSymmetry
