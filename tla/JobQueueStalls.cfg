SPECIFICATION Spec
CONSTANTS
  MaxJobs = 2
  Worker = {w1, w2}
  BatchSize = 2
  MaxAttempts = 1
  Lease = 1
  HandlerTimeout = 1
  BackoffBase = 1
  BackoffCap = 1
  JitterPercent = 0
  MaxDelay = 1
  Stalls = TRUE
  MaxLosses = 1
  MaxRevives = 1
  AttemptBound = 3
INVARIANTS SucceededHasRun AttemptsFence
SYMMETRY WorkerSymmetry
