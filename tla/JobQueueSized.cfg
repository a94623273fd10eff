SPECIFICATION FairSpec
CONSTANTS
  MaxJobs = 2
  Worker = {w1, w2}
  BatchSize = 2
  MaxAttempts = 1
  Lease = 1
  HandlerTimeout = 1
  BackoffBase = 1
  BackoffCap = 1
  JitterPercent = 0
  MaxDelay = 1
  Stalls = FALSE
  MaxLosses = 1
  MaxRevives = 1
  AttemptBound = 5
INVARIANTS TypeOK ExclusiveClaims AttemptsBudget RepeatsOnlyAfterLosses
PROPERTIES ImplementsLifecycle EveryJobSettles
