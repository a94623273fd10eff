SPECIFICATION Spec
CONSTANTS
  Producer = {p1, p2}
  Worker = {w1}
  Scheduler = {s1}
  Operator = {}
  Key = {k}
  NoKey = NoKey
  BatchSize = 1
  MaxAttempts = 1
  Backoff = TRUE
  MaxJobs = 2
  MaxFaults = 0
  MaxReplays = 0
INVARIANTS KeyedOnce
CHECK_DEADLOCK FALSE
