SPECIFICATION Spec
CONSTANTS
  Producer = {p1}
  Worker = {w1, w2}
  Scheduler = {s1, s2}
  Operator = {}
  Key = {NoKey}
  NoKey = NoKey
  BatchSize = 1
  MaxAttempts = 1
  Backoff = TRUE
  MaxJobs = 1
  MaxFaults = 0
  MaxReplays = 0
INVARIANTS ClaimedOnce
CHECK_DEADLOCK FALSE
