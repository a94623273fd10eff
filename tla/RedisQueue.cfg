SPECIFICATION FairSpec
CONSTANTS
  Producer = {p1}
  Worker = {w1, w2}
  Scheduler = {s1, s2}
  Operator = {o1}
  Key = {k}
  NoKey = NoKey
  BatchSize = 2
  MaxAttempts = 1
  Backoff = TRUE
  MaxJobs = 1
  MaxFaults = 1
  MaxReplays = 1
INVARIANTS TypeOK NothingVanishes OneCopy
PROPERTIES JobsSettle
CHECK_DEADLOCK FALSE
