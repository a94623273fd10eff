SPECIFICATION FairSpec
CONSTANTS
  Producer = {p1}
  Worker = {w1, w2}
  Scheduler = {s1}
  Operator = {}
  Key = {NoKey}
  NoKey = NoKey
  BatchSize = 1
  MaxAttempts = 1
  Backoff = TRUE
  MaxJobs = 1
  MaxFaults = 1
  MaxReplays = 0
PROPERTIES PoppedJobComesBack
CHECK_DEADLOCK FALSE
