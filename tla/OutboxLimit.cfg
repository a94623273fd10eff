SPECIFICATION Spec
CONSTANTS
  NEvents = 1
  Dispatcher = {d1, d2}
  Limit = 1
  MaxAttempts = 2
  MaxFaults = 0
INVARIANT TriedWithinLimit
CHECK_DEADLOCK FALSE
