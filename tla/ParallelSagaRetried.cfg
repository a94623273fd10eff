SPECIFICATION Spec
CONSTANTS
  Step <- Steps
  Graphs <- ManyGraphs
  Retries = 3
  HasTimeout = FALSE
  Leaky = {}
  Idempotent = {}
INVARIANT CompensatedOnce
CHECK_DEADLOCK FALSE
