SPECIFICATION Spec
CONSTANTS
  NSteps <- OrderSteps
  Retries = 3
  HasTimeout = FALSE
  Leaky <- RowByRow
  Idempotent <- Absolute
INVARIANT CompensatedIsRolledBack
CHECK_DEADLOCK FALSE
