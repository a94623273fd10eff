SPECIFICATION FairSpec
CONSTANTS
  NSteps <- OrderSteps
  Retries = 3
  HasTimeout = TRUE
  Leaky <- RowByRow
  Idempotent <- Absolute
INVARIANTS TypeOK LogTellsTruth VerdictTellsTruth UndosBounded
PROPERTIES UndoInReverse SagaEnds
CHECK_DEADLOCK FALSE
