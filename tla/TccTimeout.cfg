SPECIFICATION Spec
CONSTANTS
  NParticipants = 2
  HasTimeout = TRUE
  Leaky = {}
INVARIANT CommittedStays
CHECK_DEADLOCK FALSE
