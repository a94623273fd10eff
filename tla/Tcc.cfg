SPECIFICATION FairSpec
CONSTANTS
  NParticipants = 3
  HasTimeout = TRUE
  Leaky = {2}
INVARIANTS TypeOK OutcomeTellsTruth OnlyAgreedCommits AtomicUnlessFailed
PROPERTIES TccEnds
CHECK_DEADLOCK FALSE
