SPECIFICATION FairSpec
CONSTANTS
  Step <- Steps
  Graphs <- ManyGraphs
  Retries = 3
  HasTimeout = TRUE
  Leaky = {"b"}
  Idempotent = {"a"}
INVARIANTS TypeOK DependenciesFirst VerdictTellsTruth RefusesCycles
PROPERTIES DependentsUndoneFirst EndsOrRefuses
CHECK_DEADLOCK FALSE
