SPECIFICATION Spec
CONSTANTS
  Caller = {c1, c2}
  TaskId = {t1, t2}
  NoTask = NoTask
  NApprovals = 1
  Strategy <- JustBoth
  Seats <- JustTwo
  Actions = {"approve"}
  MaxVersion = 2
INVARIANT AllCandidatesAgree
SYMMETRY Symmetry
CHECK_DEADLOCK FALSE
