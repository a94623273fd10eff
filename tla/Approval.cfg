SPECIFICATION Spec
CONSTANTS
  Caller = {c1, c2}
  TaskId = {t1, t2, t3, t4}
  NoTask = NoTask
  NApprovals = 2
  Strategy <- AnyThenBoth
  Seats <- TwoThenTwo
  Actions = {"approve", "reject", "transfer"}
  MaxVersion = 3
INVARIANTS TypeOK NoNodeSkipped EverybodyAsked
PROPERTIES HaltedStaysPut
SYMMETRY Symmetry
CHECK_DEADLOCK FALSE
