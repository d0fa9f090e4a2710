SPECIFICATION Spec
CONSTANTS
  Task = {t1, t2, t3}
  Worker = {w1, w2}
  Caller = {c1, c2}
  MaxRetries = 1
  Timely = FALSE
  MaxAsks = 1
  MaxEdits = 1
  MaxStale = 1
  MaxFaults <- AnyFault
  NoTask = NoTask
PROPERTY SuccessStands
SYMMETRY Symmetry
CHECK_DEADLOCK FALSE
