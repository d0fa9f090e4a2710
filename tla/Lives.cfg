SPECIFICATION LivesSpec
CONSTANTS
  Task = {t1, t2, t3}
  Worker = {w1, w2}
  Caller = {c1}
  MaxRetries = 2
  Timely = TRUE
  MaxAsks = 0
  MaxEdits = 0
  MaxStale = 2
  MaxFaults <- TwoCrashes
  NoTask = NoTask
INVARIANT WorkIsHeld
INVARIANT CalmInv
PROPERTY WorkEnds
PROPERTY StateFollows
CHECK_DEADLOCK FALSE
