SPECIFICATION Spec
CONSTANTS
  a = a
  b = b
  c = c
  d = d
  p = p
  k = k
  Node = {a, b, c}
  Worker = {w1, w2}
  Approver = {}
  NoGraph = NoGraph
  NoNode = NoNode
  NoWorker = NoWorker
  Templates <- OneFork
  Yamls <- None
  Approval = {}
  Clone = {}
  MaxRetries <- RetryB
  RetryFrom = {}
  MaxStops = 0
  MaxFaults = 0
  MaxDoubles = 0
INVARIANT VerdictIsFinal
CHECK_DEADLOCK FALSE
