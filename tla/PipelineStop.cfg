SPECIFICATION MixedSpec
CONSTANTS
  a = a
  b = b
  c = c
  d = d
  p = p
  k = k
  Node = {a, b, c, d, p}
  Worker = {w1, w2}
  Approver = {u1}
  NoGraph = NoGraph
  NoNode = NoNode
  NoWorker = NoWorker
  Templates <- Joins
  Yamls <- None
  Approval = {p}
  Clone = {}
  MaxRetries <- RetryB
  RetryFrom = {}
  MaxStops = 1
  MaxFaults = 1
  MaxDoubles = 1
INVARIANT IndInv
PROPERTY CancelSticks
CHECK_DEADLOCK FALSE
