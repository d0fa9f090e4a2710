SPECIFICATION Spec
CONSTANTS
  a = a
  b = b
  c = c
  d = d
  p = p
  k = k
  Node = {a, b, c}
  Worker = {w1, w2}
  Approver = {}
  NoGraph = NoGraph
  NoNode = NoNode
  NoWorker = NoWorker
  Templates <- OneChain
  Yamls <- None
  Approval = {}
  Clone = {}
  MaxRetries <- NoRetries
  RetryFrom = {}
  MaxStops = 1
  MaxFaults = 0
  MaxDoubles = 0
PROPERTY StopHolds
CHECK_DEADLOCK FALSE
