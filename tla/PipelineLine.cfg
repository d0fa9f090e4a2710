SPECIFICATION FairSpec
CONSTANTS
  a = a
  b = b
  c = c
  d = d
  p = p
  k = k
  Node = {a, b, c, p}
  Worker = {w1, w2}
  Approver = {u1}
  NoGraph = NoGraph
  NoNode = NoNode
  NoWorker = NoWorker
  Templates <- Lines
  Yamls <- None
  Approval = {p}
  Clone = {}
  MaxRetries <- RetryC
  RetryFrom = {b, p, c}
  MaxStops = 0
  MaxFaults = 0
  MaxDoubles = 0
INVARIANT SingleExecution
INVARIANT VerdictIsFinal
PROPERTY ImplementsDagRun
