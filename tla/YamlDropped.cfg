SPECIFICATION Spec
CONSTANTS
  a = a
  b = b
  c = c
  d = d
  p = p
  k = k
  Node = {a, b, c, d, k}
  Worker = {w1, w2}
  Approver = {}
  NoGraph = NoGraph
  NoNode = NoNode
  NoWorker = NoWorker
  Templates <- OneBeside
  Yamls <- OneYaml
  Approval = {}
  Clone = {k}
  MaxRetries <- NoRetries
  RetryFrom = {}
  MaxStops = 0
  MaxFaults = 0
  MaxDoubles = 0
INVARIANT YamlComplete
CHECK_DEADLOCK FALSE
