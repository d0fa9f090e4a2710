SPECIFICATION FairSpec
CONSTANTS
  a = a
  b = b
  c = c
  d = d
  p = p
  k = k
  Node = {a, b, c, d, p, k}
  Worker = {w1, w2}
  Approver = {u1, u2}
  NoGraph = NoGraph
  NoNode = NoNode
  NoWorker = NoWorker
  Templates <- Schedules
  Yamls <- AnyYaml
  Approval = {p}
  Clone = {k}
  MaxRetries <- NoRetries
  RetryFrom = {}
  MaxStops = 0
  MaxFaults = 0
  MaxDoubles = 0
INVARIANT DependencyOrder
INVARIANT SuccessMeansPassed
INVARIANT YamlFollowed
PROPERTY Settles
PROPERTY CycleFails
