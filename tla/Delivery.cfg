SPECIFICATION Spec
CONSTANTS
  p1 = p1
  p2 = p2
  d1 = d1
  d2 = d2
  d3 = d3
  Handler <- Processes
  Editor <- OneProcess
  Graph = {"g1", "g2"}
  Expr = {"c1", "c2"}
  Edits <- VersionEdits
  MaxSaves = 3
  SaveFaults = 1
  Item <- FourItems
  Arrows <- DiamondArrows
  Task <- OneRow
  Draft <- Processes
  Content = {"text"}
  Promoter = {"promoter"}
  MaxNodes = 1
  Run = {"r1", "r2", "r3"}
  First = {"r1"}
  Fixed = {"latest"}
  WorkPlans <- Plans
  Delivery <- ThreeRows
  HookEdits = 2
  HookFaults = 1
  View <- Processes
  BeatEntry <- ThreeRows
  Exec <- TwoRows
  MaxFaults = 1
  Celery <- OneRow
  Node <- OneProcess
  PulseFaults = 1
  Release = {"web"}
  App = "web"
  Chart = {"c1", "c2", "c3"}
  Revision = {"g1", "g2"}
  Name <- ChartName
  AppSync = {"s1", "s2"}
  Budgets <- HelmBudgets
  Baseline = {"b1", "b2"}
  Clause = {"c1", "c2", "c3"}
  Parent <- ParentOf
  Top = "top"
  Covers <- CoversOf
  Check <- TwoRows
  CheckFaults = 1
  BaselineEdits = 1
  Ip = {"i1", "i2"}
  HostName = {"n1", "n2"}
  Report <- Reports
  Syncer <- TwoRows
  MaxHosts = 3
  InventoryBudgets <- SyncBudgets
INVARIANT DeliveryTypeOK
INVARIANT VersionsSound
INVARIANT GraphFaithful
INVARIANT PromotedKept
INVARIANT WorkSound
INVARIANT HookSound
INVARIANT BeatFollows
INVARIANT RevokedIsOver
INVARIANT ReleasesSound
INVARIANT ChecksSound
INVARIANT HostsSound
SYMMETRY Symmetry
CHECK_DEADLOCK FALSE
