SPECIFICATION MCSpec
CONSTANTS
  p1 = p1
  p2 = p2
  p3 = p3
  p4 = p4
  d1 = d1
  d2 = d2
  n1 = n1
  n2 = n2
  Handler <- Processes
  Worker <- Workers
  Editor <- Processes
  Alert <- TwoRows
  Run <- Runs
  Ticket = {"t1"}
  AlertKind = {"none", "auto"}
  Gate = {"open", "verified", "closed"}
  BreakerLimit = 2
  Budgets <- AlertBudgets
  Text = {"text"}
  Result <- TwoRows
  Caller <- Workers
  AiLimit = 2
  Changes = 3
  AiFaults = 3
  TemplateBudgets <- TemplateBudget
  MetricSource = {"m1"}
  LogSource <- TwoRows
  Section = {"PIPELINE", "NODE", "K8S-EVENT"}
  MetricName = {"cpu", "up"}
  MaxItems = 1
  MaxLines <- LineBounds
  PoolSize = 2
  Attempts = 2
  Trimmed <- TrimmedLists
  Untrimmed <- UntrimmedLists
  Ranked = {"evidence", "ansflow_alerts"}
  Raw <- RawLists
  Room <- Rooms
  MaxChars = 5
  Contexts <- ContextsOf
  Lengths <- FormLengths
  Doc <- OneRow
  Messages = 3
  KbEdits = 1
  KbFaults = 1
  Key = {"k1", "k2"}
  MaxId = 4
  RestoreFaults = 1
  Reader = {"r1"}
  Writer = {"w1"}
  Process <- OneProcess
  Value <- TwoRows
  Item <- Runs
  Category = {"c1", "c2"}
  ConfigKey = {"k1"}
  System = {"c2"}
  ConfigChanges = 2
  ConfigFaults = 1
  User <- OneRow
  RbacRole = {"r1", "r2"}
  RoleRequest <- OneProcess
  Refresher <- SecondProcess
  RoleChanges = 2
  CacheFaults = 1
  Provider = {"github", "wechat", "ldap"}
  Identity = {"i1", "i2"}
  Unique = {"github", "wechat"}
  Base <- NameOf
  Password = {"ann"}
  Session <- Processes
  MaxUsers = 4
  AccountBudgets <- AccountBudget
  Person = {"u1", "u2"}
  SuperUser = {}
  MemberId = {1, 2}
  Project = {"p1", "p2"}
  Asset = {"a1", "a2"}
  Home <- HomeOf
  Creator <- CreatorOf
  Resource <- ResourceCode
  Granted <- Codes
  Scope <- Scopes
  AccessBudget = 2
INVARIANT OperationsTypeOK
INVARIANT AlertsSound
INVARIANT TemplatesSound
INVARIANT EvidenceSound
INVARIANT IndexComplete
INVARIANT RestoreSound
INVARIANT ConfigAgrees
INVARIANT PermissionsFollow
INVARIANT AccountsSound
INVARIANT AccessSound
SYMMETRY Symmetry
CHECK_DEADLOCK FALSE
