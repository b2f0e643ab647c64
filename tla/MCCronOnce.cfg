\* docs/cron.md: shared jobs fire once total per window.
SPECIFICATION Spec
INVARIANT OncePerWindow
CONSTANTS
  d1 = d1  d2 = d2
  n1 = n1  n2 = n2
  j1 = j1  j2 = j2
  app = app
  AnyNode = AnyNode  NoNode = NoNode  NoDb = NoDb
  Home = Home  NoRow = NoRow  NoEntry = NoEntry
  Drivers = {d1, d2}
  Nodes = {n1, n2}
  NodeOf <- TwoNodes
  Jobs = {j1}
  Period <- EveryMark
  JobSpecs <- SharedJobs
  Catalogs = {app}
  Attached <- NothingAttached
  TTL = 2
  HistoryLimit = 0
  Commands <- NoCommand
  Faults = {}
  MaxTime = 3
  MaxOps = 0
  MaxCrashes = 0
