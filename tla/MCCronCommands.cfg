\* Every operator command; plain and cross-catalog jobs in one tick, --history-limit 1, every target attached;
\* the lease upsert and the bookkeeping of a run may fail.
SPECIFICATION Spec
INVARIANTS LeaseBacked BookkeepingAtHome
SYMMETRY AllSwapped
CONSTANTS
  d1 = d1  d2 = d2
  n1 = n1  n2 = n2
  j1 = j1  j2 = j2
  app = app
  AnyNode = AnyNode  NoNode = NoNode  NoDb = NoDb
  Home = Home  NoRow = NoRow  NoEntry = NoEntry
  Drivers = {d1, d2}
  Nodes = {n1, n2}
  NodeOf <- TwoNodes
  Jobs = {j1, j2}
  Period <- EveryMark
  JobSpecs <- AppJobs
  Catalogs = {app}
  Attached <- AppAttached
  TTL = 1
  HistoryLimit = 1
  Commands <- AnyCommand
  Faults = {"lease", "record"}
  MaxTime = 1
  MaxOps = 1
  MaxCrashes = 0
