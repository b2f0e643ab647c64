\* Liveness: a supervised driver per node, crashes, shared and targeted jobs.
SPECIFICATION FairSpec
PROPERTIES DueIsTaken
CONSTANTS
  d1 = d1  d2 = d2
  n1 = n1  n2 = n2
  j1 = j1  j2 = j2
  app = app
  AnyNode = AnyNode  NoNode = NoNode  NoDb = NoDb
  Home = Home  NoRow = NoRow  NoEntry = NoEntry
  Drivers = {d1, d2}
  Nodes = {n1, n2}
  NodeOf <- TwoNodes
  Jobs = {j1}
  Period <- EveryMark
  JobSpecs <- MixedJobs
  Catalogs = {app}
  Attached <- NothingAttached
  TTL = 1
  HistoryLimit = 0
  Commands <- NoForce
  Faults = {"crash"}
  MaxTime = 2
  MaxOps = 0
  MaxCrashes = 1
