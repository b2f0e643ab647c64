\* Two drivers, one job: the operator re-schedules and pauses it, any statement may fail, the core may
\* trap, the job's SQL may change catalog, drivers crash and restart.
SPECIFICATION Spec
INVARIANTS LeaseHeld NoRefire OneCatchUpPerGap
PROPERTY LeaseProtocol
SYMMETRY Swapped
CONSTANTS
  d1 = d1  d2 = d2
  n1 = n1  n2 = n2
  j1 = j1  j2 = j2
  app = app
  AnyNode = AnyNode  NoNode = NoNode  NoDb = NoDb
  Home = Home  NoRow = NoRow  NoEntry = NoEntry
  Drivers = {d1, d2}
  Nodes = {n1, n2}
  NodeOf <- TwoNodes
  Jobs = {j1}
  Period <- EveryMark
  JobSpecs <- AppJobs
  Catalogs = {app}
  Attached <- AppAttached
  TTL = 1
  HistoryLimit = 0
  Commands <- NoForce
  Faults <- AnyFault
  MaxTime = 2
  MaxOps = 1
  MaxCrashes = 1
