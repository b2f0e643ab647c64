SPECIFICATION Spec
CONSTANTS
  None = None
  Clients = {c1, c2}
  c1 = c1
  c2 = c2
  MaxStarts = 2
  Matching <- Globbed
  Setups <- AllSetups
  Results <- AllResults
  Sayings <- AllSayings
  Seed <- SeedRow
  Added <- AddedRow
INVARIANTS WholeBody Bound SeededOnce Told
PROPERTIES Served
CHECK_DEADLOCK FALSE
