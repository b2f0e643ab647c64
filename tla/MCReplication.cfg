SPECIFICATION FairSpec
CONSTANTS
  Times = {1, 2}
  Continuous = TRUE
  DbSize <- MCSizes
  Width <- MCWidth
  None = None
  Torn = Torn
  MaxCommits = 2
  MaxCrashes = 1
  MaxFailures = 1
  MaxGeneration = 2
INVARIANTS Restores BackupCovers
PROPERTIES RegisterSpec Shipped
CHECK_DEADLOCK FALSE
