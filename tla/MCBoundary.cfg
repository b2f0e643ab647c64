SPECIFICATION CrossingSpec
CONSTANTS
  MaxId = 4
  MaxTraps = 1
  NoId = NoId
  Folder <- MCFolder
  SpecFields <- Fields
  Lower <- MCLower
  MaxQueries = 1
  Idle = Idle
  Regions = {1, 2}
  Offsets = {0}
  Width = 3
  None = None
  MaxAllocs = 5
  NoValue = NoValue
  Arms = {"int64", "uint8", "blob", "hugeint", "list-col"}
  RowCounts = {0, 1, 8, 9}
  NullRows = {{}, {1}, {2, 9}, {1, 2, 3, 4, 5, 6, 7, 8, 9}}
INVARIANTS NoDangling ReleasedOnce DrainComplete Dispatched OwnBlock Conveyed Delivered
CHECK_DEADLOCK FALSE
