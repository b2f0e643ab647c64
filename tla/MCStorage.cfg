\* Either kind of extension, two files, two aliases that may share one; any call may fail.
SPECIFICATION CarefulSpec
SYMMETRY Alike
INVARIANTS Durable WritesStayHome ReadsBack

CONSTANTS
  blob = blob  lite = lite  ty1 = ty1  ty2 = ty2
  a1 = a1  a2 = a2  t1 = t1  t2 = t2  r1 = r1  r2 = r2
  f1 = f1  f2 = f2  path1 = path1  path2 = path2
  NoExt = NoExt  NoEntry = NoEntry  NoScan = NoScan
  Exts = {blob, lite}
  Direct = {lite}
  Types = {ty1}
  Sqlite = ty1
  TypesOf <- OneExt
  Aliases = {a1, a2}
  Tables = {t1, t2}
  Rows = {r1, r2}
  Stores = {f1, f2}
  Files = {f1, f2}
  Dsns = {path1, path2}
  StoreOf <- Names
  DsnsOf <- Overlapping
  Modes <- AnyMode
  Existing <- EmptyT1
  Faults <- MostFaults
  MaxCatalogs = 2
