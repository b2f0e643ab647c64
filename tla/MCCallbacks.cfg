\* Two extensions, one of which may load twice, and another process at the lock file.
\* A guest may block for ever on a lock that its own process has.
CHECK_DEADLOCK FALSE
SPECIFICATION Spec
INVARIANTS Routed Kept LockKept WaitsForHolder
SYMMETRY ExtsSwapped
CONSTANTS
  NoExt = NoExt  NoPath = NoPath  NoEntry = NoEntry  Free = Free  Other = Other
  Exts = {e1, e2}
  Paths = {p1}
  Kinds = {"table", "direct", "host"}
  MaxLoads = 2
  MaxImports = 5
  MaxCalls = 1
