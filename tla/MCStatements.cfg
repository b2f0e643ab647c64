\* One autoloaded extension that nests, one that may fail in every way, one
\* that logs; and batches of one or two written statements.
SPECIFICATION StatementsSpec
INVARIANTS NoLockCycle AccountedFor ReplayedBefore PrefixCovers Faithful Complete OneVersion
CONSTANTS
  boot = boot
  tool = tool
  logger = logger
  Exts = {boot, tool, logger}
  Builtin = builtin
  Autoload <- Boot
  Statements <- Session
  LoadCalls <- BootNests
  FunctionCalls <- ToolNests
  FileBacked = TRUE
  Absent = {tool, logger}
  Failing = {tool, logger}
  Rejecting = {tool, boot}
  SchemaFails = TRUE
  None = None
  Numbers = {"1", "2", "3", "18"}
  QuotedNames <- MCQuoted
  TypeNames <- MCLogical
  Batches <- MCBatches
  Files = {f1, f2}
  Hosts <- MCHosts
  Preopens <- MCPreopens
  Scans <- MCScans
  Dirs <- MCDirs
  MaxCommits <- MCCommits
  Faults = {"open", "read"}
  NoFiles = NoFiles
