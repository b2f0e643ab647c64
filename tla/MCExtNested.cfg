\* No autoload; two extensions are loaded by LOAD, and load() of one nests.
CONSTANTS
  boot = boot
  tool = tool
  logger = logger
  Exts = {boot, tool}
  Builtin = builtin
  Autoload <- NoAutoload
  Statements <- PlainThenBoot
  LoadCalls <- BootNests
  FunctionCalls <- ToolNests
  FileBacked = TRUE
  Absent = {}
  Failing = {}
  Rejecting = {}
  SchemaFails = FALSE
  None = None
SPECIFICATION Spec
INVARIANT NoLockCycle
