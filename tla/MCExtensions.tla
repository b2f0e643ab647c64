---------------------------- MODULE MCExtensions ----------------------------
(* Instances of ExtensionLoading for TLC.                                  *)
EXTENDS ExtensionLoading

CONSTANTS boot, tool, logger

Boot == <<boot>>
NoAutoload == <<>>

\* boot runs SQL when it is loaded, which is before any other; tool's functions
\* run SQL and its load() asks the catalog; logger's load() logs.
BootNests == [e \in Exts |-> CASE e = boot -> {"nest", "query"}
                               [] e = tool -> {"query"}
                               [] OTHER -> {"log"}]
ToolNests == [e \in Exts |-> IF e = tool THEN {"nest", "query"} ELSE {"query"}]

On(path, op, exts) == [path : {path}, op : {op}, ext : exts]

\* logger is only ever loaded by the CLI, and tool's functions are not streamed.
Session ==
  On("execute", "load", {tool}) \cup On("cli", "load", {logger, tool})
  \cup On("execute", "ducklink_load", {tool, boot}) \cup On("stream", "ducklink_load", {tool})
  \cup On("execute", "call", {tool}) \cup On("stream", "call", {boot})
  \cup On("execute", "prefix", {boot}) \cup On("stream", "prefix", {boot})
  \cup On("stream", "load", {tool})

\* fieldbook: load() of the second extension runs SQL.
PlainThenBoot == On("execute", "load", {tool, boot})
=============================================================================
