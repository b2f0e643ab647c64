-------------------------- MODULE ExtensionLoading --------------------------
(***************************************************************************)
(* Loading of extension components by the host (lib.rs, ExtensionManager   *)
(* and HostState): LOAD in SQL, the CLI's request-load, ducklink_load()    *)
(* with its replay, ducklink_prefix(), and what an extension may call back *)
(* into while it is loaded or while one of its functions runs.             *)
(*                                                                         *)
(* Two threads: the session's, and the loader thread that it spawns and    *)
(* joins for each load.  Two locks, neither reentrant: the core's and the  *)
(* extension manager's.  A registration stands for all that one extension  *)
(* registers; it goes from the instance (pending), perhaps by way of the   *)
(* manager (deferred), to the core (batch), which accepts it (catalog) or  *)
(* not (rejected).                                                         *)
(*                                                                         *)
(* Abstracted: how an artifact is found, storage and other backends that   *)
(* never reach the core, the catalog snapshot that a busy query reads.     *)
(***************************************************************************)
EXTENDS Naturals, Sequences, SequencesExt

CONSTANTS
  Exts,         \* extensions
  Builtin,      \* the host's own ducklink_load and ducklink_prefix
  Autoload,     \* DUCKLINK_AUTOLOAD, in order
  Statements,   \* what the user runs: [path, op, ext]
  LoadCalls,    \* per extension, the host imports its load() may call
  FunctionCalls,\* ... and its functions may call
  FileBacked,   \* the database is a file
  Absent,       \* extensions that may not be found
  Failing,      \* ... whose load() may fail
  Rejecting,    \* ... on whose LOAD the core may reject registrations
  SchemaFails,  \* CREATE SCHEMA for a prefix may fail
  None          \* sentinel

Imports == {"log", "query", "nest"}
Paths == {"execute", "stream", "cli"}
Ops == {"load", "ducklink_load", "prefix", "call"}
Statement == [path : Paths, op : Ops, ext : Exts]

ASSUME LoadingAssumption ==
  /\ Builtin \notin Exts
  /\ None \notin Exts \cup {Builtin} \cup Imports \cup {"main"} \cup Statement
  /\ Autoload \in Seq(Exts)
  /\ Statements \subseteq Statement
  /\ \A s \in Statements : s.path = "cli" => s.op = "load"
  /\ LoadCalls \in [Exts -> SUBSET Imports]
  /\ FunctionCalls \in [Exts -> SUBSET Imports]
  /\ FileBacked \in BOOLEAN /\ SchemaFails \in BOOLEAN
  /\ Absent \subseteq Exts /\ Failing \subseteq Exts /\ Rejecting \subseteq Exts

Registrations == Exts \cup {Builtin}

VARIABLES
  pc,        \* where each thread is
  back,      \* where the session goes when the statement at hand ends
  stmt,      \* the statement at hand ...
  user,      \* ... and the one that waits for the replays to end
  todo,      \* extensions still to LOAD before that
  asked,     \* the host import that the running extension is calling
  holder,    \* who holds each lock
  loaded,    \* extensions of the manager
  recorded,  \* loaded_extensions of the sibling's state
  pending,   \* instances whose registrations were not drained yet
  deferred,  \* deferred_registrations
  replays,   \* deferred_drain_names
  declared,  \* deferred_prefix_declarations is not empty
  injected,  \* the built-ins were given to the core
  batch,     \* what get-pending-registrations returned
  catalog,   \* registered by the core
  rejected,  \* rejected by the core
  archive,   \* replay_archive
  slot,      \* what the sibling core registered, or None before it exists
  macros,    \* the functions that have an alias under the prefix
  promised   \* history: the functions that a declared prefix is to cover

threads == <<pc, back, stmt, user, todo, asked, holder>>
manager == <<loaded, recorded, pending, deferred, replays, declared, injected>>
database == <<batch, catalog, rejected, archive, slot, macros, promised>>
vars == <<threads, manager, database>>

MainPc == {"closed", "autoload", "flush", "ready", "enter", "ensure", "join", "hooks",
           "register", "body", "asking"}
LoaderPc == {"none", "body", "asking", "ok", "error"}

TypeOK ==
  /\ pc \in [main : MainPc, loader : LoaderPc]
  /\ back \in {"closed", "autoload", "flush", "ready"}
  /\ stmt \in Statement \cup {None} /\ user \in Statements \cup {None}
  /\ todo \in Seq(Exts) /\ replays \in Seq(Exts) /\ recorded \in Seq(Exts)
  /\ asked \in Imports \cup {None}
  /\ holder \in [core : {"main", None}, manager : {"main", None}]
  /\ loaded = Range(recorded) /\ pending \subseteq loaded /\ deferred \subseteq loaded
  /\ declared \in BOOLEAN /\ injected \in BOOLEAN
  /\ batch \subseteq Registrations /\ catalog \subseteq Registrations
  /\ rejected \subseteq Registrations /\ archive \subseteq Registrations
  /\ slot \in (SUBSET Registrations) \cup {None}
  /\ macros \subseteq catalog /\ promised \subseteq Registrations

Init ==
  /\ pc = [main |-> "closed", loader |-> "none"]
  /\ back = "closed" /\ stmt = None /\ user = None /\ todo = <<>>
  /\ asked = None
  /\ holder = [core |-> None, manager |-> None]
  /\ loaded = {} /\ recorded = <<>> /\ pending = {} /\ deferred = {}
  /\ replays = <<>> /\ declared = FALSE /\ injected = FALSE
  /\ batch = {} /\ catalog = {} /\ rejected = {} /\ archive = {}
  /\ slot = None /\ macros = {} /\ promised = {}

\* The session goes on; a loader thread lives only while the session joins it.
Goto(place) == pc' = [main |-> place, loader |-> "none"]

-----------------------------------------------------------------------------
(* The session between statements.                                         *)

\* open: the autoloaded extensions are loaded by LOAD statements.
Open ==
  /\ pc.main = "closed"
  /\ Goto("autoload") /\ back' = "autoload"
  /\ todo' = Autoload
  /\ UNCHANGED <<stmt, user, asked, holder, manager, database>>

\* Hands s to the core, which is locked until s ends.
Run(s) ==
  /\ holder.core = None
  /\ holder' = [holder EXCEPT !.core = "main"]
  /\ stmt' = s
  /\ Goto("enter")

\* The next LOAD of the autoload list, or of the replays of ducklink_load.
LoadNext ==
  /\ pc.main \in {"autoload", "flush"} /\ todo # <<>>
  /\ Run([path |-> "execute", op |-> "load", ext |-> Head(todo)])
  /\ todo' = Tail(todo) /\ back' = pc.main
  /\ UNCHANGED <<user, asked, manager, database>>

AutoloadDone ==
  /\ pc.main = "autoload" /\ todo = <<>>
  /\ Goto("ready")
  /\ UNCHANGED <<back, stmt, user, todo, asked, holder, manager, database>>

\* A function can be called once the core has it.
Known(s) ==
  CASE s.op = "load" -> TRUE
    [] s.op = "call" -> s.ext \in catalog
    [] OTHER -> Builtin \in catalog

\* execute: the replays are taken and run first.
Execute(s) ==
  /\ pc.main = "ready" /\ s.path = "execute" /\ Known(s)
  /\ Goto("flush")
  /\ user' = s
  /\ todo' = replays /\ replays' = <<>>
  /\ UNCHANGED <<back, stmt, asked, holder, loaded, recorded, pending, deferred, declared,
                 injected, database>>

\* Creates the aliases for what the catalog holds; without a schema, none.
\* Faulty variant: a prefix that has aliases gets no more.
PrefixOnce ==
  /\ macros' = IF declared /\ macros = {} THEN catalog ELSE macros
  /\ UNCHANGED promised

ApplyPrefix ==
  \/ /\ macros' = IF declared THEN macros \cup catalog ELSE macros
     /\ UNCHANGED promised
  \/ /\ declared /\ SchemaFails
     /\ promised' = {} /\ UNCHANGED macros

\* After the replays, the prefixes, and then the user's statement.
RunUser ==
  /\ pc.main = "flush" /\ todo = <<>>
  /\ ApplyPrefix /\ declared' = FALSE
  /\ Run(user) /\ back' = "ready" /\ user' = None
  /\ UNCHANGED <<todo, asked, loaded, recorded, pending, deferred, replays, injected,
                 batch, catalog, rejected, archive, slot>>

\* open-stream goes to the core at once.
OpenStream(s) ==
  /\ pc.main = "ready" /\ s.path = "stream" /\ Known(s)
  /\ Run(s) /\ back' = "ready"
  /\ UNCHANGED <<user, todo, asked, manager, database>>

\* The CLI's request-load does not go through the core.
RequestLoad(s) ==
  /\ pc.main = "ready" /\ s.path = "cli"
  /\ Goto("enter") /\ stmt' = s /\ back' = "ready"
  /\ UNCHANGED <<user, todo, asked, holder, manager, database>>

\* The statement ends, and with it every lock taken for it.
End ==
  /\ Goto(back) /\ stmt' = None
  /\ holder' = [core |-> None, manager |-> None]
  /\ UNCHANGED <<back, user, todo, asked>>

-----------------------------------------------------------------------------
(* The extension manager, locked by request-load and by every dispatch of  *)
(* a function.                                                             *)

EnterManager ==
  /\ pc.main = "enter" /\ holder.manager = None
  /\ IF stmt.op = "prefix"
     THEN /\ declared' = TRUE
          /\ promised' = promised \cup catalog \cup deferred
          /\ End
     ELSE /\ holder' = [holder EXCEPT !.manager = "main"]
          /\ Goto(IF stmt.op = "call" THEN "body" ELSE "ensure")
          /\ UNCHANGED <<back, stmt, user, todo, asked, declared, promised>>
  /\ UNCHANGED <<loaded, recorded, pending, deferred, replays, injected,
                 batch, catalog, rejected, archive, slot, macros>>

\* ducklink_load: what its LOAD will be replayed for.
\* Faulty variant: only for an extension that it loaded itself.
QueuedIfFresh(e) ==
  IF e \in loaded \/ Contains(replays, e) THEN replays ELSE Append(replays, e)

Queued(e) == IF Contains(replays, e) THEN replays ELSE Append(replays, e)

\* What ducklink_load takes from the instance waits in the manager.
\* Faulty variant: it is only counted.
StashedNot(fresh) == deferred

Stashed(fresh) == deferred \cup ((pending \cup fresh) \cap {stmt.ext})

\* ensure_extension_loaded returns true, with the instance it just loaded.
EnsureOk(fresh) ==
  /\ loaded' = loaded \cup fresh
  /\ IF stmt.op = "ducklink_load"
     THEN /\ deferred' = Stashed(fresh)
          /\ pending' = (pending \cup fresh) \ {stmt.ext}
          /\ replays' = Queued(stmt.ext)
          /\ End
     ELSE /\ pending' = pending \cup fresh
          /\ UNCHANGED <<deferred, replays>>
          /\ IF stmt.path = "cli"
             THEN End
             ELSE /\ holder' = [holder EXCEPT !.manager = None]
                  /\ Goto("hooks")
                  /\ UNCHANGED <<back, stmt, user, todo, asked>>
  /\ UNCHANGED <<declared, injected, database>>

AlreadyLoaded ==
  /\ pc.main = "ensure" /\ stmt.ext \in loaded
  /\ EnsureOk({})
  /\ UNCHANGED recorded

\* No admissible provider, or no artifact.
NotFound ==
  /\ pc.main = "ensure" /\ stmt.ext \in Absent \ loaded
  /\ End
  /\ UNCHANGED <<manager, database>>

Spawn ==
  /\ pc.main = "ensure" /\ stmt.ext \notin loaded
  /\ pc' = [main |-> "join", loader |-> "body"]
  /\ UNCHANGED <<back, stmt, user, todo, asked, holder, manager, database>>

-----------------------------------------------------------------------------
(* Extension code.  load() runs on the loader thread, a function on the    *)
(* session's; each may call host imports, one at a time.                   *)

Runner == IF pc.main = "join" THEN "loader" ELSE "main"

\* PRIMARY_STORE_REENTRY is set: a function that execute's statement calls.
Reenters == Runner = "main" /\ stmt.path = "execute"

\* nested-exec builds the sibling core at its first use, and replays the
\* archive there by LOAD of the first extension loaded.
Builds == FileBacked /\ ~Reenters /\ slot = None

\* The locks that a host import blocks on.  query gives up on a busy core.
\* Faulty variant: query waits for the core.
NeedsBlocking(call) ==
  CASE call \in {"log", "query"} -> {"core"}
    [] call = "nest" -> IF Builds /\ recorded # <<>> THEN {"manager"} ELSE {}

Needs(call) ==
  CASE call = "log" -> {"core"}
    [] call = "query" -> {}
    [] call = "nest" -> IF Builds /\ recorded # <<>> THEN {"manager"} ELSE {}

Calls == IF Runner = "loader" THEN LoadCalls[stmt.ext] ELSE FunctionCalls[stmt.ext]

Ask(call) ==
  /\ "body" \in {pc.main, pc.loader} /\ call \in Calls
  /\ pc' = [pc EXCEPT ![Runner] = "asking"] /\ asked' = call
  /\ UNCHANGED <<back, stmt, user, todo, holder, manager, database>>

Answer ==
  /\ "asking" \in {pc.main, pc.loader}
  /\ \A l \in Needs(asked) : holder[l] = None
  /\ pc' = [pc EXCEPT ![Runner] = "body"] /\ asked' = None
  /\ slot' = IF asked = "nest" /\ Builds
             THEN IF recorded = <<>> THEN {} ELSE archive
             ELSE slot
  /\ UNCHANGED <<back, stmt, user, todo, holder, manager,
                 batch, catalog, rejected, archive, macros, promised>>

\* load() returns, or traps.
LoadReturns ==
  /\ pc.loader = "body"
  /\ \/ pc' = [pc EXCEPT !.loader = "ok"]
     \/ stmt.ext \in Failing /\ pc' = [pc EXCEPT !.loader = "error"]
  /\ UNCHANGED <<back, stmt, user, todo, asked, holder, manager, database>>

JoinOk ==
  /\ pc.loader = "ok"
  /\ recorded' = Append(recorded, stmt.ext)
  /\ EnsureOk({stmt.ext})

JoinError ==
  /\ pc.loader = "error"
  /\ End
  /\ UNCHANGED <<manager, database>>

FunctionReturns ==
  /\ pc.main = "body"
  /\ End
  /\ UNCHANGED <<manager, database>>

-----------------------------------------------------------------------------
(* The core after a request-load that returned true.                       *)

\* ducklink_load and ducklink_prefix, which the host answers itself, are
\* added to the first batch that is handed out and to no other.
Synthetic == IF injected THEN {} ELSE {Builtin}

\* get-pending-registrations takes everything, and the built-ins once.
Hooks ==
  /\ pc.main = "hooks" /\ holder.manager = None
  /\ batch' = deferred \cup pending \cup Synthetic
  /\ archive' = archive \cup batch'
  /\ deferred' = {} /\ pending' = {} /\ injected' = TRUE
  /\ Goto("register")
  /\ UNCHANGED <<back, stmt, user, todo, asked, holder, loaded, recorded, replays, declared,
                 catalog, rejected, slot, macros, promised>>

Register ==
  /\ pc.main = "register"
  /\ \E refused \in SUBSET batch :
       /\ refused # {} => stmt.ext \in Rejecting
       /\ catalog' = catalog \cup (batch \ refused)
       /\ rejected' = rejected \cup refused
  /\ batch' = {}
  /\ End
  /\ UNCHANGED <<manager, archive, slot, macros, promised>>

Next ==
  \/ Open \/ LoadNext \/ AutoloadDone \/ RunUser
  \/ \E s \in Statements : Execute(s) \/ OpenStream(s) \/ RequestLoad(s)
  \/ EnterManager \/ AlreadyLoaded \/ NotFound \/ Spawn
  \/ \E call \in Imports : Ask(call)
  \/ Answer \/ LoadReturns \/ JoinOk \/ JoinError \/ FunctionReturns
  \/ Hooks \/ Register

Spec == Init /\ [][Next]_vars

-----------------------------------------------------------------------------
(* Properties.                                                             *)

\* What the session's thread and the loader's wait for.
Wants ==
  IF "asking" \in {pc.main, pc.loader} THEN Needs(asked)
  ELSE IF pc.main \in {"enter", "hooks"} THEN {"manager"} ELSE {}

\* No thread waits for a lock that is held further up its own chain of calls
\* and joins: every lock is the session's, which waits for what it called.
\* The locks of with_core, request-load and the dispatch of functions are
\* plain mutexes (lib.rs 484, 1138, 10049).
NoLockCycle == \A l \in Wants : holder[l] = None

\* The registrations of a loaded extension are in one place at any time: no
\* drain loses any, none are given to the core twice (lib.rs 5631, 6387).
AccountedFor ==
  /\ loaded \subseteq pending \cup deferred \cup batch \cup catalog \cup rejected
  /\ pending \cap deferred = {}
  /\ (pending \cup deferred) \cap batch = {}
  /\ (pending \cup deferred \cup batch) \cap (catalog \cup rejected) = {}
  /\ catalog \cap rejected = {}

\* When the user's statement runs, what an earlier ducklink_load put aside has
\* been given to the core (lib.rs 9575).
ReplayedBefore ==
  back = "ready" /\ stmt # None /\ stmt.path = "execute" => deferred = {}

\* When the user's statement runs, a prefix declared before it covers every
\* function that existed or was being loaded when it was declared (lib.rs 9585).
PrefixCovers ==
  back = "ready" /\ stmt # None /\ stmt.path = "execute" => promised \subseteq macros \cup rejected

=============================================================================
