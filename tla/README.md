# A verification project for ducklink

TLA+ modules, TLC runs and TLAPS proofs about the host side of ducklink: the
Rust process that runs DuckDB's core as a wasm component, loads extensions as
further components, routes storage attaches to them, replicates the database,
serves it over HTTP and schedules jobs over it. `PROJECT.json`, beside this
file, lists every component, run, mutated definition, mapped source line,
finding, hazard and theorem.

Paths are relative to the repository root; `host/` stands for
`crates/ducklink-host/src/`, `runtime/` for `crates/ducklink-runtime/src/`; a
bare `lib.rs` is `host/lib.rs`.

## 1. Inventory

| component | source | state it keeps | modules |
|---|---|---|---|
| Cron scheduler | `host/cron_cli.rs` | tables `__cron_jobs`, `__cron_leases`, `__cron_runs`; per driver its current catalog, due list and `now` | CronScheduler, JobLease, CronProofs, MCCron |
| Attached storage (AT5) | `lib.rs` 7421-9340, `host/at5_intercept.rs` | attached aliases, scan handles, images in components | AttachedStorage, CarefulStorage, SqlText, WriteRoutes, MCStorage, MCRoutes, MCStatements |
| Extension loading, nested execution | `lib.rs` 3035-3345, 4225-6590, 10555-11205 | loaded extensions, deferred registrations, pending prefixes, sibling core | ExtensionLoading, ExtensionProofs, MCExtensions |
| Callback registry | `runtime/lib.rs`, `runtime/extension.rs`, `runtime/extension_wasmos.rs` | callback handles, captured registrations, file locks | Callbacks, CallbackProofs, MCCallbacks |
| Callback value marshalling | `lib.rs` 1115-14176, `runtime/export_marshal.rs` | none between two calls | ColumnBridge, BoundaryProofs, MCBoundary |
| Host resources | `lib.rs` 6752-13024 | connections, streams, prepared statements, appenders, pending drops | HostHandles, LookupProofs, MCBoundary |
| Dot commands | `host/dotcmd_wasmos.rs`, `lib.rs` | the registry of commands | DotCommands, LookupProofs, MCBoundary |
| TVM slots | `lib.rs` 2369-2834 | per region and offset a generation and a block | TvmSlots, BoundaryProofs, MCBoundary |
| Replication | `host/replicate.rs` | generation counter, remote objects | Replication, SnapshotRegister, ReplicationProofs, MCReplication |
| HTTP, UI and quack servers | `host/httpd.rs`, `host/handler.rs`, `host/ui_server.rs`, `host/quack_server.rs` | one core per server, the routes table | HttpRoutes, Servers, ServersProofs, MCServers |
| Sub-extensions | `host/sub_ext.rs` | composed providers, materialisation cache | SubExtensions, Provisioning, LookupProofs, MCProvisioning |
| Resolver; publishing and the extension CLI | `host/resolver.rs`, `host/publish.rs`, `host/extcli.rs` | catalogs, bucket, extension directory | Distribution, Provisioning, LookupProofs, MCProvisioning |
| Delta rewrite | `host/delta_rewrite.rs` | none of its own: the logs of tables | DeltaScan, MCStatements, LookupProofs |
| Drivers, request signing | `host/driver_exec.rs`, `host/sigv4.rs` | none | not modelled: process launch, cryptography |
| Python SDK, tooling, web, wasmos, native extension | `python-sdk/`, `tooling/`, `web/`, `wasmos/`, `native-extension/` | outside the host process | not modelled: build and test support |

The components interact as follows. The `ducklink` CLI links the host library
and owns one `HostState`: a core (DuckDB as a wasm component behind a mutex),
an `ExtensionManager` (behind another mutex) and the tables of AT5. The core
calls the host while it runs a statement (`request-load`,
`get-pending-registrations`, `callback-dispatch`, storage); extensions call it
while their `load()` or one of their functions runs (`log`, `config`, `query`,
`nested-exec`, registration, file locks). What LOAD instantiates was put into
the extension directory by `ext install`, or composed from other components
when the extension is a sub-extension. A `cron run` driver, a server and a
backup are host processes of their own; drivers and the operator's commands
share nothing but the tables of one database. Replication copies the database
file to an object store and knows nothing of the rest.

### What is hard, and what makes each part correct

**Cron scheduler.** Several processes, no transaction around a tick: the due
rows are read, then advanced, then leased one by one, executed, recorded and
released, each by a statement of its own that can fail and between any two of
which the driver can die, the clock can pass a mark, the lease can run out or
the operator can change the row. It is correct if an unexpired lease belongs to
the driver that took it, is released only by its holder and is backed by a
running job; no driver executes a window twice; a gap is caught up at most
once; bookkeeping is written to the scheduler's own catalog; and a due window
is always taken up.

**Attached storage.** A foreign database exists in up to four forms: the file,
the image in the memory of a component, the view that SELECT goes through, and
a native connection. Each statement touches several, and any call may fail half
way. It is correct if what was acknowledged is in the file and stays there, a
row only reaches the database its statement names, and SELECT and the write
path see one catalog. Before that, the host recognizes writes by their text:
correct if every statement of a batch is executed, and what is acknowledged is
what was written.

**Extension loading.** A load runs on a thread that the session joins while it
holds the core (or not) and the manager; the extension calls back into the host
from there. Registrations are handed over in up to three steps, at different
times depending on how the load was asked for; `ducklink_load` and
`ducklink_prefix` put work aside for the next statement. Correct if no thread
waits for a lock held above it, no registration is lost or delivered twice, and
what was put aside is done before the user's next statement.

**Callback registry and marshalling.** One handle space for all instances;
guests drop capabilities and callbacks, fail half way through `load()`, trap,
and are loaded again. Correct if a handle that the core can call reaches the
instance that registered it, an accepted registration arrives once, a lock that
a guest believes it holds is held, one that nobody holds is free, and a value arrives as it was sent in every
one of the representations it passes through.

**Host resources, dot commands, TVM slots.** Handles that outlive what they
stand for: a close while a drop is pending, a drain that stops at its first
error, a generation that wraps at 2^16. Correct if no handle dangles, a
resource is released once, a reported drain is complete, and a handle reaches
no block but its own.

**Replication.** A snapshot, its pointer and its state are separate uploads with
crashes, lost answers and repeating timestamps between them. Correct if a
restore never returns less than what was published when it began, and a
reported backup covers what its core saw.

**Servers.** One loop, requests in pieces that may stop anywhere, one core that
a trap ends for good. Correct if nobody is forgotten, a cut body is not
executed, a handler gets its own request's fields, and an answer tells what was
done.

**Provisioning.** Publishers, installers and sessions in processes of their own,
each killed at any point. Correct if a published catalog names only what can be
fetched, a session runs no component but one that a catalog vouched for or that
was installed without a digest, and a bridge finds the provider it resolves.

**Delta rewrite.** A log that is listed and read while others commit, by a file
system that may fail. Correct if a scan never reads a part of a log, and reads
what was active while it was read: one version of its table, where one commit at
most came in between.

## 2. Plan

Done, in this order: `CronScheduler` with `JobLease`; `AttachedStorage`;
`ExtensionLoading`; `HostHandles` and `TvmSlots`; `Replication` with
`SnapshotRegister`; `Callbacks`; `ColumnBridge`; `SqlText` and `WriteRoutes`;
`SubExtensions`, `Distribution` and their composition `Provisioning`;
`HttpRoutes` and `Servers`; `DeltaScan`; `DotCommands` over `HostHandles`. Then
the proofs of section 6.

Still worth proving: the readers of SQL text one by one, each against what it may
assume of the others.

## 3. Modules and code

`PROJECT.json` maps each definition to its lines. In outline:

**CronScheduler** (`host/cron_cli.rs`). `jobs`, `leases` and `runs` are the
three tables (an absent lease row is one that expired at time 0, which no
statement can tell apart). `pc[d]` is the statement that driver d issues next,
`now`, `due`, `cur`, `orig` and `fired` are the locals of `tick` and
`tick_body`, `catalog` and `poisoned` the state of d's connection. `Start` is
`cmd_run` up to its loop; `BeginTick`, `ReadDue`, `PreAdvance`, `ReadCatalog`,
`AcquireLease` / `Contend`, `UseCatalog` / `SkipJob`, `FinishSql`,
`RestoreCatalog`, `RecordRun`, `ReleaseLease`, `EndTick` and `TrimRuns` are the
statements of a tick in their order; `TickError` is every `?`, and the failing
branch of a statement whose error is only logged is a disjunct of its action.
`Schedule` ... `ForceAll` are the operator's commands, `upSince` and `fires`
history variables; `Crash` may come anywhere. The schedule functions
`cron_next` and `cron_advance` belong to an extension outside the repository
and are modelled as "the next multiple of a period".

**JobLease** is what leases promise without tables or ticks: grants are taken
when nobody holds an unexpired one, and given up by their owner. CronScheduler
implements it under `grants <- Grants`, the leases the drivers believe they
hold.

**AttachedStorage** (`lib.rs`). `backends` is `storage_backends`, `catalogs[e]`
the catalogs component e has opened (a handle is an index), `stores` the foreign
databases, `attached` is `attached_aliases`, `core`, `scans` and `views` are
what the host grafts into the core, `log` the row writes asked for. One action
per statement; `AttachFails` stops at each early return of `intercept_attach`
and keeps what was already done. A write goes through the component (begin, the
call for all its rows, commit or rollback, then the write-back of the image) or
row by row through the native connection; `Attempt` and `InTransaction` give the
images each may leave, acknowledged or not: a failing call may have changed part
of the rows, a commit may fail either way, a rollback may fail. A row is a token
that is written once; INSERT and DELETE take several rows, UPDATE replaces one
row's token. **CarefulStorage** is AttachedStorage in the deployments for which
the host keeps its promises: `CarefulSpec` (section 4).

**SqlText, WriteRoutes** (`host/at5_intercept.rs`). A text is a sequence of
atoms; `Walk` is the scanner that tells code from literals, quoted names and
comments, and the operators over it carry the code's names
(`split_statements`, `balanced_close`, `take_dotted_ident`, ...). WriteRoutes
takes a batch whose author's meaning is known (`script`), writes it down
(`Written`), and has the session read the text: ATTACH, the four writes, refusal
of what is not supported, and everything else passed to the core.

**DeltaScan** (`host/delta_rewrite.rs`). `logs` are the commits of each table;
`Resolve` finds the mount of the next call's directory and lists the log,
`Commit` may come any number of times between the listing and `Read`, which
computes `active_files`. `Faults` says what may fail: opening the directory or
reading a commit, which leaves the call as it is (`.ok()?`, line 275), and an
entry of the directory, which is passed over (line 80). `Executed` is the rewritten statement on its way to the core.

**ExtensionLoading** (`lib.rs`). `pc.main` and `pc.loader` are the two threads,
`holder` the two mutexes, `stmt` the statement in the core, `user` the one that
waits while `flush_deferred_ducklink_loads` replays. `loaded`, `deferred`,
`replays` and `declared` are the manager's fields, `pending` the registrations
still in their instance, `batch`, `catalog` and `rejected` what the core was
given and did with it, `archive` and `slot` the `replay_archive` and the sibling
core. `EnterManager` is the lock of request-load and of every dispatch; `Spawn`,
`LoadReturns`, `JoinOk` and `JoinError` are `ensure_extension_loaded`; `Ask` and
`Answer` are the host imports an extension calls, which wait for the locks of
`Needs`; `Hooks` is `get-pending-registrations`; `Register` is the core.

**Callbacks** (`runtime/`). `entries` is the registry all instances share,
`caps`, `open`, `owned`, `captured` the state of each instance, `deferred`,
`mapped` and `delivered` the three places the manager moves a registration to,
`flock`, `locks` and `guestLocks` the three views of a file lock. While a guest
runs, the manager's mutex is held: its imports (`GetCapability`, `NewCallback`,
`Register...`, `Acquire...`, the drops) are actions of the running guest;
`StartLoad`, `LoadReturns`, `LoadFails`, `Stash`, `Deliver`, `Call`,
`CallReturns` and `CallTraps` are the manager's. Kinds stand for the paths a
registration can take: "scalar" and "table" are buffered by registry, "direct"
ones (casts, macros) are pushed at once, "scan" is the scan function of a table
function, "host" those that the manager takes itself right after `load()`.

**ColumnBridge** (`lib.rs`, `runtime/export_marshal.rs`). One call at a time:
the core's values or columns with their bitmaps (`call`), what the extension is
called with (`given`), its answers, and the `reply`. The conversions carry the
code's names and keep its tables of arms.

**HostHandles, DotCommands** (`lib.rs`, `host/dotcmd_wasmos.rs`). An id stands
for the CLI's handle (`guest`), the host's entry (`entries`, `closed`) and the
core's resource (`core`); `pending` are the four lists of drops, `DrainOne`
works them off in `DrainOrder`, a call may trap. `DotcmdRegistry` folds the folder's
components in the order of their file names; `invoke`, `query`, `spi_edit` and
`unpack_invoke_result` are one command from its name to its answer.

**TvmSlots** (`lib.rs`). `gen` and `block` are `tvm_slots`, `up`,
`incarnation` and `used` the library `tvm_core`; `handles` is every handle the
core was ever given. `Width` stands for 2^16.

**Replication, SnapshotRegister** (`host/replicate.rs`). `CheckpointDb`,
`ReadDb`, `PutSnapshot`, `PutLatest`, `PutState` and `Wake` are `snapshot_once`
and the loop around it, `BeginRestore` ... `WriteDest` are `run_restore`. The
object store is external: an upload takes effect or not, whatever it answers.
An image is the number of the last commit in it; the object's length prefix is
32 bits wide (`Width`). SnapshotRegister is the promise: a register that only
moves to newer images, and a restore that returns one at least as new as the
register was when it began.

**HttpRoutes, Servers** (`host/httpd.rs`, `host/handler.rs`,
`host/ui_server.rs`, `host/quack_server.rs`). HttpRoutes is the routes table:
`lookup` with its precedence, the parameters of a handler
(`ordered_handler_params`) beside what DuckDB binds them to (`BoundTo`), the
responses. Servers is the loop of each server: `Connect`, `Send`, `CloseSide`
are clients, `Accept`, `Drop`, `Begin`, `Serve` and `Write` the loop, `Serve`
being the whole handler with every statement it runs, `stage` where the loop is
with a connection; `CreateTable`, `SeedTable` and `Listen`
are its start, `Stop` ends it.

**SubExtensions, Distribution, Provisioning** (`host/sub_ext.rs`,
`host/resolver.rs`, `host/publish.rs`, `host/extcli.rs`). `stack` is the
recursion of `materialize_sub_ext_provider`. Bytes are versions and a digest is
the version it was taken of; `PlanPublish`, `PutArtifact` and `PutCatalog` are
`publish`, `BeginInstall`, `FetchArtifact`, `Truncate` and `WriteFile` are
`ext install`, `Resolved` the resolver that both the CLI and a session use.
Provisioning adds the session's LOAD.

Each module holds, next to some definitions, faulty variants of them ("Faulty
variant: ..."): `PROJECT.json` names, for every property of every passing run,
the variant that the property catches.

## 4. Runs and bounds

| run | what it asks | instance | distinct states |
|---|---|---|---|
| cron_drivers | `LeaseHeld`, `NoRefire`, `OneCatchUpPerGap`, refinement of `JobLease` | 2 drivers, 1 job plain or cross-catalog, every fault, 1 crash, 1 command (schedule, deactivate), time 0..2, TTL 1 | 3,178,235 |
| cron_commands | `LeaseBacked`, `BookkeepingAtHome` | 2 drivers, 2 jobs plain or cross-catalog, 1 command of any kind, history limit 1, time 0..1 | 5,270,911 |
| cron_live | `DueIsTaken` | 2 drivers, 1 job shared or of one node, 1 crash, time 0..2 | 66,871 |
| cron_once | finding: a shared window fires twice | 2 drivers, 1 job | - |
| storage | `Durable`, `WritesStayHome`, `ReadsBack` | a write-back or a self-persisting component, 2 aliases, 2 files, 2 tables, 2 rows, any call may fail | 2.2 million |
| statements | `NoLockCycle`, `AccountedFor`, `ReplayedBefore`, `PrefixCovers`; `Faithful`, `Complete`; `OneVersion` | 3 extensions with every way to load and to fail; batches of 1 or 2 statements; 2 Delta tables of 2 files, any listing or read may fail | 781,589 |
| ext_nested | finding: a load() that runs SQL hangs | 2 extensions | - |
| replication | `Restores`, `BackupCovers`, refinement of `SnapshotRegister`, `Shipped` | 2 commits, 2 timestamps, 1 crash, 1 failing call | 1,098,764 |
| boundary | `NoDangling`, `ReleasedOnce`, `DrainComplete`, `Dispatched`; `OwnBlock`; `Conveyed`, `Delivered` | 4 handles, 1 trap, 4 dot command files; 2 regions, width 3, 5 allocations; columns of 0, 1, 8 and 9 rows of five types | 2,209,690 |
| callbacks | `Routed`, `Kept`, `LockKept`, `WaitsForHolder` | 2 extensions, 2 loads of each, 5 imports, 1 call, 1 lock file | 4,750,501 |
| provisioning | `Fetchable`, `Vouched`; `Wired` | 2 publishers, 2 installers, 3 providers, 1 rebuild, entries with and without a digest; 3 sub-extensions | 1,453,404 |
| servers | `WholeBody`, `Bound`, `SeededOnce`, `Told`, `Served` | each server, 2 clients, 2 starts | 397,719 |

Four runs check modules side by side that share no state (`statements`:
ExtensionLoading, WriteRoutes, DeltaScan; `boundary`: HostHandles with
DotCommands, TvmSlots, ColumnBridge; `provisioning`: SubExtensions beside
Distribution). A behaviour of such a run has the steps of one of them: since no
action reads or writes another's variables, every state that one of them can
reach is reached, and a property of one needs no interleaving with the others.

Why these bounds are enough, and what they leave out.

*Cron.* Every interaction is between two drivers over one lease row, so two
drivers are the interesting number; the theorems of section 6 do not depend on
it. Time 0..2 with TTL 1 lets a lease be taken, run out and be taken over while
its first holder is still busy, and leaves two windows of a gap behind a crash.
One crash and one command suffice to put one between any two statements. Two
jobs matter only within a tick (catalog switch, the history of one job beside
that of another). `force` re-arms windows by definition and is left out of
`cron_drivers`; "crash", "trap", "wander", "use", "restore" and "release" are
left out of `cron_commands`, because with them a lease does outlive its job
(section 8) or bookkeeping does leave its catalog, which the code only logs.

*Storage.* Two aliases and two files, so that a write can go to the wrong one;
two rows, so that a multi-row statement can fail half way and one row be
acknowledged before the other is lost; `MaxCatalogs = 2`, one per alias or a
failed ATTACH followed by another. Sessions are unbounded. `CarefulSpec` states
the deployments for which the code keeps its promise: one storage extension per
deployment (`installed`; with two, TYPE is ignored), and no two aliases with an
in-memory catalog on one database (they overwrite each other). "diskfull" is
left out (`std::fs::write` truncates first). Both are described in section 8.

*Statements.* One extension that is there before the user's first statement,
one that is loaded in every way, and one that calls the core while it loads;
`Statements` is a set and sessions are unbounded; LOAD of an extension whose
load() logs is left out (it hangs). Batches of one or two statements: what one
leaves (an alias) is all the next can see. They keep to the text the code is
written for: comments only in front of a statement and not before CREATE TABLE,
at most one escaped quote per statement, unquoted two-part targets and unquoted
column names in UPDATE, no DETACH; section 8 says what becomes of the others.
DeltaScan: a first commit and three more to one table, two to the other, any of
them while a log is listed: a listing may then have the last and not the one
before. Opening and reading may fail; the entry that is passed over may not
(section 8). Writers never add a path again, and publish a commit whole;
checkpoints and the removal of old commits are left out.

*Boundary.* Four handles let a connection have a child of each of two kinds and
be listed twice; a trap may come in any call. A generation of width 3 turns over
within five allocations, and the core reads with any handle it ever had but
frees with none older than a turn. Columns of 8 and 9 rows are on either side of
a byte of the bitmap; NULL in the first row, in the second and ninth, or in
all; bitmaps may be left out, cut short or whole. A column's data is taken to be
as long as its number of rows.

*Callbacks.* Two extensions, so that one can reach the other's handles; two
loads, so that the second can reach the first's leftovers; five imports let a
guest get a capability, make a callback, register it, drop it and lock a file.
It may return, trap or lock again with the lock in its hands, and so wait for
ever on its own process: deadlock is not checked, and `WaitsForHolder` asks only
that who is waited for has the lock.

*Replication.* Two timestamps repeat or go back; two commits tell old from new;
one crash and one failing call reach any point of either process.

*Provisioning.* One extension with three providers (wasm, browser, native), two
versions of its bytes, a rebuild between any two steps, one suite; native and
remote providers are never admitted. A catalog without digests is one of a
checkout where nothing was certified either, and after an install from it
nothing is published. The bytes that wasmtime instantiates (`Components`) are
the two versions, so that a file an install left empty or torn is refused. Aliases and derivations are acyclic (a
cycle recurses without bound).

*Servers.* Two clients: one that is read and one that waits, each with a request
of its own; two starts, so that the routes table of the first is found by the
second.

Symmetry: drivers together with their nodes, where no job names a node; jobs of
one schedule; rows and files, which no database holds at the start; extensions,
publishers and installers of the same kind. The runs with a liveness property
(`cron_live`, `replication`, `servers`) use none. Deadlock is checked except in
`boundary`, `callbacks`, `replication` and `servers`: a CLI that has drained its
handles, a guest that waits for its own process's lock, a backup that is not
running and a server that was killed may stop for good.

## 5. Fairness

Safety is checked without any. Three specifications state some.

- `CronScheduler.FairSpec`: weak fairness of each driver's `Tick` and `Start`
  and of time. `cmd_run` is `loop { tick; sleep }` and every statement of a tick
  is a synchronous call that returns, so a driver that is up keeps taking steps;
  docs/cron.md runs drivers under a supervisor that restarts one that died
  (launchd `KeepAlive`, systemd `Restart=always`); `Crash` has no fairness and a
  bound. Weak fairness is enough: nothing another driver does disables the step
  of a driver for good, contention included, since a contended job is passed
  over.
- `Replication.FairSpec`: weak fairness of `Snapshot`, the steps of a backup
  that is running. Nothing makes one start, and `Shipped` promises only what a
  running continuous backup does.
- `Servers.Spec`: weak fairness of `Loop`: accepting, and ending the read of a
  request that is whole or cut. Clients have none, nor has what may take for
  ever: a handler (`Serve`: statements, components, curl) and the writing of an
  answer (`Write`: `write_all` to a client that does not read). The code has no
  timeout for these nor for a read, so that `Served` has a premise: the loop is
  again and again in none of the three (`Stalled`).

## 6. Proofs

All proofs hold for every value of the constants, under the named assumption of
each module: `CronAssumption` (distinct node identities, positive periods),
`StorageAssumption` and `SentinelAssumption`, `LoadingAssumption`,
`ReplicationAssumption`, `TvmAssumption`,
`HandlesAssumption`, `DotAssumption`, `DistAssumption`, `ProvAssumption`, `SubAssumption`,
`BridgeAssumption`, `CallbacksAssumption`, `RoutesAssumption`, `DeltaAssumption`
and `ServersAssumption`; for the rest these say that sentinels lie outside the sets
they are sentinels of, and that configured lists are sequences. TLC evaluates all of them on its instances. A theorem
that needs more says so in its ASSUME, and this section says why.

Every proof has the same shape: an inductive invariant whose conjuncts are
named for what they say, one lemma or step per action, and a last step that
derives the property. TLC checked each invariant on the run's instance before it
was proved.

**`CronProofs`.**
- `Typing`: `TypeOK` is inductive as it stands; its last conjuncts (a busy
  driver has a current job, a driver about to restore knows the catalog) are
  what the types of `runs`, `fires` and `catalog` rest on.
- `LeaseSafety`: `LeaseHeld` is inductive relative to `TypeOK` and `NowPast` (a
  tick's `now` is not in the future). Most steps are `QuietSteps`: they write
  no lease and make nobody busy. The rest are the acquire, which may overwrite
  only an expired row, whose owner's `Expires` is then over too; the release,
  whose holder test protects the other drivers because node identities are
  distinct; and time, which can only end an obligation.
- `LeaseRefinement`: `Spec => JobLease!Spec` under the mapping `Grants`. The
  acquire is `Take`; `LeaseHeld` says that an unexpired grant has its row, so
  that the row's expiry, which the code tests, implies the guard of `Take`.
  Release, skip and crash are `GiveUp`, time is `Elapse`, all else stutters.
- `LeaseExclusion`: two unexpired grants of one job would own one row, hence
  one node, hence be one driver.
- `NeverRefires` and `CatchesUpOnce`, for commands without `force` (which
  re-arms windows by definition), from `WindowInv`. Neither is inductive:
  `NoRefire` speaks of what a driver is about to execute and must know what it
  reads next. `Spent` says that what a driver has executed is closed up to the
  tick that executed it, that is, that `next_run_at` lies after that tick or the
  job cannot run; `Fresh` that a pending window came after every tick that
  executed one of its job; `Reserved` and `Advanced` that it is closed by the
  pre-advance, or will be. `RowsMove` sums up how any statement rewrites a row
  (not at all, it removes, re-arms or pauses it, or it moves the mark on), so
  that a closed window stays closed, another driver's pre-advance included;
  `WindowSteps` sorts all steps by what they are to one driver's windows. From
  `Ordered` (windows and ticks of a job alternate) two windows that both came
  before the start and ran after it would have to be one.
- `StaysHome`, from `CatalogInv`, unless the core traps, the job's SQL changes
  the catalog itself, or the way back fails: those are the failures after which
  the code does leave its catalog. What makes it inductive is that a due
  cross-catalog job is only ever in a tick that has read the way back.
- `LeasesBacked`, without a crash, a trap, a job that changes the catalog, and a
  failing USE or release, and for jobs whose database every driver attached:
  each of these leaks a lease in the code. `BusyStays` says that then only the
  release ends a job; `CatalogInv` makes the release run where the leases are.

**`ExtensionProofs`**, with `IInv` = `TypeOK`, `AccountedFor` and three facts
about control:
- `LoadingTyping` and `NothingLost`. `AccountedFor` is not inductive alone: a
  step could hand over an old registration of an extension that is loaded a
  second time, or drain while a batch is under way. `LoaderShape` (the loader
  exists only while the session joins it, for an extension that is not loaded)
  excludes the one, `BatchShape` (a batch exists only before `Register`, and
  what reached the core belongs to loaded extensions) the other; `StmtShape`
  keeps the statement typed.
- `ReplaysCome` and `PrefixesCover`, from `DInv`. `ReplayShape` says that only
  loaded extensions wait for a replay, so that the replay's LOAD always reaches
  the drain, and that nothing is queued while replays run; `ReplayDue` that
  whatever is deferred has a replay coming; `PromiseShape` that a promised
  function is on its way to the core and has its alias once no declaration
  waits.
- `ThreadsNeverWaitForThemselves`, for deployments that are `Careful`: only what
  the CLI itself loads logs in its load(), no called function logs, none that is
  streamed nests on a file, and only the first autoloaded extension nests in its
  load(). The code sees to none of the four. Each clause is a call of the host
  that takes a lock its own statement holds; `ext_nested` is a deployment that is not careful (section 8), and the
  instance of `statements` satisfies `Careful`. `CInv` says
  who can hold a lock at which point of a statement (`LockShape`), that the host
  issues LOAD only for what autoload and ducklink_load named (`SourceShape`),
  whose code runs (`CodeShape`), and that a load() that nests comes before every
  other (`FirstShape`), so that the sibling it builds has nothing to replay.

**`ReplicationProofs`.** `IInv` = `TypeOK` and: uploads come from one process and each
carries the newest image so far, so no object is newer than the file or than the
bytes being uploaded (`Ordered`); `latest` names an object that exists and decompresses (`Pointed`);
what a backup reported, and what the core opened once a checkpoint is done, is in
the bytes that are read (`Covered`); what a restore has read is no
older than its floor (`Pulled`). `RestoresSafely` and `BackupsCover` are read
off; `RegisterRefinement` maps `PutLatest` to `Publish` (an overwritten snapshot
is a publication too: `PublishedGrows`), the restore's begin and end to `Begin`
and `Return`, the rest to stuttering.

**`BoundaryProofs`**, of what crosses into the core.
- Slots (TvmSlots). `IInv` = `TypeOK`, `Ages` (a handle's generation is its place
  among the allocations of its slot, modulo the width), `OwnedLast` (an owned
  handle is its slot's last), `Accepted` (a block of an incarnation that is
  over is never accepted again, and one that is accepted is in use)
  and `Footprint`. `NoAliasing`: two recent handles with one generation are the
  same allocation. `OwnedReached`, `FootprintTracks`: an owned handle is always
  served, and what `tvm_core` keeps is what handles stand for.
- Callbacks (ColumnBridge). `ArgumentsArrive` and `AnswersArrive` have no bound on
  rows, columns or bitmaps. The bulk is what a column says of its row i:
  whichever bitmap is left out, is short or is the host's own, bit i modulo 8 of
  byte i / 8 is there exactly if the value is not NULL (`Lifted`, `Valid`), so
  that each conversion keeps the value at i, and the rows that are pivoted out of
  columns and back are the same rows. The methods follow case by case, the
  refusals (an arm nobody takes, bytes where a list is expected) included.

**`LookupProofs`**, of who finds what under which name.
- Folds. A fold over a sequence is a recursive function, about which the prover
  takes no induction scheme; `FoldExists` derives what it computes from a least
  counterexample (`Least`) instead. `FlattenSeq` and `Max` are treated alike.
- `CatalogsFetchable`: `DInv` says that what a catalog in the bucket names is
  there (`CatalogServed`), also for an install that has read one
  (`InstallServed`), because a publisher's objects end with the catalog and what
  it puts before is never taken away. `RunsVouched` adds `Ran`: what a
  session has loaded was vouched for, or was fetched by an install that had no
  digest (`unpinned`), of which nothing is claimed. It has two assumptions that
  the code does not see to: `OwnNames`, that no artifact is called like the file
  of another extension, although all installs share one directory and LOAD takes
  the base name of the artifact it chose; and `TornRefused`, that wasmtime
  instantiates neither an empty nor a torn file.
- `BridgesResolve`: `SInv` describes the stack of calls (`Calls`: each caller
  waits for the next component of its plan or for its upstream, and what it has
  gathered so far is what those before registered) and
  what is done (`Settled`: the provider of a sub-extension is registered and
  composed of the providers of its plan), so that a provider stays right while
  others are composed above it. `MissingApart` says that no content is the
  sentinel for none.
- `CommandsFindTheirOwner`: `Dispatched` for any folder. The registry is a fold
  of folds: each component adds its names after those before it
  (a name belongs to the first file that declares it), and the
  invariant ties the running command to that owner, and its SQL to the
  connection that is current.
- Handles (HostHandles). `HandlesInv` = `TypeOK` and seven conjuncts: fresh ids
  are unused (`Fresh`), a list of drops holds ids of its kind, once, that the CLI
  gave up (`Lists`), a closed flag and the core's state agree (`Flags`), what the
  CLI owns is in the host's table and in the core (`Held`), a resource is
  released once (`Spent`), what the CLI gave back is on a list or done with
  (`GivenBack`), and drained lists are empty (`Emptied`). `HandlesStand`,
  `ReleasesOnce` and `DrainsAll` are then cases on where a handle is.

- `CallsReadOneVersion` (DeltaScan), for logs of any length and any number of
  commits during a listing. `DeltaInv` says that
  a log is good (a file comes once and goes after it came, `GoodLog`), that a
  listing began with all commits there were (`CommitsListed`), and what each answer given
  so far stands for (`AnswerIn`), which later commits do not change
  (`ActiveStays`). `ReplayedIs` follows `active_files` line by line: the files
  that came and did not go, in the order they came, each once. A listing has the
  versions up to its beginning and any of the later (`Picked`, `ReadIs`);
  `Between` shows that this is enough for the files that were active throughout,
  and not enough for any that were not active at some time, since no file comes
  back after it went. It assumes that no entry of the directory is passed over
  (section 8); that opening or reading fails is part of it.

**`CallbackProofs`.** `IInv` = `TypeOK`, `RegistryInv` and `LockInv`.
`RegistryInv` follows a registration: the guest that runs is a live one
(`Running`), a callback a guest owns is its own (`HandlesOwned`), the tables it
may scan have a callback that nobody can drop (`TablesNamed`), what was accepted was made by the instance
of its attempt (`AcceptedMade`), the manager takes the host-side ones at once
(`HostSideTaken`), and each accepted registration is somewhere, once, where its
kind belongs (`Placed`, `Once`, `Somewhere`). `LockInv`: instance, guest and
file agree in both directions (`LocksAgree`, `FilesHeld`). `RoutesRight`,
`KeepsOnce`, `KeepsLocks` and `NoLockLeft` follow. That no guest waits for its own
process is not a theorem: the code lets a guest return, trap or lock again with
a lock in its hands.

**`ServersProofs`.** `IInv` = `TypeOK`, `InLine` (a client is at most once in the
queue or being served, and has asked), `Running` (what runs was read to its end)
and the four safety properties. Most of the
proof is about one request: `Sound` outcomes say of a reply what it tells, and
`RouteSound`, `HandlerSound`, `SqlSound`, `BridgedSound` that every branch of
`Dispatch` is sound. `ParamsAreBound` is about the operator that orders a
handler's parameters: the n-th value it passes is the field whose `$name` DuckDB
numbers n, for any list of names with repetitions (`Firsts`, `Rank`,
`NumberIsRank`).

**`StorageProofs`** is about `CarefulSpec`. Every call that writes has an
`Outcome`: no table goes, rows come and go only by the changes, and a call that
succeeds on the rows it was made for has made all of them (`CallOutcomes`, from
`AppliedRows` up through the transaction). `StatementIs` and `StatementEffect`
bring the four statements, native or dispatched, to one form, `Effect`, and
`AttachGrafts` every ATTACH, failing or not, to `Grafts`; the invariants are
proved over these two.
- `TypeCorrect` holds of `Spec`, with any number of extensions.
- `RowsStayHome`: `SoleInv` (one extension serves every type, and the catalog of
  an attached alias is of the alias's database) and `HomeInv`, which extends
  `WritesStayHome` to the images the component holds, since a write-back puts a
  whole image into a file. No fault is left out here.
- `ViewsReadBack`: `SeenInv`, the views of an attached alias scan the catalog its
  writes go to. It rests on `SharedTable`, a table that all databases have, and
  on no write being cut short: a second ATTACH of an attached alias then
  finds the name of a table function taken and stops before it touches a view.
  Without them it replaces the entry and leaves the old views (section 8).
- `WritesAreDurable`: `KeptInv`, what was acknowledged is in the database and in
  the image the next write of a writable alias starts from; an image may
  otherwise be ahead of its file (a write-back failed) or behind the log (the
  call failed half way), and that of a READ_ONLY alias is not constrained. The
  step of a statement needs `SeenInv` (an UPDATE takes out rows that are there),
  `HomeInv` (the new ones were nowhere) and `OwnInv` (no other image of the
  database). It also assumes `WrittenBack`: every database is a local file, or
  the component writes it itself; the host has no other way to save an image.

## 7. Model-checked only, and not modelled

Model-checked only, because the prover cannot:
- liveness: `DueIsTaken`, `Shipped`, `Served`;
- `Faithful` and `Complete`: what the readers of a statement's text, walks over
  it that call one another, compute for a text of any length.

`OncePerWindow` is false (section 8); what holds of it across drivers is
`LeaseExclusion`, and of one driver `NeverRefires`.

Not modelled: the effect of a job's SQL on user tables, clock skew between
hosts, the scheduler inside a wasm core (browser, Worker); values of columns in
attached storage, other processes that write the same file; backends that are
captured by the manager without reaching the catalog, a second connection of one
session, nested SQL that itself calls an extension; guest-facing `config` and
`log` beyond their locks; bytes, TLS, percent-decoding and JSON of the servers,
texts of several statements, transactions that a request leaves open; the rendering of rows by dot
commands; `requires_components` of the resolver; Delta checkpoints and deletion
vectors. Kinds of registrations that never reach the core (pragmas, parsers,
collations, optimizer rules, index types, filterable tables, copy handlers, log
storages, coordinate systems) stop in Callbacks where the code stops. The
components with status `not_modelled` are listed with their reasons in
`PROJECT.json`.

## 8. Where code and documents disagree

With a run (`PROJECT.json`, findings):

- cron_once: `docs/cron.md:224-225` says that shared jobs "fire once total per
  window"; two drivers that both read a window as due both fire it.
- ext_nested: `lib.rs:3064-3069` keeps `replay_archive` apart "so the sibling's
  read path never has to lock the manager"; building the sibling issues LOAD,
  which locks it.

Met while modelling, without a run of their own.

*Cron.*
- A job that is skipped because its USE failed keeps its lease until it expires
  (`cron_cli.rs:1027-1030` continues past the release at 1093, the docs at
  `docs/cron.md:355` call the lease table "one row per due job that's actively
  held by some driver").
- `docs/cron.md:116` and `121` say that a `skip` job whose windows passed while
  no driver ran waits for the next mark. The due query (`cron_cli.rs:965`) does
  not look at `catch_up`: such a job fires at the first tick.

*Attached storage.*
- Once two storage extensions are loaded TYPE no longer chooses between them
  (`lib.rs:4790`, against the doc at 7414).
- Two aliases of one file through a write-back component overwrite each other
  (`lib.rs:8183`, against 8126).
- `lib.rs:4797` looks for a file named by the whole ATTACH string, `file://`
  included, and stages nothing; the write-back strips the scheme. The catalog
  starts empty and the first write replaces the file.
- `lib.rs:7576` says that a second ATTACH of an alias errors on the core; it
  does only when the two databases have a table in common.
- `lib.rs:8001` says that a new table is listed again on the next scan; it has
  no view until the database is attached under another alias.
- `lib.rs:7772-7774` says that a failing native INSERT falls through to the
  component; the `?` at 7775 returns the error.
- `lib.rs:6695` says that writes to a READ_ONLY alias are rejected when they are
  parsed; only the write-back looks at the flag (7708), so a self-persisting
  component does write.
- A failed commit leaves the component's transaction open (`lib.rs:5102-5121`),
  a failing `scan_next` its scan (5000).

*The text of statements* (`host/at5_intercept.rs`).
- A comment between the tuples of an INSERT loses rows (about 1246, against
  66-67, "One row per `VALUES (...)` tuple").
- `''` followed by more text makes `balanced_close` give up, and the statement
  goes to the core; two escaped literals store a wrong value in silence.
- An UPDATE drops an assignment to a quoted column when another one parses.
- `split_statements` keeps pieces that are only a comment (its doc at 192 says
  that they are dropped).
- DETACH leaves `attached_aliases` as it is.
- CREATE TABLE of `"far".t`, of `far.main.t` or after a comment goes to the
  core's in-memory catalog.
- `READ_ONLY false` means read-only; `nan` and `inf` are numbers; RETURNING and
  its like are found inside literals; the second `WriteRoute::CreateTable` arm
  of `intercept_write` (about `lib.rs:8057`) is unreachable.

*Delta.* A path that is added again is listed twice (`active_files` against its
doc); `delta_scan` is rewritten inside literals; a listing that misses a commit
but has the next goes unnoticed (the files are then no version's, within the
bounds of `OneVersion`), and so does an entry of `_delta_log` that cannot be read
(`filter_map(|e| e.ok())`, line 80), which may lose a commit; a log that fails to
open or to be read leaves the call to the core without a word of why; two calls of one statement may read two
versions of their tables.

*Extensions and callbacks.*
- `nested-exec.wit` and `lib.rs:10795` name a nesting ceiling of 4; the guard is
  compiled for tests only (`runtime/extension.rs:502`).
- `nested-exec.wit` says that the sibling sees the same catalog; its core is
  built once (`lib.rs:10967`), and extensions loaded later are not registered.
- `log` and `config` take the core's mutex; called from a load() that a LOAD
  statement started, or from a function, they wait for the statement above them.
- Late host-side registrations and several kinds never reach the core, although
  `runtime/extension.rs:683-700` and `1380-1389` say that they "no longer
  silently vanish".
- A zero-argument columnar call gets no rows (`lib.rs:12203`); arms that differ
  within one result column become NULL in silence; hugeint results come back as
  text (`lib.rs:12078`); a uint8 column or a blob that an adapter lifts as bytes
  is rejected where only lists are expected (`lib.rs:14075` against 1559); a
  column shorter than its rows panics (`lib.rs:12113`).
- `acquire-exclusive` blocks with the manager's mutex held
  (`runtime/extension.rs:2188`): a guest that returned or trapped with a lock, or
  locks its own file again, makes the process wait for itself. Whether a handle
  that is only dropped is released depends on the adapter
  (`extension_wasmos.rs:2420-2435` leaves it open); the model takes it to be.

*Handles, slots, dot commands.*
- `current_connection` survives the close of its connection (`lib.rs:9213`
  against `dotcmd_wasmos.rs:65`).
- A TVM handle that is a full turn old reaches another block (`lib.rs:2374`
  against 429).
- A dropped resource is only listed (`lib.rs:13012`); a drain that fails leaves
  the rest. Only `CliHarness::run` drains (12587-12610): `run_cli_inner`
  (12787-12902), the CLI itself, leaves what was dropped open at the core until
  the process exits, so that `DrainComplete` says nothing of it.
- `spi.query` of a dot command passes by ATTACH and write interception, the
  Delta rewrite and deferred loads (`dotcmd_wasmos.rs:109`); `.help` lists a
  duplicate of which only the first is reachable; `spi_edit` leaves its
  temporary file when it cannot be filled.

*Replication.* The generation restarts with every process (`replicate.rs:393`
against 85); the length prefix is 32 bits (331).

*Sub-extensions and provisioning.*
- A second LOAD of an alias returns `<sub>-composed`, not the upstream's id
  (`sub_ext.rs:340` against 358-359); `has_bridge` and `bridge_path` differ for
  an alias without a bridge (281-282, "remains an invariant", against 297-300);
  a component derived from an alias always fails.
- The CLI's canonical suite (`extcli.rs:1157`, "mirroring the host's
  prepare_extension policy") is not the host's on-disk digest (`lib.rs:4471`), so
  that `ext install` may accept what LOAD refuses. LOAD looks for the base name
  of the chosen provider's artifact, install writes `<name>.wasm`; no digest is
  checked at LOAD; a published catalog keeps paths relative to the publisher.
- An install verifies the bytes it fetched, not the file it leaves: that is
  truncated and written in place (`extcli.rs:1066`), so that a kill or a second
  install leaves an empty or torn file that counts as installed. That it does not
  run is wasmtime's doing. An entry without a digest is installed unverified
  (1036).

*Servers.*
- `httpd.rs:19-24` describes `$1..$5` and a 501 for wasm handlers; the code and
  the docs have `$names` in the order of first appearance, and wired handlers.
- `docs/duckdb-wasm-httpd.md` says that `$body` is NULL if there is none; the
  code binds an empty text. `$unknown` shifts the parameters after it.
- `dv_as_i64` ignores Int32, so that a route's `status` is always taken as 200.
- `--init-routes` fails on an empty table of the older schema.
- A trap after a statement took effect is answered as an error like one before
  (`httpd.rs:829`, 897).
- "Free the prepared-statement resource regardless of outcome" (about
  `httpd.rs:899`) is passed by when the number of parameters differs.
- `/health` says ok with a trapped core; `parse_q` gives up at a `q` without
  `=`; neither reads, handlers nor the writing of an answer have a timeout, so
  that one client can keep all others waiting; a transaction that a request
  leaves open passes to the next client; a request line that is cut is executed
  as it is.
