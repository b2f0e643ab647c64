--------------------------- MODULE CronScheduler ---------------------------
(***************************************************************************)
(* The `ducklink cron` scheduler: any number of driver processes run the   *)
(* native tick loop of cron_cli.rs over the tables __cron_jobs,            *)
(* __cron_leases and __cron_runs of one shared database, while an operator *)
(* runs `cron schedule | unschedule | activate | deactivate | force`.      *)
(*                                                                         *)
(* Every SQL statement the loop issues is one action; the statements of    *)
(* one tick interleave with those of every other driver, with the operator *)
(* and with the passing of time.  A statement fails when the connection    *)
(* cannot run it (a trapped core, or a current catalog without the         *)
(* scheduler's tables) or when its site is a member of Faults.             *)
(*                                                                         *)
(* Abstracted: the job's SQL text and its effect on user tables, the       *)
(* --readonly wrapper, last_status / last_error / ms (they are written     *)
(* with the run row and nothing reads them), and the extension functions   *)
(* cron_next / cron_advance, taken as "the next mark of a periodic         *)
(* schedule strictly after now" as docs/cron.md describes them.            *)
(***************************************************************************)
EXTENDS Naturals, FiniteSets

CONSTANTS
  Drivers,       \* driver processes (`ducklink cron run`)
  Nodes,         \* node identities (--node, $DUCKLINK_CRON_NODE, host-pid)
  NodeOf,        \* the identity each driver runs under
  Jobs,          \* job ids, cron_id(name)
  Period,        \* the period of each job's schedule
  JobSpecs,      \* [node, db, catchUp] the operator may schedule a job with
  Catalogs,      \* catalogs a job may name with --database
  Attached,      \* the catalogs each driver attached at startup (--attach)
  TTL,           \* lease_ttl_ms
  HistoryLimit,  \* --history-limit, 0 = no trim
  Commands,      \* the operator commands in use
  Faults,        \* the sites at which a statement may fail, "trap", "crash"
  MaxTime, MaxOps, MaxCrashes,   \* bounds of the model
  AnyNode, NoNode, NoDb, Home, NoRow, NoEntry    \* sentinels

ASSUME CronAssumption ==
  /\ NodeOf \in [Drivers -> Nodes]
  /\ \A d, e \in Drivers : NodeOf[d] = NodeOf[e] => d = e  \* "a distinct --node NAME"
  /\ Period \in [Jobs -> Nat \ {0}]
  /\ JobSpecs \subseteq [node : Nodes \cup {AnyNode}, db : Catalogs \cup {NoDb},
                         catchUp : {"skip", "run_once"}]
  /\ Attached \in [Drivers -> SUBSET Catalogs]
  /\ TTL \in Nat /\ HistoryLimit \in Nat
  /\ MaxTime \in Nat /\ MaxOps \in Nat /\ MaxCrashes \in Nat
  /\ NoNode \notin Nodes /\ AnyNode \notin Nodes
  /\ NoDb \notin Catalogs \cup {Home} /\ Home \notin Catalogs
  /\ NoRow \notin [active : BOOLEAN, next : Nat, node : Nodes \cup {AnyNode},
                   db : Catalogs \cup {NoDb}, catchUp : {"skip", "run_once"}]
  /\ NoEntry \notin [job : Jobs, mark : Nat, db : Catalogs \cup {NoDb},
                     catchUp : {"skip", "run_once"}]

VARIABLES
  clock,     \* wall-clock time, the same for every driver
  jobs,      \* __cron_jobs: a row, or NoRow
  leases,    \* __cron_leases; an absent row is one that expired at time 0
  runs,      \* __cron_runs, with the driver that appended each row
  pc,        \* the statement each driver issues next
  now,       \* `now`, captured once at the start of a tick
  due,       \* the due rows of this tick that are still to be handled
  cur,       \* the due row being handled
  catalog,   \* current catalog of the driver's connection
  orig,      \* original_catalog, NoDb when None
  poisoned,  \* the driver's core trapped: no statement runs any more
  fired,     \* the tick fired at least one job (TickOutcome.fired > 0)
  upSince,   \* history: when the driver process started
  fires,     \* history: the windows of each job each driver executed
  ops,       \* operator commands so far (bounded by MaxOps)
  crashes    \* driver crashes so far (bounded by MaxCrashes)

tables == <<jobs, leases, runs>>
conn == <<catalog, poisoned>>
tick == <<now, due, cur, orig, fired>>
history == <<upSince, fires>>
bounds == <<ops, crashes>>
vars == <<clock, tables, pc, tick, conn, history, bounds>>

Labels == {"down", "idle", "read", "advance", "catalog", "lease", "use",
           "exec", "restore", "record", "release", "trim"}
Busy == {"use", "exec", "restore", "record", "release"}
Row == [active : BOOLEAN, next : Nat, node : Nodes \cup {AnyNode},
        db : Catalogs \cup {NoDb}, catchUp : {"skip", "run_once"}]
Lease == [holder : Nodes \cup {NoNode}, acquired : Nat, expires : Nat]
Entry == [job : Jobs, mark : Nat, db : Catalogs \cup {NoDb},
          catchUp : {"skip", "run_once"}]
Run == [job : Jobs, at : Nat, by : Drivers]
Fire == [mark : Nat, at : Nat]

TypeOK ==
  /\ clock \in Nat
  /\ jobs \in [Jobs -> Row \cup {NoRow}]
  /\ leases \in [Jobs -> Lease]
  /\ runs \subseteq Run
  /\ pc \in [Drivers -> Labels]
  /\ now \in [Drivers -> Nat]
  /\ due \in [Drivers -> SUBSET Entry]
  /\ cur \in [Drivers -> Entry \cup {NoEntry}]
  /\ \A d \in Drivers : pc[d] \in Busy => cur[d] \in Entry
  /\ catalog \in [Drivers -> Catalogs \cup {Home}]
  /\ orig \in [Drivers -> Catalogs \cup {Home, NoDb}]
  /\ \A d \in Drivers : pc[d] = "restore" => orig[d] # NoDb
  /\ poisoned \in [Drivers -> BOOLEAN]
  /\ fired \in [Drivers -> BOOLEAN]
  /\ upSince \in [Drivers -> Nat]
  /\ fires \in [Drivers -> [Jobs -> SUBSET Fire]]
  /\ ops \in Nat /\ crashes \in Nat

-----------------------------------------------------------------------------
(* The external schedule functions: cron_next is the next mark strictly    *)
(* after t, and cron_advance lands there under either catch-up policy.     *)
CronNext(j, t) == t + Period[j] - (t % Period[j])
CronAdvance(j, t) == CronNext(j, t)

ArmedRow(j, s, t) ==
  [active |-> TRUE, next |-> CronNext(j, t), node |-> s.node, db |-> s.db,
   catchUp |-> s.catchUp]

NoLease == [holder |-> NoNode, acquired |-> 0, expires |-> 0]

Init ==
  /\ clock = 0
  /\ \E choice \in [Jobs -> JobSpecs \cup {NoRow}] :
       jobs = [j \in Jobs |-> IF choice[j] = NoRow THEN NoRow
                              ELSE ArmedRow(j, choice[j], 0)]
  /\ leases = [j \in Jobs |-> NoLease]
  /\ runs = {}
  /\ pc = [d \in Drivers |-> "down"]
  /\ now = [d \in Drivers |-> 0]
  /\ due = [d \in Drivers |-> {}]
  /\ cur = [d \in Drivers |-> NoEntry]
  /\ catalog = [d \in Drivers |-> Home]
  /\ orig = [d \in Drivers |-> NoDb]
  /\ poisoned = [d \in Drivers |-> FALSE]
  /\ fired = [d \in Drivers |-> FALSE]
  /\ upSince = [d \in Drivers |-> 0]
  /\ fires = [d \in Drivers |-> [j \in Jobs |-> {}]]
  /\ ops = 0 /\ crashes = 0

-----------------------------------------------------------------------------
(* Statements.                                                             *)

\* A statement over the scheduler's tables can only run on a live core whose
\* current catalog is the scheduler's own.
Usable(d) == ~poisoned[d] /\ catalog[d] = Home
Succeeds(d) == Usable(d)
Fails(d, site) == site \in Faults \/ ~Usable(d)

Exists(j) == jobs[j] # NoRow
\* Faulty variant: nodename = us, without the IS NULL alternative.
ForNodeOnly(j, d) == jobs[j].node = NodeOf[d]

ForNode(j, d) == jobs[j].node \in {AnyNode, NodeOf[d]}
IsDue(j, d, t) == Exists(j) /\ jobs[j].active /\ jobs[j].next <= t /\ ForNode(j, d)

Goto(d, label) == pc' = [pc EXCEPT ![d] = label]

\* tick_body returned: nothing of the tick survives but the connection.
Leave(d, label) ==
  /\ Goto(d, label)
  /\ due' = [due EXCEPT ![d] = {}]
  /\ cur' = [cur EXCEPT ![d] = NoEntry]
  /\ orig' = [orig EXCEPT ![d] = NoDb]

Abort(d) ==
  /\ Leave(d, "idle")
  /\ fired' = [fired EXCEPT ![d] = FALSE]
  /\ UNCHANGED <<clock, tables, now, conn, history, bounds>>

-----------------------------------------------------------------------------
(* The driver process.                                                     *)

ForcedRows == [j \in Jobs |-> IF Exists(j) /\ jobs[j].active
                              THEN [jobs[j] EXCEPT !.next = 0] ELSE jobs[j]]

\* cmd_run up to the loop: open a fresh core, ATTACH, and with --force zero
\* next_run_at of every active job.
Start(d) ==
  /\ pc[d] = "down"
  /\ Goto(d, "idle")
  /\ catalog' = [catalog EXCEPT ![d] = Home]
  /\ poisoned' = [poisoned EXCEPT ![d] = FALSE]
  /\ upSince' = [upSince EXCEPT ![d] = clock]
  /\ \/ UNCHANGED <<jobs, ops>>
     \/ /\ "force" \in Commands /\ ops < MaxOps
        /\ ops' = ops + 1
        /\ jobs' = ForcedRows
  /\ UNCHANGED <<clock, leases, runs, tick, fires, crashes>>

\* `tick` captures `now` once, for every statement of the tick.
BeginTick(d) ==
  /\ pc[d] = "idle"
  /\ now' = [now EXCEPT ![d] = clock]
  /\ fired' = [fired EXCEPT ![d] = FALSE]
  /\ Goto(d, "read")
  /\ UNCHANGED <<clock, tables, due, cur, orig, conn, history, bounds>>

DueEntries(d) ==
  {[job |-> j, mark |-> jobs[j].next, db |-> jobs[j].db, catchUp |-> jobs[j].catchUp] :
     j \in {k \in Jobs : IsDue(k, d, now[d])}}

\* SELECT ... FROM cron_due_for(now, node); nothing due ends the tick.
ReadDue(d) ==
  /\ pc[d] = "read" /\ Succeeds(d)
  /\ due' = [due EXCEPT ![d] = DueEntries(d)]
  /\ Goto(d, IF DueEntries(d) = {} THEN "idle" ELSE "advance")
  /\ UNCHANGED <<clock, tables, now, cur, orig, fired, conn, history, bounds>>

\* Faulty variants: the shared jobs are left out (no IS NULL alternative);
\* the stored mark moves one period on.
AdvancedOwnRows(d) ==
  [j \in Jobs |-> IF IsDue(j, d, now[d]) /\ jobs[j].node = NodeOf[d]
                  THEN [jobs[j] EXCEPT !.next = CronAdvance(j, now[d])] ELSE jobs[j]]
SteppedRows(d) ==
  [j \in Jobs |-> IF IsDue(j, d, now[d])
                  THEN [jobs[j] EXCEPT !.next = @ + Period[j]] ELSE jobs[j]]

AdvancedRows(d) ==
  [j \in Jobs |-> IF IsDue(j, d, now[d])
                  THEN [jobs[j] EXCEPT !.next = CronAdvance(j, now[d])] ELSE jobs[j]]

\* cron_due_for returns the due rows ordered by next_run_at.
NextDue(d) == {e \in due[d] : \A f \in due[d] : e.mark <= f.mark}

\* Faulty variant: only the first due job is looked at.
FirstNeedsSwitch(d) == \A e \in NextDue(d) : e.db # NoDb

NeedsSwitch(d) == \E e \in due[d] : e.db # NoDb

\* The pre-advance UPDATE re-evaluates which rows are due: it is a statement
\* of its own, after the read and before any lease.
PreAdvance(d) ==
  /\ pc[d] = "advance" /\ Succeeds(d)
  /\ jobs' = AdvancedRows(d)
  /\ Goto(d, IF NeedsSwitch(d) THEN "catalog" ELSE "lease")
  /\ UNCHANGED <<clock, leases, runs, tick, conn, history, bounds>>

\* SELECT current_database(), once per tick and only for cross-catalog jobs.
ReadCatalog(d) ==
  /\ pc[d] = "catalog" /\ Succeeds(d)
  /\ orig' = [orig EXCEPT ![d] = catalog[d]]
  /\ Goto(d, "lease")
  /\ UNCHANGED <<clock, tables, now, due, cur, fired, conn, history, bounds>>

\* The statements whose error is propagated with `?`.
TickError(d) ==
  /\ \/ pc[d] \in {"read", "advance", "catalog"} /\ Fails(d, pc[d])
     \/ pc[d] = "lease" /\ due[d] # {} /\ Fails(d, "lease")
  /\ Abort(d)

Expires(d) == now[d] + TTL

\* Faulty variant: an upsert without the expiry test.
CanSteal(d, j) == TRUE

CanTake(d, j) == leases[j].expires <= now[d]

\* The job's SQL is handed to the core: from here on its window is executed.
Execute(d, e) ==
  fires' = [fires EXCEPT ![d][e.job] = @ \cup {[mark |-> e.mark, at |-> now[d]]}]

\* The lease upsert ... WHERE expires_at <= now RETURNING holder, and we hold it.
AcquireLease(d) ==
  /\ pc[d] = "lease" /\ Succeeds(d)
  /\ \E e \in NextDue(d) :
       /\ CanTake(d, e.job)
       /\ leases' = [leases EXCEPT ![e.job] =
                       [holder |-> NodeOf[d], acquired |-> now[d], expires |-> Expires(d)]]
       /\ due' = [due EXCEPT ![d] = @ \ {e}]
       /\ cur' = [cur EXCEPT ![d] = e]
       /\ IF e.db = NoDb THEN Goto(d, "exec") /\ Execute(d, e)
                         ELSE Goto(d, "use") /\ UNCHANGED fires
  /\ UNCHANGED <<clock, jobs, runs, now, orig, fired, conn, upSince, bounds>>

\* A lease that has not expired is not ours, even when an earlier
\* incarnation of this node took it: the job is counted as contended.
Contend(d) ==
  /\ pc[d] = "lease" /\ Succeeds(d)
  /\ \E e \in NextDue(d) :
       /\ ~CanTake(d, e.job)
       /\ due' = [due EXCEPT ![d] = @ \ {e}]
  /\ UNCHANGED <<clock, tables, pc, now, cur, orig, fired, conn, history, bounds>>

\* USE <database> before a cross-catalog job.
UseCatalog(d) ==
  /\ pc[d] = "use" /\ ~poisoned[d] /\ cur[d].db \in Attached[d]
  /\ catalog' = [catalog EXCEPT ![d] = cur[d].db]
  /\ Execute(d, cur[d])
  /\ Goto(d, "exec")
  /\ UNCHANGED <<clock, tables, tick, poisoned, upSince, bounds>>

\* The skip branch: USE failed, the outcome 'skipped' is recorded (best
\* effort) and `continue` goes to the next due job.
SkipJob(d) ==
  /\ pc[d] = "use"
  /\ poisoned[d] \/ cur[d].db \notin Attached[d] \/ "use" \in Faults
  /\ \/ Succeeds(d) /\ runs' = runs \cup {[job |-> cur[d].job, at |-> now[d], by |-> d]}
     \/ Fails(d, "record") /\ UNCHANGED runs
  /\ cur' = [cur EXCEPT ![d] = NoEntry]
  /\ Goto(d, "lease")
  /\ UNCHANGED <<clock, jobs, leases, now, due, orig, fired, conn, history, bounds>>

\* The job's SQL ends, in success or in failure: either way the loop goes on.
\* It may have changed the current catalog itself, or trapped the core.
FinishSql(d) ==
  /\ pc[d] = "exec"
  /\ \E c \in {catalog[d]} \cup (IF "wander" \in Faults THEN Attached[d] ELSE {}) :
       catalog' = [catalog EXCEPT ![d] = c]
  /\ \E trapped \in (IF "trap" \in Faults THEN BOOLEAN ELSE {FALSE}) :
       poisoned' = [poisoned EXCEPT ![d] = @ \/ trapped]
  /\ Goto(d, IF cur[d].db # NoDb /\ orig[d] # NoDb THEN "restore" ELSE "record")
  /\ UNCHANGED <<clock, tables, tick, history, bounds>>

\* USE <original catalog>; a failure is only logged.
RestoreCatalog(d) ==
  /\ pc[d] = "restore"
  /\ \/ ~poisoned[d] /\ catalog' = [catalog EXCEPT ![d] = orig[d]]
     \/ (poisoned[d] \/ "restore" \in Faults) /\ UNCHANGED catalog
  /\ Goto(d, "record")
  /\ UNCHANGED <<clock, tables, tick, poisoned, history, bounds>>

\* last_status / last_error and the __cron_runs row; a failure is only logged.
RecordRun(d) ==
  /\ pc[d] = "record"
  /\ \/ Succeeds(d) /\ runs' = runs \cup {[job |-> cur[d].job, at |-> now[d], by |-> d]}
     \/ Fails(d, "record") /\ UNCHANGED runs
  /\ Goto(d, "release")
  /\ UNCHANGED <<clock, jobs, leases, tick, conn, history, bounds>>

\* Faulty variants: the release without its holder test, or forgotten.
ReleasedAnyway(d, j) == [leases EXCEPT ![j].expires = 0]
NotReleased(d, j) == leases

Released(d, j) == IF leases[j].holder = NodeOf[d]
                  THEN [leases EXCEPT ![j].expires = 0] ELSE leases

\* UPDATE ... SET expires_at = 0 WHERE key AND holder = us; best effort.
ReleaseLease(d) ==
  /\ pc[d] = "release"
  /\ \/ Succeeds(d) /\ leases' = Released(d, cur[d].job)
     \/ Fails(d, "release") /\ UNCHANGED leases
  /\ cur' = [cur EXCEPT ![d] = NoEntry]
  /\ fired' = [fired EXCEPT ![d] = TRUE]
  /\ Goto(d, "lease")
  /\ UNCHANGED <<clock, jobs, runs, now, due, orig, conn, history, bounds>>

\* The due list is exhausted: trim when asked to and something fired.
EndTick(d) ==
  /\ pc[d] = "lease" /\ due[d] = {}
  /\ Leave(d, IF HistoryLimit > 0 /\ fired[d] THEN "trim" ELSE "idle")
  /\ UNCHANGED <<clock, tables, now, fired, conn, history, bounds>>

RunsOf(j) == {r \in runs : r.job = j}

\* The HistoryLimit most recent rows of every job, run_at DESC, ties anyhow.
NewestKept(kept) ==
  /\ kept \subseteq runs
  /\ \A j \in Jobs : LET K == {r \in kept : r.job = j} IN
       /\ \A r \in K, s \in RunsOf(j) \ K : s.at <= r.at
       /\ Cardinality(K) = IF Cardinality(RunsOf(j)) < HistoryLimit
                           THEN Cardinality(RunsOf(j)) ELSE HistoryLimit

TrimRuns(d) ==
  /\ pc[d] = "trim"
  /\ \/ Succeeds(d) /\ \E kept \in SUBSET runs : NewestKept(kept) /\ runs' = kept
     \/ Fails(d, "trim") /\ UNCHANGED runs
  /\ Goto(d, "idle")
  /\ UNCHANGED <<clock, jobs, leases, tick, conn, history, bounds>>

\* The process dies (or is stopped) anywhere; its tables stay as they are.
Crash(d) ==
  /\ "crash" \in Faults /\ pc[d] # "down" /\ crashes < MaxCrashes
  /\ crashes' = crashes + 1
  /\ Leave(d, "down")
  /\ fired' = [fired EXCEPT ![d] = FALSE]
  /\ UNCHANGED <<clock, tables, now, conn, history, ops>>

-----------------------------------------------------------------------------
(* The operator's commands, each one statement from a process of its own.  *)

Command(name, j, row) ==
  /\ name \in Commands /\ ops < MaxOps
  /\ ops' = ops + 1
  /\ jobs' = [jobs EXCEPT ![j] = row]
  /\ UNCHANGED <<clock, leases, runs, pc, tick, conn, history, crashes>>

Schedule(j) == \E s \in JobSpecs : Command("schedule", j, ArmedRow(j, s, clock))
Unschedule(j) == Exists(j) /\ Command("unschedule", j, NoRow)
Activate(j) ==
  /\ Exists(j)
  /\ Command("activate", j, [jobs[j] EXCEPT !.active = TRUE, !.next = CronNext(j, clock)])
Deactivate(j) == Exists(j) /\ Command("deactivate", j, [jobs[j] EXCEPT !.active = FALSE])
ForceJob(j) == Exists(j) /\ Command("force", j, [jobs[j] EXCEPT !.next = 0])

ForceAll ==
  /\ "force" \in Commands /\ ops < MaxOps
  /\ ops' = ops + 1
  /\ jobs' = ForcedRows
  /\ UNCHANGED <<clock, leases, runs, pc, tick, conn, history, crashes>>

Elapse ==
  /\ clock < MaxTime
  /\ clock' = clock + 1
  /\ UNCHANGED <<tables, pc, tick, conn, history, bounds>>

-----------------------------------------------------------------------------
Tick(d) ==
  \/ BeginTick(d) \/ ReadDue(d) \/ PreAdvance(d) \/ ReadCatalog(d) \/ TickError(d)
  \/ AcquireLease(d) \/ Contend(d) \/ UseCatalog(d) \/ SkipJob(d) \/ FinishSql(d)
  \/ RestoreCatalog(d) \/ RecordRun(d) \/ ReleaseLease(d) \/ EndTick(d) \/ TrimRuns(d)

Driver(d) == Start(d) \/ Tick(d) \/ Crash(d)

Operator ==
  \/ \E j \in Jobs : Schedule(j) \/ Unschedule(j) \/ Activate(j) \/ Deactivate(j) \/ ForceJob(j)
  \/ ForceAll

Next == (\E d \in Drivers : Driver(d)) \/ Operator \/ Elapse

Spec == Init /\ [][Next]_vars

\* A driver that is up keeps ticking (loop { tick; sleep(interval) }), a
\* supervisor restarts one that died, the statements it issues return, and
\* time passes.
FairSpec ==
  /\ Spec
  /\ \A d \in Drivers : WF_vars(Start(d)) /\ WF_vars(Tick(d))
  /\ WF_vars(Elapse)

-----------------------------------------------------------------------------
(* Properties.                                                             *)

\* d has taken the lease of job j and has not released it yet.
Critical(d, j) ==
  /\ pc[d] \in Busy
  /\ cur[d].job = j

LeaseOf(d) == [holder |-> NodeOf[d], acquired |-> now[d], expires |-> Expires(d)]

\* Until its lease time is over, a driver busy with a job still owns the
\* job's row in __cron_leases, whatever releases, steals and crashes the
\* other drivers perform (the holder test of the release UPDATE, the
\* expires_at test of the acquire upsert).  Needs distinct node identities.
LeaseHeld ==
  \A d \in Drivers, j \in Jobs :
    Critical(d, j) /\ clock < Expires(d) => leases[j] = LeaseOf(d)

Marks(d, j) == {f.mark : f \in fires[d][j]}
Pending(d) == due[d] \cup (IF pc[d] = "use" THEN {cur[d]} ELSE {})

\* A window (a job's next_run_at) that a driver process has executed never
\* comes back to that driver, across its crashes and restarts: next_run_at is
\* advanced before the SQL runs, and every other writer of it but `force`
\* only moves it to a mark after the present.
NoRefire ==
  \A d \in Drivers : \A e \in Pending(d) :
    pc[d] \in {"lease", "use"} => e.mark \notin Marks(d, e.job)

\* After a job the scheduler's own statements run in the scheduler's own
\* catalog again ("so the record UPDATE / INSERT and the tick-lease release
\* land back in the scheduler's own catalog"), and between ticks too.
BookkeepingAtHome ==
  \A d \in Drivers : pc[d] \notin {"exec", "restore", "down"} => catalog[d] = Home

\* A lease that has not expired is backed by a driver that is busy with that
\* job: __cron_leases has "one row per due job that's actively held by some
\* driver", so a due job is only ever contended by its own execution.
LeaseBacked ==
  \A j \in Jobs : leases[j].expires > clock =>
    \E d \in Drivers : Critical(d, j) /\ leases[j] = LeaseOf(d)

\* Every window is fired once in total, whichever drivers race for it.
OncePerWindow ==
  \A d, e \in Drivers, j \in Jobs : d # e => Marks(d, j) \cap Marks(e, j) = {}

\* The windows of j that d executed although their time had come when it started.
CaughtUp(d, j) == {f \in fires[d][j] : 0 < f.mark /\ f.mark <= upSince[d] /\ upSince[d] <= f.at}

\* "Only ONE catch-up run per gap": of the windows whose time came while the
\* driver was down, one at most is executed after it is up again.
OneCatchUpPerGap == \A d \in Drivers, j \in Jobs : Cardinality(CaughtUp(d, j)) <= 1

\* An active job whose time has come is picked up by some tick: its window is
\* closed by the pre-advance, or an operator pauses, removes or re-arms it.
\* "A job only fires while a driver is running": the supervisor restarts one.
DueIsTaken ==
  \A j \in Jobs, t \in 0..MaxTime :
    (Exists(j) /\ jobs[j].active /\ jobs[j].next = t /\ clock >= t)
      ~> ~(Exists(j) /\ jobs[j].active /\ jobs[j].next = t)

-----------------------------------------------------------------------------
(* What the per-job leases promise, as the abstract module JobLease says   *)
(* it: the grants are the leases the drivers believe they hold.            *)
Grants == {[driver |-> d, job |-> cur[d].job, expires |-> Expires(d)] :
             d \in {x \in Drivers : \E j \in Jobs : Critical(x, j)}}

Abstract == INSTANCE JobLease WITH grants <- Grants, Times <- 0..(MaxTime + TTL)
LeaseProtocol == Abstract!Spec

\* Two drivers run one job at the same time only when the lease time of one
\* of them is over: a lease counts from the start of its tick.
GrantExclusion == Abstract!Exclusion
=============================================================================
