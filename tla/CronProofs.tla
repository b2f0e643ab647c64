----------------------------- MODULE CronProofs -----------------------------
(***************************************************************************)
(* Theorems about CronScheduler, for any drivers, jobs, schedules and      *)
(* lease times; the faults and operator commands that one of them excludes *)
(* are named in its ASSUME.                                                *)
(***************************************************************************)
EXTENDS CronScheduler, FiniteSetTheorems, TLAPS

\* The next mark is a time, and it is later.
LEMMA CronNextLater ==
  ASSUME NEW j \in Jobs, NEW t \in Nat
  PROVE  CronNext(j, t) \in Nat /\ t < CronNext(j, t)
<1>1. Period[j] \in Nat \ {0}
  BY CronAssumption
<1>2. t % Period[j] \in 0..(Period[j] - 1)
  BY <1>1
<1> QED
  BY <1>1, <1>2 DEF CronNext

\* A freshly armed row is a row.
LEMMA ArmedRowType ==
  ASSUME NEW j \in Jobs, NEW s \in JobSpecs, NEW t \in Nat
  PROVE  ArmedRow(j, s, t) \in Row
<1>1. s \in [node : Nodes \cup {AnyNode}, db : Catalogs \cup {NoDb},
             catchUp : {"skip", "run_once"}]
  BY CronAssumption
<1> QED
  BY <1>1, CronNextLater DEF ArmedRow, Row

\* A row stays a row when it is re-armed, paused or both.
LEMMA RowExcept ==
  ASSUME NEW r \in Row, NEW n \in Nat, NEW a \in BOOLEAN
  PROVE  /\ [r EXCEPT !.next = n] \in Row
         /\ [r EXCEPT !.active = a] \in Row
         /\ [r EXCEPT !.active = a, !.next = n] \in Row
BY DEF Row

\* `force` leaves rows.
LEMMA ForcedRowsType ==
  ASSUME TypeOK
  PROVE  ForcedRows \in [Jobs -> Row \cup {NoRow}]
<1> SUFFICES ASSUME NEW j \in Jobs, Exists(j)
             PROVE  [jobs[j] EXCEPT !.next = 0] \in Row
  BY DEF ForcedRows, TypeOK
<1>1. jobs[j] \in Row
  BY DEF TypeOK, Exists
<1> QED
  BY <1>1, RowExcept

\* The pre-advance leaves rows.
LEMMA AdvancedRowsType ==
  ASSUME TypeOK, NEW d \in Drivers
  PROVE  AdvancedRows(d) \in [Jobs -> Row \cup {NoRow}]
<1> SUFFICES ASSUME NEW j \in Jobs, Exists(j)
             PROVE  [jobs[j] EXCEPT !.next = CronAdvance(j, now[d])] \in Row
  BY DEF AdvancedRows, IsDue, TypeOK
<1>1. jobs[j] \in Row /\ CronAdvance(j, now[d]) \in Nat
  BY CronNextLater DEF TypeOK, Exists, CronAdvance
<1> QED
  BY <1>1, RowExcept

\* What the due query returns.
LEMMA DueEntriesType ==
  ASSUME TypeOK, NEW d \in Drivers
  PROVE  DueEntries(d) \subseteq Entry
<1> SUFFICES ASSUME NEW j \in Jobs, Exists(j)
             PROVE  [job |-> j, mark |-> jobs[j].next, db |-> jobs[j].db,
                     catchUp |-> jobs[j].catchUp] \in Entry
  BY DEF DueEntries, IsDue
<1>1. jobs[j] \in Row
  BY DEF TypeOK, Exists
<1> QED
  BY <1>1 DEF Row, Entry

\* An operator command that writes a row keeps the types.
LEMMA CommandType ==
  ASSUME TypeOK, NEW name, NEW j \in Jobs, NEW row \in Row \cup {NoRow}, Command(name, j, row)
  PROVE  TypeOK'
BY CronAssumption DEF TypeOK, Command, conn, tick, history

-----------------------------------------------------------------------------
(* Type correctness.                                                       *)

\* The end of a tick, whatever ends it, keeps the types.
LEMMA LeaveType ==
  ASSUME TypeOK, NEW d \in Drivers, NEW label \in Labels, Leave(d, label)
  PROVE  /\ pc' \in [Drivers -> Labels]
         /\ due' \in [Drivers -> SUBSET Entry]
         /\ cur' \in [Drivers -> Entry \cup {NoEntry}]
         /\ orig' \in [Drivers -> Catalogs \cup {Home, NoDb}]
         /\ label \notin Busy => \A x \in Drivers :
              /\ pc'[x] \in Busy => cur'[x] \in Entry
              /\ pc'[x] = "restore" => orig'[x] # NoDb
BY DEF TypeOK, Leave, Goto, Busy

\* Executing the current window keeps the type of the history.
LEMMA ExecuteType ==
  ASSUME TypeOK, NEW d \in Drivers, NEW e \in Entry, Execute(d, e)
  PROVE  fires' \in [Drivers -> [Jobs -> SUBSET Fire]]
<1>1. e.job \in Jobs /\ [mark |-> e.mark, at |-> now[d]] \in Fire
  BY DEF TypeOK, Entry, Fire
<1> QED
  BY <1>1 DEF TypeOK, Execute

\* The variables keep their types: what the tables and a driver's tick hold
\* is always of the shape the statements of cron_cli.rs expect.
THEOREM Typing == Spec => []TypeOK
<1>1. Init => TypeOK
  <2> SUFFICES ASSUME Init PROVE TypeOK
    OBVIOUS
  <2>1. jobs \in [Jobs -> Row \cup {NoRow}]
    <3>1. PICK choice \in [Jobs -> JobSpecs \cup {NoRow}] :
            jobs = [j \in Jobs |-> IF choice[j] = NoRow THEN NoRow
                                   ELSE ArmedRow(j, choice[j], 0)]
      BY DEF Init
    <3> QED
      BY <3>1, ArmedRowType
  <2>2. leases \in [Jobs -> Lease]
    BY DEF Init, NoLease, Lease
  <2> QED
    BY <2>1, <2>2 DEF Init, TypeOK, Labels, Busy
<1>2. TypeOK /\ [Next]_vars => TypeOK'
  <2> SUFFICES ASSUME TypeOK, [Next]_vars PROVE TypeOK'
    OBVIOUS
  <2> USE DEF tables, conn, tick, history, bounds
  <2>1. ASSUME NEW d \in Drivers, Start(d) PROVE TypeOK'
    BY <2>1, ForcedRowsType DEF TypeOK, Start, Goto, Labels, Busy
  <2>2. ASSUME NEW d \in Drivers, BeginTick(d) PROVE TypeOK'
    BY <2>2 DEF TypeOK, BeginTick, Goto, Labels, Busy
  <2>3. ASSUME NEW d \in Drivers, ReadDue(d) PROVE TypeOK'
    BY <2>3, DueEntriesType DEF TypeOK, ReadDue, Goto, Labels, Busy
  <2>4. ASSUME NEW d \in Drivers, PreAdvance(d) PROVE TypeOK'
    BY <2>4, AdvancedRowsType DEF TypeOK, PreAdvance, Goto, Labels, Busy
  <2>5. ASSUME NEW d \in Drivers, ReadCatalog(d) PROVE TypeOK'
    BY <2>5 DEF TypeOK, ReadCatalog, Goto, Labels, Busy
  <2>6. ASSUME NEW d \in Drivers, TickError(d) PROVE TypeOK'
    <3>1. Abort(d) /\ "idle" \in Labels \ Busy
      BY <2>6 DEF TickError, Labels, Busy
    <3> QED
      BY <3>1, LeaveType DEF TypeOK, Abort
  <2>7. ASSUME NEW d \in Drivers, AcquireLease(d) PROVE TypeOK'
    <3>1. PICK e \in NextDue(d) :
            /\ leases' = [leases EXCEPT ![e.job] = [holder |-> NodeOf[d],
                            acquired |-> now[d], expires |-> Expires(d)]]
            /\ due' = [due EXCEPT ![d] = @ \ {e}]
            /\ cur' = [cur EXCEPT ![d] = e]
            /\ IF e.db = NoDb THEN Goto(d, "exec") /\ Execute(d, e)
                              ELSE Goto(d, "use") /\ UNCHANGED fires
      BY <2>7 DEF AcquireLease
    <3>2. e \in Entry
      BY DEF NextDue, TypeOK
    <3>3. [holder |-> NodeOf[d], acquired |-> now[d], expires |-> Expires(d)] \in Lease
      BY CronAssumption DEF TypeOK, Expires, Lease
    <3>4. fires' \in [Drivers -> [Jobs -> SUBSET Fire]]
      BY <3>1, <3>2, ExecuteType DEF TypeOK
    <3>5. /\ pc' \in [Drivers -> Labels] /\ pc'[d] # "restore"
          /\ \A x \in Drivers \ {d} : pc'[x] = pc[x]
      BY <3>1 DEF TypeOK, Goto, Labels
    <3>6. \A x \in Drivers : pc'[x] \in Busy => cur'[x] \in Entry
      BY <3>1, <3>2, <3>5 DEF TypeOK
    <3> QED
      <4>1. \A x \in Drivers : pc'[x] = "restore" => orig'[x] # NoDb
        BY <2>7, <3>5 DEF TypeOK, AcquireLease
      <4>2. leases' \in [Jobs -> Lease] /\ due' \in [Drivers -> SUBSET Entry]
        BY <3>1, <3>2, <3>3 DEF TypeOK
      <4>3. cur' \in [Drivers -> Entry \cup {NoEntry}]
        BY <3>1, <3>2 DEF TypeOK
      <4> QED
        BY <2>7, <3>4, <3>5, <3>6, <4>1, <4>2, <4>3 DEF TypeOK, AcquireLease
  <2>8. ASSUME NEW d \in Drivers, Contend(d) PROVE TypeOK'
    BY <2>8 DEF TypeOK, Contend
  <2>9. ASSUME NEW d \in Drivers, UseCatalog(d) PROVE TypeOK'
    <3>1. cur[d] \in Entry /\ Execute(d, cur[d]) /\ cur[d].db \in Catalogs
      BY <2>9, CronAssumption DEF TypeOK, UseCatalog, Busy
    <3>2. fires' \in [Drivers -> [Jobs -> SUBSET Fire]]
      BY <3>1, ExecuteType
    <3> QED
      BY <2>9, <3>1, <3>2 DEF TypeOK, UseCatalog, Goto, Labels
  <2>10. ASSUME NEW d \in Drivers, SkipJob(d) PROVE TypeOK'
    <3>1. [job |-> cur[d].job, at |-> now[d], by |-> d] \in Run
      BY <2>10 DEF SkipJob, TypeOK, Busy, Entry, Run
    <3> QED
      BY <2>10, <3>1 DEF TypeOK, SkipJob, Goto, Labels, Busy
  <2>11. ASSUME NEW d \in Drivers, FinishSql(d) PROVE TypeOK'
    <3>1. catalog' \in [Drivers -> Catalogs \cup {Home}]
      <4>1. PICK c \in {catalog[d]} \cup (IF "wander" \in Faults THEN Attached[d] ELSE {}) :
              catalog' = [catalog EXCEPT ![d] = c]
        BY <2>11 DEF FinishSql
      <4>2. c \in Catalogs \cup {Home}
        BY CronAssumption DEF TypeOK
      <4> QED
        BY <4>1, <4>2 DEF TypeOK
    <3>2. poisoned' \in [Drivers -> BOOLEAN]
      BY <2>11 DEF FinishSql, TypeOK
    <3> QED
      BY <2>11, <3>1, <3>2 DEF TypeOK, FinishSql, Goto, Labels, Busy
  <2>12. ASSUME NEW d \in Drivers, RestoreCatalog(d) PROVE TypeOK'
    <3>1. catalog' \in [Drivers -> Catalogs \cup {Home}]
      BY <2>12, CronAssumption DEF RestoreCatalog, TypeOK
    <3> QED
      BY <2>12, <3>1 DEF TypeOK, RestoreCatalog, Goto, Labels, Busy
  <2>13. ASSUME NEW d \in Drivers, RecordRun(d) PROVE TypeOK'
    <3>1. [job |-> cur[d].job, at |-> now[d], by |-> d] \in Run
      BY <2>13 DEF RecordRun, TypeOK, Busy, Entry, Run
    <3> QED
      BY <2>13, <3>1 DEF TypeOK, RecordRun, Goto, Labels, Busy
  <2>14. ASSUME NEW d \in Drivers, ReleaseLease(d) PROVE TypeOK'
    <3>1. leases' \in [Jobs -> Lease]
      <4>1. cur[d].job \in Jobs
        BY <2>14 DEF ReleaseLease, Released, TypeOK, Busy, Entry
      <4>2. leases[cur[d].job] \in Lease
        BY <4>1 DEF TypeOK
      <4>3. [leases[cur[d].job] EXCEPT !.expires = 0] \in Lease
        BY <4>2 DEF Lease
      <4> QED
        BY <2>14, <4>1, <4>3 DEF ReleaseLease, Released, TypeOK
    <3> QED
      BY <2>14, <3>1 DEF TypeOK, ReleaseLease, Released, Goto, Labels, Busy
  <2>15. ASSUME NEW d \in Drivers, EndTick(d) PROVE TypeOK'
    <3> DEFINE label == IF HistoryLimit > 0 /\ fired[d] THEN "trim" ELSE "idle"
    <3>1. Leave(d, label) /\ label \in Labels \ Busy
      BY <2>15 DEF EndTick, Labels, Busy
    <3> HIDE DEF label
    <3> QED
      BY <2>15, <3>1, LeaveType DEF TypeOK, EndTick
  <2>16. ASSUME NEW d \in Drivers, TrimRuns(d) PROVE TypeOK'
    BY <2>16 DEF TypeOK, TrimRuns, NewestKept, Goto, Labels, Busy
  <2>17. ASSUME NEW d \in Drivers, Crash(d) PROVE TypeOK'
    <3>1. Leave(d, "down") /\ "down" \in Labels \ Busy
      BY <2>17 DEF Crash, Labels, Busy
    <3> QED
      BY <2>17, <3>1, LeaveType DEF TypeOK, Crash
  <2>18. ASSUME NEW j \in Jobs, Schedule(j) PROVE TypeOK'
    <3>1. PICK s \in JobSpecs : Command("schedule", j, ArmedRow(j, s, clock))
      BY <2>18 DEF Schedule
    <3> QED
      BY <3>1, ArmedRowType, CommandType DEF TypeOK
  <2>19. ASSUME NEW j \in Jobs, Unschedule(j) PROVE TypeOK'
    BY <2>19, CommandType DEF Unschedule
  <2>20. ASSUME NEW j \in Jobs, Activate(j) PROVE TypeOK'
    <3> DEFINE row == [jobs[j] EXCEPT !.active = TRUE, !.next = CronNext(j, clock)]
    <3>1. jobs[j] \in Row
      BY <2>20 DEF Activate, TypeOK, Exists
    <3>2. row \in Row
      BY <3>1, RowExcept, CronNextLater DEF TypeOK
    <3>3. Command("activate", j, row)
      BY <2>20 DEF Activate
    <3> HIDE DEF row
    <3> QED
      BY <3>2, <3>3, CommandType
  <2>21. ASSUME NEW j \in Jobs, Deactivate(j) PROVE TypeOK'
    <3> DEFINE row == [jobs[j] EXCEPT !.active = FALSE]
    <3>1. jobs[j] \in Row
      BY <2>21 DEF Deactivate, TypeOK, Exists
    <3>2. row \in Row
      BY <3>1, RowExcept
    <3>3. Command("deactivate", j, row)
      BY <2>21 DEF Deactivate
    <3> HIDE DEF row
    <3> QED
      BY <3>2, <3>3, CommandType
  <2>22. ASSUME NEW j \in Jobs, ForceJob(j) PROVE TypeOK'
    <3> DEFINE row == [jobs[j] EXCEPT !.next = 0]
    <3>1. jobs[j] \in Row
      BY <2>22 DEF ForceJob, TypeOK, Exists
    <3>2. row \in Row
      BY <3>1, RowExcept
    <3>3. Command("force", j, row)
      BY <2>22 DEF ForceJob
    <3> HIDE DEF row
    <3> QED
      BY <3>2, <3>3, CommandType
  <2>23. CASE ForceAll
    BY <2>23, CronAssumption, ForcedRowsType DEF TypeOK, ForceAll
  <2>24. CASE Elapse
    BY <2>24 DEF TypeOK, Elapse
  <2>25. CASE UNCHANGED vars
    BY <2>25 DEF TypeOK, vars
  <2>26. ASSUME NEW d \in Drivers, Driver(d) PROVE TypeOK'
    BY <2>1, <2>2, <2>3, <2>4, <2>5, <2>6, <2>7, <2>8, <2>9, <2>10, <2>11, <2>12,
       <2>13, <2>14, <2>15, <2>16, <2>17, <2>26 DEF Driver, Tick
  <2>27. CASE Operator
    BY <2>18, <2>19, <2>20, <2>21, <2>22, <2>23, <2>27 DEF Operator
  <2> QED
    BY <2>24, <2>25, <2>26, <2>27 DEF Next
<1> QED
  BY <1>1, <1>2, PTL DEF Spec

-----------------------------------------------------------------------------
(* The lease of a busy driver.                                             *)

\* The tick's `now` was read from the clock, and the clock has a bound.
NowPast ==
  /\ clock <= MaxTime
  /\ \A d \in Drivers : now[d] <= clock

\* A tick's `now` is never in the future.
LEMMA NowInvariant == Spec => []NowPast
<1>1. Init => NowPast
  BY CronAssumption DEF Init, NowPast
<1>2. TypeOK /\ TypeOK' /\ NowPast /\ [Next]_vars => NowPast'
  <2> SUFFICES ASSUME TypeOK, TypeOK', NowPast, [Next]_vars PROVE NowPast'
    OBVIOUS
  <2> USE CronAssumption DEF tables, conn, tick, history, bounds
  <2>1. CASE Elapse
    BY <2>1 DEF Elapse, NowPast, TypeOK
  <2>2. ASSUME NEW d \in Drivers, BeginTick(d) PROVE NowPast'
    BY <2>2 DEF BeginTick, NowPast, TypeOK
  <2>3. CASE UNCHANGED <<clock, now>>
    BY <2>3 DEF NowPast
  <2>4. ASSUME NEW d \in Drivers, Driver(d), ~BeginTick(d) PROVE UNCHANGED <<clock, now>>
    BY <2>4 DEF Driver, Tick, Start, ReadDue, PreAdvance, ReadCatalog, TickError, Abort,
      AcquireLease, Contend, UseCatalog, SkipJob, FinishSql, RestoreCatalog, RecordRun,
      ReleaseLease, EndTick, TrimRuns, Crash
  <2>5. Operator => UNCHANGED <<clock, now>>
    BY DEF Operator, Schedule, Unschedule, Activate, Deactivate, ForceJob, ForceAll, Command
  <2>6. UNCHANGED vars => UNCHANGED <<clock, now>>
    BY DEF vars
  <2> QED
    BY <2>1, <2>2, <2>3, <2>4, <2>5, <2>6 DEF Next
<1> QED
  BY <1>1, <1>2, Typing, PTL DEF Spec

\* A step in which no lease is written, no driver becomes busy or changes
\* its job, and no busy driver changes its `now`, keeps LeaseHeld.
Quiet ==
  /\ leases' = leases /\ clock' = clock
  /\ \A d \in Drivers : pc'[d] \in Busy =>
       pc[d] \in Busy /\ cur'[d] = cur[d] /\ now'[d] = now[d]

\* Every step is quiet, or one of the three that write leases or time.
LEMMA QuietSteps ==
  ASSUME TypeOK, [Next]_vars
  PROVE  \/ Quiet
         \/ Elapse
         \/ \E d \in Drivers : AcquireLease(d) \/ ReleaseLease(d)
<1> USE DEF tables, conn, tick, history, bounds
<1>1. ASSUME NEW d \in Drivers, Start(d) \/ BeginTick(d) \/ ReadDue(d) PROVE Quiet
  BY <1>1 DEF Start, BeginTick, ReadDue, Goto, Busy, Quiet, TypeOK
<1>2. ASSUME NEW d \in Drivers, PreAdvance(d) \/ ReadCatalog(d) \/ Contend(d) PROVE Quiet
  BY <1>2 DEF PreAdvance, ReadCatalog, Contend, Goto, Busy, Quiet, TypeOK
<1>3. ASSUME NEW d \in Drivers, TickError(d) \/ EndTick(d) \/ Crash(d) PROVE Quiet
  BY <1>3 DEF TickError, Abort, EndTick, Crash, Leave, Goto, Busy, Quiet, TypeOK
<1>4. ASSUME NEW d \in Drivers, UseCatalog(d) \/ FinishSql(d) PROVE Quiet
  BY <1>4 DEF UseCatalog, FinishSql, Goto, Busy, Quiet, TypeOK
<1>5. ASSUME NEW d \in Drivers, SkipJob(d) \/ RestoreCatalog(d) PROVE Quiet
  BY <1>5 DEF SkipJob, RestoreCatalog, Goto, Busy, Quiet, TypeOK
<1>6. ASSUME NEW d \in Drivers, RecordRun(d) \/ TrimRuns(d) PROVE Quiet
  BY <1>6 DEF RecordRun, TrimRuns, Goto, Busy, Quiet, TypeOK
<1>7. Operator => Quiet
  BY DEF Operator, Schedule, Unschedule, Activate, Deactivate, ForceJob, ForceAll,
    Command, Quiet
<1>8. UNCHANGED vars => Quiet
  BY DEF vars, Quiet
<1>9. ASSUME NEW d \in Drivers, Driver(d), ~Quiet
      PROVE  AcquireLease(d) \/ ReleaseLease(d)
  BY <1>1, <1>2, <1>3, <1>4, <1>5, <1>6, <1>9 DEF Driver, Tick
<1> QED
  BY <1>7, <1>8, <1>9 DEF Next

\* Until its lease time is over a busy driver owns the lease row of its job:
\* no other driver's acquire, release, crash or restart takes it away.
THEOREM LeaseSafety == Spec => []LeaseHeld
<1>1. Init => LeaseHeld
  BY DEF Init, LeaseHeld, Critical, Busy
<1>2. TypeOK /\ TypeOK' /\ NowPast /\ LeaseHeld /\ [Next]_vars => LeaseHeld'
  <2> SUFFICES ASSUME TypeOK, TypeOK', NowPast, LeaseHeld, [Next]_vars,
                      NEW x \in Drivers, NEW j \in Jobs,
                      Critical(x, j)', (clock < Expires(x))'
               PROVE  leases'[j] = LeaseOf(x)'
    BY DEF LeaseHeld
  <2>1. CASE Quiet
    <3>1. /\ pc[x] \in Busy /\ cur'[x] = cur[x] /\ now'[x] = now[x]
          /\ leases' = leases /\ clock' = clock
      BY <2>1 DEF Quiet, Critical
    <3>2. Critical(x, j) /\ clock < Expires(x) /\ LeaseOf(x)' = LeaseOf(x)
      BY <3>1 DEF Critical, Expires, LeaseOf
    <3> QED
      BY <3>1, <3>2 DEF LeaseHeld
  <2>2. CASE Elapse
    <3>1. UNCHANGED <<leases, pc, cur, now>> /\ clock < clock'
      BY <2>2 DEF Elapse, TypeOK, tables, tick
    <3>2. Critical(x, j) /\ clock < Expires(x)
      BY <3>1, CronAssumption DEF Critical, Expires, TypeOK
    <3> QED
      BY <3>1, <3>2 DEF LeaseHeld, LeaseOf, Expires
  <2>3. ASSUME NEW d \in Drivers, AcquireLease(d)
        PROVE  leases'[j] = LeaseOf(x)'
    <3>1. PICK e \in NextDue(d) :
            /\ CanTake(d, e.job)
            /\ leases' = [leases EXCEPT ![e.job] = LeaseOf(d)]
            /\ cur' = [cur EXCEPT ![d] = e]
            /\ Goto(d, "exec") \/ Goto(d, "use")
      BY <2>3 DEF AcquireLease, LeaseOf
    <3>2. e.job \in Jobs
      BY DEF NextDue, TypeOK, Entry
    <3>3. UNCHANGED <<clock, now>>
      BY <2>3 DEF AcquireLease
    <3>4. CASE x = d
      BY <3>1, <3>2, <3>3, <3>4 DEF Critical, LeaseOf, Expires, TypeOK
    <3>5. CASE x # d
      <4>1. Critical(x, j) /\ clock < Expires(x)
        BY <3>1, <3>3, <3>5 DEF Critical, Expires, Goto, TypeOK
      <4>2. leases[j] = LeaseOf(x)
        BY <4>1 DEF LeaseHeld
      <4>3. e.job # j
        BY <3>1, <4>1, <4>2, CronAssumption
        DEF CanTake, LeaseOf, Expires, NowPast, TypeOK
      <4> QED
        BY <3>1, <3>2, <3>3, <4>2, <4>3 DEF LeaseOf, Expires, TypeOK
    <3> QED
      BY <3>4, <3>5
  <2>4. ASSUME NEW d \in Drivers, ReleaseLease(d)
        PROVE  leases'[j] = LeaseOf(x)'
    <3>1. UNCHANGED <<clock, now>> /\ pc'[d] \notin Busy
      BY <2>4 DEF ReleaseLease, Goto, Busy, TypeOK
    <3>2. x # d /\ pc'[x] = pc[x] /\ cur'[x] = cur[x]
      BY <2>4, <3>1 DEF ReleaseLease, Released, Goto, Critical, TypeOK
    <3>3. leases[j] = LeaseOf(x)
      BY <3>1, <3>2 DEF LeaseHeld, Critical, Expires
    <3>4. leases[j].holder # NodeOf[d]
      BY <3>2, <3>3, CronAssumption DEF LeaseOf
    <3>5. leases'[j] = leases[j]
      BY <2>4, <3>4 DEF ReleaseLease, Released, TypeOK
    <3> QED
      BY <3>1, <3>3, <3>5 DEF LeaseOf, Expires
  <2> QED
    BY <2>1, <2>2, <2>3, <2>4, QuietSteps
<1> QED
  BY <1>1, <1>2, Typing, NowInvariant, PTL DEF Spec

-----------------------------------------------------------------------------
(* The drivers implement the abstract lease protocol.                      *)

GrantOf(d) == [driver |-> d, job |-> cur[d].job, expires |-> Expires(d)]

\* The grants are those of the busy drivers.
LEMMA GrantsAre ==
  ASSUME TypeOK
  PROVE  Grants = {GrantOf(d) : d \in {x \in Drivers : pc[x] \in Busy}}
<1>1. ASSUME NEW x \in Drivers
      PROVE  (\E j \in Jobs : Critical(x, j)) <=> pc[x] \in Busy
  BY DEF Critical, TypeOK, Entry
<1> QED
  BY <1>1 DEF Grants, GrantOf

\* A driver that starts on a job when its lease can be taken does so when
\* every grant for the job has run out; and one that stops gives up its own.
THEOREM LeaseRefinement == Spec => LeaseProtocol
<1> DEFINE N == Abstract!Next
           u == <<clock, Grants>>
<1>1. Init => Abstract!Init
  BY DEF Init, Abstract!Init, Grants, Critical, Busy
<1>2. TypeOK /\ TypeOK' /\ NowPast /\ NowPast' /\ LeaseHeld /\ [Next]_vars => [N]_u
  <2> SUFFICES ASSUME TypeOK, TypeOK', NowPast, NowPast', LeaseHeld, [Next]_vars
               PROVE  [N]_u
    OBVIOUS
  <2>g. /\ Grants = {GrantOf(d) : d \in {x \in Drivers : pc[x] \in Busy}}
        /\ Grants' = {GrantOf(d)' : d \in {x \in Drivers : pc'[x] \in Busy}}
    <3>1. ASSUME NEW x \in Drivers
          PROVE  (\E j \in Jobs : Critical(x, j)') <=> pc'[x] \in Busy
      BY DEF Critical, TypeOK, Entry
    <3>2. Grants' = {GrantOf(d)' : d \in {x \in Drivers : pc'[x] \in Busy}}
      BY <3>1 DEF Grants, GrantOf
    <3> QED
      BY <3>2, GrantsAre
  <2>1. CASE Elapse
    <3>1. UNCHANGED <<pc, cur, now>> /\ clock' = clock + 1 /\ clock < MaxTime
      BY <2>1 DEF Elapse, tick
    <3>2. Grants' = Grants
      BY <3>1 DEF Grants, Critical, Expires
    <3>3. clock + 1 \in 0..(MaxTime + TTL)
      BY <3>1, CronAssumption DEF TypeOK
    <3> QED
      BY <3>1, <3>2, <3>3 DEF Abstract!Next, Abstract!Elapse
  <2>2. ASSUME NEW d \in Drivers, AcquireLease(d) PROVE N
    <3>1. PICK e \in NextDue(d) :
            /\ CanTake(d, e.job)
            /\ cur' = [cur EXCEPT ![d] = e]
            /\ Goto(d, "exec") \/ Goto(d, "use")
      BY <2>2 DEF AcquireLease
    <3>2. e \in Entry /\ e.job \in Jobs
      BY DEF NextDue, TypeOK, Entry
    <3>3. UNCHANGED <<clock, now>> /\ pc[d] = "lease"
      BY <2>2 DEF AcquireLease
    <3>4. \A g \in Grants : g.driver # d
      BY <2>g, <3>3 DEF GrantOf, Busy
    <3>5. ASSUME NEW g \in Grants, g.job = e.job PROVE g.expires <= clock
      <4>1. PICK x \in Drivers : pc[x] \in Busy /\ g = GrantOf(x)
        BY <2>g
      <4>2. Critical(x, e.job) /\ g.expires = Expires(x)
        BY <3>5, <4>1 DEF Critical, GrantOf
      <4>3. CASE clock < Expires(x)
        <5>1. leases[e.job].expires = Expires(x)
          <6>1. leases[e.job] = LeaseOf(x)
            BY <3>2, <4>2, <4>3 DEF LeaseHeld
          <6> QED
            BY <6>1 DEF LeaseOf
        <5>2. leases[e.job].expires <= now[d] /\ now[d] <= clock
          BY <3>1 DEF CanTake, NowPast
        <5> QED
          BY <4>2, <4>3, <5>1, <5>2, CronAssumption DEF TypeOK, Expires
      <4> QED
        BY <4>2, <4>3, CronAssumption DEF TypeOK, Expires
    <3>6. Expires(d) \in 0..(MaxTime + TTL)
      BY CronAssumption DEF TypeOK, NowPast, Expires
    <3>7. Grants' = Grants \cup {[driver |-> d, job |-> e.job, expires |-> Expires(d)]}
      <4>1. pc'[d] \in Busy /\ GrantOf(d)' = [driver |-> d, job |-> e.job, expires |-> Expires(d)]
        BY <3>1, <3>3 DEF Goto, Busy, GrantOf, Expires, TypeOK
      <4>2. \A x \in Drivers \ {d} : pc'[x] = pc[x] /\ GrantOf(x)' = GrantOf(x)
        BY <3>1, <3>3 DEF Goto, GrantOf, Expires, TypeOK
      <4>3. pc[d] \notin Busy
        BY <3>3 DEF Busy
      <4> QED
        BY <2>g, <4>1, <4>2, <4>3
    <3>8. Abstract!Take(d, e.job, Expires(d))
      BY <3>3, <3>4, <3>5, <3>7 DEF Abstract!Take
    <3> QED
      BY <3>2, <3>6, <3>8 DEF Abstract!Next
  <2>3. ASSUME NEW d \in Drivers, pc[d] \in Busy, pc'[d] \notin Busy,
               UNCHANGED <<clock, now>>,
               \A x \in Drivers \ {d} : pc'[x] = pc[x] /\ cur'[x] = cur[x]
        PROVE  N
    <3>1. \A x \in Drivers \ {d} : GrantOf(x)' = GrantOf(x) /\ pc'[x] = pc[x]
      BY <2>3 DEF GrantOf, Expires
    <3>2. Grants' = {g \in Grants : g.driver # d}
      <4>1. \A x \in Drivers : GrantOf(x).driver = x
        BY DEF GrantOf
      <4> QED
        BY <2>g, <2>3, <3>1, <4>1
    <3> QED
      BY <2>3, <3>2 DEF Abstract!Next, Abstract!GiveUp
  <2>4. ASSUME clock' = clock,
               \A x \in Drivers : /\ pc'[x] \in Busy <=> pc[x] \in Busy
                                  /\ pc[x] \in Busy => now'[x] = now[x] /\ cur'[x] = cur[x]
        PROVE  UNCHANGED u
    <3>1. ASSUME NEW x \in Drivers, pc[x] \in Busy PROVE GrantOf(x)' = GrantOf(x)
      <4>1. now'[x] = now[x] /\ cur'[x] = cur[x]
        BY <2>4, <3>1
      <4> QED
        BY <4>1 DEF GrantOf, Expires
    <3>2. {x \in Drivers : pc'[x] \in Busy} = {x \in Drivers : pc[x] \in Busy}
      BY <2>4
    <3>3. Grants' = Grants
      BY <2>g, <3>1, <3>2
    <3> QED
      BY <2>4, <3>3
  <2> HIDE DEF N, u
  <2> USE DEF tables, conn, tick, history, bounds
  <2>5. ASSUME NEW d \in Drivers, SkipJob(d) \/ ReleaseLease(d) PROVE N
    <3>1. pc[d] \in Busy /\ pc'[d] \notin Busy /\ UNCHANGED <<clock, now>>
      BY <2>5 DEF SkipJob, ReleaseLease, Goto, Busy, TypeOK
    <3>2. \A x \in Drivers \ {d} : pc'[x] = pc[x] /\ cur'[x] = cur[x]
      BY <2>5 DEF SkipJob, ReleaseLease, Goto, TypeOK
    <3> QED
      BY <2>3, <3>1, <3>2
  <2>6. ASSUME NEW d \in Drivers, Crash(d) PROVE N \/ UNCHANGED u
    <3>1. pc'[d] \notin Busy /\ UNCHANGED <<clock, now>>
      BY <2>6 DEF Crash, Leave, Goto, Busy, TypeOK
    <3>2. \A x \in Drivers \ {d} : pc'[x] = pc[x] /\ cur'[x] = cur[x]
      BY <2>6 DEF Crash, Leave, Goto, TypeOK
    <3>3. CASE pc[d] \in Busy
      BY <2>3, <3>1, <3>2, <3>3
    <3>4. CASE pc[d] \notin Busy
      BY <2>4, <3>1, <3>2, <3>4
    <3> QED
      BY <3>3, <3>4
  <2>7. ASSUME NEW d \in Drivers, Start(d) \/ BeginTick(d) \/ ReadDue(d) \/ PreAdvance(d)
        PROVE  UNCHANGED u
    BY <2>4, <2>7 DEF Start, BeginTick, ReadDue, PreAdvance, Goto, Busy, TypeOK
  <2>8. ASSUME NEW d \in Drivers, ReadCatalog(d) \/ TickError(d) \/ Contend(d) \/ EndTick(d)
        PROVE  UNCHANGED u
    BY <2>4, <2>8 DEF ReadCatalog, TickError, Abort, Contend, EndTick, Leave, Goto, Busy, TypeOK
  <2>9. ASSUME NEW d \in Drivers, UseCatalog(d) \/ FinishSql(d)
        PROVE  UNCHANGED u
    BY <2>4, <2>9 DEF UseCatalog, FinishSql, Goto, Busy, TypeOK
  <2>10. ASSUME NEW d \in Drivers, RestoreCatalog(d) \/ RecordRun(d) \/ TrimRuns(d)
        PROVE  UNCHANGED u
    BY <2>4, <2>10 DEF RestoreCatalog, RecordRun, TrimRuns, Goto, Busy, TypeOK
  <2>11. CASE Operator
    BY <2>4, <2>11 DEF Operator, Schedule, Unschedule, Activate, Deactivate, ForceJob,
      ForceAll, Command
  <2>12. CASE UNCHANGED vars
    BY <2>4, <2>12 DEF vars
  <2>13. ASSUME NEW d \in Drivers, Driver(d) PROVE [N]_u
    BY <2>2, <2>5, <2>6, <2>7, <2>8, <2>9, <2>10, <2>13 DEF Driver, Tick
  <2> QED
    BY <2>1, <2>11, <2>12, <2>13 DEF Next
<1> QED
  BY <1>1, <1>2, Typing, NowInvariant, LeaseSafety, PTL
  DEF Spec, LeaseProtocol, Abstract!Spec

\* Two drivers are busy with one job at a time only when the lease of one of
\* them has run out: the exclusion the abstract protocol promises.
THEOREM LeaseExclusion == Spec => []GrantExclusion
<1>1. TypeOK /\ LeaseHeld => GrantExclusion
  <2> SUFFICES ASSUME TypeOK, LeaseHeld, NEW g \in Grants, NEW h \in Grants,
                      g.job = h.job, g.driver # h.driver,
                      ~(g.expires <= clock), ~(h.expires <= clock)
               PROVE  FALSE
    BY DEF GrantExclusion, Abstract!Exclusion
  <2>1. PICK x \in Drivers : pc[x] \in Busy /\ g = GrantOf(x)
    BY GrantsAre
  <2>2. PICK y \in Drivers : pc[y] \in Busy /\ h = GrantOf(y)
    BY GrantsAre
  <2> DEFINE j == cur[x].job
  <2>3. j \in Jobs /\ cur[y].job = j /\ x # y
    BY <2>1, <2>2 DEF GrantOf, TypeOK, Entry
  <2>4. clock < Expires(x) /\ clock < Expires(y)
    BY <2>1, <2>2, CronAssumption DEF GrantOf, Expires, TypeOK
  <2>5. leases[j] = LeaseOf(x) /\ leases[j] = LeaseOf(y)
    BY <2>1, <2>2, <2>3, <2>4 DEF LeaseHeld, Critical
  <2>6. NodeOf[x] = NodeOf[y]
    BY <2>5 DEF LeaseOf
  <2> QED
    BY <2>3, <2>6, CronAssumption
<1> QED
  BY <1>1, Typing, LeaseSafety, PTL

-----------------------------------------------------------------------------
(* Windows.                                                                *)

\* Where a driver is after it has read what is due, and after it has
\* advanced it.
AfterAdvance == {"catalog", "lease", "use", "exec", "restore", "record", "release"}
AfterRead == AfterAdvance \cup {"advance"}

\* A row whose windows up to t are closed: a tick at t does not find it due.
ClosedRow(r, t) == r # NoRow /\ r.active => t < r.next
RowFor(r, d) == r.node \in {AnyNode, NodeOf[d]}
Closed(j, t) == ClosedRow(jobs[j], t)

\* What a driver knows of the windows that it is about to execute or has
\* executed: one window of a job at a time (Single), whose time has come
\* (Come), that is closed by the pre-advance or will be (Reserved, Advanced),
\* and that came after what the driver executed before (Fresh); what it has
\* executed is closed up to the tick that executed it (Spent), so that the
\* windows and ticks of a job alternate (Ordered).
Single(d) ==
  /\ \A e, f \in Pending(d) : e.job = f.job => e = f
  /\ pc[d] = "use" => cur[d] \notin due[d]
Come(d) ==
  /\ pc[d] \notin AfterRead => due[d] = {}
  /\ \A e \in Pending(d) : e.mark <= now[d]
Reserved(d) ==
  pc[d] = "advance" =>
    \A e \in due[d] : Closed(e.job, now[d]) \/ RowFor(jobs[e.job], d)
Advanced(d) ==
  pc[d] \in AfterAdvance => \A e \in Pending(d) : Closed(e.job, now[d])
Fresh(d) == \A e \in Pending(d) : \A f \in fires[d][e.job] : f.at < e.mark
Spent(d) ==
  \A j \in Jobs : \A f \in fires[d][j] : f.mark <= f.at /\ f.at <= clock /\ Closed(j, f.at)
Ordered(d) ==
  \A j \in Jobs : \A f, g \in fires[d][j] : f = g \/ f.at < g.mark \/ g.at < f.mark

Windows(d) ==
  Single(d) /\ Come(d) /\ Reserved(d) /\ Advanced(d) /\ Fresh(d) /\ Spent(d) /\ Ordered(d)
WindowInv == \A d \in Drivers : Windows(d)

\* How a statement other than `force` rewrites a row of __cron_jobs: not at
\* all, it removes, re-arms or pauses it, or it moves the next mark on.
Moved(r, s) ==
  \/ s = r
  \/ s = NoRow
  \/ s # NoRow /\ (clock < s.next \/ ~s.active)
  \/ /\ r # NoRow /\ s # NoRow
     /\ s.node = r.node /\ s.active = r.active /\ r.next <= s.next

\* Without `force` no statement opens a window that was closed: not another
\* driver's pre-advance either.
LEMMA RowsMove ==
  ASSUME TypeOK, NowPast, [Next]_vars, "force" \notin Commands
  PROVE  \A j \in Jobs : Moved(jobs[j], jobs'[j])
<1> USE DEF tables, conn, tick, history, bounds
<1>1. CASE jobs' = jobs
  BY <1>1 DEF Moved
<1>2. ASSUME NEW d \in Drivers, PreAdvance(d), NEW j \in Jobs
      PROVE  Moved(jobs[j], jobs'[j])
  <2>1. jobs' = AdvancedRows(d)
    BY <1>2 DEF PreAdvance
  <2>2. CASE ~IsDue(j, d, now[d])
    BY <2>1, <2>2 DEF AdvancedRows, Moved
  <2>3. CASE IsDue(j, d, now[d])
    <3>1. jobs[j] \in Row /\ jobs[j].next <= now[d] /\ jobs[j] # NoRow
      BY <2>3 DEF IsDue, Exists, TypeOK
    <3>2. CronAdvance(j, now[d]) \in Nat /\ now[d] < CronAdvance(j, now[d])
      BY CronNextLater DEF CronAdvance, TypeOK
    <3> DEFINE s == [jobs[j] EXCEPT !.next = CronAdvance(j, now[d])]
    <3>3. jobs'[j] = s
      BY <2>1, <2>3 DEF AdvancedRows
    <3>4. s \in Row /\ s # NoRow
      <4>1. s \in Row
        BY <3>1, <3>2, RowExcept
      <4> QED
        BY <4>1, CronAssumption DEF Row
    <3>5. s.node = jobs[j].node /\ s.active = jobs[j].active
          /\ s.next = CronAdvance(j, now[d])
      BY <3>1 DEF Row
    <3>6. jobs[j].next <= s.next
      BY <3>1, <3>2, <3>5 DEF Row, TypeOK
    <3> HIDE DEF s
    <3> QED
      BY <3>1, <3>3, <3>4, <3>5, <3>6 DEF Moved
  <2> QED
    BY <2>2, <2>3
<1>3. ASSUME NEW k \in Jobs, Schedule(k), NEW j \in Jobs
      PROVE  Moved(jobs[j], jobs'[j])
  <2>1. PICK s \in JobSpecs : jobs' = [jobs EXCEPT ![k] = ArmedRow(k, s, clock)]
    BY <1>3 DEF Schedule, Command
  <2>2. ArmedRow(k, s, clock) \in Row /\ ArmedRow(k, s, clock) # NoRow
    BY ArmedRowType, CronAssumption DEF TypeOK, Row
  <2>3. clock < ArmedRow(k, s, clock).next
    BY CronNextLater DEF ArmedRow, TypeOK
  <2> QED
    BY <2>1, <2>2, <2>3 DEF Moved, TypeOK
<1>4. ASSUME NEW k \in Jobs, Unschedule(k), NEW j \in Jobs
      PROVE  Moved(jobs[j], jobs'[j])
  BY <1>4 DEF Unschedule, Command, Moved, TypeOK
<1>5. ASSUME NEW k \in Jobs, Activate(k), NEW j \in Jobs
      PROVE  Moved(jobs[j], jobs'[j])
  <2> DEFINE s == [jobs[k] EXCEPT !.active = TRUE, !.next = CronNext(k, clock)]
  <2>1. jobs' = [jobs EXCEPT ![k] = s] /\ jobs[k] \in Row
    BY <1>5 DEF Activate, Command, Exists, TypeOK
  <2>2. CronNext(k, clock) \in Nat /\ clock < CronNext(k, clock)
    BY CronNextLater DEF TypeOK
  <2>3. s \in Row
    BY <2>1, <2>2, RowExcept
  <2>4. s.next = CronNext(k, clock) /\ s # NoRow
    BY <2>1, <2>3, CronAssumption DEF Row
  <2> HIDE DEF s
  <2> QED
    BY <2>1, <2>2, <2>4 DEF Moved, TypeOK
<1>6. ASSUME NEW k \in Jobs, Deactivate(k), NEW j \in Jobs
      PROVE  Moved(jobs[j], jobs'[j])
  <2> DEFINE s == [jobs[k] EXCEPT !.active = FALSE]
  <2>1. jobs' = [jobs EXCEPT ![k] = s] /\ jobs[k] \in Row
    BY <1>6 DEF Deactivate, Command, Exists, TypeOK
  <2>2. s \in Row
    BY <2>1, RowExcept
  <2>3. ~s.active /\ s # NoRow
    BY <2>1, <2>2, CronAssumption DEF Row
  <2> HIDE DEF s
  <2> QED
    BY <2>1, <2>3 DEF Moved, TypeOK
<1>7. ~ForceAll /\ \A k \in Jobs : ~ForceJob(k)
  BY DEF ForceAll, ForceJob, Command
<1>8. ASSUME NEW d \in Drivers, Driver(d), ~PreAdvance(d) PROVE jobs' = jobs
  BY <1>8 DEF Driver, Tick, Start, BeginTick, ReadDue, ReadCatalog, TickError, Abort,
    AcquireLease, Contend, UseCatalog, SkipJob, FinishSql, RestoreCatalog, RecordRun,
    ReleaseLease, EndTick, TrimRuns, Crash
<1>9. Elapse \/ UNCHANGED vars => jobs' = jobs
  BY DEF Elapse, vars
<1> QED
  BY <1>1, <1>2, <1>3, <1>4, <1>5, <1>6, <1>7, <1>8, <1>9 DEF Next, Operator

\* A closed window stays closed, and a row that is due for a driver's node
\* stays so or is closed.
LEMMA StaysClosed ==
  ASSUME TypeOK, TypeOK', NEW j \in Jobs, NEW t \in Nat, t <= clock,
         Moved(jobs[j], jobs'[j]), NEW d \in Drivers
  PROVE  /\ ClosedRow(jobs[j], t) => ClosedRow(jobs'[j], t)
         /\ ClosedRow(jobs[j], t) \/ RowFor(jobs[j], d) =>
              ClosedRow(jobs'[j], t) \/ RowFor(jobs'[j], d)
<1>1. /\ jobs[j] \in Row \cup {NoRow} /\ jobs'[j] \in Row \cup {NoRow}
      /\ clock \in Nat
  BY DEF TypeOK
<1> QED
  BY <1>1 DEF Moved, ClosedRow, RowFor, Row

\* A step that leaves what d has executed, and adds nothing to what it is
\* about to execute.
Still(d) ==
  /\ now'[d] = now[d] /\ fires'[d] = fires[d] /\ clock <= clock'
  /\ Pending(d)' \subseteq Pending(d)
  /\ pc'[d] = "use" => cur'[d] \notin due'[d]
  /\ pc'[d] = "advance" => pc[d] = "advance"
  /\ pc'[d] \in AfterAdvance => pc[d] \in AfterAdvance
  /\ pc'[d] \notin AfterRead => due'[d] = {}

\* The windows that are pending have jobs and marks.
LEMMA PendingEntries ==
  ASSUME TypeOK, NEW d \in Drivers
  PROVE  \A e \in Pending(d) : e \in Entry /\ e.job \in Jobs /\ e.mark \in Nat
BY DEF TypeOK, Pending, Busy, Entry

LEMMA StillKeeps ==
  ASSUME TypeOK, TypeOK', NowPast, NowPast', NEW d \in Drivers, Windows(d), Still(d),
         \A j \in Jobs : Moved(jobs[j], jobs'[j])
  PROVE  Windows(d)'
<1>1. \A e \in Pending(d) : e \in Entry /\ e.job \in Jobs /\ e.mark \in Nat
  BY PendingEntries
<1>2. now[d] \in Nat /\ now[d] <= clock
  BY DEF TypeOK, NowPast
<1>3. Single(d)' /\ Come(d)' /\ Fresh(d)' /\ Ordered(d)'
  BY <1>1 DEF Windows, Still, Single, Come, Fresh, Ordered
<1>4. Reserved(d)'
  <2> SUFFICES ASSUME pc'[d] = "advance", NEW e \in due'[d]
               PROVE  ClosedRow(jobs'[e.job], now'[d]) \/ RowFor(jobs'[e.job], d)
    BY DEF Reserved, Closed
  <2>1. pc[d] = "advance" /\ e \in due[d] /\ e.job \in Jobs
    BY <1>1 DEF Still, Pending
  <2>2. ClosedRow(jobs[e.job], now[d]) \/ RowFor(jobs[e.job], d)
    BY <2>1 DEF Windows, Reserved, Closed
  <2> QED
    BY <1>2, <2>1, <2>2, StaysClosed DEF Still
<1>5. Advanced(d)'
  <2> SUFFICES ASSUME pc'[d] \in AfterAdvance, NEW e \in Pending(d)'
               PROVE  ClosedRow(jobs'[e.job], now'[d])
    BY DEF Advanced, Closed
  <2>1. e \in Pending(d) /\ e.job \in Jobs /\ ClosedRow(jobs[e.job], now[d])
    BY <1>1 DEF Still, Windows, Advanced, Closed
  <2> QED
    BY <1>2, <2>1, StaysClosed DEF Still
<1>6. Spent(d)'
  <2> SUFFICES ASSUME NEW j \in Jobs, NEW f \in fires'[d][j]
               PROVE  f.mark <= f.at /\ f.at <= clock' /\ ClosedRow(jobs'[j], f.at)
    BY DEF Spent, Closed
  <2>1. f \in fires[d][j] /\ f.mark <= f.at /\ f.at <= clock /\ ClosedRow(jobs[j], f.at)
    BY DEF Still, Windows, Spent, Closed
  <2>2. f.at \in Nat
    BY <2>1 DEF TypeOK, Fire
  <2>3. f.at <= clock'
    BY <2>1, <2>2 DEF Still, TypeOK
  <2> QED
    BY <2>1, <2>2, <2>3, StaysClosed
<1> QED
  BY <1>3, <1>4, <1>5, <1>6 DEF Windows

\* d hands the window e to the core: it was pending and is not any more.
Executes(d, e) ==
  /\ e \in Pending(d) /\ Execute(d, e)
  /\ Pending(d)' \subseteq Pending(d) \ {e}
  /\ pc[d] \in AfterAdvance /\ pc'[d] = "exec"
  /\ jobs' = jobs /\ now' = now /\ clock' = clock

\* What each step is to a driver's windows.
LEMMA WindowSteps ==
  ASSUME TypeOK, TypeOK', [Next]_vars, NEW d \in Drivers, Single(d), Come(d)
  PROVE  \/ Still(d) \/ BeginTick(d) \/ ReadDue(d) \/ PreAdvance(d)
         \/ \E e \in Entry : Executes(d, e)
<1> USE DEF tables, conn, tick, history, bounds
<1> DEFINE same == /\ now'[d] = now[d] /\ fires'[d] = fires[d]
                   /\ pc'[d] = pc[d] /\ due'[d] = due[d] /\ cur'[d] = cur[d]
<1>1. ASSUME same, clock <= clock' PROVE Still(d)
  BY <1>1 DEF Still, Pending, Single, Come
<1>2. clock \in Nat /\ clock' = clock => clock <= clock'
  OBVIOUS
<1>3. clock \in Nat
  BY DEF TypeOK
<1>4. ASSUME NEW x \in Drivers, Driver(x) PROVE clock' = clock
  BY <1>4 DEF Driver, Tick, Start, BeginTick, ReadDue, PreAdvance, ReadCatalog, TickError,
    Abort, AcquireLease, Contend, UseCatalog, SkipJob, FinishSql, RestoreCatalog,
    RecordRun, ReleaseLease, EndTick, TrimRuns, Crash
<1>5. ASSUME NEW x \in Drivers \ {d}, Driver(x) PROVE same
  <2>1. CASE Start(x) \/ BeginTick(x) \/ ReadDue(x) \/ PreAdvance(x) \/ ReadCatalog(x)
    BY <2>1 DEF Start, BeginTick, ReadDue, PreAdvance, ReadCatalog, Goto, TypeOK
  <2>2. CASE TickError(x) \/ EndTick(x) \/ Crash(x)
    BY <2>2 DEF TickError, Abort, EndTick, Crash, Leave, Goto, TypeOK
  <2>3. CASE Contend(x) \/ SkipJob(x) \/ FinishSql(x) \/ RestoreCatalog(x)
    BY <2>3 DEF Contend, SkipJob, FinishSql, RestoreCatalog, Goto, TypeOK
  <2>4. CASE RecordRun(x) \/ ReleaseLease(x) \/ TrimRuns(x)
    BY <2>4 DEF RecordRun, ReleaseLease, TrimRuns, Goto, TypeOK
  <2>5. CASE AcquireLease(x)
    BY <2>5 DEF AcquireLease, Execute, Goto, TypeOK
  <2>6. CASE UseCatalog(x)
    BY <2>6 DEF UseCatalog, Execute, Goto, TypeOK
  <2> QED
    BY <1>5, <2>1, <2>2, <2>3, <2>4, <2>5, <2>6 DEF Driver, Tick
<1>6. Operator \/ UNCHANGED vars => same /\ clock' = clock
  BY DEF Operator, Schedule, Unschedule, Activate, Deactivate, ForceJob, ForceAll,
    Command, vars
<1>7. Elapse => same /\ clock <= clock'
  BY <1>3 DEF Elapse
<1> HIDE DEF same
<1>8. ASSUME clock' = clock, now'[d] = now[d], fires'[d] = fires[d],
             pc'[d] \in {"idle", "trim", "down"}, due'[d] = {}
      PROVE  Still(d)
  BY <1>3, <1>8 DEF Still, Pending, AfterRead, AfterAdvance
<1>9. CASE Start(d) \/ TrimRuns(d)
  <2>1. /\ clock' = clock /\ now' = now /\ fires' = fires /\ due' = due
        /\ pc'[d] = "idle" /\ pc[d] \in {"down", "trim"}
    BY <1>9 DEF Start, TrimRuns, Goto, TypeOK
  <2>2. due[d] = {}
    BY <2>1 DEF Come, AfterRead, AfterAdvance
  <2> QED
    BY <1>8, <2>1, <2>2
<1>10. CASE TickError(d) \/ EndTick(d) \/ Crash(d)
  <2>1. /\ clock' = clock /\ now' = now /\ fires' = fires
        /\ pc'[d] \in {"idle", "trim", "down"} /\ due'[d] = {}
    BY <1>10 DEF TickError, Abort, EndTick, Crash, Leave, Goto, TypeOK
  <2> QED
    BY <1>8, <2>1
<1>11. ASSUME clock' = clock, now'[d] = now[d], fires'[d] = fires[d],
              pc[d] \in AfterAdvance, pc'[d] \in AfterAdvance, pc'[d] # "use",
              due'[d] \subseteq due[d]
       PROVE  Still(d)
  BY <1>3, <1>11 DEF Still, Pending, AfterRead, AfterAdvance
<1>12. CASE ReadCatalog(d) \/ Contend(d) \/ SkipJob(d)
  BY <1>11, <1>12 DEF ReadCatalog, Contend, SkipJob, Goto, AfterAdvance, TypeOK
<1>13. CASE FinishSql(d) \/ RestoreCatalog(d) \/ RecordRun(d) \/ ReleaseLease(d)
  BY <1>11, <1>13 DEF FinishSql, RestoreCatalog, RecordRun, ReleaseLease, Goto,
    AfterAdvance, TypeOK
<1>14. CASE AcquireLease(d)
  <2>1. PICK e \in NextDue(d) :
          /\ due' = [due EXCEPT ![d] = @ \ {e}]
          /\ cur' = [cur EXCEPT ![d] = e]
          /\ IF e.db = NoDb THEN Goto(d, "exec") /\ Execute(d, e)
                            ELSE Goto(d, "use") /\ UNCHANGED fires
    BY <1>14 DEF AcquireLease
  <2>2. e \in due[d] /\ e \in Entry
    BY DEF NextDue, TypeOK
  <2>3. /\ pc[d] = "lease" /\ jobs' = jobs /\ now' = now /\ clock' = clock
        /\ due'[d] = due[d] \ {e} /\ cur'[d] = e
    BY <1>14, <2>1 DEF AcquireLease, TypeOK
  <2>4. Pending(d) = due[d]
    BY <2>3 DEF Pending
  <2>5. CASE e.db = NoDb
    <3>1. pc'[d] = "exec" /\ Execute(d, e)
      BY <2>1, <2>5 DEF Goto, TypeOK
    <3>2. Pending(d)' = due[d] \ {e}
      BY <2>3, <3>1 DEF Pending
    <3> QED
      BY <2>2, <2>3, <2>4, <3>1, <3>2 DEF Executes, AfterAdvance
  <2>6. CASE e.db # NoDb
    <3>1. pc'[d] = "use" /\ fires' = fires
      BY <2>1, <2>6 DEF Goto, TypeOK
    <3>2. Pending(d)' = due[d]
      BY <2>2, <2>3, <3>1 DEF Pending
    <3> QED
      BY <1>3, <2>3, <2>4, <3>1, <3>2 DEF Still, AfterAdvance, AfterRead
  <2> QED
    BY <2>5, <2>6
<1>15. CASE UseCatalog(d)
  <2>1. /\ pc[d] = "use" /\ pc'[d] = "exec" /\ Execute(d, cur[d])
        /\ jobs' = jobs /\ now' = now /\ clock' = clock /\ due' = due
    BY <1>15 DEF UseCatalog, Goto, TypeOK
  <2>2. cur[d] \in Entry /\ cur[d] \notin due[d]
    BY <2>1 DEF TypeOK, Busy, Single
  <2>3. cur[d] \in Pending(d) /\ Pending(d)' \subseteq Pending(d) \ {cur[d]}
    BY <2>1, <2>2 DEF Pending
  <2> QED
    BY <2>1, <2>2, <2>3 DEF Executes, AfterAdvance
<1>16. ASSUME NEW x \in Drivers, Driver(x), x # d PROVE Still(d)
  BY <1>1, <1>2, <1>3, <1>4, <1>5, <1>16
<1>17. CASE Driver(d)
  BY <1>9, <1>10, <1>12, <1>13, <1>14, <1>15, <1>17 DEF Driver, Tick
<1> QED
  BY <1>1, <1>2, <1>3, <1>6, <1>7, <1>16, <1>17 DEF Next

\* A tick begins with nothing pending.
LEMMA BeginKeeps ==
  ASSUME TypeOK, TypeOK', NowPast, NEW d \in Drivers, Windows(d), BeginTick(d)
  PROVE  Windows(d)'
<1>1. /\ pc[d] = "idle" /\ pc'[d] = "read" /\ due'[d] = due[d]
      /\ fires' = fires /\ jobs' = jobs /\ clock' = clock
  BY DEF BeginTick, Goto, TypeOK, tables, history
<1>2. due[d] = {} /\ Pending(d)' = {}
  BY <1>1 DEF Windows, Come, AfterRead, AfterAdvance, Pending
<1>3. Spent(d)' /\ Ordered(d)'
  BY <1>1 DEF Windows, Spent, Closed, Ordered
<1> QED
  BY <1>1, <1>2, <1>3
  DEF Windows, Single, Come, Reserved, Advanced, Fresh, AfterRead, AfterAdvance

\* The due query finds windows that came after all that were executed.
LEMMA ReadKeeps ==
  ASSUME TypeOK, TypeOK', NowPast, NEW d \in Drivers, Windows(d), ReadDue(d)
  PROVE  Windows(d)'
<1>1. /\ pc'[d] = IF DueEntries(d) = {} THEN "idle" ELSE "advance"
      /\ due'[d] = DueEntries(d) /\ now' = now
      /\ fires' = fires /\ jobs' = jobs /\ clock' = clock
  BY DEF ReadDue, Goto, TypeOK, tables, history
<1>2. Pending(d)' = DueEntries(d)
  BY <1>1 DEF Pending
<1>3. ASSUME NEW e \in DueEntries(d)
      PROVE  /\ e.job \in Jobs /\ IsDue(e.job, d, now[d])
             /\ e = [job |-> e.job, mark |-> jobs[e.job].next, db |-> jobs[e.job].db,
                     catchUp |-> jobs[e.job].catchUp]
             /\ e.mark = jobs[e.job].next
  <2>1. PICK j \in Jobs : /\ IsDue(j, d, now[d])
                          /\ e = [job |-> j, mark |-> jobs[j].next, db |-> jobs[j].db,
                                  catchUp |-> jobs[j].catchUp]
    BY DEF DueEntries
  <2> QED
    BY <2>1
<1>4. Single(d)' /\ Come(d)'
  <2>1. \A e, f \in DueEntries(d) : e.job = f.job => e = f
    <3> SUFFICES ASSUME NEW e \in DueEntries(d), NEW f \in DueEntries(d), e.job = f.job
                 PROVE  e = f
      OBVIOUS
    <3>1. e = [job |-> e.job, mark |-> jobs[e.job].next, db |-> jobs[e.job].db,
               catchUp |-> jobs[e.job].catchUp]
      BY <1>3
    <3>2. f = [job |-> f.job, mark |-> jobs[f.job].next, db |-> jobs[f.job].db,
               catchUp |-> jobs[f.job].catchUp]
      BY <1>3
    <3> QED
      BY <3>1, <3>2
  <2>2. \A e \in DueEntries(d) : e.mark <= now[d]
    BY <1>3 DEF IsDue
  <2> QED
    BY <1>1, <1>2, <2>1, <2>2 DEF Single, Come, AfterRead
<1>5. Reserved(d)' /\ Advanced(d)'
  <2>1. \A e \in DueEntries(d) : RowFor(jobs[e.job], d)
    BY <1>3 DEF IsDue, ForNode, RowFor
  <2> QED
    BY <1>1, <2>1 DEF Reserved, Advanced, AfterAdvance
<1>6. Fresh(d)'
  <2> SUFFICES ASSUME NEW e \in DueEntries(d), NEW f \in fires[d][e.job]
               PROVE  f.at < e.mark
    BY <1>1, <1>2 DEF Fresh
  <2>1. e.job \in Jobs /\ Closed(e.job, f.at)
    BY <1>3 DEF Windows, Spent
  <2> QED
    BY <1>3, <2>1 DEF Closed, ClosedRow, IsDue, Exists
<1>7. Spent(d)' /\ Ordered(d)'
  BY <1>1 DEF Windows, Spent, Closed, Ordered
<1> QED
  BY <1>4, <1>5, <1>6, <1>7 DEF Windows

\* The pre-advance closes the windows that were read, unless they are closed.
LEMMA AdvanceKeeps ==
  ASSUME TypeOK, TypeOK', NowPast, NEW d \in Drivers, Windows(d), PreAdvance(d),
         \A j \in Jobs : Moved(jobs[j], jobs'[j])
  PROVE  Windows(d)'
<1>1. /\ pc[d] = "advance" /\ pc'[d] \in {"catalog", "lease"} /\ due' = due /\ now' = now
      /\ fires' = fires /\ jobs' = AdvancedRows(d) /\ clock' = clock
  BY DEF PreAdvance, Goto, TypeOK, tick, history
<1>2. Pending(d)' = due[d] /\ Pending(d) = due[d]
  BY <1>1 DEF Pending
<1>3. now[d] \in Nat /\ now[d] <= clock
  BY DEF TypeOK, NowPast
<1>4. Single(d)' /\ Come(d)' /\ Reserved(d)' /\ Fresh(d)' /\ Ordered(d)'
  BY <1>1, <1>2
  DEF Windows, Single, Come, Reserved, Fresh, Ordered, AfterRead, AfterAdvance
<1>5. Advanced(d)'
  <2> SUFFICES ASSUME NEW e \in due[d]
               PROVE  ClosedRow(jobs'[e.job], now[d])
    BY <1>1, <1>2 DEF Advanced, Closed
  <2> DEFINE j == e.job
             r == jobs[j]
  <2>1. j \in Jobs
    BY <1>2, PendingEntries
  <2>2. CASE ClosedRow(r, now[d])
    BY <1>3, <2>1, <2>2, StaysClosed
  <2>3. CASE ~ClosedRow(r, now[d])
    <3>1. RowFor(r, d)
      BY <1>1, <2>3 DEF Windows, Reserved, Closed
    <3>2. r # NoRow /\ r.active /\ r.next <= now[d]
      <4>1. r \in Row \cup {NoRow}
        BY <2>1 DEF TypeOK
      <4> QED
        BY <1>3, <2>3, <4>1 DEF ClosedRow, Row
    <3>3. IsDue(j, d, now[d])
      BY <3>1, <3>2 DEF IsDue, Exists, ForNode, RowFor
    <3>4. jobs'[j] = [jobs[j] EXCEPT !.next = CronAdvance(j, now[d])]
      BY <1>1, <2>1, <3>3 DEF AdvancedRows
    <3>5. jobs'[j].next = CronAdvance(j, now[d])
      <4>1. jobs[j] \in Row
        BY <2>1, <3>2 DEF TypeOK
      <4> QED
        BY <3>4, <4>1 DEF Row
    <3>6. now[d] < CronAdvance(j, now[d])
      BY <1>3, <2>1, CronNextLater DEF CronAdvance
    <3> QED
      BY <3>5, <3>6 DEF ClosedRow
  <2> QED
    BY <2>2, <2>3
<1>6. Spent(d)'
  <2> SUFFICES ASSUME NEW j \in Jobs, NEW f \in fires[d][j]
               PROVE  f.mark <= f.at /\ f.at <= clock' /\ ClosedRow(jobs'[j], f.at)
    BY <1>1 DEF Spent, Closed
  <2>1. f.mark <= f.at /\ f.at <= clock /\ ClosedRow(jobs[j], f.at)
    BY DEF Windows, Spent, Closed
  <2>2. f.at \in Nat
    BY DEF TypeOK, Fire
  <2> QED
    BY <1>1, <2>1, <2>2, StaysClosed
<1> QED
  BY <1>4, <1>5, <1>6 DEF Windows

\* Executing a pending window keeps what is known of the windows.
LEMMA ExecuteKeeps ==
  ASSUME TypeOK, TypeOK', NowPast, NEW d \in Drivers, Windows(d),
         NEW e \in Entry, Executes(d, e)
  PROVE  Windows(d)'
<1> DEFINE new == [mark |-> e.mark, at |-> now[d]]
<1>1. /\ e.job \in Jobs /\ e.mark \in Nat /\ now[d] \in Nat /\ now[d] <= clock
  BY DEF TypeOK, NowPast, Entry
<1>2. /\ e \in Pending(d) /\ Pending(d)' \subseteq Pending(d) \ {e}
      /\ pc[d] \in AfterAdvance /\ pc'[d] = "exec"
      /\ jobs' = jobs /\ now' = now /\ clock' = clock
  BY DEF Executes
<1>3. /\ fires'[d][e.job] = fires[d][e.job] \cup {new}
      /\ \A j \in Jobs : j # e.job => fires'[d][j] = fires[d][j]
  BY <1>1 DEF Executes, Execute, TypeOK
<1>4. new.mark = e.mark /\ new.at = now[d]
  OBVIOUS
<1> HIDE DEF new
<1>5. e.mark <= now[d] /\ Closed(e.job, now[d]) /\ \A f \in fires[d][e.job] : f.at < e.mark
  BY <1>2 DEF Windows, Come, Advanced, Fresh
<1>6. Single(d)' /\ Come(d)' /\ Reserved(d)' /\ Advanced(d)'
  BY <1>2 DEF Windows, Single, Come, Reserved, Advanced, Closed, AfterRead, AfterAdvance
<1>7. Fresh(d)'
  <2> SUFFICES ASSUME NEW x \in Pending(d)', NEW f \in fires'[d][x.job]
               PROVE  f.at < x.mark
    BY DEF Fresh
  <2>1. x \in Pending(d) /\ x.job # e.job /\ x.job \in Jobs
    BY <1>2, PendingEntries DEF Windows, Single
  <2> QED
    BY <1>3, <2>1 DEF Windows, Fresh
<1>8. Spent(d)'
  <2> SUFFICES ASSUME NEW j \in Jobs, NEW f \in fires'[d][j]
               PROVE  f.mark <= f.at /\ f.at <= clock /\ Closed(j, f.at)
    BY <1>2 DEF Spent, Closed
  <2>1. CASE f \in fires[d][j]
    BY <2>1 DEF Windows, Spent
  <2>2. CASE f \notin fires[d][j]
    BY <1>1, <1>3, <1>4, <1>5, <2>2
  <2> QED
    BY <2>1, <2>2
<1>9. Ordered(d)'
  <2> SUFFICES ASSUME NEW j \in Jobs, NEW f \in fires'[d][j], NEW g \in fires'[d][j]
               PROVE  f = g \/ f.at < g.mark \/ g.at < f.mark
    BY DEF Ordered
  <2>1. CASE f \in fires[d][j] /\ g \in fires[d][j]
    BY <2>1 DEF Windows, Ordered
  <2>2. CASE j = e.job
    BY <1>3, <1>4, <1>5, <2>1, <2>2
  <2> QED
    BY <1>3, <2>1, <2>2
<1> QED
  BY <1>6, <1>7, <1>8, <1>9 DEF Windows

\* The windows of every driver, as long as nobody uses `force`.
LEMMA WindowInvariance ==
  ASSUME "force" \notin Commands
  PROVE  Spec => []WindowInv
<1>1. Init => WindowInv
  <2> SUFFICES ASSUME Init, NEW d \in Drivers PROVE Windows(d)
    BY DEF WindowInv
  <2>1. pc[d] = "down" /\ due[d] = {} /\ \A j \in Jobs : fires[d][j] = {}
    BY DEF Init
  <2>2. Pending(d) = {}
    BY <2>1 DEF Pending
  <2> QED
    BY <2>1, <2>2
    DEF Windows, Single, Come, Reserved, Advanced, Fresh, Spent, Ordered, AfterAdvance
<1>2. TypeOK /\ TypeOK' /\ NowPast /\ NowPast' /\ WindowInv /\ [Next]_vars => WindowInv'
  <2> SUFFICES ASSUME TypeOK, TypeOK', NowPast, NowPast', WindowInv, [Next]_vars,
                      NEW d \in Drivers
               PROVE  Windows(d)'
    BY DEF WindowInv
  <2>1. \A j \in Jobs : Moved(jobs[j], jobs'[j])
    BY RowsMove
  <2>2. Windows(d) /\ Single(d) /\ Come(d)
    BY DEF WindowInv, Windows
  <2>3. CASE Still(d)
    BY <2>1, <2>2, <2>3, StillKeeps
  <2>4. CASE BeginTick(d)
    BY <2>2, <2>4, BeginKeeps
  <2>5. CASE ReadDue(d)
    BY <2>2, <2>5, ReadKeeps
  <2>6. CASE PreAdvance(d)
    BY <2>1, <2>2, <2>6, AdvanceKeeps
  <2>7. ASSUME NEW e \in Entry, Executes(d, e) PROVE Windows(d)'
    BY <2>2, <2>7, ExecuteKeeps
  <2> QED
    BY <2>2, <2>3, <2>4, <2>5, <2>6, <2>7, WindowSteps
<1> QED
  BY <1>1, <1>2, Typing, NowInvariant, PTL DEF Spec

\* No window that a driver process has executed comes back to that driver,
\* whatever crashes, restarts, failing statements, operator commands other
\* than `force` and drivers on the same jobs come between: the pre-advance
\* moves next_run_at past the tick before the job's SQL runs.
THEOREM NeverRefires ==
  ASSUME "force" \notin Commands
  PROVE  Spec => []NoRefire
<1>1. TypeOK /\ WindowInv => NoRefire
  <2> SUFFICES ASSUME TypeOK, WindowInv, NEW d \in Drivers, NEW e \in Pending(d),
                      NEW f \in fires[d][e.job], f.mark = e.mark
               PROVE  FALSE
    BY DEF NoRefire, Marks
  <2>1. e.job \in Jobs
    BY PendingEntries
  <2>2. f.mark \in Nat /\ f.at \in Nat
    BY <2>1 DEF TypeOK, Fire
  <2>3. f.mark <= f.at /\ f.at < e.mark
    BY <2>1 DEF WindowInv, Windows, Spent, Fresh
  <2> QED
    BY <2>2, <2>3
<1> QED
  BY <1>1, Typing, WindowInvariance, PTL

\* Of the windows whose time came while a driver was down it executes one at
\* most when it is up again: the tick that finds the job due closes them all.
THEOREM CatchesUpOnce ==
  ASSUME "force" \notin Commands
  PROVE  Spec => []OneCatchUpPerGap
<1>1. TypeOK /\ WindowInv => OneCatchUpPerGap
  <2> SUFFICES ASSUME TypeOK, WindowInv, NEW d \in Drivers, NEW j \in Jobs
               PROVE  Cardinality(CaughtUp(d, j)) <= 1
    BY DEF OneCatchUpPerGap
  <2>1. ASSUME NEW f \in CaughtUp(d, j), NEW g \in CaughtUp(d, j) PROVE f = g
    <3>1. f \in fires[d][j] /\ g \in fires[d][j] /\ upSince[d] \in Nat
      BY DEF CaughtUp, TypeOK
    <3>2. f.mark \in Nat /\ f.at \in Nat /\ g.mark \in Nat /\ g.at \in Nat
      BY <3>1 DEF TypeOK, Fire
    <3>3. f.mark <= upSince[d] /\ upSince[d] <= f.at
          /\ g.mark <= upSince[d] /\ upSince[d] <= g.at
      BY DEF CaughtUp
    <3>4. f = g \/ f.at < g.mark \/ g.at < f.mark
      BY <3>1 DEF WindowInv, Windows, Ordered
    <3> QED
      BY <3>1, <3>2, <3>3, <3>4
  <2>2. CASE CaughtUp(d, j) = {}
    <3>1. Cardinality(CaughtUp(d, j)) = 0
      BY <2>2, FS_EmptySet
    <3> QED
      BY <3>1
  <2>3. CASE CaughtUp(d, j) # {}
    <3>1. PICK f \in CaughtUp(d, j) : CaughtUp(d, j) = {f}
      BY <2>1, <2>3
    <3>2. Cardinality(CaughtUp(d, j)) = 1
      BY <3>1, FS_Singleton
    <3> QED
      BY <3>2
  <2> QED
    BY <2>2, <2>3
<1> QED
  BY <1>1, Typing, WindowInvariance, PTL

-----------------------------------------------------------------------------
(* The current catalog.                                                    *)

\* A driver's connection is in its own catalog, but for the job's SQL of a
\* cross-catalog job; such a job is only in a tick that knows the way back.
AtHome(d) ==
  /\ ~poisoned[d]
  /\ orig[d] \in {NoDb, Home}
  /\ pc[d] \notin {"exec", "restore", "down"} => catalog[d] = Home
  /\ pc[d] = "exec" /\ cur[d].db = NoDb => catalog[d] = Home
  /\ pc[d] \in {"lease"} \cup Busy => \A e \in due[d] : e.db # NoDb => orig[d] = Home
  /\ pc[d] \in Busy => (cur[d].db # NoDb => orig[d] = Home)
CatalogInv == \A d \in Drivers : AtHome(d)

\* The faults that leave a connection elsewhere: the core traps, the job's
\* SQL changes the catalog itself, or `USE <original>` fails.
LEMMA CatalogInvariance ==
  ASSUME Faults \cap {"trap", "wander", "restore"} = {}
  PROVE  Spec => []CatalogInv
<1>1. Init => CatalogInv
  BY DEF Init, CatalogInv, AtHome, Busy
<1>2. TypeOK /\ TypeOK' /\ CatalogInv /\ [Next]_vars => CatalogInv'
  <2> SUFFICES ASSUME TypeOK, TypeOK', CatalogInv, [Next]_vars, NEW d \in Drivers
               PROVE  AtHome(d)'
    BY DEF CatalogInv
  <2> USE DEF tables, conn, tick, history, bounds
  <2> DEFINE same == /\ pc'[d] = pc[d] /\ due'[d] = due[d] /\ cur'[d] = cur[d]
                     /\ catalog'[d] = catalog[d] /\ orig'[d] = orig[d]
                     /\ poisoned'[d] = poisoned[d]
  <2>1. AtHome(d)
    BY DEF CatalogInv
  <2>2. ASSUME same PROVE AtHome(d)'
    BY <2>1, <2>2 DEF AtHome
  <2>3. ASSUME NEW x \in Drivers \ {d}, Driver(x) PROVE same
    <3>1. CASE Start(x) \/ BeginTick(x) \/ ReadDue(x)
      BY <3>1 DEF Start, BeginTick, ReadDue, Goto, TypeOK
    <3>6. CASE PreAdvance(x) \/ ReadCatalog(x)
      BY <3>6 DEF PreAdvance, ReadCatalog, Goto, TypeOK
    <3>2. CASE TickError(x) \/ EndTick(x)
      BY <3>2 DEF TickError, Abort, EndTick, Leave, Goto, TypeOK
    <3>7. CASE Crash(x)
      BY <3>7 DEF Crash, Leave, Goto, TypeOK
    <3>3. CASE Contend(x) \/ SkipJob(x)
      BY <3>3 DEF Contend, SkipJob, Goto, TypeOK
    <3>8. CASE FinishSql(x)
      BY <3>8 DEF FinishSql, Goto, TypeOK
    <3>9. CASE RestoreCatalog(x)
      BY <3>9 DEF RestoreCatalog, Goto, TypeOK
    <3>4. CASE RecordRun(x) \/ ReleaseLease(x) \/ TrimRuns(x)
      BY <3>4 DEF RecordRun, ReleaseLease, TrimRuns, Goto, TypeOK
    <3>5. CASE AcquireLease(x) \/ UseCatalog(x)
      BY <3>5 DEF AcquireLease, UseCatalog, Goto, TypeOK
    <3> QED
      BY <2>3, <3>1, <3>2, <3>3, <3>4, <3>5, <3>6, <3>7, <3>8, <3>9
        DEF Driver, Tick
  <2>4. Operator \/ Elapse \/ UNCHANGED vars => same
    BY DEF Operator, Schedule, Unschedule, Activate, Deactivate, ForceJob, ForceAll,
      Command, Elapse, vars
  <2> HIDE DEF same
  <2>5. CASE Start(d) \/ BeginTick(d) \/ ReadDue(d) \/ RecordRun(d) \/ TrimRuns(d)
    BY <2>1, <2>5 DEF AtHome, Start, BeginTick, ReadDue, RecordRun, TrimRuns, Goto,
      Busy, TypeOK
  <2>6. CASE PreAdvance(d)
    BY <2>1, <2>6 DEF AtHome, PreAdvance, NeedsSwitch, Goto, Busy, TypeOK
  <2>7. CASE ReadCatalog(d)
    BY <2>1, <2>7 DEF AtHome, ReadCatalog, Goto, Busy, TypeOK
  <2>8. CASE TickError(d) \/ EndTick(d) \/ Crash(d)
    BY <2>1, <2>8 DEF AtHome, TickError, Abort, EndTick, Crash, Leave, Goto, Busy, TypeOK
  <2>9. CASE AcquireLease(d)
    <3>1. PICK e \in NextDue(d) :
            /\ due' = [due EXCEPT ![d] = @ \ {e}]
            /\ cur' = [cur EXCEPT ![d] = e]
            /\ IF e.db = NoDb THEN Goto(d, "exec") ELSE Goto(d, "use")
      BY <2>9 DEF AcquireLease
    <3>2. e \in due[d]
      BY DEF NextDue
    <3>3. /\ pc[d] = "lease" /\ catalog' = catalog /\ orig' = orig /\ poisoned' = poisoned
          /\ pc'[d] \in {"exec", "use"} /\ due'[d] = due[d] \ {e} /\ cur'[d] = e
      BY <2>9, <3>1 DEF AcquireLease, Goto, TypeOK
    <3> QED
      BY <2>1, <3>2, <3>3 DEF AtHome, Busy
  <2>10. CASE Contend(d) \/ SkipJob(d) \/ ReleaseLease(d)
    BY <2>1, <2>10 DEF AtHome, Contend, SkipJob, ReleaseLease, Goto, Busy, TypeOK
  <2>11. CASE UseCatalog(d)
    <3>1. cur[d].db # NoDb
      BY <2>11, CronAssumption DEF UseCatalog, TypeOK
    <3> QED
      BY <2>1, <2>11, <3>1 DEF AtHome, UseCatalog, Goto, Busy, TypeOK
  <2>12. CASE FinishSql(d)
    <3>1. poisoned'[d] = poisoned[d] /\ catalog'[d] = catalog[d]
      <4>1. PICK trapped \in {FALSE} : poisoned' = [poisoned EXCEPT ![d] = poisoned[d] \/ trapped]
        BY <2>12 DEF FinishSql
      <4>2. PICK c \in {catalog[d]} : catalog' = [catalog EXCEPT ![d] = c]
        BY <2>12 DEF FinishSql
      <4>3. catalog \in [Drivers -> Catalogs \cup {Home}] /\ poisoned \in [Drivers -> BOOLEAN]
        BY DEF TypeOK
      <4>4. catalog'[d] = catalog[d]
        BY <4>2, <4>3
      <4>5. poisoned'[d] = poisoned[d]
        BY <4>1, <4>3
      <4> QED
        BY <4>4, <4>5
    <3>2. /\ pc[d] = "exec" /\ due' = due /\ cur' = cur /\ orig' = orig
          /\ pc'[d] = IF cur[d].db # NoDb /\ orig[d] # NoDb THEN "restore" ELSE "record"
      BY <2>12 DEF FinishSql, Goto, TypeOK
    <3>3. Home # NoDb
      BY CronAssumption
    <3> QED
      BY <2>1, <3>1, <3>2, <3>3 DEF AtHome, Busy
  <2>13. CASE RestoreCatalog(d)
    <3>1. orig[d] = Home
      BY <2>1, <2>13 DEF RestoreCatalog, AtHome, TypeOK
    <3>2. catalog'[d] = Home
      BY <2>1, <2>13, <3>1 DEF RestoreCatalog, AtHome, TypeOK
    <3> QED
      BY <2>1, <2>13, <3>2 DEF AtHome, RestoreCatalog, Goto, Busy, TypeOK
  <2>14. CASE Driver(d)
    BY <2>5, <2>6, <2>7, <2>8, <2>9, <2>10, <2>11, <2>12, <2>13, <2>14 DEF Driver, Tick
  <2> QED
    BY <2>2, <2>3, <2>4, <2>14 DEF Next
<1> QED
  BY <1>1, <1>2, Typing, PTL DEF Spec

\* Between ticks and whenever it keeps its own books a driver is in the
\* scheduler's catalog, whatever other statements fail and whoever crashes.
THEOREM StaysHome ==
  ASSUME Faults \cap {"trap", "wander", "restore"} = {}
  PROVE  Spec => []BookkeepingAtHome
<1>1. CatalogInv => BookkeepingAtHome
  BY DEF CatalogInv, AtHome, BookkeepingAtHome
<1> QED
  BY <1>1, CatalogInvariance, PTL

-----------------------------------------------------------------------------
(* What backs a lease.                                                     *)

\* No database, or one that USE can switch every driver to.
Usual(db) == db = NoDb \/ \A d \in Drivers : db \in Attached[d]
UsualSpecs == \A s \in JobSpecs : Usual(s.db)

\* The rows, and what a tick has read of them, name such databases.
NamesUsual(d) ==
  /\ \A e \in due[d] : Usual(e.db)
  /\ pc[d] = "use" => Usual(cur[d].db) /\ cur[d].db # NoDb
UsualInv ==
  /\ \A j \in Jobs : Exists(j) => Usual(jobs[j].db)
  /\ \A d \in Drivers : NamesUsual(d)

\* Whatever writes a row of __cron_jobs, the row names a usual database.
LEMMA RowsUsual ==
  ASSUME TypeOK, UsualSpecs, [Next]_vars, \A j \in Jobs : Exists(j) => Usual(jobs[j].db)
  PROVE  \A j \in Jobs : jobs'[j] # NoRow => Usual(jobs'[j].db)
<1> USE DEF tables, conn, tick, history, bounds
<1> SUFFICES ASSUME NEW j \in Jobs, jobs'[j] # NoRow PROVE Usual(jobs'[j].db)
  OBVIOUS
<1> DEFINE kept == jobs[j] # NoRow /\ jobs'[j].db = jobs[j].db
<1>1. kept => Usual(jobs'[j].db)
  BY DEF Exists
<1>2. CASE jobs' = jobs
  BY <1>1, <1>2
<1>3. ASSUME NEW r \in Row, NEW n \in Nat, NEW a \in BOOLEAN
      PROVE  /\ [r EXCEPT !.next = n].db = r.db
             /\ [r EXCEPT !.active = a].db = r.db
             /\ [r EXCEPT !.active = a, !.next = n].db = r.db
  BY DEF Row
<1>4. jobs[j] # NoRow => jobs[j] \in Row
  BY DEF TypeOK
<1>5. CASE jobs' = ForcedRows
  <2>1. CASE Exists(j) /\ jobs[j].active
    <3>1. jobs'[j] = [jobs[j] EXCEPT !.next = 0]
      BY <1>5, <2>1 DEF ForcedRows
    <3> QED
      BY <1>1, <1>3, <1>4, <2>1, <3>1 DEF Exists
  <2>2. CASE ~(Exists(j) /\ jobs[j].active)
    <3>1. jobs'[j] = jobs[j]
      BY <1>5, <2>2 DEF ForcedRows
    <3> QED
      BY <1>1, <3>1
  <2> QED
    BY <2>1, <2>2
<1>6. ASSUME NEW d \in Drivers, PreAdvance(d) PROVE Usual(jobs'[j].db)
  <2>1. jobs' = AdvancedRows(d)
    BY <1>6 DEF PreAdvance
  <2>2. CASE IsDue(j, d, now[d])
    <3>1. jobs'[j] = [jobs[j] EXCEPT !.next = CronAdvance(j, now[d])]
      BY <2>1, <2>2 DEF AdvancedRows
    <3>2. CronAdvance(j, now[d]) \in Nat
      BY CronNextLater DEF CronAdvance, TypeOK
    <3> QED
      BY <1>1, <1>3, <1>4, <2>2, <3>1, <3>2 DEF IsDue, Exists
  <2>3. CASE ~IsDue(j, d, now[d])
    <3>1. jobs'[j] = jobs[j]
      BY <2>1, <2>3 DEF AdvancedRows
    <3> QED
      BY <1>1, <3>1
  <2> QED
    BY <2>2, <2>3
<1>7. ASSUME NEW k \in Jobs, NEW row, jobs' = [jobs EXCEPT ![k] = row],
             row # NoRow => Usual(row.db)
      PROVE  Usual(jobs'[j].db)
  BY <1>1, <1>7 DEF TypeOK
<1>8. ASSUME NEW k \in Jobs, Schedule(k) PROVE Usual(jobs'[j].db)
  <2>1. PICK s \in JobSpecs : jobs' = [jobs EXCEPT ![k] = ArmedRow(k, s, clock)]
    BY <1>8 DEF Schedule, Command
  <2>2. Usual(ArmedRow(k, s, clock).db)
    BY DEF ArmedRow, UsualSpecs
  <2> QED
    BY <1>7, <2>1, <2>2
<1>9. ASSUME NEW k \in Jobs, Unschedule(k) PROVE Usual(jobs'[j].db)
  BY <1>7, <1>9 DEF Unschedule, Command
<1>10. ASSUME NEW k \in Jobs, Activate(k) \/ Deactivate(k) \/ ForceJob(k)
       PROVE  Usual(jobs'[j].db)
  <2>1. jobs[k] \in Row /\ Usual(jobs[k].db)
    BY <1>10 DEF Activate, Deactivate, ForceJob, Exists, TypeOK
  <2>2. CronNext(k, clock) \in Nat
    BY CronNextLater DEF TypeOK
  <2>3. CASE Activate(k)
    <3>1. jobs' = [jobs EXCEPT ![k] =
                     [jobs[k] EXCEPT !.active = TRUE, !.next = CronNext(k, clock)]]
      BY <2>3 DEF Activate, Command
    <3>2. Usual([jobs[k] EXCEPT !.active = TRUE, !.next = CronNext(k, clock)].db)
      BY <1>3, <2>1, <2>2
    <3> QED
      BY <1>7, <3>1, <3>2
  <2>4. CASE Deactivate(k)
    <3>1. jobs' = [jobs EXCEPT ![k] = [jobs[k] EXCEPT !.active = FALSE]]
      BY <2>4 DEF Deactivate, Command
    <3>2. Usual([jobs[k] EXCEPT !.active = FALSE].db)
      BY <1>3, <2>1
    <3> QED
      BY <1>7, <3>1, <3>2
  <2>5. CASE ForceJob(k)
    <3>1. jobs' = [jobs EXCEPT ![k] = [jobs[k] EXCEPT !.next = 0]]
      BY <2>5 DEF ForceJob, Command
    <3>2. Usual([jobs[k] EXCEPT !.next = 0].db)
      BY <1>3, <2>1
    <3> QED
      BY <1>7, <3>1, <3>2
  <2> QED
    BY <1>10, <2>3, <2>4, <2>5
<1>11. CASE ForceAll
  BY <1>5, <1>11 DEF ForceAll
<1>12. ASSUME NEW d \in Drivers, Driver(d), ~PreAdvance(d)
       PROVE  jobs' = jobs \/ jobs' = ForcedRows
  BY <1>12 DEF Driver, Tick, Start, BeginTick, ReadDue, ReadCatalog, TickError, Abort,
    AcquireLease, Contend, UseCatalog, SkipJob, FinishSql, RestoreCatalog, RecordRun,
    ReleaseLease, EndTick, TrimRuns, Crash
<1>13. Elapse \/ UNCHANGED vars => jobs' = jobs
  BY DEF Elapse, vars
<1> QED
  BY <1>2, <1>5, <1>6, <1>8, <1>9, <1>10, <1>11, <1>12, <1>13 DEF Next, Operator

LEMMA UsualInvariance ==
  ASSUME UsualSpecs
  PROVE  Spec => []UsualInv
<1>1. Init => UsualInv
  <2> SUFFICES ASSUME Init PROVE UsualInv
    OBVIOUS
  <2>1. PICK choice \in [Jobs -> JobSpecs \cup {NoRow}] :
          jobs = [j \in Jobs |-> IF choice[j] = NoRow THEN NoRow
                                 ELSE ArmedRow(j, choice[j], 0)]
    BY DEF Init
  <2>2. \A j \in Jobs : Exists(j) => Usual(jobs[j].db)
    BY <2>1 DEF Exists, ArmedRow, UsualSpecs
  <2>3. \A d \in Drivers : NamesUsual(d)
    BY DEF Init, NamesUsual
  <2> QED
    BY <2>2, <2>3 DEF UsualInv
<1>2. TypeOK /\ UsualInv /\ [Next]_vars => UsualInv'
  <2> SUFFICES ASSUME TypeOK, UsualInv, [Next]_vars PROVE UsualInv'
    OBVIOUS
  <2> USE DEF tables, conn, tick, history, bounds
  <2>1. \A j \in Jobs : jobs'[j] # NoRow => Usual(jobs'[j].db)
    BY RowsUsual DEF UsualInv
  <2>2. ASSUME NEW d \in Drivers PROVE NamesUsual(d)'
    <3>1. NamesUsual(d)
      BY DEF UsualInv
    <3>2. ASSUME due'[d] \subseteq due[d],
                 pc'[d] = "use" => pc[d] = "use" /\ cur'[d] = cur[d]
          PROVE  NamesUsual(d)'
      BY <3>1, <3>2 DEF NamesUsual
    <3>3. ASSUME NEW x \in Drivers, ReadDue(x) PROVE NamesUsual(d)'
      <4>1. CASE x = d
        <5>1. pc'[d] # "use" /\ due'[d] = DueEntries(d)
          BY <3>3, <4>1 DEF ReadDue, Goto, TypeOK
        <5>2. \A e \in DueEntries(d) : Usual(e.db)
          BY DEF DueEntries, IsDue, UsualInv
        <5> QED
          BY <5>1, <5>2 DEF NamesUsual
      <4>2. CASE x # d
        BY <3>2, <3>3, <4>2 DEF ReadDue, Goto, TypeOK
      <4> QED
        BY <4>1, <4>2
    <3>4. ASSUME NEW x \in Drivers, AcquireLease(x) PROVE NamesUsual(d)'
      <4>1. PICK e \in NextDue(x) :
              /\ due' = [due EXCEPT ![x] = @ \ {e}]
              /\ cur' = [cur EXCEPT ![x] = e]
              /\ IF e.db = NoDb THEN Goto(x, "exec") ELSE Goto(x, "use")
        BY <3>4 DEF AcquireLease
      <4>2. CASE x = d
        <5>1. e \in due[d] /\ Usual(e.db)
          BY <3>1, <4>2 DEF NextDue, NamesUsual
        <5> QED
          BY <3>1, <4>1, <4>2, <5>1 DEF NamesUsual, Goto, TypeOK
      <4>3. CASE x # d
        BY <3>2, <4>1, <4>3 DEF Goto, TypeOK
      <4> QED
        BY <4>2, <4>3
    <3>5. ASSUME NEW x \in Drivers,
                 Start(x) \/ BeginTick(x) \/ PreAdvance(x) \/ ReadCatalog(x) \/ Contend(x)
          PROVE  NamesUsual(d)'
      BY <3>2, <3>5 DEF Start, BeginTick, PreAdvance, ReadCatalog, Contend, Goto, TypeOK
    <3>6. ASSUME NEW x \in Drivers, TickError(x) \/ EndTick(x) \/ Crash(x)
          PROVE  NamesUsual(d)'
      BY <3>2, <3>6 DEF TickError, Abort, EndTick, Crash, Leave, Goto, TypeOK
    <3>7. ASSUME NEW x \in Drivers, UseCatalog(x) \/ SkipJob(x) \/ FinishSql(x)
          PROVE  NamesUsual(d)'
      BY <3>2, <3>7 DEF UseCatalog, SkipJob, FinishSql, Goto, TypeOK
    <3>8. ASSUME NEW x \in Drivers,
                 RestoreCatalog(x) \/ RecordRun(x) \/ ReleaseLease(x) \/ TrimRuns(x)
          PROVE  NamesUsual(d)'
      BY <3>2, <3>8 DEF RestoreCatalog, RecordRun, ReleaseLease, TrimRuns, Goto, TypeOK
    <3>9. CASE Operator \/ Elapse \/ UNCHANGED vars
      BY <3>2, <3>9 DEF Operator, Schedule, Unschedule, Activate, Deactivate, ForceJob,
        ForceAll, Command, Elapse, vars
    <3> QED
      BY <3>3, <3>4, <3>5, <3>6, <3>7, <3>8, <3>9 DEF Next, Driver, Tick
  <2> QED
    BY <2>1, <2>2 DEF UsualInv, Exists
<1> QED
  BY <1>1, <1>2, Typing, PTL DEF Spec

\* The failures that make a lease outlive its job.
Leaks == {"crash", "trap", "wander", "use", "restore", "release"}

\* Steps that write no lease leave busy drivers busy with the same job.
LEMMA BusyStays ==
  ASSUME TypeOK, TypeOK', CatalogInv, UsualInv, Faults \cap Leaks = {}, [Next]_vars
  PROVE  \/ leases' = leases /\ clock <= clock' /\ \A d \in Drivers : pc[d] \in Busy =>
              pc'[d] \in Busy /\ cur'[d] = cur[d] /\ now'[d] = now[d]
         \/ \E d \in Drivers : AcquireLease(d) \/ ReleaseLease(d)
<1> USE DEF tables, conn, tick, history, bounds
<1> DEFINE stays == leases' = leases /\ clock' = clock /\ \A d \in Drivers : pc[d] \in Busy =>
              pc'[d] \in Busy /\ cur'[d] = cur[d] /\ now'[d] = now[d]
<1>1. ASSUME NEW x \in Drivers, Start(x) \/ BeginTick(x) \/ ReadDue(x) PROVE stays
  BY <1>1 DEF Start, BeginTick, ReadDue, Goto, Busy, TypeOK
<1>2. ASSUME NEW x \in Drivers, PreAdvance(x) \/ ReadCatalog(x) \/ Contend(x) PROVE stays
  BY <1>2 DEF PreAdvance, ReadCatalog, Contend, Goto, Busy, TypeOK
<1>3. ASSUME NEW x \in Drivers, TickError(x) \/ EndTick(x) PROVE stays
  BY <1>3 DEF TickError, Abort, EndTick, Leave, Goto, Busy, TypeOK
<1>4. ASSUME NEW x \in Drivers, UseCatalog(x) \/ FinishSql(x) PROVE stays
  BY <1>4 DEF UseCatalog, FinishSql, Goto, Busy, TypeOK
<1>5. ASSUME NEW x \in Drivers, RestoreCatalog(x) \/ RecordRun(x) \/ TrimRuns(x) PROVE stays
  BY <1>5 DEF RestoreCatalog, RecordRun, TrimRuns, Goto, Busy, TypeOK
<1>6. ASSUME NEW x \in Drivers PROVE ~SkipJob(x) /\ ~Crash(x)
  <2>1. ~Crash(x)
    BY DEF Crash, Leaks
  <2>2. ASSUME SkipJob(x) PROVE FALSE
    <3>1. pc[x] = "use" /\ (poisoned[x] \/ cur[x].db \notin Attached[x])
      BY <2>2 DEF SkipJob, Leaks
    <3>2. ~poisoned[x]
      BY DEF CatalogInv, AtHome
    <3>3. cur[x].db \in Attached[x]
      BY <3>1 DEF UsualInv, NamesUsual, Usual
    <3> QED
      BY <3>1, <3>2, <3>3
  <2> QED
    BY <2>1, <2>2
<1>7. Operator \/ UNCHANGED vars => stays
  BY DEF Operator, Schedule, Unschedule, Activate, Deactivate, ForceJob, ForceAll,
    Command, vars
<1>8. ASSUME Elapse
      PROVE  leases' = leases /\ clock <= clock' /\ pc' = pc /\ cur' = cur /\ now' = now
  BY <1>8 DEF Elapse, TypeOK
<1>9. stays => clock <= clock'
  BY DEF TypeOK
<1> HIDE DEF stays
<1>10. ASSUME NEW x \in Drivers, Driver(x), ~stays PROVE AcquireLease(x) \/ ReleaseLease(x)
  BY <1>1, <1>2, <1>3, <1>4, <1>5, <1>6, <1>10 DEF Driver, Tick
<1>11. stays \/ Elapse \/ \E x \in Drivers : AcquireLease(x) \/ ReleaseLease(x)
  BY <1>7, <1>10 DEF Next
<1> QED
  BY <1>8, <1>9, <1>11 DEF stays

\* As long as no driver crashes, every USE and every release succeeds, and
\* the catalogs that jobs name are attached everywhere, a lease that has not
\* expired is backed by the driver that runs the job: nothing but a failure
\* makes a due job wait for nobody.
THEOREM LeasesBacked ==
  ASSUME Faults \cap Leaks = {}, UsualSpecs
  PROVE  Spec => []LeaseBacked
<1>1. Init => LeaseBacked
  BY DEF Init, LeaseBacked, NoLease
<1>2. TypeOK /\ TypeOK' /\ CatalogInv /\ UsualInv /\ LeaseBacked /\ [Next]_vars
        => LeaseBacked'
  <2> SUFFICES ASSUME TypeOK, TypeOK', CatalogInv, UsualInv, LeaseBacked, [Next]_vars,
                      NEW j \in Jobs, leases'[j].expires > clock'
               PROVE  \E d \in Drivers : Critical(d, j)' /\ leases'[j] = LeaseOf(d)'
    BY DEF LeaseBacked
  <2>1. ASSUME leases'[j] = leases[j], clock <= clock'
        PROVE  \E d \in Drivers : Critical(d, j) /\ leases[j] = LeaseOf(d)
    <3>1. leases[j] \in Lease /\ clock \in Nat /\ clock' \in Nat
      BY DEF TypeOK
    <3>2. leases[j].expires > clock
      BY <2>1, <3>1 DEF Lease
    <3> QED
      BY <3>2 DEF LeaseBacked
  <2>2. ASSUME NEW x \in Drivers, Critical(x, j), leases'[j] = LeaseOf(x),
               pc'[x] \in Busy, cur'[x] = cur[x], now'[x] = now[x]
        PROVE  Critical(x, j)' /\ leases'[j] = LeaseOf(x)'
    BY <2>2 DEF Critical, LeaseOf, Expires
  <2>3. CASE leases' = leases /\ clock <= clock' /\ \A d \in Drivers : pc[d] \in Busy =>
               pc'[d] \in Busy /\ cur'[d] = cur[d] /\ now'[d] = now[d]
    <3>1. PICK x \in Drivers : Critical(x, j) /\ leases[j] = LeaseOf(x)
      BY <2>1, <2>3
    <3> QED
      BY <2>2, <2>3, <3>1 DEF Critical
  <2>4. ASSUME NEW d \in Drivers, AcquireLease(d)
        PROVE  \E x \in Drivers : Critical(x, j)' /\ leases'[j] = LeaseOf(x)'
    <3>1. PICK e \in NextDue(d) :
            /\ leases' = [leases EXCEPT ![e.job] = LeaseOf(d)]
            /\ cur' = [cur EXCEPT ![d] = e]
            /\ Goto(d, "exec") \/ Goto(d, "use")
      BY <2>4 DEF AcquireLease, LeaseOf
    <3>2. pc[d] = "lease" /\ now' = now /\ clock' = clock /\ clock \in Nat
      BY <2>4 DEF AcquireLease, TypeOK
    <3>3. CASE j = e.job
      <4>1. Critical(d, j)'
        BY <3>1, <3>3 DEF Critical, Goto, Busy, TypeOK
      <4>2. leases'[j] = LeaseOf(d)'
        BY <3>1, <3>2, <3>3 DEF LeaseOf, Expires, TypeOK
      <4> QED
        BY <4>1, <4>2
    <3>4. CASE j # e.job
      <4>1. leases'[j] = leases[j] /\ clock <= clock'
        BY <3>1, <3>2, <3>4 DEF TypeOK
      <4>2. PICK x \in Drivers : Critical(x, j) /\ leases[j] = LeaseOf(x)
        BY <2>1, <4>1
      <4>3. x # d
        BY <3>2, <4>2 DEF Critical, Busy
      <4>4. pc'[x] \in Busy /\ cur'[x] = cur[x] /\ now'[x] = now[x]
        BY <3>1, <3>2, <4>2, <4>3 DEF Critical, Goto, TypeOK
      <4> QED
        BY <2>2, <4>1, <4>2, <4>4
    <3> QED
      BY <3>3, <3>4
  <2>5. ASSUME NEW d \in Drivers, ReleaseLease(d)
        PROVE  \E x \in Drivers : Critical(x, j)' /\ leases'[j] = LeaseOf(x)'
    <3>1. Usable(d)
      BY <2>5 DEF ReleaseLease, CatalogInv, AtHome, Usable
    <3>2. leases' = Released(d, cur[d].job)
      BY <2>5, <3>1 DEF ReleaseLease, Fails, Leaks
    <3>3. /\ pc[d] = "release" /\ now' = now /\ clock' = clock /\ clock \in Nat
          /\ cur[d].job \in Jobs
          /\ \A x \in Drivers \ {d} : pc'[x] = pc[x] /\ cur'[x] = cur[x]
      BY <2>5 DEF ReleaseLease, Goto, TypeOK, Busy, Entry
    <3>4. leases'[j] = leases[j]
      <4>1. CASE j = cur[d].job /\ leases[j].holder = NodeOf[d]
        <5>1. leases'[j] = [leases[j] EXCEPT !.expires = 0]
          BY <3>2, <4>1 DEF Released, TypeOK
        <5>2. leases'[j].expires = 0
          BY <5>1 DEF TypeOK, Lease
        <5> QED
          BY <3>3, <5>2
      <4>2. CASE ~(j = cur[d].job /\ leases[j].holder = NodeOf[d])
        BY <3>2, <4>2 DEF Released, TypeOK
      <4> QED
        BY <4>1, <4>2
    <3>5. PICK x \in Drivers : Critical(x, j) /\ leases[j] = LeaseOf(x)
      BY <2>1, <3>3, <3>4
    <3>6. x # d
      <4> SUFFICES ASSUME x = d PROVE FALSE
        OBVIOUS
      <4>1. cur[d].job = j /\ leases[j].holder = NodeOf[d]
        BY <3>5 DEF Critical, LeaseOf
      <4>2. leases'[j] = [leases[j] EXCEPT !.expires = 0]
        BY <3>2, <4>1 DEF Released, TypeOK
      <4>3. leases'[j].expires = 0
        BY <4>2 DEF TypeOK, Lease
      <4> QED
        BY <3>3, <4>3
    <3> QED
      BY <2>2, <3>3, <3>4, <3>5, <3>6 DEF Critical
  <2> QED
    BY <2>3, <2>4, <2>5, BusyStays
<1>3. Faults \cap {"trap", "wander", "restore"} = {}
  BY DEF Leaks
<1> QED
  BY <1>1, <1>2, <1>3, Typing, CatalogInvariance, UsualInvariance, PTL DEF Spec
=============================================================================
