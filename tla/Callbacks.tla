----------------------------- MODULE Callbacks -----------------------------
(***************************************************************************)
(* What extensions register and how a call finds its way back: the capture *)
(* of registrations in each instance (ducklink-runtime), the registry of   *)
(* callback handles all instances share, the drain that carries the        *)
(* registrations to the core, the dispatch of a call through the registry, *)
(* and the file locks an instance holds.                                   *)
(*                                                                         *)
(* The manager's mutex is held while a guest runs, so at most one guest    *)
(* runs at a time (`running`); its imports, a trap, the return and what    *)
(* other processes do with the lock files are the steps in between.        *)
(*                                                                         *)
(* Abstracted: names, argument lists and types of a registration; scalar   *)
(* stands for aggregate too, whose code is the same line by line, "direct" *)
(* for the kinds that are pushed without a registry and reach the core     *)
(* (casts, macros), "host" for those the manager takes right after load    *)
(* (pragmas, parsers, collations, optimizer rules).                        *)
(***************************************************************************)
EXTENDS Naturals, FiniteSets

CONSTANTS
  Exts,          \* extensions
  Paths,         \* lock files
  Kinds,         \* the kinds of callback in use
  MaxLoads, MaxImports, MaxCalls,   \* bounds of the model
  NoExt, NoPath, NoEntry, Free, Other   \* sentinels

Buffered == {"scalar", "table"}         \* registered through a capability
Forwarded == {"scalar", "table", "direct", "scan"}   \* the lists the core is handed

Entry == [ext : Exts, kind : Kinds, att : Nat]

ASSUME CallbacksAssumption ==
  /\ Kinds \subseteq Buffered \cup {"direct", "host"}
  /\ MaxLoads \in Nat /\ MaxImports \in Nat /\ MaxCalls \in Nat
  /\ NoExt \notin Exts /\ NoPath \notin Paths
  /\ Free # Other /\ {Free, Other} \cap [ext : Exts, id : Nat] = {}
  /\ NoEntry \notin Entry

VARIABLES
  inst,       \* the instance of each extension in the manager's map
  attempt,    \* history: how often its load was started
  running,    \* the guest that runs, and what it was entered for
  next,       \* CallbackRegistry::next_handle
  entries,    \* CallbackRegistry::entries
  owned,      \* callback resources each guest owns
  nextId,     \* alloc_resource_id of each instance
  caps,       \* registry resources each guest holds, with their kind
  open,       \* the ids with a buffer in the instance
  named,      \* table_handle_names: registration handle and table
  captured,   \* registrations in an instance: in buffer `at`, 0 is pending_*
  deferred,   \* ExtensionManager::deferred_registrations
  mapped,     \* the manager's maps of host-side registrations
  delivered,  \* registrations the core was handed
  accepted,   \* history: registrations answered with Ok
  flock,      \* the OS lock on each path
  nextLock,   \* next_lock_handle of each instance
  locks,      \* lock_handles of each instance
  guestLocks, \* lock-handle resources each guest holds
  waiting,    \* the path the running guest is blocked on
  imports, calls   \* bounded by MaxImports, MaxCalls

instance == <<nextId, caps, open, named, captured, owned>>
registry == <<next, entries>>
kept == <<deferred, mapped, delivered, accepted>>
lockVars == <<flock, nextLock, locks, guestLocks, waiting>>
vars == <<inst, attempt, running, instance, registry, kept, lockVars, imports, calls>>

Handles == 1 .. MaxImports
Reg == [ext : Exts, kind : Kinds \cup {"scan"}, cb : Handles, att : Nat, late : BOOLEAN]
Idle == [ext |-> NoExt, way |-> "idle"]

Init ==
  /\ inst = [e \in Exts |-> "absent"] /\ attempt = [e \in Exts |-> 0]
  /\ running = Idle
  /\ next = 1 /\ entries = [h \in Handles |-> NoEntry]
  /\ owned = [e \in Exts |-> {}] /\ nextId = [e \in Exts |-> 1]
  /\ caps = [e \in Exts |-> {}] /\ open = [e \in Exts |-> {}]
  /\ named = [e \in Exts |-> {}] /\ captured = [e \in Exts |-> {}]
  /\ deferred = {} /\ mapped = {} /\ delivered = {} /\ accepted = {}
  /\ flock = [p \in Paths |-> Free]
  /\ nextLock = [e \in Exts |-> 1] /\ locks = [e \in Exts |-> {}]
  /\ guestLocks = [e \in Exts |-> {}] /\ waiting = NoPath
  /\ imports = 0 /\ calls = 0

-----------------------------------------------------------------------------
(* Imports of the running guest.                                           *)

Import(e) ==
  /\ running.ext = e /\ waiting = NoPath
  /\ imports < MaxImports /\ imports' = imports + 1
  /\ UNCHANGED <<inst, attempt, running, calls>>

FreshId(e) == nextId' = [nextId EXCEPT ![e] = @ + 1]

\* get-capability: a fresh id with an empty buffer behind it.
GetCapability(e) ==
  /\ Import(e)
  /\ \E k \in Kinds \cap Buffered :
       caps' = [caps EXCEPT ![e] = @ \cup {[id |-> nextId[e], kind |-> k]}]
  /\ open' = [open EXCEPT ![e] = @ \cup {nextId[e]}]
  /\ FreshId(e)
  /\ UNCHANGED <<named, captured, owned, registry, kept, lockVars>>

\* Faulty variant: the handles of each extension count from 1.
AllocatedOwn(e) == Cardinality({h \in Handles : entries[h] # NoEntry /\ entries[h].ext = e}) + 1

\* CallbackRegistry::allocate: "handles never rebind".
Allocated(e) == next

\* [constructor]xxx-callback.
NewCallback(e) ==
  /\ Import(e)
  /\ \E k \in Kinds :
       entries' = [entries EXCEPT ![Allocated(e)] = [ext |-> e, kind |-> k, att |-> attempt[e]]]
  /\ next' = next + 1
  /\ owned' = [owned EXCEPT ![e] = @ \cup {Allocated(e)}]
  /\ UNCHANGED <<nextId, caps, open, named, captured, kept, lockVars>>

\* [resource-drop]xxx-callback: only a callback the guest still owns.
DropCallback(e) ==
  /\ Import(e)
  /\ \E h \in owned[e] :
       /\ owned' = [owned EXCEPT ![e] = @ \ {h}]
       /\ entries' = [entries EXCEPT ![h] = NoEntry]
  /\ UNCHANGED <<nextId, caps, open, named, captured, next, kept, lockVars>>

\* validate_callback_kind
Valid(h, k) == entries[h] # NoEntry /\ entries[h].kind = k

\* Faulty variant: the callback is lent to register, the guest keeps it.
Lent(e, h) == owned[e]

\* The callback parameter of a registration is owned: it leaves the guest
\* whether or not the registration succeeds.
Moved(e, h) == owned[e] \ {h}

\* A registration; `late` is history: it was made by a call, not by load().
NewReg(e, k, h) ==
  [ext |-> e, kind |-> k, cb |-> h, att |-> attempt[e], late |-> running.way = "call"]

Capture(e, reg, at) ==
  /\ captured' = [captured EXCEPT ![e] = @ \cup {[reg |-> reg, at |-> at]}]
  /\ accepted' = accepted \cup {reg}

\* scalar-, aggregate- and table-registry.register: the entry goes to the
\* buffer of the registry.  A registry that was drained while the guest kept
\* it has no buffer any more: the call fails, the callback is gone.
Register(e) ==
  /\ Import(e)
  /\ \E c \in caps[e], h \in owned[e] :
       /\ owned' = [owned EXCEPT ![e] = Moved(e, h)]
       /\ IF Valid(h, c.kind) /\ c.id \in open[e]
          THEN /\ Capture(e, NewReg(e, c.kind, h), c.id)
               /\ named' = IF c.kind = "table"
                           THEN [named EXCEPT ![e] = @ \cup {[id |-> nextId[e], cb |-> h]}]
                           ELSE named
               /\ FreshId(e)
          ELSE UNCHANGED <<captured, accepted, named, nextId>>
  /\ UNCHANGED <<caps, open, registry, deferred, mapped, delivered, lockVars>>

RegisterPending(e, kind) ==
  /\ Import(e)
  /\ \E h \in owned[e] :
       /\ Valid(h, kind)
       /\ owned' = [owned EXCEPT ![e] = Moved(e, h)]
       /\ Capture(e, NewReg(e, kind, h), 0)
  /\ UNCHANGED <<nextId, caps, open, named, registry, deferred, mapped, delivered, lockVars>>

\* register-cast, register-macro, ...: straight into the pending list.
RegisterDirect(e) == RegisterPending(e, "direct")

\* pragma-registry.register-call and the other host-side kinds.
RegisterHost(e) == RegisterPending(e, "host")

\* register-replacement-scan: the handle must be one a table registration
\* of this instance returned.  (One scan per table is told apart.)
RegisterScan(e) ==
  /\ Import(e)
  /\ \E t \in named[e] :
       /\ \A r \in accepted : ~(r.kind = "scan" /\ r.cb = t.cb)
       /\ Capture(e, NewReg(e, "scan", t.cb), 0)
  /\ UNCHANGED <<nextId, caps, open, named, owned, registry, deferred, mapped, delivered, lockVars>>

\* [resource-drop]xxx-registry: the buffer moves to the pending list.
DropRegistry(e) ==
  /\ Import(e)
  /\ \E c \in caps[e] :
       /\ caps' = [caps EXCEPT ![e] = @ \ {c}]
       /\ open' = [open EXCEPT ![e] = @ \ {c.id}]
       /\ captured' = [captured EXCEPT ![e] =
            {[reg |-> r.reg, at |-> IF r.at = c.id THEN 0 ELSE r.at] : r \in @}]
  /\ UNCHANGED <<nextId, named, owned, registry, kept, lockVars>>

-----------------------------------------------------------------------------
(* File locks.  flock(2) locks belong to the open file: two handles of one *)
(* process exclude each other too.                                         *)

\* Faulty variant: the smallest number not in use.
SmallestLock(e) ==
  CHOOSE i \in 1 .. nextLock[e] : /\ \A l \in locks[e] : l.id # i
                                  /\ \A j \in 1 .. i - 1 : \E l \in locks[e] : l.id = j

\* alloc_lock_handle: numbers are not used again.
NewLock(e) == nextLock[e]

Grant(e, p) ==
  LET lock == [id |-> NewLock(e), path |-> p] IN
  /\ flock[p] = Free
  /\ flock' = [flock EXCEPT ![p] = [ext |-> e, id |-> lock.id]]
  /\ locks' = [locks EXCEPT ![e] = @ \cup {lock}]
  /\ nextLock' = [nextLock EXCEPT ![e] = @ + 1]
  /\ guestLocks' = [guestLocks EXCEPT ![e] = @ \cup {[id |-> lock.id, path |-> p, held |-> TRUE]}]

\* acquire-exclusive blocks the thread, with the manager's mutex held: if an
\* instance of this process has the lock, for ever.
AcquireExclusive(e, p) ==
  /\ Import(e)
  /\ \/ Grant(e, p) /\ UNCHANGED waiting
     \/ flock[p] # Free /\ waiting' = p /\ UNCHANGED <<flock, locks, nextLock, guestLocks>>
  /\ UNCHANGED <<instance, registry, kept>>

Granted(e) ==
  /\ running.ext = e /\ waiting # NoPath
  /\ Grant(e, waiting)
  /\ waiting' = NoPath
  /\ UNCHANGED <<inst, attempt, running, imports, calls, instance, registry, kept>>

TryAcquireExclusive(e, p) ==
  /\ Import(e)
  /\ \/ Grant(e, p)
     \/ flock[p] # Free /\ UNCHANGED <<flock, locks, nextLock, guestLocks>>
  /\ UNCHANGED <<waiting, instance, registry, kept>>

\* free_lock_handle: a number that is not in lock_handles is ignored.
FreeLock(e, id) ==
  /\ locks' = [locks EXCEPT ![e] = {l \in @ : l.id # id}]
  /\ flock' = [p \in Paths |-> IF \E l \in locks[e] : l.id = id /\ l.path = p
                               THEN Free ELSE flock[p]]

\* lock-handle.release may be called again; [resource-drop] comes once, and
\* runs the same code (if the adapter dispatches it).
ReleaseLock(e) ==
  /\ running.ext = e /\ waiting = NoPath
  /\ \E l \in guestLocks[e], gone \in BOOLEAN :
       /\ FreeLock(e, l.id)
       /\ guestLocks' = [guestLocks EXCEPT ![e] =
            (@ \ {l}) \cup (IF gone THEN {} ELSE {[l EXCEPT !.held = FALSE]})]
  /\ UNCHANGED <<inst, attempt, running, imports, calls, nextLock, waiting, instance,
                 registry, kept>>

OtherProcess(p) ==
  /\ \/ flock[p] = Free /\ flock' = [flock EXCEPT ![p] = Other]
     \/ flock[p] = Other /\ flock' = [flock EXCEPT ![p] = Free]
  /\ UNCHANGED <<inst, attempt, running, instance, registry, kept, nextLock, locks, guestLocks,
                 waiting, imports, calls>>

-----------------------------------------------------------------------------
(* Loading an instance, handing its registrations on, and calling it.      *)

\* What drain_pending takes out of an instance: the pending lists and the
\* buffers of the registries the guest still holds.
Drained(e) == {r.reg : r \in captured[e]}

DrainAll(S) ==
  /\ captured' = [e \in Exts |-> IF e \in S THEN {} ELSE captured[e]]
  /\ open' = [e \in Exts |-> IF e \in S THEN {} ELSE open[e]]

\* load_component: a new instance with a state of its own enters load().
StartLoad(e, way) ==
  /\ running = Idle /\ inst[e] = "absent" /\ attempt[e] < MaxLoads
  /\ attempt' = [attempt EXCEPT ![e] = @ + 1]
  /\ inst' = [inst EXCEPT ![e] = "loading"]
  /\ running' = [ext |-> e, way |-> way]
  /\ UNCHANGED <<instance, registry, kept, lockVars, imports, calls>>

\* Faulty variant: a kind the manager does not know.
HostSideNone(R) == {}

\* The host-side registrations of a load.
HostSide(R) == {r \in R : r.kind = "host"}

\* load() returned: the instance enters the map, the manager takes the
\* host-side registrations, and ducklink_load takes the others out and
\* stashes them for the next LOAD.
LoadReturns(e) ==
  /\ running.ext = e /\ running.way \in {"LOAD", "ducklink_load"} /\ waiting = NoPath
  /\ inst' = [inst EXCEPT ![e] = "live"]
  /\ running' = Idle
  /\ mapped' = mapped \cup HostSide(Drained(e))
  /\ IF running.way = "ducklink_load"
     THEN /\ deferred' = deferred \cup (Drained(e) \ HostSide(Drained(e)))
          /\ DrainAll({e})
     ELSE /\ captured' = [captured EXCEPT ![e] = {r \in @ : r.reg.kind # "host"}]
          /\ UNCHANGED <<deferred, open>>
  /\ UNCHANGED <<attempt, nextId, caps, named, owned, registry, delivered, accepted,
                 lockVars, imports, calls>>

\* Faulty variant: the files stay locked.
KeptLocked(e) == flock

\* Dropping an instance closes its lock files.
Unlocked(e) == [p \in Paths |-> IF flock[p] \notin {Free, Other} /\ flock[p].ext = e
                                THEN Free ELSE flock[p]]

\* load() failed or trapped: the instance and all it had captured are
\* dropped.  Its callbacks stay in the registry.
LoadFails(e) ==
  /\ running.ext = e /\ running.way \in {"LOAD", "ducklink_load"} /\ waiting = NoPath
  /\ inst' = [inst EXCEPT ![e] = "absent"]
  /\ running' = Idle
  /\ captured' = [captured EXCEPT ![e] = {}] /\ open' = [open EXCEPT ![e] = {}]
  /\ caps' = [caps EXCEPT ![e] = {}] /\ named' = [named EXCEPT ![e] = {}]
  /\ owned' = [owned EXCEPT ![e] = {}] /\ nextId' = [nextId EXCEPT ![e] = 1]
  /\ accepted' = {r \in accepted : r.ext # e}
  /\ flock' = Unlocked(e)
  /\ locks' = [locks EXCEPT ![e] = {}] /\ guestLocks' = [guestLocks EXCEPT ![e] = {}]
  /\ nextLock' = [nextLock EXCEPT ![e] = 1]
  /\ UNCHANGED <<attempt, registry, deferred, mapped, delivered, waiting, imports, calls>>

\* ducklink_load of an extension that is loaded.
Stash(e) ==
  /\ running = Idle /\ inst[e] \in {"live", "broken"} /\ captured[e] # {}
  /\ deferred' = deferred \cup Drained(e)
  /\ DrainAll({e})
  /\ UNCHANGED <<inst, attempt, running, nextId, caps, named, owned, registry, mapped,
                 delivered, accepted, lockVars, imports, calls>>

\* get-pending-registrations: the stash and every instance are drained, and
\* the eight lists the core's hook knows are handed over.
Deliver ==
  LET all == deferred \cup UNION {Drained(e) : e \in Exts} IN
  /\ running = Idle /\ \E e \in Exts : captured[e] # {} \/ deferred # {}
  /\ delivered' = delivered \cup {r \in all : r.kind \in Forwarded}
  /\ deferred' = {}
  /\ DrainAll(Exts)
  /\ UNCHANGED <<inst, attempt, running, nextId, caps, named, owned, registry, mapped,
                 accepted, lockVars, imports, calls>>

\* The instance a call through callback handle h gets to.
Resolved(h) == entries[h].ext

\* dispatch_*: the kind is compared, the extension looked up by name.  A
\* broken instance answers every call with an error.
Call(r) ==
  /\ running = Idle /\ calls < MaxCalls
  /\ r \in delivered \cup mapped /\ r.kind # "scan"
  /\ Valid(r.cb, r.kind) /\ inst[Resolved(r.cb)] = "live"
  /\ running' = [ext |-> Resolved(r.cb), way |-> "call"]
  /\ calls' = calls + 1
  /\ UNCHANGED <<inst, attempt, instance, registry, kept, lockVars, imports>>

CallReturns(e) ==
  /\ running = [ext |-> e, way |-> "call"] /\ waiting = NoPath
  /\ running' = Idle
  /\ UNCHANGED <<inst, attempt, instance, registry, kept, lockVars, imports, calls>>

\* A trap leaves the instance in the map, with the locks it holds.
CallTraps(e) ==
  /\ running = [ext |-> e, way |-> "call"] /\ waiting = NoPath
  /\ running' = Idle
  /\ inst' = [inst EXCEPT ![e] = "broken"]
  /\ UNCHANGED <<attempt, instance, registry, kept, lockVars, imports, calls>>

Guest(e) ==
  \/ GetCapability(e) \/ NewCallback(e) \/ DropCallback(e)
  \/ Register(e) \/ RegisterDirect(e) \/ RegisterHost(e) \/ RegisterScan(e) \/ DropRegistry(e)
  \/ \E p \in Paths : AcquireExclusive(e, p) \/ TryAcquireExclusive(e, p)
  \/ Granted(e) \/ ReleaseLock(e)
  \/ LoadReturns(e) \/ LoadFails(e) \/ CallReturns(e) \/ CallTraps(e)

Host ==
  \/ \E e \in Exts : Stash(e) \/ \E way \in {"LOAD", "ducklink_load"} : StartLoad(e, way)
  \/ Deliver
  \/ \E r \in delivered \cup mapped : Call(r)

\* The model stops at its bounds with nothing left to drain.
Done ==
  /\ running = Idle /\ \A e \in Exts : captured[e] = {}
  /\ UNCHANGED vars

Next ==
  \/ \E e \in Exts : Guest(e)
  \/ Host
  \/ \E p \in Paths : OtherProcess(p)
  \/ Done

Spec == Init /\ [][Next]_vars

-----------------------------------------------------------------------------
(* Properties.                                                             *)

Callable == delivered \cup mapped

\* Whatever the core or the manager may call resolves to the callback that
\* the instance now loaded registered, under the kind it registered: no
\* drop of a resource, failed load or second load redirects or disables it.
Routed ==
  \A r \in Callable :
    /\ entries[r.cb] = [ext |-> r.ext,
                        kind |-> IF r.kind = "scan" THEN "table" ELSE r.kind,
                        att |-> attempt[r.ext]]
    /\ r.att = attempt[r.ext]
    /\ inst[r.ext] \in {"live", "broken"}

Places(r) ==
  Cardinality({c \in captured[r.ext] : c.reg = r})
  + Cardinality({S \in {<<1, deferred>>, <<2, mapped>>, <<3, delivered>>} : r \in S[2]})

\* A registration that was answered with Ok is in one place and no other, on
\* its way to the core or there: a registry that is kept, dropped or drained
\* loses and repeats none.  Host-side registrations made after the load are
\* not promised: only the load takes them.
Kept ==
  \A r \in accepted : Places(r) = 1 \/ (r.kind = "host" /\ r.late /\ Places(r) = 0)

\* A lock a guest has acquired and not released is the lock on that file.
LockKept ==
  \A e \in Exts : \A l \in guestLocks[e] :
    l.held => flock[l.path] = [ext |-> e, id |-> l.id]

\* A guest that blocks on a lock, and with it the process, waits for somebody
\* who has it and can give it up: another process, or a guest whose handle is
\* not released.  No release, drop, failed or repeated load leaves a file
\* locked behind it.  (A guest that returned or trapped with its lock gives it
\* up in a later call or not at all; the host does not see to that.)
WaitsForHolder ==
  waiting # NoPath =>
    \/ flock[waiting] \in {Free, Other}
    \/ \E e \in Exts : \E l \in guestLocks[e] :
         l.held /\ l.path = waiting /\ flock[waiting] = [ext |-> e, id |-> l.id]
=============================================================================
