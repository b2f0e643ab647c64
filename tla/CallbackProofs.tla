--------------------------- MODULE CallbackProofs ---------------------------
(* Theorems about Callbacks: for any extensions, kinds, lock files and     *)
(* numbers of loads, imports and calls, what the core may call resolves to *)
(* the callback that was registered, no accepted registration is lost or   *)
(* repeated, and a lock is kept until it is released.                      *)
EXTENDS Callbacks, FiniteSetTheorems, TLAPS

Ways == {"LOAD", "ducklink_load"}
Lock == [ext : Exts, id : Nat]

ControlTypes ==
  /\ inst \in [Exts -> {"absent", "loading", "live", "broken"}]
  /\ attempt \in [Exts -> Nat]
  /\ running \in {Idle} \cup [ext : Exts, way : Ways \cup {"call"}]
  /\ imports \in 0..MaxImports /\ calls \in Nat

RegistryTypes ==
  /\ next \in 1..(imports + 1)
  /\ entries \in [Handles -> Entry \cup {NoEntry}]
  /\ owned \in [Exts -> SUBSET Handles]
  /\ nextId \in [Exts -> Nat]
  /\ caps \in [Exts -> SUBSET [id : Nat, kind : Kinds \cap Buffered]]
  /\ open \in [Exts -> SUBSET Nat]
  /\ named \in [Exts -> SUBSET [id : Nat, cb : Handles]]
  /\ captured \in [Exts -> SUBSET [reg : Reg, at : Nat]]
  /\ deferred \subseteq Reg /\ mapped \subseteq Reg
  /\ delivered \subseteq Reg /\ accepted \subseteq Reg

LockTypes ==
  /\ flock \in [Paths -> {Free, Other} \cup Lock]
  /\ nextLock \in [Exts -> Nat]
  /\ locks \in [Exts -> SUBSET [id : Nat, path : Paths]]
  /\ guestLocks \in [Exts -> SUBSET [id : Nat, path : Paths, held : BOOLEAN]]
  /\ waiting \in Paths \cup {NoPath}

TypeOK == ControlTypes /\ RegistryTypes /\ LockTypes

(* The guest that runs has an instance, and only it is being loaded.       *)
Running ==
  /\ running.way \in Ways => inst[running.ext] = "loading"
  /\ running.way = "call" => inst[running.ext] = "live"
  /\ \A e \in Exts : inst[e] = "loading" => running.ext = e /\ running.way \in Ways

(* What an entry must be that was made for a callback of e.                *)
Made(h, e, k) ==
  entries[h] # NoEntry /\ entries[h] = [ext |-> e, kind |-> k, att |-> attempt[e]]

(* Handles that were not given out are free; those a guest owns are live,  *)
(* its own, and of the instance that runs.                                 *)
HandlesOwned ==
  /\ \A h \in Handles : h >= next => entries[h] = NoEntry
  /\ \A e \in Exts : \A h \in owned[e] : inst[e] # "absent" /\ \E k \in Kinds : Made(h, e, k)

(* The tables a scan may name have a callback that nobody can drop.        *)
TablesNamed ==
  \A e \in Exts : \A t \in named[e] :
    inst[e] # "absent" /\ Made(t.cb, e, "table") /\ t.cb \notin owned[e]

(* The callback of an accepted registration has left the guest for good.   *)
AcceptedMade ==
  \A r \in accepted :
    /\ Made(r.cb, r.ext, IF r.kind = "scan" THEN "table" ELSE r.kind)
    /\ r.cb \notin owned[r.ext]
    /\ r.att = attempt[r.ext]
    /\ inst[r.ext] # "absent"

(* Only the load of an instance takes its host-side registrations.         *)
HostSideTaken ==
  /\ \A r \in mapped : r.kind = "host"
  /\ \A r \in delivered : r.kind # "host"
  /\ \A r \in deferred : r.kind = "host" => r.late
  /\ \A e \in Exts : \A c \in captured[e] :
       c.reg.kind = "host" => c.reg.late \/ inst[e] = "loading"

(* What is on its way or there was accepted, of an instance that is loaded *)
(* unless it is still in it.                                               *)
Placed ==
  /\ \A e \in Exts : \A c \in captured[e] : c.reg \in accepted /\ c.reg.ext = e
  /\ \A r \in deferred \cup mapped \cup delivered :
       r \in accepted /\ inst[r.ext] \in {"live", "broken"}

(* The places do not overlap, nor does a registration have two buffers.    *)
Once ==
  /\ \A e \in Exts : \A c, d \in captured[e] : c.reg = d.reg => c = d
  /\ \A e \in Exts : \A c \in captured[e] : c.reg \notin deferred \cup mapped \cup delivered
  /\ deferred \cap (mapped \cup delivered) = {}

(* And together they hold every accepted registration that is promised.    *)
Somewhere ==
  \A r \in accepted :
    \/ \E c \in captured[r.ext] : c.reg = r
    \/ r \in deferred \cup mapped \cup delivered
    \/ r.kind = "host" /\ r.late

RegistryInv ==
  /\ Running /\ HandlesOwned /\ TablesNamed /\ AcceptedMade /\ HostSideTaken
  /\ Placed /\ Once /\ Somewhere

(* The three views of a lock agree: lock_handles of the instance, the      *)
(* resource of the guest, and the file.                                    *)
LocksAgree ==
  \A e \in Exts :
    /\ \A l \in locks[e] : flock[l.path] = [ext |-> e, id |-> l.id]
    /\ \A g \in guestLocks[e] :
         /\ g.id < nextLock[e]
         /\ g.held => [id |-> g.id, path |-> g.path] \in locks[e]
         /\ \A h \in guestLocks[e] : g.id = h.id => g = h
FilesHeld ==
  \A p \in Paths : flock[p] \in Lock =>
    [id |-> flock[p].id, path |-> p, held |-> TRUE] \in guestLocks[flock[p].ext]

LockInv == LocksAgree /\ FilesHeld

IInv == TypeOK /\ RegistryInv /\ LockInv

-----------------------------------------------------------------------------
LEMMA InitInv == Init => IInv
<1> SUFFICES ASSUME Init PROVE IInv
  OBVIOUS
<1> USE DEF Init
<1>1. ControlTypes /\ LockTypes
  BY CallbacksAssumption DEF ControlTypes, LockTypes, Lock
<1>2. RegistryTypes
  BY CallbacksAssumption DEF RegistryTypes, Handles
<1>3. Running /\ HandlesOwned /\ TablesNamed
  BY CallbacksAssumption DEF Running, HandlesOwned, TablesNamed, Idle, Ways
<1>4. AcceptedMade /\ HostSideTaken /\ Placed /\ Once /\ Somewhere
  BY DEF AcceptedMade, HostSideTaken, Placed, Once, Somewhere
<1>5. LockInv
  BY CallbacksAssumption DEF LockInv, LocksAgree, FilesHeld, Lock, Idle
<1> QED
  BY <1>1, <1>2, <1>3, <1>4, <1>5 DEF IInv, TypeOK, RegistryInv

-----------------------------------------------------------------------------
(* Locks.                                                                  *)

(* A lock that is granted is new, and the file was free.                   *)
LEMMA GrantStep ==
  ASSUME LockTypes, LockInv, NEW e \in Exts, NEW p \in Paths, Grant(e, p),
         running.ext = e, UNCHANGED running, waiting' = NoPath
  PROVE  LockTypes' /\ LockInv'
<1> DEFINE n == nextLock[e]
           new == [id |-> n, path |-> p]
           mine == [id |-> n, path |-> p, held |-> TRUE]
<1>1. /\ flock[p] = Free /\ flock' = [flock EXCEPT ![p] = [ext |-> e, id |-> n]]
      /\ locks' = [locks EXCEPT ![e] = @ \cup {new}]
      /\ nextLock' = [nextLock EXCEPT ![e] = @ + 1]
      /\ guestLocks' = [guestLocks EXCEPT ![e] = @ \cup {mine}]
  BY DEF Grant, NewLock
<1>2. n \in Nat /\ [ext |-> e, id |-> n] \in Lock /\ Free \notin Lock
  BY CallbacksAssumption DEF LockTypes, Lock
<1>3. LockTypes'
  <2>1. new \in [id : Nat, path : Paths] /\ mine \in [id : Nat, path : Paths, held : BOOLEAN]
    BY <1>2
  <2>2. locks' \in [Exts -> SUBSET [id : Nat, path : Paths]]
    BY <1>1, <2>1 DEF LockTypes
  <2>3. guestLocks' \in [Exts -> SUBSET [id : Nat, path : Paths, held : BOOLEAN]]
    BY <1>1, <2>1 DEF LockTypes
  <2>4. flock' \in [Paths -> {Free, Other} \cup Lock] /\ nextLock' \in [Exts -> Nat]
    BY <1>1, <1>2 DEF LockTypes
  <2> QED
    BY <2>2, <2>3, <2>4 DEF LockTypes
<1>4. /\ flock'[p] = [ext |-> e, id |-> n] /\ nextLock'[e] = n + 1
      /\ locks'[e] = locks[e] \cup {new} /\ guestLocks'[e] = guestLocks[e] \cup {mine}
      /\ \A q \in Paths \ {p} : flock'[q] = flock[q]
      /\ \A x \in Exts \ {e} : /\ locks'[x] = locks[x] /\ guestLocks'[x] = guestLocks[x]
                               /\ nextLock'[x] = nextLock[x]
  BY <1>1, <1>2 DEF LockTypes
<1>5. \A x \in Exts : \A l \in locks[x] : l.path \in Paths \ {p}
  <2> SUFFICES ASSUME NEW x \in Exts, NEW l \in locks[x] PROVE l.path \in Paths \ {p}
    OBVIOUS
  <2>1. l \in [id : Nat, path : Paths]
    BY DEF LockTypes
  <2>2. flock[l.path] = [ext |-> x, id |-> l.id] /\ [ext |-> x, id |-> l.id] \in Lock
    BY <2>1 DEF LockInv, LocksAgree, Lock
  <2> QED
    BY <1>1, <1>2, <2>1, <2>2
<1>6. LocksAgree'
  <2> SUFFICES ASSUME NEW x \in Exts
               PROVE  /\ \A l \in locks'[x] : flock'[l.path] = [ext |-> x, id |-> l.id]
                      /\ \A g \in guestLocks'[x] :
                           /\ g.id < nextLock'[x]
                           /\ g.held => [id |-> g.id, path |-> g.path] \in locks'[x]
                           /\ \A h \in guestLocks'[x] : g.id = h.id => g = h
    BY DEF LocksAgree
  <2>1. \A g \in guestLocks[x] : g.id \in Nat /\ g.id < nextLock[x] /\ nextLock[x] \in Nat
    <3>1. guestLocks[x] \subseteq [id : Nat, path : Paths, held : BOOLEAN] /\ nextLock[x] \in Nat
      BY DEF LockTypes
    <3>2. \A g \in guestLocks[x] : g.id < nextLock[x]
      BY DEF LockInv, LocksAgree
    <3> QED
      BY <3>1, <3>2
  <2>2. CASE x # e
    BY <1>4, <1>5, <2>2 DEF LockInv, LocksAgree
  <2>3. CASE x = e
    <3>1. \A l \in locks'[e] : flock'[l.path] = [ext |-> e, id |-> l.id]
      BY <1>4, <1>5 DEF LockInv, LocksAgree
    <3>2. \A g \in guestLocks[e] : g.id # n /\ g.id < n + 1
      BY <1>2, <2>1, <2>3
    <3>3. /\ mine.id = n /\ [id |-> mine.id, path |-> mine.path] = new /\ n < n + 1
          /\ nextLock'[e] = n + 1 /\ guestLocks'[e] = guestLocks[e] \cup {mine}
          /\ locks'[e] = locks[e] \cup {new}
      BY <1>2, <1>4
    <3> HIDE DEF mine, new, n
    <3>4. ASSUME NEW g \in guestLocks'[e]
          PROVE  /\ g.id < nextLock'[e]
                 /\ g.held => [id |-> g.id, path |-> g.path] \in locks'[e]
                 /\ \A h \in guestLocks'[e] : g.id = h.id => g = h
      BY <3>2, <3>3, <3>4 DEF LockInv, LocksAgree
    <3> QED
      BY <2>3, <3>1, <3>4
  <2> QED
    BY <2>2, <2>3
<1>7. FilesHeld'
  <2> SUFFICES ASSUME NEW q \in Paths, flock'[q] \in Lock
               PROVE  [id |-> flock'[q].id, path |-> q, held |-> TRUE]
                        \in guestLocks'[flock'[q].ext]
    BY DEF FilesHeld
  <2>1. CASE q = p
    BY <1>4, <2>1
  <2>2. CASE q # p
    <3>1. flock[q] \in Lock /\ flock[q].ext \in Exts /\ flock'[q] = flock[q]
      BY <1>4, <2>2 DEF Lock
    <3> QED
      BY <1>4, <3>1 DEF LockInv, FilesHeld
  <2> QED
    BY <2>1, <2>2
<1> QED
  BY <1>3, <1>6, <1>7 DEF LockInv

LEMMA ReleaseStep ==
  ASSUME LockTypes, LockInv, NEW e \in Exts, ReleaseLock(e)
  PROVE  LockTypes' /\ LockInv'
<1>1. PICK g \in guestLocks[e], gone \in BOOLEAN :
        /\ FreeLock(e, g.id)
        /\ guestLocks' = [guestLocks EXCEPT ![e] =
             (@ \ {g}) \cup (IF gone THEN {} ELSE {[g EXCEPT !.held = FALSE]})]
  BY DEF ReleaseLock
<1>2. running.ext = e /\ waiting = NoPath /\ UNCHANGED <<running, nextLock, waiting>>
  BY DEF ReleaseLock
<1> DEFINE spent == [g EXCEPT !.held = FALSE]
<1>3. /\ g \in [id : Nat, path : Paths, held : BOOLEAN]
      /\ spent \in [id : Nat, path : Paths, held : BOOLEAN]
      /\ spent.id = g.id /\ spent.path = g.path /\ spent.held = FALSE
  <2>1. guestLocks[e] \subseteq [id : Nat, path : Paths, held : BOOLEAN]
    BY DEF LockTypes
  <2> QED
    BY <2>1
<1>4. /\ locks' = [locks EXCEPT ![e] = {l \in @ : l.id # g.id}]
      /\ flock' = [p \in Paths |-> IF \E l \in locks[e] : l.id = g.id /\ l.path = p
                                   THEN Free ELSE flock[p]]
  BY <1>1 DEF FreeLock
<1>5. guestLocks'[e] \subseteq (guestLocks[e] \ {g}) \cup {spent}
      /\ guestLocks[e] \ {g} \subseteq guestLocks'[e]
  BY <1>1 DEF LockTypes
<1>6. \A x \in Exts \ {e} : locks'[x] = locks[x] /\ guestLocks'[x] = guestLocks[x]
  BY <1>1, <1>4 DEF LockTypes
<1>7. locks'[e] = {l \in locks[e] : l.id # g.id}
  BY <1>4 DEF LockTypes
<1>8. LockTypes'
  <2>1. guestLocks' \in [Exts -> SUBSET [id : Nat, path : Paths, held : BOOLEAN]]
    BY <1>1, <1>3 DEF LockTypes
  <2>2. locks' \in [Exts -> SUBSET [id : Nat, path : Paths]]
    BY <1>4 DEF LockTypes
  <2>3. flock' \in [Paths -> {Free, Other} \cup Lock]
    BY <1>4 DEF LockTypes
  <2> QED
    BY <1>2, <2>1, <2>2, <2>3 DEF LockTypes
<1>9. LocksAgree'
  <2>1. ASSUME NEW x \in Exts, NEW l \in locks'[x]
        PROVE  flock'[l.path] = [ext |-> x, id |-> l.id]
    <3>1. l \in locks[x] /\ l \in [id : Nat, path : Paths]
      BY <1>6, <1>7, <2>1 DEF LockTypes
    <3>2. flock[l.path] = [ext |-> x, id |-> l.id]
      BY <3>1 DEF LockInv, LocksAgree
    <3>3. ASSUME NEW m \in locks[e], m.id = g.id, m.path = l.path PROVE FALSE
      <4>1. flock[m.path] = [ext |-> e, id |-> m.id]
        BY DEF LockInv, LocksAgree
      <4>2. x = e /\ l.id = g.id
        BY <3>2, <3>3, <4>1
      <4> QED
        BY <1>7, <2>1, <4>2
    <3> QED
      BY <1>4, <3>1, <3>2, <3>3
  <2>2. ASSUME NEW x \in Exts, NEW h \in guestLocks'[x]
        PROVE  /\ h.id < nextLock'[x]
               /\ h.held => [id |-> h.id, path |-> h.path] \in locks'[x]
               /\ \A i \in guestLocks'[x] : h.id = i.id => h = i
    <3>1. CASE x # e
      BY <1>2, <1>6, <2>2, <3>1 DEF LockInv, LocksAgree
    <3>2. CASE x = e
      <4>1. /\ g.id < nextLock[e]
            /\ \A i \in guestLocks[e] : g.id = i.id => g = i
        BY DEF LockInv, LocksAgree
      <4> QED
        <5> HIDE DEF spent
        <5>1. h = spent \/ (h \in guestLocks[e] /\ h.id # g.id)
          BY <1>5, <2>2, <3>2, <4>1
        <5>2. /\ h.id < nextLock[e]
              /\ h.held => [id |-> h.id, path |-> h.path] \in locks[e] /\ h.id # g.id
          BY <1>3, <4>1, <5>1 DEF LockInv, LocksAgree
        <5>3. ASSUME NEW i \in guestLocks'[e], h.id = i.id PROVE h = i
          <6>1. i = spent \/ (i \in guestLocks[e] /\ i.id # g.id)
            BY <1>5, <4>1
          <6> QED
            BY <1>3, <5>1, <5>3, <6>1 DEF LockInv, LocksAgree
        <5> QED
          BY <1>2, <1>7, <3>2, <5>2, <5>3
    <3> QED
      BY <3>1, <3>2
  <2> QED
    BY <2>1, <2>2 DEF LocksAgree
<1>10. FilesHeld'
  <2> SUFFICES ASSUME NEW p \in Paths, flock'[p] \in Lock
               PROVE  [id |-> flock'[p].id, path |-> p, held |-> TRUE]
                        \in guestLocks'[flock'[p].ext]
    BY DEF FilesHeld
  <2> DEFINE h == [id |-> flock[p].id, path |-> p, held |-> TRUE]
  <2>1. /\ flock'[p] = flock[p] /\ flock[p].ext \in Exts /\ h \in guestLocks[flock[p].ext]
        /\ ~ \E l \in locks[e] : l.id = g.id /\ l.path = p
    BY <1>4, CallbacksAssumption DEF Lock, LockInv, FilesHeld
  <2>2. CASE flock[p].ext # e
    BY <1>6, <2>1, <2>2
  <2>3. CASE flock[p].ext = e
    <3>1. [id |-> h.id, path |-> h.path] \in locks[e]
      BY <2>1, <2>3 DEF LockInv, LocksAgree
    <3>2. h # g
      BY <2>1, <3>1
    <3> QED
      BY <1>5, <2>1, <2>3, <3>2
  <2> QED
    BY <2>2, <2>3
<1> QED
  BY <1>8, <1>9, <1>10 DEF LockInv

(* An instance that is dropped takes its locks with it.                    *)
LEMMA UnlockStep ==
  ASSUME LockTypes, LockInv, NEW e \in Exts, running.ext = e, LoadFails(e)
  PROVE  LockTypes' /\ LockInv'
<1>1. /\ waiting = NoPath /\ waiting' = NoPath /\ running' = Idle
      /\ flock' = Unlocked(e)
      /\ locks' = [locks EXCEPT ![e] = {}] /\ guestLocks' = [guestLocks EXCEPT ![e] = {}]
      /\ nextLock' = [nextLock EXCEPT ![e] = 1]
  BY DEF LoadFails
<1>2. \A p \in Paths : flock'[p] = IF flock[p] \in Lock /\ flock[p].ext = e THEN Free ELSE flock[p]
  BY <1>1, CallbacksAssumption DEF Unlocked, LockTypes, Lock
<1>3. LockTypes'
  BY <1>1 DEF LockTypes, Unlocked
<1>4. /\ locks'[e] = {} /\ guestLocks'[e] = {}
      /\ \A x \in Exts \ {e} : /\ locks'[x] = locks[x] /\ guestLocks'[x] = guestLocks[x]
                               /\ nextLock'[x] = nextLock[x]
  BY <1>1 DEF LockTypes
<1>5. LocksAgree'
  <2> SUFFICES ASSUME NEW x \in Exts \ {e}, NEW l \in locks[x]
               PROVE  flock'[l.path] = [ext |-> x, id |-> l.id]
    BY <1>4 DEF LockInv, LocksAgree
  <2>1. l.path \in Paths /\ flock[l.path] = [ext |-> x, id |-> l.id]
    BY DEF LockTypes, LockInv, LocksAgree
  <2> QED
    BY <1>2, <2>1
<1>6. FilesHeld'
  <2> SUFFICES ASSUME NEW p \in Paths, flock'[p] \in Lock
               PROVE  [id |-> flock'[p].id, path |-> p, held |-> TRUE]
                        \in guestLocks'[flock'[p].ext]
    BY DEF FilesHeld
  <2>1. flock'[p] = flock[p] /\ flock[p].ext \in Exts \ {e}
    BY <1>2, CallbacksAssumption DEF Lock
  <2> QED
    BY <1>4, <2>1 DEF LockInv, FilesHeld
<1> QED
  BY <1>3, <1>5, <1>6 DEF LockInv

LEMMA OtherProcessStep ==
  ASSUME LockTypes, LockInv, NEW p \in Paths, OtherProcess(p)
  PROVE  LockTypes' /\ LockInv'
<1>1. /\ flock[p] \in {Free, Other}
      /\ flock' \in {[flock EXCEPT ![p] = Free], [flock EXCEPT ![p] = Other]}
      /\ UNCHANGED <<running, nextLock, locks, guestLocks, waiting>>
  BY DEF OtherProcess
<1>2. /\ flock'[p] \in {Free, Other} /\ \A q \in Paths \ {p} : flock'[q] = flock[q]
      /\ {Free, Other} \cap Lock = {}
  BY <1>1, CallbacksAssumption DEF LockTypes, Lock
<1>3. LockTypes'
  BY <1>1 DEF LockTypes
<1>4. LocksAgree'
  <2>1. \A x \in Exts : \A l \in locks[x] :
          l.path \in Paths /\ [ext |-> x, id |-> l.id] \in Lock
    BY DEF LockTypes, Lock
  <2> QED
    BY <1>1, <1>2, <2>1 DEF LockInv, LocksAgree
<1>5. FilesHeld'
  BY <1>1, <1>2 DEF LockInv, FilesHeld
<1> QED
  BY <1>3, <1>4, <1>5 DEF LockInv

(* A step that leaves the locks alone, entering or leaving a guest.        *)
LEMMA ControlStep ==
  ASSUME LockTypes, LockInv, UNCHANGED lockVars
  PROVE  LockTypes' /\ LockInv'
BY DEF LockTypes, LockInv, LocksAgree, FilesHeld, lockVars

(* Every step keeps the locks in order.                                    *)
LEMMA LockStep ==
  ASSUME ControlTypes, LockTypes, LockInv, Next
  PROVE  LockTypes' /\ LockInv'
<1>2. ASSUME NEW e \in Exts, Guest(e) PROVE LockTypes' /\ LockInv'
  <2>1. CASE \/ GetCapability(e) \/ NewCallback(e) \/ DropCallback(e) \/ Register(e)
             \/ RegisterDirect(e) \/ RegisterHost(e) \/ RegisterScan(e) \/ DropRegistry(e)
    <3>1. UNCHANGED lockVars
      BY <2>1 DEF GetCapability, NewCallback, DropCallback, Register, RegisterDirect, RegisterHost,
                  RegisterPending, RegisterScan, DropRegistry
    <3> QED
      BY <3>1, ControlStep
  <2>2. ASSUME NEW p \in Paths, AcquireExclusive(e, p) \/ TryAcquireExclusive(e, p)
        PROVE  LockTypes' /\ LockInv'
    <3>1. running.ext = e /\ waiting = NoPath /\ UNCHANGED running
      BY <2>2 DEF AcquireExclusive, TryAcquireExclusive, Import
    <3>2. CASE Grant(e, p) /\ UNCHANGED waiting
      BY <3>1, <3>2, GrantStep
    <3>3. CASE UNCHANGED <<flock, locks, nextLock, guestLocks>> /\ waiting' \in {p, NoPath}
      BY <3>1, <3>3
         DEF LockTypes, LockInv, LocksAgree, FilesHeld
    <3> QED
      BY <2>2, <3>1, <3>2, <3>3 DEF AcquireExclusive, TryAcquireExclusive
  <2>3. CASE Granted(e)
    BY <2>3, GrantStep DEF Granted, LockTypes
  <2>4. CASE ReleaseLock(e)
    BY <2>4, ReleaseStep
  <2>5. CASE LoadFails(e)
    BY <2>5, UnlockStep DEF LoadFails
  <2>6. CASE LoadReturns(e) \/ CallReturns(e) \/ CallTraps(e)
    <3>1. UNCHANGED lockVars
      BY <2>6 DEF LoadReturns, CallReturns, CallTraps
    <3> QED
      BY <3>1, ControlStep
  <2> QED
    BY <1>2, <2>1, <2>2, <2>3, <2>4, <2>5, <2>6 DEF Guest
<1>3. CASE Host
  <2>1. UNCHANGED lockVars
    BY <1>3 DEF Host, Stash, StartLoad, Deliver, Call
  <2> QED
    BY <2>1, ControlStep
<1>4. ASSUME NEW p \in Paths, OtherProcess(p) PROVE LockTypes' /\ LockInv'
  BY <1>4, OtherProcessStep
<1>5. CASE Done
  BY <1>5, ControlStep DEF Done, vars
<1> QED
  BY <1>2, <1>3, <1>4, <1>5 DEF Next

-----------------------------------------------------------------------------
(* Registrations.                                                          *)

entriesAndPlaces == <<inst, attempt, registry, owned, named, captured, kept>>

(* A step that enters or leaves a guest, or changes what only types bind.  *)
LEMMA EnteredStep ==
  ASSUME RegistryInv, UNCHANGED entriesAndPlaces, Running'
  PROVE  RegistryInv'
BY DEF RegistryInv, entriesAndPlaces, registry, kept, HandlesOwned, TablesNamed, AcceptedMade,
       HostSideTaken, Placed, Once, Somewhere, Made

LEMMA RunningKept ==
  ASSUME Running, UNCHANGED <<inst, running>>
  PROVE  Running'
BY DEF Running

(* A new callback takes a handle that nothing refers to.                   *)
LEMMA NewCallbackStep ==
  ASSUME ControlTypes, RegistryTypes, RegistryInv, NEW e \in Exts, NewCallback(e)
  PROVE  RegistryTypes' /\ RegistryInv'
<1>0. PICK n : n = next
  OBVIOUS
<1>1. /\ running.ext = e /\ imports < MaxImports /\ imports' = imports + 1
      /\ next' = next + 1 /\ owned' = [owned EXCEPT ![e] = @ \cup {n}]
      /\ UNCHANGED <<inst, attempt, running, nextId, caps, open, named, captured, kept>>
  BY <1>0 DEF NewCallback, Import, Allocated
<1>2. PICK k \in Kinds :
        entries' = [entries EXCEPT ![n] = [ext |-> e, kind |-> k, att |-> attempt[e]]]
  BY <1>0 DEF NewCallback, Allocated
<1>3. n \in Handles /\ n \in Nat /\ next = n /\ next' \in 1..(imports' + 1) /\ imports \in Nat
  BY <1>0, <1>1, CallbacksAssumption DEF ControlTypes, RegistryTypes, Handles
<1>4. [ext |-> e, kind |-> k, att |-> attempt[e]] \in Entry
  BY DEF ControlTypes, Entry
<1>5. RegistryTypes'
  <2>1. entries' \in [Handles -> Entry \cup {NoEntry}]
    BY <1>2, <1>4 DEF RegistryTypes
  <2>2. owned' \in [Exts -> SUBSET Handles]
    BY <1>1, <1>3 DEF RegistryTypes
  <2> QED
    BY <1>1, <1>3, <2>1, <2>2 DEF RegistryTypes, kept
<1>6. \A h \in Handles : h < n \/ h = n \/ h >= n + 1
  BY <1>3 DEF Handles
<1>7. /\ entries[n] = NoEntry /\ Made(n, e, k)'
      /\ \A h \in Handles \ {n} : entries'[h] = entries[h]
  <2>1. entries[n] = NoEntry
    BY <1>3 DEF RegistryInv, HandlesOwned
  <2>2. /\ entries'[n] = [ext |-> e, kind |-> k, att |-> attempt[e]]
        /\ \A h \in Handles \ {n} : entries'[h] = entries[h]
    BY <1>2, <1>3 DEF RegistryTypes
  <2> QED
    BY <1>1, <1>4, <2>1, <2>2, CallbacksAssumption DEF Made
<1>8. \A h \in Handles, x \in Exts, y \in {"scan", "table"} \cup Kinds :
        Made(h, x, y) => Made(h, x, y)' /\ h # n
  BY <1>1, <1>7 DEF Made
<1>9. inst[e] # "absent"
  BY <1>1, CallbacksAssumption DEF RegistryInv, Running, ControlTypes, Idle
<1>10. /\ owned'[e] = owned[e] \cup {n}
       /\ \A x \in Exts \ {e} : owned'[x] = owned[x]
       /\ \A x \in Exts : owned[x] \subseteq Handles
  BY <1>1 DEF RegistryTypes
<1>11. HandlesOwned'
  <2>1. \A h \in Handles : h >= next' => entries'[h] = NoEntry
    BY <1>1, <1>3, <1>6, <1>7 DEF RegistryInv, HandlesOwned, Handles
  <2>2. ASSUME NEW x \in Exts, NEW h \in owned[x]
        PROVE  inst'[x] # "absent" /\ \E y \in Kinds : Made(h, x, y)'
    BY <1>1, <1>8, <1>10 DEF RegistryInv, HandlesOwned
  <2> QED
    <3>1. ASSUME NEW x \in Exts, NEW h \in owned'[x]
          PROVE  inst'[x] # "absent" /\ \E y \in Kinds : Made(h, x, y)'
      BY <1>1, <1>7, <1>9, <1>10, <2>2
    <3> QED
      BY <2>1, <3>1 DEF HandlesOwned
<1>12. TablesNamed'
  <2> SUFFICES ASSUME NEW x \in Exts, NEW t \in named[x]
               PROVE  inst[x] # "absent" /\ Made(t.cb, x, "table")' /\ t.cb \notin owned'[x]
    BY <1>1 DEF TablesNamed
  <2>1. t.cb \in Handles
    BY DEF RegistryTypes
  <2> QED
    BY <1>8, <1>10, <2>1 DEF RegistryInv, TablesNamed
<1>13. AcceptedMade'
  <2> SUFFICES ASSUME NEW r \in accepted
               PROVE  /\ Made(r.cb, r.ext, IF r.kind = "scan" THEN "table" ELSE r.kind)'
                      /\ r.cb \notin owned'[r.ext]
                      /\ r.att = attempt'[r.ext] /\ inst'[r.ext] # "absent"
    BY <1>1 DEF AcceptedMade, kept
  <2>1. r.cb \in Handles /\ r.ext \in Exts /\ r.kind \in Kinds \cup {"scan"}
    BY DEF RegistryTypes, Reg
  <2> QED
    BY <1>1, <1>8, <1>10, <2>1 DEF RegistryInv, AcceptedMade
<1> QED
  BY <1>1, <1>5, <1>11, <1>12, <1>13, RunningKept
     DEF RegistryInv, HostSideTaken, Placed, Once, Somewhere, kept

(* Only a callback that nothing refers to is dropped.                      *)
LEMMA DropCallbackStep ==
  ASSUME ControlTypes, RegistryTypes, RegistryInv, NEW e \in Exts, DropCallback(e)
  PROVE  RegistryTypes' /\ RegistryInv'
<1>1. /\ imports' = imports + 1 /\ imports \in Nat
      /\ UNCHANGED <<inst, attempt, running, nextId, caps, open, named, captured, next, kept>>
  BY CallbacksAssumption DEF DropCallback, Import, ControlTypes
<1>2. PICK h \in owned[e] : /\ owned' = [owned EXCEPT ![e] = @ \ {h}]
                            /\ entries' = [entries EXCEPT ![h] = NoEntry]
  BY DEF DropCallback
<1>3. h \in Handles /\ entries[h].ext = e
  <2>1. PICK k \in Kinds : Made(h, e, k)
    BY DEF RegistryInv, HandlesOwned
  <2> QED
    BY <2>1 DEF Made, RegistryTypes
<1>4. RegistryTypes'
  BY <1>1, <1>2, <1>3 DEF RegistryTypes, kept
<1>5. /\ \A x \in Exts : owned'[x] \subseteq owned[x] /\ owned[x] \subseteq Handles
      /\ h \notin owned'[e] /\ entries'[h] = NoEntry
      /\ \A i \in Handles \ {h} : entries'[i] = entries[i]
  BY <1>2, <1>3 DEF RegistryTypes
<1>6. \A i \in Handles, x \in Exts, y \in {"scan", "table"} \cup Kinds :
        Made(i, x, y) /\ (i \notin owned[x] \/ i \in owned'[x]) => Made(i, x, y)'
  BY <1>1, <1>3, <1>5 DEF Made
<1>7. HandlesOwned'
  BY <1>1, <1>5, <1>6 DEF RegistryInv, HandlesOwned
<1>8. TablesNamed'
  <2> SUFFICES ASSUME NEW x \in Exts, NEW t \in named[x]
               PROVE  inst[x] # "absent" /\ Made(t.cb, x, "table")' /\ t.cb \notin owned'[x]
    BY <1>1 DEF TablesNamed
  <2>1. t.cb \in Handles
    BY DEF RegistryTypes
  <2> QED
    BY <1>5, <1>6, <2>1 DEF RegistryInv, TablesNamed
<1>9. AcceptedMade'
  <2> SUFFICES ASSUME NEW r \in accepted
               PROVE  /\ Made(r.cb, r.ext, IF r.kind = "scan" THEN "table" ELSE r.kind)'
                      /\ r.cb \notin owned'[r.ext]
                      /\ r.att = attempt'[r.ext] /\ inst'[r.ext] # "absent"
    BY <1>1 DEF AcceptedMade, kept
  <2>1. r.cb \in Handles /\ r.ext \in Exts /\ r.kind \in Kinds \cup {"scan"}
    BY DEF RegistryTypes, Reg
  <2> QED
    BY <1>1, <1>5, <1>6, <2>1 DEF RegistryInv, AcceptedMade
<1> QED
  BY <1>1, <1>4, <1>7, <1>8, <1>9, RunningKept
     DEF RegistryInv, HostSideTaken, Placed, Once, Somewhere, kept

(* A registration takes its callback from the guest and enters the         *)
(* instance; a table registration may be named by scans from then on.      *)
LEMMA CapturedStep ==
  ASSUME ControlTypes, RegistryTypes, RegistryInv, NEW e \in Exts, NEW reg \in Reg, NEW at \in Nat,
         running.ext = e, reg.ext = e, reg.att = attempt[e], reg.late <=> running.way = "call",
         Made(reg.cb, e, IF reg.kind = "scan" THEN "table" ELSE reg.kind),
         reg \notin accepted, Capture(e, reg, at),
         \A x \in Exts : owned'[x] \subseteq owned[x], reg.cb \notin owned'[e],
         \A x \in Exts \ {e} : named'[x] = named[x],
         \A t \in named'[e] : t \in named[e] \/ (t.cb = reg.cb /\ reg.kind = "table"),
         UNCHANGED <<inst, attempt, running, registry, deferred, mapped, delivered>>
  PROVE  RegistryInv'
<1> DEFINE new == [reg |-> reg, at |-> at]
<1>1. /\ captured'[e] = captured[e] \cup {new}
      /\ \A x \in Exts \ {e} : captured'[x] = captured[x]
      /\ accepted' = accepted \cup {reg} /\ new.reg = reg
  BY DEF Capture, RegistryTypes
<1>2. inst[e] = "loading" \/ (inst[e] = "live" /\ running.way = "call")
  BY CallbacksAssumption DEF RegistryInv, Running, ControlTypes, Idle, Ways
<1> HIDE DEF new
<1>3. \A h, x, y : Made(h, x, y)' <=> Made(h, x, y)
  BY DEF Made, registry
<1>4. Running' /\ HandlesOwned'
  BY <1>3, RunningKept DEF RegistryInv, HandlesOwned, registry
<1>5. TablesNamed'
  BY <1>2, <1>3 DEF RegistryInv, TablesNamed
<1>6. AcceptedMade'
  <2>1. \A r \in accepted : r.ext \in Exts
    BY DEF RegistryTypes, Reg
  <2> QED
    BY <1>1, <1>2, <1>3, <2>1 DEF RegistryInv, AcceptedMade
<1>7. HostSideTaken' /\ Placed'
  BY <1>1, <1>2 DEF RegistryInv, HostSideTaken, Placed
<1>8. Once'
  BY <1>1 DEF RegistryInv, Once, Placed
<1>9. Somewhere'
  <2>1. \A r \in accepted : r.ext \in Exts
    BY DEF RegistryTypes, Reg
  <2> QED
    BY <1>1, <2>1 DEF RegistryInv, Somewhere
<1> QED
  BY <1>4, <1>5, <1>6, <1>7, <1>8, <1>9 DEF RegistryInv

(* The callback an owned handle stands for, when its kind is the right one.*)
LEMMA OwnedMade ==
  ASSUME RegistryTypes, RegistryInv, NEW e \in Exts, NEW h \in owned[e], NEW k, Valid(h, k)
  PROVE  h \in Handles /\ Made(h, e, k) /\ \A r \in accepted : r.ext = e => r.cb # h
<1>1. PICK y \in Kinds : Made(h, e, y)
  BY DEF RegistryInv, HandlesOwned
<1>2. Made(h, e, k) /\ h \in Handles
  BY <1>1 DEF Made, Valid, RegistryTypes
<1> QED
  BY <1>2 DEF RegistryInv, AcceptedMade

LEMMA NewRegShape ==
  ASSUME ControlTypes, NEW e \in Exts, NEW k \in Kinds \cup {"scan"}, NEW h \in Handles
  PROVE  /\ NewReg(e, k, h) \in Reg
         /\ NewReg(e, k, h).ext = e /\ NewReg(e, k, h).cb = h /\ NewReg(e, k, h).kind = k
         /\ NewReg(e, k, h).att = attempt[e]
         /\ NewReg(e, k, h).late <=> running.way = "call"
BY DEF NewReg, Reg, ControlTypes

LEMMA CaptureTypes ==
  ASSUME ControlTypes, RegistryTypes, NEW e \in Exts, NEW reg \in Reg, NEW at \in Nat,
         Capture(e, reg, at)
  PROVE  captured' \in [Exts -> SUBSET [reg : Reg, at : Nat]] /\ accepted' \subseteq Reg
<1>1. [reg |-> reg, at |-> at] \in [reg : Reg, at : Nat]
  OBVIOUS
<1> QED
  BY <1>1 DEF Capture, RegistryTypes

LEMMA RegisterStep ==
  ASSUME ControlTypes, RegistryTypes, RegistryInv, NEW e \in Exts, Register(e)
  PROVE  RegistryTypes' /\ RegistryInv'
<1>1. /\ running.ext = e /\ imports' = imports + 1 /\ imports \in Nat
      /\ UNCHANGED <<inst, attempt, running, caps, open, registry, deferred, mapped, delivered>>
  BY CallbacksAssumption DEF Register, Import, ControlTypes
<1>2. PICK c \in caps[e], h \in owned[e] :
       /\ owned' = [owned EXCEPT ![e] = Moved(e, h)]
       /\ IF Valid(h, c.kind) /\ c.id \in open[e]
          THEN /\ Capture(e, NewReg(e, c.kind, h), c.id)
               /\ named' = IF c.kind = "table"
                           THEN [named EXCEPT ![e] = @ \cup {[id |-> nextId[e], cb |-> h]}]
                           ELSE named
               /\ FreshId(e)
          ELSE UNCHANGED <<captured, accepted, named, nextId>>
  BY DEF Register
<1>3. c.kind \in Kinds /\ c.id \in Nat /\ h \in Handles
  BY DEF RegistryTypes
<1>4. /\ owned' \in [Exts -> SUBSET Handles] /\ h \notin owned'[e]
      /\ \A x \in Exts : owned'[x] \subseteq owned[x]
  BY <1>2 DEF RegistryTypes, Moved
<1>5. CASE Valid(h, c.kind) /\ c.id \in open[e]
  <2> DEFINE reg == NewReg(e, c.kind, h)
             t == [id |-> nextId[e], cb |-> h]
  <2>1. /\ reg \in Reg /\ reg.ext = e /\ reg.cb = h /\ reg.kind = c.kind
        /\ reg.att = attempt[e] /\ (reg.late <=> running.way = "call")
    BY <1>3, NewRegShape
  <2>2. Made(h, e, c.kind) /\ \A r \in accepted : r.ext = e => r.cb # h
    BY <1>5, OwnedMade
  <2>3. c.kind # "scan"
    BY <1>3, CallbacksAssumption DEF Buffered
  <2>4. /\ Capture(e, reg, c.id) /\ FreshId(e)
        /\ named' = IF c.kind = "table" THEN [named EXCEPT ![e] = @ \cup {t}] ELSE named
    BY <1>2, <1>5
  <2>5. /\ named' \in [Exts -> SUBSET [id : Nat, cb : Handles]]
        /\ \A x \in Exts \ {e} : named'[x] = named[x]
        /\ \A s \in named'[e] : s \in named[e] \/ (s.cb = h /\ c.kind = "table")
    <3>1. t \in [id : Nat, cb : Handles] /\ t.cb = h
      BY <1>3 DEF RegistryTypes
    <3> QED
      BY <2>4, <3>1 DEF RegistryTypes
  <2>6. nextId' \in [Exts -> Nat]
    BY <2>4 DEF FreshId, RegistryTypes
  <2> HIDE DEF reg
  <2>7. captured' \in [Exts -> SUBSET [reg : Reg, at : Nat]] /\ accepted' \subseteq Reg
    BY <1>3, <2>1, <2>4, CaptureTypes
  <2>8. RegistryTypes'
    BY <1>1, <1>4, <2>5, <2>6, <2>7 DEF RegistryTypes, registry
  <2>9. reg \notin accepted /\ Made(reg.cb, e, IF reg.kind = "scan" THEN "table" ELSE reg.kind)
    BY <2>1, <2>2, <2>3
  <2> QED
    BY <1>1, <1>3, <1>4, <2>1, <2>4, <2>5, <2>8, <2>9, CapturedStep
<1>6. CASE ~(Valid(h, c.kind) /\ c.id \in open[e])
  <2>1. UNCHANGED <<captured, accepted, named, nextId>>
    BY <1>2, <1>6
  <2>2. RegistryTypes'
    BY <1>1, <1>4, <2>1 DEF RegistryTypes, registry
  <2>3. HandlesOwned' /\ TablesNamed'
    BY <1>1, <1>4, <2>1 DEF RegistryInv, HandlesOwned, TablesNamed, Made, registry
  <2>4. AcceptedMade'
    <3>1. \A r \in accepted : r.ext \in Exts
      BY DEF RegistryTypes, Reg
    <3> QED
      BY <1>1, <1>4, <2>1, <3>1 DEF RegistryInv, AcceptedMade, Made, registry
  <2> QED
    BY <1>1, <2>1, <2>2, <2>3, <2>4, RunningKept
       DEF RegistryInv, HostSideTaken, Placed, Once, Somewhere
<1> QED
  BY <1>5, <1>6

LEMMA RegisterPendingStep ==
  ASSUME ControlTypes, RegistryTypes, RegistryInv, NEW e \in Exts, NEW k \in {"direct", "host"},
         RegisterPending(e, k)
  PROVE  RegistryTypes' /\ RegistryInv'
<1>1. /\ running.ext = e /\ imports' = imports + 1 /\ imports \in Nat
      /\ UNCHANGED <<inst, attempt, running, nextId, caps, open, named, registry,
                     deferred, mapped, delivered>>
  BY CallbacksAssumption DEF RegisterPending, Import, ControlTypes
<1>2. PICK h \in owned[e] : /\ Valid(h, k) /\ owned' = [owned EXCEPT ![e] = Moved(e, h)]
                            /\ Capture(e, NewReg(e, k, h), 0)
  BY DEF RegisterPending
<1> DEFINE reg == NewReg(e, k, h)
<1>3. h \in Handles /\ Made(h, e, k) /\ \A r \in accepted : r.ext = e => r.cb # h
  BY <1>2, OwnedMade
<1>4. k \in Kinds
  BY <1>3 DEF RegistryTypes, Made, Entry
<1>5. /\ reg \in Reg /\ reg.ext = e /\ reg.cb = h /\ reg.kind = k
      /\ reg.att = attempt[e] /\ (reg.late <=> running.way = "call")
  BY <1>3, <1>4, NewRegShape
<1>6. /\ owned' \in [Exts -> SUBSET Handles] /\ h \notin owned'[e]
      /\ \A x \in Exts : owned'[x] \subseteq owned[x]
  BY <1>2 DEF RegistryTypes, Moved
<1> HIDE DEF reg
<1>7. captured' \in [Exts -> SUBSET [reg : Reg, at : Nat]] /\ accepted' \subseteq Reg
  BY <1>2, <1>5, CaptureTypes DEF reg
<1>8. RegistryTypes'
  BY <1>1, <1>6, <1>7 DEF RegistryTypes, registry
<1>9. reg \notin accepted /\ Made(reg.cb, e, IF reg.kind = "scan" THEN "table" ELSE reg.kind)
  BY <1>3, <1>5
<1>10. Capture(e, reg, 0)
  BY <1>2 DEF reg
<1> QED
  BY <1>1, <1>5, <1>6, <1>8, <1>9, <1>10, CapturedStep

LEMMA RegisterScanStep ==
  ASSUME ControlTypes, RegistryTypes, RegistryInv, NEW e \in Exts, RegisterScan(e)
  PROVE  RegistryTypes' /\ RegistryInv'
<1>1. /\ running.ext = e /\ imports' = imports + 1 /\ imports \in Nat
      /\ UNCHANGED <<inst, attempt, running, nextId, caps, open, named, owned, registry,
                     deferred, mapped, delivered>>
  BY CallbacksAssumption DEF RegisterScan, Import, ControlTypes
<1>2. PICK t \in named[e] : /\ \A r \in accepted : ~(r.kind = "scan" /\ r.cb = t.cb)
                            /\ Capture(e, NewReg(e, "scan", t.cb), 0)
  BY DEF RegisterScan
<1> DEFINE reg == NewReg(e, "scan", t.cb)
<1>3. t.cb \in Handles /\ Made(t.cb, e, "table") /\ t.cb \notin owned[e]
  BY DEF RegistryTypes, RegistryInv, TablesNamed
<1>4. /\ reg \in Reg /\ reg.ext = e /\ reg.cb = t.cb /\ reg.kind = "scan"
      /\ reg.att = attempt[e] /\ (reg.late <=> running.way = "call")
  BY <1>3, NewRegShape
<1> HIDE DEF reg
<1>5. captured' \in [Exts -> SUBSET [reg : Reg, at : Nat]] /\ accepted' \subseteq Reg
  BY <1>2, <1>4, CaptureTypes DEF reg
<1>6. RegistryTypes'
  BY <1>1, <1>5 DEF RegistryTypes, registry
<1>7. reg \notin accepted /\ Made(reg.cb, e, IF reg.kind = "scan" THEN "table" ELSE reg.kind)
  BY <1>2, <1>3, <1>4
<1>8. Capture(e, reg, 0)
  BY <1>2 DEF reg
<1> QED
  BY <1>1, <1>3, <1>4, <1>6, <1>7, <1>8, CapturedStep

(* A registry that is dropped moves its buffer: no registration is split.  *)
LEMMA DropRegistryStep ==
  ASSUME ControlTypes, RegistryTypes, RegistryInv, NEW e \in Exts, DropRegistry(e)
  PROVE  RegistryTypes' /\ RegistryInv'
<1>1. /\ running.ext = e /\ imports' = imports + 1 /\ imports \in Nat
      /\ UNCHANGED <<inst, attempt, running, nextId, named, owned, registry, kept>>
  BY CallbacksAssumption DEF DropRegistry, Import, ControlTypes
<1>2. PICK c \in caps[e] :
       /\ caps' = [caps EXCEPT ![e] = @ \ {c}]
       /\ open' = [open EXCEPT ![e] = @ \ {c.id}]
       /\ captured' = [captured EXCEPT ![e] =
            {[reg |-> r.reg, at |-> IF r.at = c.id THEN 0 ELSE r.at] : r \in @}]
  BY DEF DropRegistry
<1> DEFINE moved(r) == [reg |-> r.reg, at |-> IF r.at = c.id THEN 0 ELSE r.at]
<1>3. /\ captured'[e] = {moved(r) : r \in captured[e]}
      /\ \A x \in Exts \ {e} : captured'[x] = captured[x]
      /\ \A r : moved(r).reg = r.reg
      /\ \A r \in [reg : Reg, at : Nat] : moved(r) \in [reg : Reg, at : Nat]
  BY <1>2 DEF RegistryTypes
<1>4. captured' \in [Exts -> SUBSET [reg : Reg, at : Nat]]
  <2>1. captured' = [captured EXCEPT ![e] = {moved(r) : r \in @}]
    BY <1>2
  <2>2. {moved(r) : r \in captured[e]} \subseteq [reg : Reg, at : Nat]
    BY <1>3 DEF RegistryTypes
  <2> HIDE DEF moved
  <2> QED
    BY <2>1, <2>2 DEF RegistryTypes
<1>5. RegistryTypes'
  <2>1. caps' \in [Exts -> SUBSET [id : Nat, kind : Kinds \cap Buffered]]
    BY <1>2 DEF RegistryTypes
  <2>2. open' \in [Exts -> SUBSET Nat]
    BY <1>2 DEF RegistryTypes
  <2> QED
    BY <1>1, <1>4, <2>1, <2>2 DEF RegistryTypes, registry, kept
<1> HIDE DEF moved
<1>6. Running' /\ HandlesOwned' /\ TablesNamed' /\ AcceptedMade'
  BY <1>1, RunningKept
     DEF RegistryInv, HandlesOwned, TablesNamed, AcceptedMade, Made, registry, kept
<1>7. \A x \in Exts : \A d \in captured'[x] : \E r \in captured[x] :
        d.reg = r.reg /\ (x = e => d = moved(r)) /\ (x # e => d = r)
  BY <1>3
<1>8. HostSideTaken' /\ Placed'
  BY <1>1, <1>7 DEF RegistryInv, HostSideTaken, Placed, kept
<1>9. Once'
  <2>1. ASSUME NEW x \in Exts, NEW c1 \in captured'[x], NEW c2 \in captured'[x], c1.reg = c2.reg
        PROVE  c1 = c2
    <3>1. PICK r1 \in captured[x] : c1.reg = r1.reg /\ (x = e => c1 = moved(r1)) /\ (x # e => c1 = r1)
      BY <1>7
    <3>2. PICK r2 \in captured[x] : c2.reg = r2.reg /\ (x = e => c2 = moved(r2)) /\ (x # e => c2 = r2)
      BY <1>7
    <3>3. r1 = r2
      BY <2>1, <3>1, <3>2 DEF RegistryInv, Once
    <3> QED
      BY <3>1, <3>2, <3>3
  <2> QED
    BY <1>1, <1>7, <2>1 DEF RegistryInv, Once, kept
<1>10. Somewhere'
  <2>1. \A r \in accepted : r.ext \in Exts
    BY DEF RegistryTypes, Reg
  <2>2. ASSUME NEW r \in accepted, NEW d \in captured[r.ext], d.reg = r
        PROVE  \E f \in captured'[r.ext] : f.reg = r
    BY <1>3, <2>1, <2>2
  <2> QED
    BY <1>1, <2>2 DEF RegistryInv, Somewhere, kept
<1> QED
  BY <1>5, <1>6, <1>8, <1>9, <1>10 DEF RegistryInv

(* An instance starts with nothing: whatever was of it before is gone.     *)
LEMMA StartLoadStep ==
  ASSUME ControlTypes, RegistryInv, RegistryTypes, NEW e \in Exts, NEW way \in Ways,
         StartLoad(e, way)
  PROVE  RegistryInv'
<1>1. /\ running = Idle /\ inst[e] = "absent"
      /\ attempt' = [attempt EXCEPT ![e] = @ + 1] /\ inst' = [inst EXCEPT ![e] = "loading"]
      /\ running' = [ext |-> e, way |-> way]
      /\ UNCHANGED <<instance, registry, kept>>
  BY DEF StartLoad
<1>2. /\ inst'[e] = "loading"
      /\ \A x \in Exts \ {e} : inst'[x] = inst[x] /\ attempt'[x] = attempt[x]
  BY <1>1 DEF ControlTypes
<1>3. \A x \in Exts : inst[x] # "loading"
  BY <1>1, CallbacksAssumption DEF RegistryInv, Running, Idle
<1>4. /\ owned[e] = {} /\ named[e] = {} /\ \A r \in accepted : r.ext \in Exts \ {e}
  <2>1. \A r \in accepted : r.ext \in Exts
    BY DEF RegistryTypes, Reg
  <2> QED
    BY <1>1, <2>1 DEF RegistryInv, HandlesOwned, TablesNamed, AcceptedMade
<1>5. \A h, y : \A x \in Exts \ {e} : Made(h, x, y) => Made(h, x, y)'
  BY <1>1, <1>2 DEF Made, registry
<1>6. Running'
  BY <1>1, <1>2, <1>3 DEF Running, Ways
<1>7. HandlesOwned' /\ TablesNamed' /\ AcceptedMade'
  BY <1>1, <1>2, <1>4, <1>5
     DEF RegistryInv, HandlesOwned, TablesNamed, AcceptedMade, registry, instance, kept
<1>8. HostSideTaken'
  BY <1>1, <1>2 DEF RegistryInv, HostSideTaken, instance, kept
<1>9. Placed'
  BY <1>1, <1>2, <1>4 DEF RegistryInv, Placed, instance, kept
<1> QED
  BY <1>1, <1>6, <1>7, <1>8, <1>9 DEF RegistryInv, Once, Somewhere, instance, kept

(* What an instance holds is of it, accepted, and once there.              *)
LEMMA DrainedShape ==
  ASSUME RegistryInv, RegistryTypes, NEW e \in Exts
  PROVE  /\ Drained(e) \subseteq accepted /\ Drained(e) \subseteq Reg
         /\ \A r \in Drained(e) : r.ext = e
         /\ Drained(e) \cap (deferred \cup mapped \cup delivered) = {}
         /\ \A r : r \in Drained(e) <=> \E c \in captured[e] : c.reg = r
BY DEF RegistryInv, RegistryTypes, Drained, Placed, Once

(* The host-side registrations go to the maps of the manager, the others   *)
(* stay or are stashed.                                                    *)
LEMMA LoadReturnsStep ==
  ASSUME ControlTypes, RegistryTypes, RegistryInv, NEW e \in Exts, LoadReturns(e)
  PROVE  RegistryTypes' /\ RegistryInv'
<1> DEFINE H == HostSide(Drained(e))
<1>1. /\ running.ext = e /\ running.way \in Ways /\ running' = Idle
      /\ inst' = [inst EXCEPT ![e] = "live"] /\ mapped' = mapped \cup H
      /\ UNCHANGED <<attempt, nextId, caps, named, owned, registry, delivered, accepted, imports>>
  BY DEF LoadReturns, Ways
<1>2. \/ /\ deferred' = deferred \cup (Drained(e) \ H)
         /\ DrainAll({e})
      \/ /\ captured' = [captured EXCEPT ![e] = {r \in @ : r.reg.kind # "host"}]
         /\ UNCHANGED <<deferred, open>>
  BY DEF LoadReturns
<1>3. /\ inst'[e] = "live" /\ \A x \in Exts \ {e} : inst'[x] = inst[x]
      /\ inst[e] = "loading" /\ \A x \in Exts \ {e} : inst[x] # "loading"
  BY <1>1 DEF ControlTypes, RegistryInv, Running
<1>4. /\ Drained(e) \subseteq accepted /\ Drained(e) \subseteq Reg
      /\ \A r \in Drained(e) : r.ext = e
      /\ Drained(e) \cap (deferred \cup mapped \cup delivered) = {}
      /\ \A r : r \in Drained(e) <=> \E c \in captured[e] : c.reg = r
  BY DrainedShape
<1>5. /\ H \subseteq Drained(e) /\ \A r \in Drained(e) : r \in H <=> r.kind = "host"
  BY DEF HostSide
<1> HIDE DEF H
<1>6. /\ \A x \in Exts \ {e} : captured'[x] = captured[x]
      /\ captured'[e] \subseteq {c \in captured[e] : c.reg.kind # "host"}
      /\ deferred \subseteq deferred' /\ deferred' \subseteq deferred \cup (Drained(e) \ H)
      /\ \A c \in captured[e] : c.reg.kind = "host" \/ c \in captured'[e] \/ c.reg \in deferred'
      /\ \A c \in captured'[e] : c.reg \notin deferred'
      /\ captured' \in [Exts -> SUBSET [reg : Reg, at : Nat]] /\ open' \in [Exts -> SUBSET Nat]
  <2>1. CASE deferred' = deferred \cup (Drained(e) \ H) /\ DrainAll({e})
    <3>1. captured'[e] = {} /\ \A x \in Exts \ {e} : captured'[x] = captured[x]
      BY <2>1 DEF DrainAll
    <3>2. captured' \in [Exts -> SUBSET [reg : Reg, at : Nat]] /\ open' \in [Exts -> SUBSET Nat]
      BY <2>1 DEF DrainAll, RegistryTypes
    <3> QED
      BY <1>4, <1>5, <2>1, <3>1, <3>2
  <2>2. CASE /\ captured' = [captured EXCEPT ![e] = {r \in @ : r.reg.kind # "host"}]
             /\ UNCHANGED <<deferred, open>>
    <3>1. captured'[e] = {c \in captured[e] : c.reg.kind # "host"}
          /\ \A x \in Exts \ {e} : captured'[x] = captured[x]
      BY <2>2 DEF RegistryTypes
    <3>2. captured' \in [Exts -> SUBSET [reg : Reg, at : Nat]] /\ open' \in [Exts -> SUBSET Nat]
      BY <2>2 DEF RegistryTypes
    <3> QED
      BY <1>4, <1>5, <2>2, <3>1, <3>2
  <2> QED
    BY <1>2, <2>1, <2>2
<1>7. RegistryTypes'
  BY <1>1, <1>4, <1>5, <1>6 DEF RegistryTypes, registry
<1>8. Running'
  BY <1>1, <1>3, CallbacksAssumption DEF Running, Idle, Ways
<1>9. HandlesOwned' /\ TablesNamed' /\ AcceptedMade'
  <2>1. \A x \in Exts : inst[x] # "absent" => inst'[x] # "absent"
    BY <1>3
  <2>2. \A r \in accepted : r.ext \in Exts
    BY DEF RegistryTypes, Reg
  <2> QED
    BY <1>1, <2>1, <2>2 DEF RegistryInv, HandlesOwned, TablesNamed, AcceptedMade, Made, registry
<1>10. HostSideTaken'
  BY <1>1, <1>3, <1>5, <1>6 DEF RegistryInv, HostSideTaken
<1>11. Placed'
  <2>1. \A x \in Exts : \A c \in captured'[x] : c \in captured[x]
    BY <1>6
  <2>2. \A r \in deferred' \cup mapped' \cup delivered' :
          r \in deferred \cup mapped \cup delivered \/ r \in Drained(e)
    BY <1>1, <1>5, <1>6
  <2>3. \A r \in accepted : r.ext \in Exts
    BY DEF RegistryTypes, Reg
  <2> QED
    BY <1>1, <1>3, <1>4, <2>1, <2>2, <2>3 DEF RegistryInv, Placed
<1>12. Once'
  <2>1. \A x \in Exts \ {e} : \A c \in captured[x] : c.reg \notin Drained(e)
    BY <1>4 DEF RegistryInv, Placed
  <2>2. \A x \in Exts : \A c \in captured'[x] : c \in captured[x]
    BY <1>6
  <2>3. \A x \in Exts : \A c \in captured'[x] : c.reg \notin deferred' \cup mapped' \cup delivered'
    <3> SUFFICES ASSUME NEW x \in Exts, NEW c \in captured'[x]
                 PROVE  c.reg \notin deferred' \cup mapped' \cup delivered'
      OBVIOUS
    <3>1. c \in captured[x] /\ c.reg \notin deferred \cup mapped \cup delivered
      BY <2>2 DEF RegistryInv, Once
    <3>2. CASE x = e
      BY <1>1, <1>4, <1>5, <1>6, <3>1, <3>2
    <3>3. CASE x # e
      BY <1>1, <1>5, <1>6, <2>1, <3>1, <3>3
    <3> QED
      BY <3>2, <3>3
  <2>4. deferred' \cap (mapped' \cup delivered') = {}
    BY <1>1, <1>4, <1>5, <1>6 DEF RegistryInv, Once
  <2> QED
    BY <2>2, <2>3, <2>4 DEF RegistryInv, Once
<1>13. Somewhere'
  <2> SUFFICES ASSUME NEW r \in accepted
               PROVE  \/ \E c \in captured'[r.ext] : c.reg = r
                      \/ r \in deferred' \cup mapped' \cup delivered'
                      \/ r.kind = "host" /\ r.late
    BY <1>1 DEF Somewhere
  <2>1. r.ext \in Exts
    BY DEF RegistryTypes, Reg
  <2>2. CASE \E c \in captured[r.ext] : c.reg = r
    <3>1. PICK c \in captured[r.ext] : c.reg = r
      BY <2>2
    <3>2. CASE r.ext = e
      BY <1>1, <1>4, <1>5, <1>6, <3>1, <3>2
    <3>3. CASE r.ext # e
      BY <1>6, <2>1, <3>1, <3>3
    <3> QED
      BY <3>2, <3>3
  <2>3. CASE r \in deferred \cup mapped \cup delivered
    BY <1>1, <1>6, <2>3
  <2> QED
    BY <2>2, <2>3 DEF RegistryInv, Somewhere
<1> QED
  BY <1>7, <1>8, <1>9, <1>10, <1>11, <1>12, <1>13 DEF RegistryInv

(* A load that fails leaves nothing of its instance but dead handles.      *)
LEMMA LoadFailsStep ==
  ASSUME ControlTypes, RegistryTypes, RegistryInv, NEW e \in Exts, LoadFails(e)
  PROVE  RegistryTypes' /\ RegistryInv'
<1>1. /\ running.ext = e /\ running.way \in Ways /\ running' = Idle
      /\ inst' = [inst EXCEPT ![e] = "absent"]
      /\ captured' = [captured EXCEPT ![e] = {}] /\ open' = [open EXCEPT ![e] = {}]
      /\ caps' = [caps EXCEPT ![e] = {}] /\ named' = [named EXCEPT ![e] = {}]
      /\ owned' = [owned EXCEPT ![e] = {}] /\ nextId' = [nextId EXCEPT ![e] = 1]
      /\ accepted' = {r \in accepted : r.ext # e}
      /\ UNCHANGED <<attempt, registry, deferred, mapped, delivered, imports>>
  BY DEF LoadFails, Ways
<1>2. RegistryTypes'
  BY <1>1 DEF RegistryTypes, registry
<1>3. /\ \A x \in Exts \ {e} : inst'[x] = inst[x] /\ inst[x] # "loading"
      /\ inst[e] = "loading" /\ inst'[e] = "absent"
  BY <1>1 DEF ControlTypes, RegistryInv, Running
<1>4. /\ captured'[e] = {} /\ named'[e] = {} /\ owned'[e] = {}
      /\ \A x \in Exts \ {e} : /\ captured'[x] = captured[x] /\ named'[x] = named[x]
                               /\ owned'[x] = owned[x]
  BY <1>1 DEF RegistryTypes
<1>5. \A r \in accepted : r.ext \in Exts
  BY DEF RegistryTypes, Reg
<1>6. Running'
  BY <1>1, <1>3, CallbacksAssumption DEF Running, Idle, Ways
<1>7. HandlesOwned' /\ TablesNamed' /\ AcceptedMade'
  BY <1>1, <1>3, <1>4, <1>5
     DEF RegistryInv, HandlesOwned, TablesNamed, AcceptedMade, Made, registry
<1>8. HostSideTaken'
  BY <1>1, <1>3, <1>4 DEF RegistryInv, HostSideTaken
<1>9. Placed'
  BY <1>1, <1>3, <1>4, <1>5 DEF RegistryInv, Placed
<1>10. Once'
  BY <1>1, <1>4 DEF RegistryInv, Once
<1>11. Somewhere'
  BY <1>1, <1>4, <1>5 DEF RegistryInv, Somewhere
<1> QED
  BY <1>2, <1>6, <1>7, <1>8, <1>9, <1>10, <1>11 DEF RegistryInv

(* The instances of S are drained while no guest is being loaded: what     *)
(* they held goes to the stash or to the core.                             *)
LEMMA DrainStep ==
  ASSUME ControlTypes, RegistryTypes, RegistryInv, NEW S \in SUBSET Exts, DrainAll(S),
         running = Idle, \A e \in S : inst[e] \in {"live", "broken"} \/ captured[e] = {},
         UNCHANGED <<inst, attempt, running, nextId, caps, named, owned, registry, mapped,
                     accepted, imports>>,
         \/ /\ deferred' = deferred \cup UNION {Drained(e) : e \in S}
            /\ delivered' = delivered
         \/ /\ S = Exts /\ deferred' = {}
            /\ delivered' = delivered \cup
                 {r \in deferred \cup UNION {Drained(e) : e \in Exts} : r.kind \in Forwarded}
  PROVE  RegistryTypes' /\ RegistryInv'
<1> DEFINE D == UNION {Drained(e) : e \in S}
<1>1. /\ \A e \in S : captured'[e] = {}
      /\ \A e \in Exts \ S : captured'[e] = captured[e]
      /\ captured' \in [Exts -> SUBSET [reg : Reg, at : Nat]] /\ open' \in [Exts -> SUBSET Nat]
  BY DEF DrainAll, RegistryTypes
<1>2. \A e \in Exts : inst[e] # "loading"
  BY CallbacksAssumption DEF RegistryInv, Running, Idle, Ways
<1>3. \A r \in D : /\ r \in accepted /\ r \in Reg /\ r.ext \in S
                   /\ r \notin deferred \cup mapped \cup delivered
                   /\ \E c \in captured[r.ext] : c.reg = r
  <2> SUFFICES ASSUME NEW e \in S, NEW r \in Drained(e)
               PROVE  /\ r \in accepted /\ r \in Reg /\ r.ext = e
                      /\ r \notin deferred \cup mapped \cup delivered
                      /\ \E c \in captured[e] : c.reg = r
    OBVIOUS
  <2> QED
    BY DrainedShape
<1>4. \A e \in S : \A c \in captured[e] : c.reg \in D
  BY DEF Drained
<1>5. \A r \in D : (r.kind = "host" => r.late) /\ inst[r.ext] \in {"live", "broken"}
  BY <1>2, <1>3 DEF RegistryInv, HostSideTaken
<1>6. \A r \in Reg : r.kind \in Forwarded <=> r.kind # "host"
  BY CallbacksAssumption DEF Reg, Forwarded, Buffered
<1> HIDE DEF D
<1>7. /\ deferred' \cup delivered' \subseteq deferred \cup delivered \cup D
      /\ delivered \subseteq delivered'
      /\ \A r \in deferred \cup D :
           r \in deferred' \/ r \in delivered' \/ (r.kind = "host" /\ r.late)
      /\ \A r \in delivered' : r.kind # "host"
      /\ deferred' \subseteq deferred \cup D /\ deferred' \cap delivered' = {}
      /\ \A e \in Exts \ S : \A c \in captured[e] : c.reg \notin D
  <2>1. \A r \in deferred \cup D : r \in Reg /\ r \notin delivered /\ (r.kind = "host" => r.late)
    BY <1>3, <1>5 DEF RegistryTypes, RegistryInv, HostSideTaken, Once
  <2>2. \A r \in delivered : r.kind # "host"
    BY DEF RegistryInv, HostSideTaken
  <2>3. \A e \in Exts \ S : \A c \in captured[e] : c.reg \notin D
    BY <1>3 DEF RegistryInv, Placed
  <2>4. CASE deferred' = deferred \cup D /\ delivered' = delivered
    BY <2>1, <2>2, <2>3, <2>4
  <2>5. CASE /\ deferred' = {}
             /\ delivered' = delivered \cup {r \in deferred \cup D : r.kind \in Forwarded}
    BY <1>6, <2>1, <2>2, <2>3, <2>5
  <2> QED
    BY <2>4, <2>5 DEF D
<1>8. RegistryTypes'
  <2>1. deferred' \subseteq Reg /\ delivered' \subseteq Reg
    BY <1>3, <1>7 DEF RegistryTypes
  <2> QED
    BY <1>1, <2>1 DEF RegistryTypes, registry
<1>9. Running' /\ HandlesOwned' /\ TablesNamed' /\ AcceptedMade'
  BY RunningKept DEF RegistryInv, HandlesOwned, TablesNamed, AcceptedMade, Made, registry
<1>10. HostSideTaken'
  <2>1. \A r \in deferred' : r.kind = "host" => r.late
    BY <1>5, <1>7 DEF RegistryInv, HostSideTaken
  <2>2. \A e \in Exts : \A c \in captured'[e] : c \in captured[e]
    BY <1>1
  <2> QED
    BY <1>7, <2>1, <2>2 DEF RegistryInv, HostSideTaken
<1>11. Placed'
  <2>1. \A e \in Exts : \A c \in captured'[e] : c \in captured[e]
    BY <1>1
  <2>2. \A r \in deferred' \cup mapped' \cup delivered' : r \in deferred \cup mapped \cup delivered \cup D
    BY <1>7
  <2> QED
    BY <1>3, <1>5, <2>1, <2>2 DEF RegistryInv, Placed
<1>12. Once'
  <2>1. ASSUME NEW e \in Exts, NEW c \in captured'[e]
        PROVE  c \in captured[e] /\ c.reg \notin deferred' \cup mapped' \cup delivered'
    <3>1. e \in Exts \ S /\ c \in captured[e]
      BY <1>1, <2>1
    <3>2. c.reg \notin deferred \cup mapped \cup delivered /\ c.reg \notin D
      BY <1>7, <3>1 DEF RegistryInv, Once
    <3> QED
      BY <1>7, <3>1, <3>2
  <2>2. deferred' \cap mapped' = {}
    BY <1>3, <1>7 DEF RegistryInv, Once
  <2> QED
    BY <1>7, <2>1, <2>2 DEF RegistryInv, Once
<1>13. Somewhere'
  <2> SUFFICES ASSUME NEW r \in accepted
               PROVE  \/ \E c \in captured'[r.ext] : c.reg = r
                      \/ r \in deferred' \cup mapped' \cup delivered'
                      \/ r.kind = "host" /\ r.late
    BY DEF Somewhere
  <2>1. r.ext \in Exts
    BY DEF RegistryTypes, Reg
  <2>2. CASE \E c \in captured[r.ext] : c.reg = r
    BY <1>1, <1>4, <1>7, <2>1, <2>2
  <2>3. CASE r \in deferred \cup mapped \cup delivered
    BY <1>7, <2>3
  <2> QED
    BY <2>2, <2>3 DEF RegistryInv, Somewhere
<1> QED
  BY <1>8, <1>9, <1>10, <1>11, <1>12, <1>13 DEF RegistryInv

LEMMA StashStep ==
  ASSUME ControlTypes, RegistryTypes, RegistryInv, NEW e \in Exts, Stash(e)
  PROVE  RegistryTypes' /\ RegistryInv'
<1>1. /\ running = Idle /\ inst[e] \in {"live", "broken"} /\ DrainAll({e})
      /\ deferred' = deferred \cup UNION {Drained(x) : x \in {e}}
      /\ UNCHANGED <<inst, attempt, running, nextId, caps, named, owned, registry, mapped,
                     delivered, accepted, imports>>
  BY DEF Stash
<1>2. {e} \in SUBSET Exts /\ \A x \in {e} : inst[x] \in {"live", "broken"}
  BY <1>1
<1> QED
  BY <1>1, <1>2, DrainStep

LEMMA DeliverStep ==
  ASSUME ControlTypes, RegistryTypes, RegistryInv, Deliver
  PROVE  RegistryTypes' /\ RegistryInv'
<1>1. /\ running = Idle /\ DrainAll(Exts) /\ deferred' = {}
      /\ delivered' = delivered \cup
           {r \in deferred \cup UNION {Drained(e) : e \in Exts} : r.kind \in Forwarded}
      /\ UNCHANGED <<inst, attempt, running, nextId, caps, named, owned, registry, mapped,
                     accepted, imports>>
  BY DEF Deliver
<1>2. \A e \in Exts : inst[e] \in {"live", "broken"} \/ captured[e] = {}
  <2> SUFFICES ASSUME NEW e \in Exts, NEW c \in captured[e] PROVE inst[e] \in {"live", "broken"}
    OBVIOUS
  <2>1. inst[e] # "absent"
    BY DEF RegistryInv, Placed, AcceptedMade
  <2>2. inst[e] # "loading"
    BY <1>1, CallbacksAssumption DEF RegistryInv, Running, Idle
  <2> QED
    BY <2>1, <2>2 DEF ControlTypes
<1> QED
  BY <1>1, <1>2, DrainStep

(* A guest that traps in a call keeps its registrations: it is broken, not *)
(* gone.                                                                   *)
LEMMA CallTrapsStep ==
  ASSUME ControlTypes, RegistryTypes, RegistryInv, NEW e \in Exts, CallTraps(e)
  PROVE  RegistryInv'
<1>1. /\ running = [ext |-> e, way |-> "call"] /\ running' = Idle
      /\ inst' = [inst EXCEPT ![e] = "broken"]
      /\ UNCHANGED <<attempt, instance, registry, kept>>
  BY DEF CallTraps
<1>2. /\ inst'[e] = "broken" /\ \A x \in Exts \ {e} : inst'[x] = inst[x]
      /\ \A x \in Exts : inst[x] # "loading"
  BY <1>1 DEF ControlTypes, RegistryInv, Running, Ways
<1>3. Running'
  BY <1>1, <1>2, CallbacksAssumption DEF Running, Idle, Ways
<1>4. \A r \in accepted : r.ext \in Exts
  BY DEF RegistryTypes, Reg
<1>5. HandlesOwned' /\ TablesNamed' /\ AcceptedMade'
  BY <1>1, <1>2, <1>4
     DEF RegistryInv, HandlesOwned, TablesNamed, AcceptedMade, Made, registry, instance, kept
<1>6. HostSideTaken'
  BY <1>1, <1>2 DEF RegistryInv, HostSideTaken, instance, kept
<1>7. Placed'
  BY <1>1, <1>2, <1>4 DEF RegistryInv, Placed, instance, kept
<1> QED
  BY <1>1, <1>3, <1>5, <1>6, <1>7 DEF RegistryInv, Once, Somewhere, instance, kept

LEMMA ControlTypesStep ==
  ASSUME ControlTypes, RegistryTypes, Next
  PROVE  ControlTypes'
<1>1. ASSUME NEW e \in Exts, Guest(e) PROVE ControlTypes'
  <2>1. ASSUME Import(e) PROVE ControlTypes'
    BY <2>1, CallbacksAssumption DEF ControlTypes, Import
  <2>2. CASE Granted(e) \/ ReleaseLock(e)
    BY <2>2 DEF Granted, ReleaseLock, ControlTypes
  <2>3. CASE LoadReturns(e) \/ LoadFails(e) \/ CallReturns(e) \/ CallTraps(e)
    BY <2>3 DEF LoadReturns, LoadFails, CallReturns, CallTraps, ControlTypes
  <2> QED
    BY <1>1, <2>1, <2>2, <2>3
       DEF Guest, GetCapability, NewCallback, DropCallback, Register, RegisterDirect,
           RegisterHost, RegisterPending, RegisterScan, DropRegistry, AcquireExclusive,
           TryAcquireExclusive
<1>2. CASE Host
  <2>1. ASSUME NEW e \in Exts, NEW way \in Ways, StartLoad(e, way) PROVE ControlTypes'
    BY <2>1 DEF StartLoad, ControlTypes
  <2>2. ASSUME NEW r \in delivered \cup mapped, Call(r) PROVE ControlTypes'
    <3>1. r.cb \in Handles /\ entries[r.cb] \in Entry
      BY <2>2 DEF Call, Valid, RegistryTypes, Reg
    <3>2. Resolved(r.cb) \in Exts
      BY <3>1 DEF Resolved, Entry
    <3> QED
      BY <2>2, <3>2 DEF Call, ControlTypes
  <2>3. CASE Deliver \/ \E e \in Exts : Stash(e)
    BY <2>3 DEF Deliver, Stash, ControlTypes
  <2> QED
    BY <1>2, <2>1, <2>2, <2>3 DEF Host, Ways
<1>3. CASE Done \/ \E p \in Paths : OtherProcess(p)
  BY <1>3 DEF Done, OtherProcess, ControlTypes, vars
<1> QED
  BY <1>1, <1>2, <1>3 DEF Next

LEMMA RegistryStep ==
  ASSUME ControlTypes, RegistryTypes, RegistryInv, Next
  PROVE  RegistryTypes' /\ RegistryInv'
<1>1. ASSUME UNCHANGED <<instance, registry, kept>>, imports' \in {imports, imports + 1}
      PROVE  RegistryTypes' /\ UNCHANGED <<registry, owned, named, captured, kept>>
  <2>1. next' \in 1..(imports' + 1)
    <3>1. next' = next
      BY <1>1 DEF registry
    <3>2. imports \in Nat /\ next \in 1..(imports + 1)
      BY CallbacksAssumption DEF ControlTypes, RegistryTypes
    <3>3. CASE imports' = imports
      BY <3>1, <3>2, <3>3
    <3>4. CASE imports' = imports + 1
      BY <3>1, <3>2, <3>4
    <3> QED
      BY <1>1, <3>3, <3>4
  <2> QED
    BY <1>1, <2>1 DEF RegistryTypes, instance, registry, kept
<1>2. ASSUME NEW e \in Exts, Guest(e) PROVE RegistryTypes' /\ RegistryInv'
  <2>1. CASE GetCapability(e)
    <3>1. /\ UNCHANGED <<inst, attempt, running, named, captured, owned, registry, kept>>
          /\ imports' = imports + 1
      BY <2>1 DEF GetCapability, Import
    <3>2. RegistryTypes'
      <4>1. PICK k \in Kinds \cap Buffered :
              caps' = [caps EXCEPT ![e] = @ \cup {[id |-> nextId[e], kind |-> k]}]
        BY <2>1 DEF GetCapability
      <4>2. nextId[e] \in Nat /\ [id |-> nextId[e], kind |-> k] \in [id : Nat, kind : Kinds \cap Buffered]
        BY DEF RegistryTypes
      <4>3. caps' \in [Exts -> SUBSET [id : Nat, kind : Kinds \cap Buffered]]
        BY <4>1, <4>2 DEF RegistryTypes
      <4>4. open' \in [Exts -> SUBSET Nat] /\ nextId' \in [Exts -> Nat]
        BY <2>1, <4>2 DEF GetCapability, FreshId, RegistryTypes
      <4> QED
        BY <3>1, <4>3, <4>4 DEF ControlTypes, RegistryTypes, registry, kept
    <3> QED
      BY <3>1, <3>2, EnteredStep, RunningKept DEF RegistryInv, entriesAndPlaces
  <2>2. CASE NewCallback(e) \/ DropCallback(e) \/ Register(e)
    BY <2>2, NewCallbackStep, DropCallbackStep, RegisterStep
  <2>3. CASE RegisterDirect(e) \/ RegisterHost(e) \/ RegisterScan(e) \/ DropRegistry(e)
    BY <2>3, RegisterPendingStep, RegisterScanStep, DropRegistryStep
       DEF RegisterDirect, RegisterHost
  <2>4. CASE \/ \E p \in Paths : AcquireExclusive(e, p) \/ TryAcquireExclusive(e, p)
             \/ Granted(e) \/ ReleaseLock(e)
    <3>1. /\ UNCHANGED <<inst, attempt, running, instance, registry, kept>>
          /\ imports' \in {imports, imports + 1}
      BY <2>4 DEF AcquireExclusive, TryAcquireExclusive, Granted, ReleaseLock, Import
    <3> QED
      BY <1>1, <3>1, EnteredStep, RunningKept DEF RegistryInv, entriesAndPlaces
  <2>5. CASE LoadReturns(e) \/ LoadFails(e)
    BY <2>5, LoadReturnsStep, LoadFailsStep
  <2>6. CASE CallReturns(e)
    <3>1. /\ UNCHANGED <<inst, attempt, instance, registry, kept, imports>> /\ running' = Idle
          /\ running = [ext |-> e, way |-> "call"]
      BY <2>6 DEF CallReturns
    <3>2. Running'
      BY <3>1, CallbacksAssumption DEF RegistryInv, Running, Idle, Ways
    <3> QED
      BY <1>1, <3>1, <3>2, EnteredStep DEF entriesAndPlaces
  <2>7. CASE CallTraps(e)
    BY <1>1, <2>7, CallTrapsStep DEF CallTraps
  <2> QED
    BY <1>2, <2>1, <2>2, <2>3, <2>4, <2>5, <2>6, <2>7 DEF Guest
<1>3. CASE Host
  <2>1. ASSUME NEW e \in Exts, NEW way \in Ways, StartLoad(e, way)
        PROVE  RegistryTypes' /\ RegistryInv'
    BY <1>1, <2>1, StartLoadStep DEF StartLoad
  <2>2. ASSUME NEW e \in Exts, Stash(e) PROVE RegistryTypes' /\ RegistryInv'
    BY <2>2, StashStep
  <2>3. CASE Deliver
    BY <2>3, DeliverStep
  <2>4. ASSUME NEW r \in delivered \cup mapped, Call(r) PROVE RegistryTypes' /\ RegistryInv'
    <3>1. /\ UNCHANGED <<inst, attempt, instance, registry, kept, imports>>
          /\ running = Idle /\ running' = [ext |-> Resolved(r.cb), way |-> "call"]
          /\ inst[Resolved(r.cb)] = "live"
      BY <2>4 DEF Call
    <3>2. Running'
      BY <3>1, CallbacksAssumption DEF RegistryInv, Running, Idle, Ways
    <3> QED
      BY <1>1, <3>1, <3>2, EnteredStep DEF entriesAndPlaces
  <2> QED
    BY <1>3, <2>1, <2>2, <2>3, <2>4 DEF Host, Ways
<1>4. CASE Done \/ \E p \in Paths : OtherProcess(p)
  <2>1. UNCHANGED <<inst, attempt, running, instance, registry, kept, imports>>
    BY <1>4 DEF Done, OtherProcess, vars
  <2> QED
    BY <1>1, <2>1, EnteredStep, RunningKept DEF RegistryInv, entriesAndPlaces
<1> QED
  BY <1>2, <1>3, <1>4 DEF Next

LEMMA NextInv == IInv /\ [Next]_vars => IInv'
<1> SUFFICES ASSUME IInv, [Next]_vars PROVE IInv'
  OBVIOUS
<1>1. CASE Next
  BY <1>1, ControlTypesStep, RegistryStep, LockStep DEF IInv, TypeOK
<1>2. CASE UNCHANGED vars
  <2>1. ControlTypes' /\ RegistryTypes'
    BY <1>2 DEF vars, instance, registry, kept, IInv, TypeOK, ControlTypes, RegistryTypes
  <2>2. LockTypes' /\ LockInv'
    BY <1>2, ControlStep DEF vars, IInv, TypeOK
  <2>3. RegistryInv'
    BY <1>2, EnteredStep, RunningKept DEF vars, instance, IInv, RegistryInv, entriesAndPlaces
  <2> QED
    BY <2>1, <2>2, <2>3 DEF IInv, TypeOK
<1> QED
  BY <1>1, <1>2

LEMMA Invariant == Spec => []IInv
BY InitInv, NextInv, PTL DEF Spec

-----------------------------------------------------------------------------
(* The registry, the capture in the instances, the manager and the locks   *)
(* stay well typed; no more handles are given out than imports were made.  *)
THEOREM CallbacksTyping == Spec => []TypeOK
BY Invariant, PTL DEF IInv

(* What the core or the manager may call resolves to the callback that the *)
(* instance now loaded registered, under its kind: handles never rebind.   *)
THEOREM RoutesRight == Spec => []Routed
<1>1. IInv => Routed
  <2> SUFFICES ASSUME IInv, NEW r \in Callable
               PROVE  /\ entries[r.cb] = [ext |-> r.ext,
                                          kind |-> IF r.kind = "scan" THEN "table" ELSE r.kind,
                                          att |-> attempt[r.ext]]
                      /\ r.att = attempt[r.ext]
                      /\ inst[r.ext] \in {"live", "broken"}
    BY DEF Routed
  <2>1. r \in accepted /\ inst[r.ext] \in {"live", "broken"}
    BY DEF Callable, IInv, RegistryInv, Placed
  <2> QED
    BY <2>1 DEF IInv, RegistryInv, AcceptedMade, Made
<1> QED
  BY <1>1, Invariant, PTL

(* A registration that was answered with Ok is in one place and no other,  *)
(* on its way to the core or there, host-side ones made late excepted.     *)
THEOREM KeepsOnce == Spec => []Kept
<1>1. IInv => Kept
  <2> SUFFICES ASSUME IInv, NEW r \in accepted
               PROVE  Places(r) = 1 \/ (r.kind = "host" /\ r.late /\ Places(r) = 0)
    BY DEF Kept
  <2> DEFINE C == {c \in captured[r.ext] : c.reg = r}
             G == {S \in {<<1, deferred>>, <<2, mapped>>, <<3, delivered>>} : r \in S[2]}
  <2>1. r.ext \in Exts /\ Places(r) = Cardinality(C) + Cardinality(G)
    BY DEF IInv, TypeOK, RegistryTypes, Reg, Places
  <2>2. \A x : Cardinality({x}) = 1
    BY FS_Singleton
  <2>3. Cardinality({}) = 0
    BY FS_EmptySet
  <2>4. \A c \in C : r \notin deferred \cup mapped \cup delivered /\ C = {c}
    BY <2>1 DEF IInv, RegistryInv, Once
  <2>5. /\ r \in deferred => r \notin mapped /\ r \notin delivered
        /\ r \in mapped => r \notin delivered
    BY DEF IInv, RegistryInv, Once, HostSideTaken
  <2>6. /\ r \in deferred => G = {<<1, deferred>>}
        /\ r \in mapped => G = {<<2, mapped>>}
        /\ r \in delivered => G = {<<3, delivered>>}
        /\ r \notin deferred \cup mapped \cup delivered => G = {}
    BY <2>5
  <2> HIDE DEF C, G
  <2>7. CASE \E c \in C : TRUE
    <3>1. PICK c \in C : TRUE
      BY <2>7
    <3>2. Cardinality(C) = 1
      BY <2>2, <2>4, <3>1
    <3>3. Cardinality(G) = 0
      BY <2>3, <2>4, <2>6, <3>1
    <3> QED
      BY <2>1, <3>2, <3>3
  <2>8. CASE C = {} /\ r \in deferred \cup mapped \cup delivered
    <3>1. Cardinality(C) = 0
      BY <2>3, <2>8
    <3>2. Cardinality(G) = 1
      BY <2>2, <2>6, <2>8
    <3> QED
      BY <2>1, <3>1, <3>2
  <2>9. CASE C = {} /\ r \notin deferred \cup mapped \cup delivered
    <3>1. r.kind = "host" /\ r.late
      BY <2>9 DEF C, IInv, RegistryInv, Somewhere
    <3> QED
      BY <2>1, <2>3, <2>6, <2>9, <3>1
  <2> QED
    BY <2>7, <2>8, <2>9
<1> QED
  BY <1>1, Invariant, PTL

(* A lock that a guest has acquired and not released is the lock on the    *)
(* file, whoever loads, fails or traps meanwhile.                          *)
THEOREM KeepsLocks == Spec => []LockKept
<1>1. IInv => LockKept
  <2> SUFFICES ASSUME IInv, NEW e \in Exts, NEW l \in guestLocks[e], l.held
               PROVE  flock[l.path] = [ext |-> e, id |-> l.id]
    BY DEF LockKept
  <2>1. [id |-> l.id, path |-> l.path] \in locks[e]
    BY DEF IInv, LockInv, LocksAgree
  <2> QED
    BY <2>1 DEF IInv, LockInv, LocksAgree
<1> QED
  BY <1>1, Invariant, PTL

(* A guest that blocks on a lock waits for another process, or for a guest *)
(* that has a handle for it and did not release it.                        *)
THEOREM NoLockLeft == Spec => []WaitsForHolder
<1>1. IInv => WaitsForHolder
  <2> SUFFICES ASSUME IInv, waiting # NoPath, flock[waiting] \notin {Free, Other}
               PROVE  \E e \in Exts : \E l \in guestLocks[e] :
                        l.held /\ l.path = waiting /\ flock[waiting] = [ext |-> e, id |-> l.id]
    BY DEF WaitsForHolder
  <2>1. waiting \in Paths /\ flock[waiting] \in Lock
    BY DEF IInv, TypeOK, LockTypes
  <2>2. flock[waiting].ext \in Exts
        /\ flock[waiting] = [ext |-> flock[waiting].ext, id |-> flock[waiting].id]
    BY <2>1 DEF Lock
  <2>3. [id |-> flock[waiting].id, path |-> waiting, held |-> TRUE] \in guestLocks[flock[waiting].ext]
    BY <2>1 DEF IInv, LockInv, FilesHeld
  <2> QED
    BY <2>2, <2>3
<1> QED
  BY <1>1, Invariant, PTL

=============================================================================
