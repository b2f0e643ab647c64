--------------------------- MODULE ExtensionProofs ---------------------------
(* Theorems about ExtensionLoading: for any extensions, any statements and  *)
(* any way of failing, the state is well typed, no registration is lost or  *)
(* given to the core twice, and what is deferred comes before it is needed. *)
EXTENDS ExtensionLoading, TLAPS

Busy == {"enter", "ensure", "join", "hooks", "register", "body", "asking"}

\* While a statement runs it is known, and so is the one that waits for it.
StmtShape ==
  /\ pc.main \in Busy => stmt \in Statement
  /\ pc.main = "flush" \/ (pc.main \in Busy /\ back = "flush") => user \in Statements

\* The loader thread exists while the session joins it, and loads a new one.
LoaderShape ==
  /\ pc.loader # "none" => pc.main = "join"
  /\ pc.main = "join" => stmt.ext \notin loaded

\* A drained batch is registered before anything else happens, and the
\* registrations that left the manager are of loaded extensions or built in.
BatchShape ==
  /\ batch # {} => pc.main = "register"
  /\ batch \cup catalog \cup rejected \subseteq loaded \cup {Builtin}
  /\ Builtin \in batch \cup catalog \cup rejected => injected

IInv == TypeOK /\ StmtShape /\ LoaderShape /\ BatchShape /\ AccountedFor

\* The elements of a sequence with one more at its end.
LEMMA RangeAppend ==
  ASSUME NEW S, NEW s \in Seq(S), NEW e \in S
  PROVE  Range(Append(s, e)) = Range(s) \cup {e}
<1>1. /\ DOMAIN s = 1..Len(s) /\ DOMAIN Append(s, e) = 1..(Len(s) + 1) /\ Len(s) \in Nat
      /\ Append(s, e)[Len(s) + 1] = e
      /\ \A i \in 1..Len(s) : Append(s, e)[i] = s[i]
  OBVIOUS
<1>2. \A i : i \in 1..(Len(s) + 1) <=> i \in 1..Len(s) \/ i = Len(s) + 1
  BY <1>1
<1> QED
  BY <1>1, <1>2 DEF Range


\* The extensions recorded are extensions.
LEMMA LoadedExts == TypeOK => loaded \subseteq Exts
BY DEF TypeOK, Range

LEMMA InitInv == Init => IInv
<1> SUFFICES ASSUME Init PROVE IInv
  OBVIOUS
<1> USE DEF Init
<1>1. Range(recorded) = {}
  BY DEF Range
<1>2. pc \in [main : MainPc, loader : LoaderPc]
  BY DEF MainPc, LoaderPc
<1>3. TypeOK
  <2>1. holder \in [core : {"main", None}, manager : {"main", None}]
    OBVIOUS
  <2>2. todo \in Seq(Exts) /\ replays \in Seq(Exts) /\ recorded \in Seq(Exts)
    OBVIOUS
  <2>3. /\ loaded = Range(recorded) /\ pending \subseteq loaded /\ deferred \subseteq loaded
        /\ batch \subseteq Registrations /\ catalog \subseteq Registrations
        /\ rejected \subseteq Registrations /\ archive \subseteq Registrations
        /\ macros \subseteq catalog /\ promised \subseteq Registrations
    BY <1>1
  <2>4. slot \in (SUBSET Registrations) \cup {None} /\ asked \in Imports \cup {None}
    OBVIOUS
  <2>5. declared \in BOOLEAN /\ injected \in BOOLEAN
    OBVIOUS
  <2> QED
    BY <1>2, <2>1, <2>2, <2>3, <2>4, <2>5 DEF TypeOK
<1>4. StmtShape /\ LoaderShape
  BY DEF StmtShape, LoaderShape, Busy
<1>5. BatchShape /\ AccountedFor
  BY DEF BatchShape, AccountedFor
<1> QED
  BY <1>3, <1>4, <1>5 DEF IInv

\* Steps of the session between statements, and the start of a statement.
LEMMA SessionStep ==
  ASSUME IInv,
         \/ Open \/ LoadNext \/ AutoloadDone \/ RunUser
         \/ \E s \in Statements : Execute(s) \/ OpenStream(s) \/ RequestLoad(s)
  PROVE  IInv'
<1> USE LoadingAssumption DEF IInv, Goto, Run, threads, manager, database
<1>1. /\ TypeOK /\ StmtShape /\ LoaderShape /\ BatchShape /\ AccountedFor
      /\ Statements \subseteq Statement
  OBVIOUS
<1>2. CASE Open
  <2>1. TypeOK'
    BY <1>1, <1>2 DEF Open, TypeOK, MainPc, LoaderPc
  <2> QED
    BY <2>1, <1>2 DEF Open, StmtShape, LoaderShape, BatchShape, AccountedFor, Busy
<1>3. CASE LoadNext
  <2>1. Head(todo) \in Exts /\ Tail(todo) \in Seq(Exts)
    BY <1>3 DEF LoadNext, TypeOK
  <2>2. stmt' \in Statement
    BY <2>1, <1>3 DEF LoadNext, Statement, Paths, Ops
  <2>3. TypeOK'
    BY <2>1, <2>2, <1>3 DEF LoadNext, TypeOK, MainPc, LoaderPc
  <2> QED
    BY <2>2, <2>3, <1>3 DEF LoadNext, StmtShape, LoaderShape, BatchShape, AccountedFor, Busy
<1>4. CASE AutoloadDone
  <2>1. TypeOK'
    BY <1>1, <1>4 DEF AutoloadDone, TypeOK, MainPc, LoaderPc
  <2> QED
    BY <2>1, <1>4 DEF AutoloadDone, StmtShape, LoaderShape, BatchShape, AccountedFor, Busy
<1>5. CASE RunUser
  <2>1. user \in Statements
    BY <1>5 DEF RunUser, StmtShape
  <2>2. macros' \subseteq catalog /\ promised' \subseteq Registrations
    BY <1>5 DEF RunUser, ApplyPrefix, TypeOK
  <2>3. TypeOK'
    BY <2>1, <2>2, <1>5 DEF RunUser, TypeOK, MainPc, LoaderPc
  <2> QED
    BY <2>1, <2>3, <1>5 DEF RunUser, StmtShape, LoaderShape, BatchShape, AccountedFor, Busy
<1>6. ASSUME NEW s \in Statements, Execute(s)
      PROVE  IInv'
  <2>1. TypeOK'
    BY <1>6 DEF Execute, TypeOK, MainPc, LoaderPc
  <2> QED
    BY <2>1, <1>6 DEF Execute, StmtShape, LoaderShape, BatchShape, AccountedFor, Busy
<1>7. ASSUME NEW s \in Statements, OpenStream(s)
      PROVE  IInv'
  <2>1. TypeOK'
    BY <1>7 DEF OpenStream, TypeOK, MainPc, LoaderPc
  <2> QED
    BY <2>1, <1>7 DEF OpenStream, StmtShape, LoaderShape, BatchShape, AccountedFor, Busy
<1>8. ASSUME NEW s \in Statements, RequestLoad(s)
      PROVE  IInv'
  <2>1. TypeOK'
    BY <1>8 DEF RequestLoad, TypeOK, MainPc, LoaderPc
  <2> QED
    BY <2>1, <1>8 DEF RequestLoad, StmtShape, LoaderShape, BatchShape, AccountedFor, Busy
<1> QED
  BY <1>2, <1>3, <1>4, <1>5, <1>6, <1>7, <1>8

\* What End does to a statement that ends without touching the rest.
LEMMA EndStep ==
  ASSUME IInv, pc.main \in Busy, End
  PROVE  /\ pc' \in [main : MainPc, loader : LoaderPc]
         /\ holder' \in [core : {"main", None}, manager : {"main", None}]
         /\ stmt' = None /\ pc'.loader = "none" /\ pc'.main \notin Busy
         /\ pc'.main = "flush" => user \in Statements
BY DEF IInv, TypeOK, StmtShape, End, Goto, MainPc, LoaderPc, Busy

\* A step of ensure_extension_loaded that returns true.
LEMMA EnsureStep ==
  ASSUME IInv, NEW fresh \in SUBSET {stmt.ext}, stmt.ext \in loaded \cup fresh,
         fresh \cap loaded = {}, pc.main \in {"ensure", "join"},
         loaded' = Range(recorded'), recorded' \in Seq(Exts), EnsureOk(fresh)
  PROVE  IInv'
<1> USE LoadingAssumption DEF IInv
<1>1. stmt \in Statement /\ stmt.ext \in Exts /\ stmt.ext # Builtin
  BY DEF StmtShape, Busy, Statement
<1>2. batch = {} /\ pc.main \in Busy
  BY DEF BatchShape, Busy
<1>3. loaded \subseteq Exts
  BY LoadedExts
<1>4. /\ loaded' = loaded \cup fresh
      /\ UNCHANGED <<declared, injected, batch, catalog, rejected, archive, slot, macros, promised>>
  BY DEF EnsureOk, database
<1>5. /\ pc' \in [main : MainPc, loader : LoaderPc]
      /\ holder' \in [core : {"main", None}, manager : {"main", None}]
      /\ stmt' \in {stmt, None} /\ pc'.loader = "none"
      /\ pc'.main \in Busy => pc'.main = "hooks" /\ stmt' = stmt
      /\ pc'.main = "flush" => user \in Statements
      /\ pc'.main \in Busy /\ back' = "flush" => user \in Statements
      /\ UNCHANGED <<back, user, todo, asked>>
  <2>1. CASE End
    BY <2>1, <1>2, EndStep DEF End
  <2>2. CASE /\ holder' = [holder EXCEPT !.manager = None]
             /\ Goto("hooks")
             /\ UNCHANGED <<back, stmt, user, todo, asked>>
    BY <2>2, <1>2 DEF Goto, TypeOK, StmtShape, MainPc, LoaderPc, Busy
  <2> QED
    BY <2>1, <2>2 DEF EnsureOk
<1>6. /\ pending' \cup deferred' = pending \cup deferred \cup fresh
      /\ pending' \cap deferred' = {}
      /\ replays' \in Seq(Exts)
  <2>1. CASE stmt.op = "ducklink_load"
    <3>1. /\ deferred' = deferred \cup ((pending \cup fresh) \cap {stmt.ext})
          /\ pending' = (pending \cup fresh) \ {stmt.ext}
          /\ replays' = Queued(stmt.ext)
      BY <2>1 DEF EnsureOk, Stashed
    <3>2. pending' \cup deferred' = pending \cup deferred \cup fresh
      BY <3>1
    <3>3. pending' \cap deferred' = {}
      BY <3>1 DEF AccountedFor
    <3>4. replays' \in Seq(Exts)
      BY <1>1, <3>1 DEF Queued, TypeOK
    <3> QED
      BY <3>2, <3>3, <3>4
  <2>2. CASE stmt.op # "ducklink_load"
    BY <1>1, <1>3, <2>2 DEF EnsureOk, TypeOK, AccountedFor
  <2> QED
    BY <2>1, <2>2
<1>7. TypeOK'
  BY <1>4, <1>5, <1>6 DEF TypeOK
<1>8. AccountedFor'
  <2>1. fresh \cap (catalog \cup rejected) = {}
    BY <1>1 DEF BatchShape
  <2> QED
    BY <1>2, <1>4, <1>6, <2>1 DEF AccountedFor
<1>9. StmtShape' /\ LoaderShape' /\ BatchShape'
  BY <1>1, <1>2, <1>4, <1>5 DEF StmtShape, LoaderShape, BatchShape, Busy
<1> QED
  BY <1>7, <1>8, <1>9

\* Steps of the manager, of extension code, and of the core.
LEMMA StatementStep ==
  ASSUME IInv,
         \/ EnterManager \/ AlreadyLoaded \/ NotFound \/ Spawn
         \/ \E call \in Imports : Ask(call)
         \/ Answer \/ LoadReturns \/ JoinOk \/ JoinError \/ FunctionReturns
         \/ Hooks \/ Register
  PROVE  IInv'
<1> USE LoadingAssumption DEF IInv, threads, manager, database
<1>0. loaded \subseteq Exts
  BY LoadedExts
<1>1. CASE EnterManager
  <2>1. CASE stmt.op = "prefix"
    <3>1. /\ End /\ declared' = TRUE
          /\ promised' = promised \cup catalog \cup deferred
      BY <1>1, <2>1 DEF EnterManager
    <3>2. TypeOK'
      BY <1>0, <1>1, <3>1, EndStep DEF EnterManager, End, TypeOK, Registrations, Busy
    <3> QED
      BY <1>1, <3>1, <3>2, EndStep
         DEF EnterManager, StmtShape, LoaderShape, BatchShape, AccountedFor, Busy, End
  <2>2. CASE stmt.op # "prefix"
    <3>1. TypeOK'
      BY <1>1, <2>2 DEF EnterManager, Goto, TypeOK, MainPc, LoaderPc
    <3> QED
      BY <1>1, <2>2, <3>1
         DEF EnterManager, Goto, StmtShape, LoaderShape, BatchShape, AccountedFor, Busy, TypeOK
  <2> QED
    BY <2>1, <2>2
<1>2. CASE AlreadyLoaded
  <2>1. loaded' = loaded /\ recorded' = recorded
    BY <1>2 DEF AlreadyLoaded, EnsureOk
  <2> QED
    BY <1>2, <2>1, EnsureStep DEF AlreadyLoaded, TypeOK
<1>3. CASE NotFound \/ JoinError \/ FunctionReturns
  <2>1. pc.main \in Busy /\ pc.main # "register" /\ End /\ UNCHANGED <<manager, database>>
    BY <1>3 DEF NotFound, JoinError, FunctionReturns, Busy, LoaderShape
  <2>2. TypeOK'
    BY <2>1, EndStep DEF End, TypeOK
  <2> QED
    BY <2>1, <2>2, EndStep DEF End, StmtShape, LoaderShape, BatchShape, AccountedFor, Busy
<1>4. CASE Spawn
  <2>1. TypeOK'
    BY <1>4 DEF Spawn, TypeOK, MainPc, LoaderPc
  <2> QED
    BY <1>4, <2>1 DEF Spawn, StmtShape, LoaderShape, BatchShape, AccountedFor, Busy
<1>5. ASSUME NEW call \in Imports, Ask(call)
      PROVE  IInv'
  <2>1. TypeOK'
    <3>1. pc' \in [main : MainPc, loader : LoaderPc]
      BY <1>5 DEF Ask, Runner, TypeOK, MainPc, LoaderPc
    <3> QED
      BY <1>5, <3>1 DEF Ask, TypeOK
  <2>2. StmtShape' /\ LoaderShape'
    BY <1>5 DEF Ask, Runner, StmtShape, LoaderShape, Busy, TypeOK
  <2>3. BatchShape' /\ AccountedFor'
    BY <1>5 DEF Ask, Runner, BatchShape, AccountedFor, LoaderShape, TypeOK
  <2> QED
    BY <2>1, <2>2, <2>3
<1>6. CASE Answer
  <2>1. TypeOK'
    <3>1. pc' \in [main : MainPc, loader : LoaderPc]
      BY <1>6 DEF Answer, Runner, TypeOK, MainPc, LoaderPc
    <3> QED
      BY <1>6, <3>1 DEF Answer, TypeOK
  <2>2. StmtShape' /\ LoaderShape'
    BY <1>6 DEF Answer, Runner, StmtShape, LoaderShape, Busy, TypeOK
  <2>3. BatchShape' /\ AccountedFor'
    BY <1>6 DEF Answer, Runner, BatchShape, AccountedFor, LoaderShape, TypeOK
  <2> QED
    BY <2>1, <2>2, <2>3
<1>7. CASE LoadReturns
  <2>1. TypeOK'
    BY <1>7 DEF LoadReturns, TypeOK, MainPc, LoaderPc
  <2> QED
    BY <1>7, <2>1 DEF LoadReturns, StmtShape, LoaderShape, BatchShape, AccountedFor, Busy, TypeOK
<1>8. CASE JoinOk
  <2>1. pc.main = "join" /\ stmt \in Statement /\ stmt.ext \notin loaded /\ stmt.ext \in Exts
    BY <1>8 DEF JoinOk, LoaderShape, StmtShape, Busy, Statement
  <2>2. loaded' = loaded \cup {stmt.ext} /\ recorded' = Append(recorded, stmt.ext)
    BY <1>8 DEF JoinOk, EnsureOk
  <2>3. recorded' \in Seq(Exts) /\ loaded' = Range(recorded')
    BY <2>1, <2>2, RangeAppend DEF TypeOK
  <2> QED
    BY <1>8, <2>1, <2>3, EnsureStep DEF JoinOk
<1>9. CASE Hooks
  <2>1. batch = {}
    BY <1>9 DEF Hooks, BatchShape
  <2>2. /\ batch' = deferred \cup pending \cup Synthetic
        /\ batch' \subseteq loaded \cup {Builtin}
        /\ batch' \subseteq Registrations
    BY <1>0, <1>9 DEF Hooks, Synthetic, TypeOK, Registrations
  <2>3. TypeOK'
    BY <1>9, <2>2 DEF Hooks, Goto, TypeOK, MainPc, LoaderPc
  <2>4. batch' \cap (catalog \cup rejected) = {}
    BY <2>2 DEF Synthetic, AccountedFor, BatchShape
  <2>5. AccountedFor'
    BY <1>9, <2>1, <2>2, <2>4 DEF Hooks, Synthetic, AccountedFor
  <2> QED
    BY <1>9, <2>2, <2>3, <2>5 DEF Hooks, Goto, StmtShape, LoaderShape, BatchShape, Busy
<1>10. CASE Register
  <2>1. PICK refused \in SUBSET batch :
             /\ catalog' = catalog \cup (batch \ refused)
             /\ rejected' = rejected \cup refused
    BY <1>10 DEF Register
  <2>2. End /\ batch' = {} /\ UNCHANGED <<manager, archive, slot, macros, promised>>
    BY <1>10 DEF Register
  <2>3. pc.main \in Busy
    BY <1>10 DEF Register, Busy
  <2>4. TypeOK'
    BY <2>1, <2>2, <2>3, EndStep DEF End, TypeOK
  <2>5. AccountedFor'
    BY <2>1, <2>2 DEF AccountedFor
  <2> QED
    BY <2>1, <2>2, <2>3, <2>4, <2>5, EndStep DEF End, StmtShape, LoaderShape, BatchShape, Busy
<1> QED
  BY <1>1, <1>2, <1>3, <1>4, <1>5, <1>6, <1>7, <1>8, <1>9, <1>10

LEMMA Inductive == Spec => []IInv
<1>1. IInv /\ [Next]_vars => IInv'
  <2> SUFFICES ASSUME IInv, [Next]_vars PROVE IInv'
    OBVIOUS
  <2>1. CASE UNCHANGED vars
    BY <2>1 DEF vars, threads, manager, database, IInv, TypeOK, StmtShape, LoaderShape,
                BatchShape, AccountedFor, Busy
  <2>2. CASE Next
    BY <2>2, SessionStep, StatementStep DEF Next
  <2> QED
    BY <2>1, <2>2
<1> QED
  BY InitInv, <1>1, PTL DEF Spec

\* Type correctness of ExtensionLoading: what the manager has loaded is what the
\* sibling's state records, and nothing leaves the manager that it never had.
THEOREM LoadingTyping == Spec => []TypeOK
<1>1. IInv => TypeOK
  BY DEF IInv
<1> QED
  BY Inductive, <1>1, PTL

\* Whatever is loaded, by whatever path and in whatever order, and however loads
\* and registrations fail: the registrations of a loaded extension are in one
\* place at any time (lib.rs 5631, 5700, 6387).
THEOREM NothingLost == Spec => []AccountedFor
<1>1. IInv => AccountedFor
  BY DEF IInv
<1> QED
  BY Inductive, <1>1, PTL

-----------------------------------------------------------------------------
(* What is deferred.                                                       *)

\* The LOAD of a replay is at hand.
Replaying == pc.main \in Busy /\ back = "flush"

\* The user's statement is at hand, and execute runs it.
Executing == back = "ready" /\ stmt # None /\ stmt.path = "execute"

\* Only loaded extensions wait for a replay, so that its LOAD cannot fail to
\* reach the drain; nothing is queued while the replays run.
ReplayShape ==
  /\ stmt # None <=> pc.main \in Busy
  /\ Range(replays) \subseteq loaded
  /\ pc.main = "flush" \/ Replaying => replays = <<>> /\ Range(todo) \subseteq loaded
  /\ Replaying => /\ pc.main \in {"enter", "ensure", "hooks", "register"}
                  /\ stmt.path = "execute" /\ stmt.op = "load" /\ stmt.ext \in loaded

\* What is deferred has a replay coming.
ReplayDue ==
  deferred # {} => \/ replays # <<>>
                   \/ pc.main = "flush" /\ todo # <<>>
                   \/ Replaying /\ pc.main # "register"

\* A promised function is on its way to the core, has its alias once no
\* declaration waits, or was rejected.
PromiseShape ==
  /\ promised \subseteq catalog \cup rejected \cup deferred \cup batch
  /\ ~declared => promised \subseteq macros \cup rejected

DInv == ReplayShape /\ ReplayDue /\ ReplayedBefore /\ PromiseShape /\ PrefixCovers

\* The elements of the rest of a sequence, and of an empty one.
LEMMA RangeTail ==
  ASSUME NEW S, NEW s \in Seq(S), s # <<>>
  PROVE  Head(s) \in Range(s) /\ Range(Tail(s)) \subseteq Range(s)
BY DEF Range

LEMMA RangeEmpty == Range(<<>>) = {}
BY DEF Range

LEMMA DeferredInit == Init => DInv
BY RangeEmpty DEF Init, DInv, ReplayShape, ReplayDue, ReplayedBefore, PromiseShape, PrefixCovers,
                  Replaying, Busy

\* Steps of the session between statements, and the start of a statement.
LEMMA DeferredSession ==
  ASSUME IInv, DInv,
         \/ Open \/ LoadNext \/ AutoloadDone \/ RunUser
         \/ \E s \in Statements : Execute(s) \/ OpenStream(s) \/ RequestLoad(s)
  PROVE  DInv'
<1> USE LoadingAssumption
    DEF IInv, DInv, Goto, Run, threads, manager, database, Replaying, Busy
<1>0. None \notin Statement /\ Statements \subseteq Statement
  OBVIOUS
<1>1. CASE Open
  <2>1. ReplayShape'
    BY <1>1 DEF Open, ReplayShape
  <2>2. ReplayDue' 
    BY <1>1 DEF Open, ReplayDue
  <2>3. ReplayedBefore' /\ PromiseShape' /\ PrefixCovers'
    BY <1>1 DEF Open, ReplayedBefore, PromiseShape, PrefixCovers
  <2> QED
    BY <2>1, <2>2, <2>3
<1>2. CASE LoadNext
  <2>1. Head(todo) \in Range(todo) /\ Range(Tail(todo)) \subseteq Range(todo)
    BY <1>2, RangeTail DEF LoadNext, TypeOK
  <2>2. stmt' # None /\ stmt'.ext = Head(todo) /\ stmt'.path = "execute" /\ stmt'.op = "load"
    <3>1. stmt' = [path |-> "execute", op |-> "load", ext |-> Head(todo)]
      BY <1>2 DEF LoadNext
    <3>2. stmt' \in Statement
      BY <1>2, <3>1 DEF LoadNext, Statement, Paths, Ops, TypeOK
    <3> QED
      BY <1>0, <3>1, <3>2
  <2>3. ReplayShape'
    BY <1>0, <1>2, <2>1, <2>2 DEF LoadNext, ReplayShape
  <2>4. ReplayDue'
    BY <1>2, <2>2 DEF LoadNext, ReplayDue
  <2>5. ReplayedBefore' /\ PromiseShape' /\ PrefixCovers'
    BY <1>2 DEF LoadNext, ReplayedBefore, PromiseShape, PrefixCovers
  <2> QED
    BY <2>3, <2>4, <2>5
<1>3. CASE AutoloadDone
  BY <1>3 DEF AutoloadDone, ReplayShape, ReplayDue, ReplayedBefore, PromiseShape, PrefixCovers
<1>4. CASE RunUser
  <2>1. deferred = {} /\ batch = {}
    BY <1>4 DEF RunUser, ReplayDue, ReplayShape, BatchShape
  <2>2. promised' \subseteq macros' \cup rejected
    BY <1>4, <2>1 DEF RunUser, ApplyPrefix, PromiseShape
  <2>3. ReplayShape'
    BY <1>0, <1>4 DEF RunUser, ReplayShape, StmtShape
  <2>4. ReplayDue' /\ ReplayedBefore'
    BY <1>4, <2>1 DEF RunUser, ReplayDue, ReplayedBefore
  <2>5. PromiseShape' /\ PrefixCovers'
    BY <1>4, <2>1, <2>2 DEF RunUser, ApplyPrefix, PromiseShape, PrefixCovers
  <2> QED
    BY <2>3, <2>4, <2>5
<1>5. ASSUME NEW s \in Statements, Execute(s)
      PROVE  DInv'
  BY <1>0, <1>5, RangeEmpty
     DEF Execute, ReplayShape, ReplayDue, ReplayedBefore, PromiseShape, PrefixCovers
<1>6. ASSUME NEW s \in Statements, OpenStream(s)
      PROVE  DInv'
  BY <1>0, <1>6 DEF OpenStream, ReplayShape, ReplayDue, ReplayedBefore, PromiseShape, PrefixCovers
<1>7. ASSUME NEW s \in Statements, RequestLoad(s)
      PROVE  DInv'
  BY <1>0, <1>7 DEF RequestLoad, ReplayShape, ReplayDue, ReplayedBefore, PromiseShape, PrefixCovers
<1> QED
  BY <1>1, <1>2, <1>3, <1>4, <1>5, <1>6, <1>7

\* Steps of the manager, of extension code, and of the core.
LEMMA DeferredStatement ==
  ASSUME IInv, DInv,
         \/ EnterManager \/ AlreadyLoaded \/ NotFound \/ Spawn
         \/ \E call \in Imports : Ask(call)
         \/ Answer \/ LoadReturns \/ JoinOk \/ JoinError \/ FunctionReturns
         \/ Hooks \/ Register
  PROVE  DInv'
<1> USE LoadingAssumption DEF IInv, DInv, threads, manager, database, Replaying, Busy
<1>0. back \notin Busy
  BY DEF TypeOK
<1>1. CASE EnterManager
  <2>1. CASE stmt.op = "prefix"
    <3>1. /\ End /\ declared' = TRUE /\ promised' = promised \cup catalog \cup deferred
          /\ UNCHANGED <<loaded, deferred, replays, batch, catalog, rejected, macros>>
          /\ ~Replaying
      BY <1>1, <2>1 DEF EnterManager, ReplayShape
    <3>2. ReplayShape' /\ ReplayDue'
      BY <1>0, <1>1, <3>1 DEF EnterManager, End, Goto, ReplayShape, ReplayDue
    <3>3. ReplayedBefore' /\ PromiseShape' /\ PrefixCovers'
      BY <3>1 DEF End, ReplayedBefore, PromiseShape, PrefixCovers
    <3> QED
      BY <3>2, <3>3
  <2>2. CASE stmt.op # "prefix"
    <3>1. ReplayShape' /\ ReplayDue'
      BY <1>1, <2>2 DEF EnterManager, Goto, ReplayShape, ReplayDue
    <3>2. ReplayedBefore' /\ PromiseShape' /\ PrefixCovers'
      BY <1>1, <2>2 DEF EnterManager, ReplayedBefore, PromiseShape, PrefixCovers
    <3> QED
      BY <3>1, <3>2
  <2> QED
    BY <2>1, <2>2
<1>2. ASSUME NEW fresh \in SUBSET {stmt.ext}, stmt.ext \in loaded \cup fresh,
             pc.main \in {"ensure", "join"}, Replaying => pc.main = "ensure",
             EnsureOk(fresh)
      PROVE  DInv'
  <2>1. /\ loaded' = loaded \cup fresh /\ stmt.ext \in Exts
        /\ UNCHANGED <<declared, batch, catalog, rejected, macros, promised>>
        /\ UNCHANGED <<back, user, todo>>
    BY <1>2 DEF EnsureOk, End, database, StmtShape, Statement
  <2>2. CASE stmt.op = "ducklink_load"
    <3>1. End /\ replays' = Queued(stmt.ext) /\ deferred \subseteq deferred' /\ ~Replaying
      BY <1>2, <2>2 DEF EnsureOk, Stashed, ReplayShape
    <3>2. replays' # <<>> /\ Range(replays') \subseteq loaded'
      <4>1. CASE Contains(replays, stmt.ext)
        BY <2>1, <3>1, <4>1, RangeEmpty DEF Queued, ReplayShape, Contains
      <4>2. CASE ~Contains(replays, stmt.ext)
        <5>1. replays \in Seq(Exts) /\ stmt.ext \in Exts /\ Range(replays) \subseteq loaded
          BY <2>1 DEF ReplayShape, TypeOK
        <5>2. replays' = Append(replays, stmt.ext)
          BY <3>1, <4>2 DEF Queued
        <5>3. Range(replays') = Range(replays) \cup {stmt.ext}
          BY <5>1, <5>2, RangeAppend
        <5>4. replays' # <<>>
          BY <5>1, <5>2
        <5> QED
          BY <1>2, <2>1, <5>1, <5>3, <5>4
      <4> QED
        BY <4>1, <4>2
    <3>3. ReplayShape' /\ ReplayDue'
      BY <1>0, <1>2, <2>1, <3>1, <3>2 DEF End, Goto, ReplayShape, ReplayDue
    <3>4. ReplayedBefore' /\ PromiseShape' /\ PrefixCovers'
      BY <2>1, <3>1 DEF End, ReplayedBefore, PromiseShape, PrefixCovers
    <3> QED
      BY <3>3, <3>4
  <2>3. CASE stmt.op # "ducklink_load"
    <3>1. UNCHANGED <<deferred, replays>>
      BY <1>2, <2>3 DEF EnsureOk
    <3>2. CASE stmt.path = "cli"
      <4>1. End /\ ~Replaying
        BY <1>2, <2>3, <3>2 DEF EnsureOk, ReplayShape
      <4> QED
        BY <1>0, <1>2, <2>1, <3>1, <4>1
           DEF End, Goto, ReplayShape, ReplayDue, ReplayedBefore, PromiseShape, PrefixCovers
    <3>3. CASE stmt.path # "cli"
      <4>1. Goto("hooks") /\ UNCHANGED stmt
        BY <1>2, <2>3, <3>3 DEF EnsureOk
      <4> QED
        BY <1>0, <1>2, <2>1, <3>1, <4>1
           DEF Goto, ReplayShape, ReplayDue, ReplayedBefore, PromiseShape, PrefixCovers
    <3> QED
      BY <3>2, <3>3
  <2> QED
    BY <2>2, <2>3
<1>3. CASE AlreadyLoaded
  BY <1>2, <1>3 DEF AlreadyLoaded
<1>4. CASE JoinOk
  BY <1>2, <1>4 DEF JoinOk, LoaderShape, ReplayShape
<1>5. CASE NotFound \/ JoinError \/ FunctionReturns
  <2>1. End /\ UNCHANGED <<manager, database>> /\ pc.main \in Busy /\ ~Replaying
    BY <1>5 DEF NotFound, JoinError, FunctionReturns, LoaderShape, ReplayShape
  <2> QED
    BY <1>0, <2>1
       DEF End, Goto, ReplayShape, ReplayDue, ReplayedBefore, PromiseShape, PrefixCovers
<1>6. CASE Spawn
  <2>1. ~Replaying
    BY <1>6 DEF Spawn, ReplayShape
  <2> QED
    BY <1>6, <2>1
       DEF Spawn, ReplayShape, ReplayDue, ReplayedBefore, PromiseShape, PrefixCovers
<1>7. ASSUME NEW call \in Imports, Ask(call)
      PROVE  DInv'
  <2>1. ~Replaying /\ pc'.main \in Busy /\ pc.main \in Busy
    BY <1>7 DEF Ask, Runner, ReplayShape, TypeOK, LoaderShape
  <2> QED
    BY <1>7, <2>1
       DEF Ask, Runner, ReplayShape, ReplayDue, ReplayedBefore, PromiseShape, PrefixCovers, TypeOK
<1>8. CASE Answer
  <2>1. ~Replaying /\ pc'.main \in Busy /\ pc.main \in Busy
    BY <1>8 DEF Answer, Runner, ReplayShape, TypeOK, LoaderShape
  <2> QED
    BY <1>8, <2>1
       DEF Answer, Runner, ReplayShape, ReplayDue, ReplayedBefore, PromiseShape, PrefixCovers, TypeOK
<1>9. CASE LoadReturns
  <2>1. pc'.main = pc.main
    BY <1>9 DEF LoadReturns, TypeOK
  <2> QED
    BY <1>9, <2>1
       DEF LoadReturns, ReplayShape, ReplayDue, ReplayedBefore, PromiseShape, PrefixCovers
<1>10. CASE Hooks
  <2>1. /\ deferred' = {} /\ deferred \subseteq batch' /\ batch = {}
        /\ Goto("register") /\ pc.main = "hooks"
        /\ UNCHANGED <<back, stmt, user, todo, loaded, replays, declared, catalog, rejected,
                       macros, promised>>
    BY <1>10 DEF Hooks, BatchShape
  <2> QED
    BY <2>1
       DEF Goto, ReplayShape, ReplayDue, ReplayedBefore, PromiseShape, PrefixCovers
<1>11. CASE Register
  <2>1. /\ End /\ UNCHANGED <<manager, macros, promised>> /\ pc.main = "register"
        /\ catalog \cup rejected \cup batch \subseteq catalog' \cup rejected'
        /\ rejected \subseteq rejected'
    BY <1>11 DEF Register
  <2>2. deferred # {} => replays # <<>> \/ (back = "flush" /\ todo # <<>>)
    BY <2>1 DEF ReplayDue
  <2>3. ReplayShape' /\ ReplayDue'
    BY <1>0, <2>1, <2>2 DEF End, Goto, ReplayShape, ReplayDue
  <2>4. ReplayedBefore' /\ PromiseShape' /\ PrefixCovers'
    BY <2>1 DEF End, ReplayedBefore, PromiseShape, PrefixCovers
  <2> QED
    BY <2>3, <2>4
<1> QED
  BY <1>1, <1>3, <1>4, <1>5, <1>6, <1>7, <1>8, <1>9, <1>10, <1>11

LEMMA DeferredInductive == Spec => []DInv
<1>1. IInv /\ DInv /\ [Next]_vars => DInv'
  <2> SUFFICES ASSUME IInv, DInv, [Next]_vars PROVE DInv'
    OBVIOUS
  <2>1. CASE UNCHANGED vars
    BY <2>1 DEF vars, threads, manager, database, DInv, ReplayShape, ReplayDue, ReplayedBefore,
                PromiseShape, PrefixCovers, Replaying, Busy
  <2>2. CASE Next
    BY <2>2, DeferredSession, DeferredStatement DEF Next
  <2> QED
    BY <2>1, <2>2
<1> QED
  BY DeferredInit, Inductive, <1>1, PTL DEF Spec

\* Whatever runs in between, and wherever loads fail: what ducklink_load put
\* aside is in the core when execute hands it the next statement (lib.rs 9575).
THEOREM ReplaysCome == Spec => []ReplayedBefore
<1>1. DInv => ReplayedBefore
  BY DEF DInv
<1> QED
  BY DeferredInductive, <1>1, PTL

\* Whatever runs in between: when execute hands the core a statement, every
\* function promised to a declared prefix has its alias, unless the core
\* rejected it or the prefix's schema could not be created (lib.rs 9585).
THEOREM PrefixesCover == Spec => []PrefixCovers
<1>1. DInv => PrefixCovers
  BY DEF DInv
<1> QED
  BY DeferredInductive, <1>1, PTL

-----------------------------------------------------------------------------
(* Locks.  Extensions are free to call the host in ways that make a thread *)
(* wait for itself (a load() that logs under a LOAD statement); Careful     *)
(* says of a deployment what keeps it from that.                            *)

\* The extensions whose load() may run while the core is locked.
LoadedBySql ==
  Range(Autoload) \cup
  {s.ext : s \in {t \in Statements : t.op = "ducklink_load" \/ (t.op = "load" /\ t.path # "cli")}}

\* Only what the CLI loads logs in its load(), no function logs, none that is
\* streamed nests on a file; and a load() that nests on a file is that of the
\* first extension there is.
Careful ==
  /\ \A e \in LoadedBySql : "log" \notin LoadCalls[e]
  /\ \A s \in Statements : s.op = "call" =>
       /\ "log" \notin FunctionCalls[s.ext]
       /\ FileBacked /\ s.path = "stream" => "nest" \notin FunctionCalls[s.ext]
  /\ FileBacked => \A e \in Exts : "nest" \in LoadCalls[e] =>
       Autoload # <<>> /\ e = Autoload[1] /\ e \notin Absent \cup Failing

\* The manager is locked from entering it until hooks or the end of the
\* statement, the core while a statement runs that is not the CLI's.
LockShape ==
  /\ holder.manager # None => pc.main \in {"ensure", "join", "body", "asking"}
  /\ holder.core # None => pc.main \in Busy /\ stmt.path # "cli"

\* The host issues LOAD only for what autoload and ducklink_load have named.
SourceShape ==
  /\ Range(todo) \cup Range(replays) \subseteq LoadedBySql
  /\ pc.main \in Busy =>
       \/ stmt \in Statements
       \/ stmt.path = "execute" /\ stmt.op = "load" /\ stmt.ext \in LoadedBySql
  /\ user # None => user.path = "execute"

\* Whose code runs: a function's in the session, else load() on the loader.
CodeShape ==
  /\ pc.main \in {"body", "asking"} => stmt \in Statements /\ stmt.op = "call"
  /\ pc.main \in {"ensure", "join"} => stmt.op \in {"load", "ducklink_load"}
  /\ "asking" \in {pc.main, pc.loader} => asked \in Calls
  /\ pc.loader = "error" => stmt.ext \in Failing

\* A load() that nests comes before every other load, or is over.
FirstShape ==
  FileBacked => \A e \in Exts : "nest" \in LoadCalls[e] /\ e \notin loaded =>
    /\ recorded = <<>>
    /\ \/ pc.main = "closed"
       \/ pc.main = "autoload" /\ todo = Autoload
       \/ /\ pc.main \in {"enter", "ensure", "join"} /\ back = "autoload"
          /\ stmt = [path |-> "execute", op |-> "load", ext |-> e]

CInv == LockShape /\ SourceShape /\ CodeShape /\ FirstShape

LEMMA LockInit == Init => CInv
BY RangeEmpty DEF Init, CInv, LockShape, SourceShape, CodeShape, FirstShape, Busy

\* The session between statements, and the start of a statement.
LEMMA LockSession ==
  ASSUME Careful, IInv, CInv,
         \/ Open \/ LoadNext \/ AutoloadDone \/ RunUser
         \/ \E s \in Statements : Execute(s) \/ OpenStream(s) \/ RequestLoad(s)
  PROVE  CInv'
<1> USE DEF CInv, IInv, Goto, manager, database
<1>1. CASE Open
  <2>1. Range(Autoload) \subseteq LoadedBySql
    BY DEF LoadedBySql
  <2>2. FirstShape'
    BY <1>1 DEF Open, FirstShape
  <2>3. LockShape' /\ CodeShape'
    BY <1>1 DEF Open, LockShape, CodeShape, Busy
  <2> QED
    BY <1>1, <2>1, <2>2, <2>3 DEF Open, SourceShape, Busy
<1>2. CASE LoadNext
  <2>1. /\ pc.main \in {"autoload", "flush"} /\ todo # <<>> /\ holder.core = None
        /\ stmt' = [path |-> "execute", op |-> "load", ext |-> Head(todo)]
        /\ todo' = Tail(todo) /\ back' = pc.main
        /\ holder' = [holder EXCEPT !.core = "main"]
        /\ pc' = [main |-> "enter", loader |-> "none"]
        /\ UNCHANGED <<user, asked, replays, recorded, loaded>>
    BY <1>2 DEF LoadNext, Run
  <2>2. Head(todo) \in LoadedBySql /\ Range(todo') \subseteq LoadedBySql
    BY <2>1, RangeTail DEF SourceShape, TypeOK
  <2>3. SourceShape'
    BY <2>1, <2>2 DEF SourceShape
  <2>4. LockShape' /\ CodeShape'
    BY <2>1 DEF LockShape, CodeShape, TypeOK, Busy
  <2>5. FirstShape'
    <3> SUFFICES ASSUME FileBacked, NEW e \in Exts, "nest" \in LoadCalls[e], e \notin loaded'
                 PROVE  /\ recorded' = <<>> /\ pc'.main = "enter" /\ back' = "autoload"
                        /\ stmt' = [path |-> "execute", op |-> "load", ext |-> e]
      BY <2>1 DEF FirstShape
    <3>1. recorded = <<>> /\ pc.main = "autoload" /\ todo = Autoload
      BY <2>1 DEF FirstShape, Busy
    <3>2. e = Autoload[1]
      BY DEF Careful
    <3> QED
      BY <2>1, <3>1, <3>2
  <2> QED
    BY <2>3, <2>4, <2>5
<1>3. CASE AutoloadDone
  <2>1. FirstShape'
    BY <1>3 DEF AutoloadDone, FirstShape, Careful
  <2> QED
    BY <1>3, <2>1 DEF AutoloadDone, LockShape, SourceShape, CodeShape, Busy
<1>4. CASE RunUser
  <2>1. /\ pc.main = "flush" /\ user \in Statements /\ stmt' = user /\ holder.core = None
        /\ holder' = [holder EXCEPT !.core = "main"]
        /\ pc' = [main |-> "enter", loader |-> "none"]
        /\ UNCHANGED <<todo, replays, recorded, loaded>>
    BY <1>4 DEF RunUser, Run, StmtShape
  <2>2. user.path # "cli"
    BY <2>1, LoadingAssumption DEF SourceShape
  <2>3. user' = None
    BY <1>4 DEF RunUser
  <2>4. LockShape' /\ CodeShape'
    BY <2>1, <2>2 DEF LockShape, CodeShape, TypeOK, Busy
  <2>5. SourceShape' /\ FirstShape'
    BY <2>1, <2>3 DEF SourceShape, FirstShape, Busy
  <2> QED
    BY <2>4, <2>5
<1>5. ASSUME NEW s \in Statements, Execute(s)
      PROVE  CInv'
  <2>1. LockShape' /\ CodeShape' /\ FirstShape'
    BY <1>5 DEF Execute, LockShape, CodeShape, FirstShape, Busy
  <2> QED
    BY <1>5, <2>1, RangeEmpty DEF Execute, SourceShape, Busy
<1>6. ASSUME NEW s \in Statements, OpenStream(s)
      PROVE  CInv'
  <2>1. LockShape' /\ CodeShape' /\ FirstShape'
    BY <1>6 DEF OpenStream, Run, LockShape, CodeShape, FirstShape, TypeOK, Busy
  <2> QED
    BY <1>6, <2>1 DEF OpenStream, Run, SourceShape
<1>7. ASSUME NEW s \in Statements, RequestLoad(s)
      PROVE  CInv'
  <2>1. holder.core = None
    BY <1>7 DEF RequestLoad, LockShape, Busy
  <2>2. LockShape' /\ CodeShape' /\ FirstShape'
    BY <1>7, <2>1 DEF RequestLoad, LockShape, CodeShape, FirstShape, TypeOK, Busy
  <2> QED
    BY <1>7, <2>2 DEF RequestLoad, SourceShape
<1> QED
  BY <1>1, <1>2, <1>3, <1>4, <1>5, <1>6, <1>7

\* The end of a statement.
LEMMA LockEnd ==
  ASSUME IInv, CInv, End, pc.main \in Busy, pc.main # "enter" \/ stmt.op = "prefix",
         stmt.ext \in loaded' \/ stmt.ext \in Absent \cup Failing \/ stmt.op = "prefix",
         Careful, loaded \subseteq loaded',
         Range(replays') \subseteq LoadedBySql
  PROVE  CInv'
<1> USE DEF CInv, IInv, End, Goto
<1>1. LockShape' /\ CodeShape'
  BY EndStep DEF LockShape, CodeShape, TypeOK, Busy
<1>2. SourceShape'
  BY EndStep DEF SourceShape
<1>3. FirstShape'
  <2> SUFFICES ASSUME FileBacked, NEW e \in Exts, "nest" \in LoadCalls[e], e \notin loaded'
               PROVE  FALSE
    BY DEF FirstShape
  <2>1. e \notin Absent \cup Failing /\ e \notin loaded
    BY DEF Careful
  <2>2. stmt = [path |-> "execute", op |-> "load", ext |-> e]
    BY <2>1 DEF FirstShape, Busy
  <2> QED
    BY <2>1, <2>2
<1> QED
  BY <1>1, <1>2, <1>3

\* An extension that ducklink_load has named is one of LoadedBySql.
LEMMA QueuedNamed ==
  ASSUME IInv, CInv, pc.main \in Busy, stmt.op = "ducklink_load"
  PROVE  Range(Queued(stmt.ext)) \subseteq LoadedBySql
<1>1. stmt \in Statements /\ stmt.ext \in LoadedBySql /\ stmt.ext \in Exts
  BY DEF IInv, CInv, SourceShape, StmtShape, LoadedBySql, Statement
<1>2. replays \in Seq(Exts) /\ Range(replays) \subseteq LoadedBySql
  BY DEF IInv, CInv, TypeOK, SourceShape
<1> QED
  BY <1>1, <1>2, RangeAppend DEF Queued

\* ensure_extension_loaded returned true.
LEMMA LockEnsure ==
  ASSUME Careful, IInv, CInv, pc.main \in {"ensure", "join"}, NEW fresh \in SUBSET {stmt.ext},
         stmt.ext \in loaded \cup fresh, EnsureOk(fresh)
  PROVE  CInv'
<1>1. loaded' = loaded \cup fresh /\ stmt.ext \in loaded' /\ pc.main \in Busy
  BY DEF EnsureOk, Busy
<1>2. CASE stmt.op = "ducklink_load"
  <2>1. End /\ replays' = Queued(stmt.ext)
    BY <1>2 DEF EnsureOk
  <2>2. Range(replays') \subseteq LoadedBySql
    BY <1>1, <1>2, <2>1, QueuedNamed
  <2> QED
    BY <1>1, <2>1, <2>2, LockEnd
<1>3. CASE stmt.op # "ducklink_load"
  <2>1. replays' = replays
    BY <1>3 DEF EnsureOk
  <2>2. CASE stmt.path = "cli"
    <3>1. End
      BY <1>3, <2>2 DEF EnsureOk
    <3> QED
      BY <1>1, <2>1, <3>1, LockEnd DEF CInv, SourceShape
  <2>3. CASE stmt.path # "cli"
    <3>1. /\ holder' = [holder EXCEPT !.manager = None] /\ Goto("hooks")
          /\ UNCHANGED <<back, stmt, user, todo, asked>>
      BY <1>3, <2>3 DEF EnsureOk
    <3>2. FirstShape'
      BY <1>1, <3>1 DEF CInv, FirstShape, Goto, Busy
    <3>3. LockShape' /\ CodeShape'
      BY <1>1, <2>3, <3>1 DEF CInv, IInv, LockShape, CodeShape, Goto, TypeOK, Busy
    <3>4. SourceShape'
      BY <1>1, <2>1, <3>1 DEF CInv, SourceShape, Goto
    <3> QED
      BY <3>2, <3>3, <3>4 DEF CInv
  <2> QED
    BY <2>2, <2>3
<1> QED
  BY <1>2, <1>3

\* The steps of a statement, of the loader and of extension code.
LEMMA LockStatement ==
  ASSUME Careful, IInv, CInv,
         \/ EnterManager \/ AlreadyLoaded \/ NotFound \/ Spawn
         \/ \E call \in Imports : Ask(call)
         \/ Answer \/ LoadReturns \/ JoinOk \/ JoinError \/ FunctionReturns
         \/ Hooks \/ Register
  PROVE  CInv'
<1> USE DEF manager, database
<1>1. CASE EnterManager
  <2>1. pc.main = "enter" /\ pc.main \in Busy /\ UNCHANGED <<loaded, recorded, replays>>
    BY <1>1 DEF EnterManager, Busy
  <2>2. CASE stmt.op = "prefix"
    <3>1. End
      BY <1>1, <2>2 DEF EnterManager
    <3> QED
      BY <2>1, <2>2, <3>1, LockEnd DEF CInv, SourceShape
  <2>3. CASE stmt.op # "prefix"
    <3>1. /\ holder' = [holder EXCEPT !.manager = "main"]
          /\ Goto(IF stmt.op = "call" THEN "body" ELSE "ensure")
          /\ UNCHANGED <<back, stmt, user, todo, asked>>
      BY <1>1, <2>3 DEF EnterManager
    <3>2. stmt \in Statement
      BY <2>1 DEF IInv, StmtShape
    <3>3. FirstShape'
      BY <2>1, <3>1 DEF CInv, FirstShape, Goto, Busy
    <3>4. SourceShape'
      BY <2>1, <3>1 DEF CInv, SourceShape, Goto
    <3>5. LockShape'
      BY <2>1, <3>1 DEF CInv, IInv, LockShape, Goto, TypeOK, Busy
    <3>6. CodeShape'
      BY <2>1, <2>3, <3>1, <3>2 DEF CInv, SourceShape, CodeShape, Goto, Statement, Ops
    <3> QED
      BY <3>3, <3>4, <3>5, <3>6 DEF CInv
  <2> QED
    BY <2>2, <2>3
<1>2. CASE AlreadyLoaded
  <2>1. EnsureOk({}) /\ pc.main = "ensure" /\ stmt.ext \in loaded
    BY <1>2 DEF AlreadyLoaded
  <2> QED
    BY <2>1, LockEnsure
<1>3. CASE JoinOk
  <2>1. EnsureOk({stmt.ext}) /\ pc.main = "join"
    BY <1>3 DEF JoinOk, IInv, LoaderShape
  <2> QED
    BY <2>1, LockEnsure
<1>4. CASE NotFound
  <2>1. End /\ pc.main = "ensure" /\ pc.main \in Busy /\ stmt.ext \in Absent
        /\ UNCHANGED <<loaded, replays>>
    BY <1>4 DEF NotFound, Busy
  <2> QED
    BY <2>1, LockEnd DEF CInv, SourceShape
<1>5. CASE JoinError
  <2>1. End /\ pc.main = "join" /\ pc.main \in Busy /\ stmt.ext \in Failing
        /\ UNCHANGED <<loaded, replays>>
    BY <1>5 DEF JoinError, IInv, LoaderShape, CInv, CodeShape, Busy
  <2> QED
    BY <2>1, LockEnd DEF CInv, SourceShape
<1>6. CASE FunctionReturns \/ Register
  <2>1. End /\ pc.main \in {"body", "register"} /\ pc.main \in Busy
        /\ UNCHANGED <<loaded, recorded, replays>>
    BY <1>6 DEF FunctionReturns, Register, Busy
  <2>2. FirstShape'
    BY <2>1 DEF CInv, FirstShape, Busy
  <2>3. SourceShape'
    BY <2>1, EndStep DEF CInv, SourceShape, End
  <2>4. LockShape' /\ CodeShape'
    BY <2>1, EndStep DEF End, LockShape, CodeShape, TypeOK, Busy
  <2> QED
    BY <2>2, <2>3, <2>4 DEF CInv
<1>7. CASE Spawn
  <2>1. SourceShape' /\ FirstShape'
    BY <1>7 DEF Spawn, CInv, SourceShape, FirstShape, Busy
  <2>2. LockShape' /\ CodeShape'
    BY <1>7 DEF Spawn, CInv, LockShape, CodeShape, Busy
  <2> QED
    BY <2>1, <2>2 DEF CInv
<1>8. ASSUME NEW call \in Imports, Ask(call)
      PROVE  CInv'
  <2>1. /\ pc' = [pc EXCEPT ![Runner] = "asking"] /\ asked' = call /\ call \in Calls
        /\ "body" \in {pc.main, pc.loader}
        /\ UNCHANGED <<back, stmt, user, todo, holder, loaded, recorded, replays>>
    BY <1>8 DEF Ask
  <2>2. CASE pc.main = "join"
    <3>1. pc'.main = "join" /\ pc'.loader = "asking" /\ Runner' = Runner
      BY <2>1, <2>2 DEF Runner, IInv, TypeOK
    <3> QED
      BY <2>1, <2>2, <3>1 DEF CInv, LockShape, SourceShape, CodeShape, FirstShape, Calls, Busy
  <2>3. CASE pc.main # "join"
    <3>1. pc.main = "body" /\ pc'.main = "asking" /\ pc'.loader = pc.loader /\ pc.loader = "none"
      BY <2>1, <2>3 DEF Runner, IInv, TypeOK, LoaderShape
    <3>2. Runner' = Runner
      BY <2>3, <3>1 DEF Runner
    <3> QED
      BY <2>1, <3>1, <3>2 DEF CInv, LockShape, SourceShape, CodeShape, FirstShape, Calls, Busy
  <2> QED
    BY <2>2, <2>3
<1>9. CASE Answer
  <2>1. /\ pc' = [pc EXCEPT ![Runner] = "body"] /\ "asking" \in {pc.main, pc.loader}
        /\ UNCHANGED <<back, stmt, user, todo, holder, loaded, recorded, replays>>
    BY <1>9 DEF Answer
  <2>2. CASE pc.main = "join"
    <3>1. pc'.main = "join" /\ pc'.loader = "body"
      BY <2>1, <2>2 DEF Runner, IInv, TypeOK
    <3> QED
      BY <2>1, <2>2, <3>1 DEF CInv, LockShape, SourceShape, CodeShape, FirstShape, Busy
  <2>3. CASE pc.main # "join"
    <3>1. pc.main = "asking" /\ pc'.main = "body" /\ pc'.loader = "none"
      BY <2>1, <2>3 DEF Runner, IInv, TypeOK, LoaderShape
    <3> QED
      BY <2>1, <3>1 DEF CInv, LockShape, SourceShape, CodeShape, FirstShape, Busy
  <2> QED
    BY <2>2, <2>3
<1>10. CASE LoadReturns
  <2>1. /\ pc.loader = "body" /\ pc.main = "join" /\ pc'.main = "join"
        /\ pc'.loader \in {"ok", "error"} /\ (pc'.loader = "error" => stmt.ext \in Failing)
        /\ UNCHANGED <<back, stmt, user, todo, holder, loaded, recorded, replays>>
    BY <1>10 DEF LoadReturns, IInv, TypeOK, LoaderShape
  <2> QED
    BY <2>1 DEF CInv, LockShape, SourceShape, CodeShape, FirstShape, Busy
<1>11. CASE Hooks
  <2>1. /\ pc.main = "hooks" /\ Goto("register")
        /\ UNCHANGED <<back, stmt, user, todo, holder, loaded, recorded, replays>>
    BY <1>11 DEF Hooks
  <2>2. FirstShape'
    BY <2>1 DEF CInv, FirstShape, Busy
  <2>3. LockShape' /\ SourceShape' /\ CodeShape'
    BY <2>1 DEF CInv, LockShape, SourceShape, CodeShape, Goto, Busy
  <2> QED
    BY <2>2, <2>3 DEF CInv
<1> QED
  BY <1>1, <1>2, <1>3, <1>4, <1>5, <1>6, <1>7, <1>8, <1>9, <1>10, <1>11

\* The lock that a thread wants is free.
LEMMA LocksFree == ASSUME Careful, IInv, CInv PROVE NoLockCycle
<1> USE DEF IInv, CInv
<1>1. CASE "asking" \notin {pc.main, pc.loader}
  BY <1>1 DEF NoLockCycle, Wants, LockShape
<1>2. CASE "asking" \in {pc.main, pc.loader}
  <2>1. asked \in Calls /\ Wants = Needs(asked)
    BY <1>2 DEF CodeShape, Wants
  <2>2. CASE pc.main = "join"
    <3>1. asked \in LoadCalls[stmt.ext] /\ stmt.op \in {"load", "ducklink_load"}
          /\ Runner = "loader" /\ stmt.ext \notin loaded /\ stmt \in Statement /\ pc.main \in Busy
      BY <2>1, <2>2 DEF Calls, Runner, CodeShape, LoaderShape, StmtShape, Busy
    <3>2. CASE asked = "log"
      <4>1. stmt.ext \notin LoadedBySql
        BY <3>1, <3>2 DEF Careful
      <4>2. stmt \in Statements /\ stmt.path = "cli"
        BY <3>1, <4>1 DEF SourceShape, LoadedBySql
      <4> QED
        BY <2>1, <3>2, <4>2 DEF LockShape, NoLockCycle, Needs
    <3>3. CASE asked = "nest"
      <4>1. FileBacked => recorded = <<>>
        BY <3>1, <3>3 DEF FirstShape, Statement
      <4> QED
        BY <2>1, <3>3, <4>1 DEF NoLockCycle, Needs, Builds
    <3>4. CASE asked = "query"
      BY <2>1, <3>4 DEF NoLockCycle, Needs
    <3> QED
      BY <3>1, <3>2, <3>3, <3>4, LoadingAssumption DEF Imports, Statement
  <2>3. CASE pc.main # "join"
    <3>1. pc.main = "asking" /\ Runner = "main" /\ asked \in FunctionCalls[stmt.ext]
          /\ stmt \in Statements /\ stmt.op = "call" /\ stmt.path # "cli"
      BY <1>2, <2>1, <2>3, LoadingAssumption DEF Calls, Runner, CodeShape, LoaderShape
    <3>2. asked # "log" /\ (FileBacked /\ stmt.path = "stream" => asked # "nest")
      BY <3>1 DEF Careful
    <3>3. asked = "query" \/ asked = "nest"
      BY <3>1, <3>2, LoadingAssumption DEF Imports, Statement
    <3>4. stmt.path = "execute" \/ stmt.path = "stream"
      BY <3>1, LoadingAssumption DEF Statement, Paths
    <3> QED
      BY <2>1, <3>1, <3>2, <3>3, <3>4 DEF NoLockCycle, Needs, Builds, Reenters
  <2> QED
    BY <2>2, <2>3
<1> QED
  BY <1>1, <1>2

\* In a deployment that is careful, which the code does not see to,
\* no thread waits for a lock that is held further up
\* its own chain of calls and joins, whatever is loaded, called and deferred in
\* what order, and whatever fails (lib.rs 484, 1138, 10049).
THEOREM ThreadsNeverWaitForThemselves ==
  ASSUME Careful
  PROVE  Spec => []NoLockCycle
<1>1. IInv /\ CInv /\ [Next]_vars => CInv'
  <2> SUFFICES ASSUME IInv, CInv, [Next]_vars PROVE CInv'
    OBVIOUS
  <2>1. CASE UNCHANGED vars
    BY <2>1 DEF vars, threads, manager, database, CInv, LockShape, SourceShape, CodeShape,
                FirstShape, Calls, Runner, Busy
  <2>2. CASE Next
    BY <2>2, LockSession, LockStatement DEF Next
  <2> QED
    BY <2>1, <2>2
<1>2. IInv /\ CInv => NoLockCycle
  BY LocksFree
<1> QED
  BY LockInit, Inductive, <1>1, <1>2, PTL DEF Spec

=============================================================================
