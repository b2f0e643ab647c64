-------------------------- MODULE AttachedStorage --------------------------
(***************************************************************************)
(* ATTACH '<dsn>' AS <alias> (TYPE <type>) of the host (lib.rs,            *)
(* intercept_attach / intercept_write): the core never sees the foreign    *)
(* database.  The host opens it through an extension component, grafts a   *)
(* table function and a view per table into the core for SELECT, and       *)
(* intercepts writes to the alias by their text.                           *)
(*                                                                         *)
(* One session runs its statements one at a time, so a statement is one    *)
(* action per way it can end; what an earlier step of a failed statement   *)
(* did stays done.  A component either holds a catalog in its own memory   *)
(* and leaves it to the host to write it back (a member of Exts \ Direct)  *)
(* or writes the database itself (a member of Direct).                     *)
(*                                                                         *)
(* Abstracted: SQL text, columns and values (a row is a token that is      *)
(* written once: an UPDATE gives a row a new token), rowid columns, the catalog snapshot of the completer,   *)
(* strings in the file:// form.                                            *)
(***************************************************************************)
EXTENDS Naturals, Sequences, Functions

CONSTANTS
  Exts,        \* storage extensions
  Direct,      \* those whose writes_persist_directly is true
  Types,       \* ATTACH type names
  Sqlite,      \* the type name "sqlitewasm"
  TypesOf,     \* the types each extension registers when it is loaded
  Aliases, Tables, Rows,
  Stores,      \* foreign databases
  Files,       \* those that are local files
  Dsns,        \* the ATTACH strings in use ...
  StoreOf,     \* ... and the database each one names
  DsnsOf,      \* the strings the session attaches under each alias
  Modes,       \* a subset of BOOLEAN: the READ_ONLY options in use
  Existing,    \* what the databases hold before the first session
  Faults,      \* the calls that may fail
  MaxCatalogs, \* bound on the catalogs opened per extension and session
  NoExt, NoEntry, NoScan     \* sentinels

ASSUME StorageAssumption ==
  /\ Direct \subseteq Exts /\ Sqlite \in Types /\ TypesOf \in [Exts -> SUBSET Types]
  /\ Files \subseteq Stores /\ StoreOf \in [Dsns -> Stores]
  /\ DsnsOf \in [Aliases -> SUBSET Dsns] /\ Modes \subseteq BOOLEAN
  /\ NoExt \notin Exts
  /\ Existing \in [Stores -> UNION {[present -> SUBSET Rows] : present \in SUBSET Tables}]
  /\ MaxCatalogs \in Nat

VARIABLES
  backends,  \* storage_backends: type -> extension
  catalogs,  \* per extension, the catalogs it opened; a handle is an index
  stores,    \* the foreign databases
  attached,  \* attached_aliases: alias -> entry
  core,      \* aliases with an in-memory catalog on the core
  scans,     \* table functions __<alias>_<table> and their scan targets
  views,     \* the views <alias>.main.<table>
  log        \* history: the row writes asked for; ok: acknowledged, not READ_ONLY

vars == <<backends, catalogs, stores, attached, core, scans, views, log>>

\* The rows of each table that exists.
Image == UNION {[present -> SUBSET Rows] : present \in SUBSET Tables}
Catalog == [store : Stores, image : Image]
Entry == [ext : Exts, handle : Nat, store : Stores, readOnly : BOOLEAN,
          direct : BOOLEAN, native : BOOLEAN]
Scan == [ext : Exts, handle : Nat]
Write == [store : Stores, table : Tables, row : Rows, op : {"insert", "delete"}, ok : BOOLEAN]

ASSUME SentinelAssumption == NoEntry \notin Entry /\ NoScan \notin Scan

TypeOK ==
  /\ backends \in [Types -> Exts \cup {NoExt}]
  /\ catalogs \in [Exts -> Seq(Catalog)]
  /\ stores \in [Stores -> Image]
  /\ attached \in [Aliases -> Entry \cup {NoEntry}]
  /\ core \subseteq Aliases
  /\ scans \in [Aliases \X Tables -> Scan \cup {NoScan}]
  /\ views \subseteq core \X Tables
  /\ \A v \in views : scans[v] # NoScan
  /\ log \subseteq Write

-----------------------------------------------------------------------------
Fresh ==
  /\ backends = [ty \in Types |-> NoExt]
  /\ catalogs = [e \in Exts |-> <<>>]
  /\ attached = [a \in Aliases |-> NoEntry]
  /\ core = {}
  /\ scans = [p \in Aliases \X Tables |-> NoScan]
  /\ views = {}

Init ==
  /\ Fresh
  /\ stores = Existing
  /\ log = {w \in Write : /\ w.op = "insert" /\ w.ok
                          /\ w.table \in DOMAIN Existing[w.store]
                          /\ w.row \in Existing[w.store][w.table]}

Blank == [t \in {} |-> {}]

\* LOAD of a storage extension: the last one to register a type serves it.
Load(e) ==
  /\ \A ty \in Types : backends[ty] # e
  /\ backends' = [ty \in Types |-> IF ty \in TypesOf[e] THEN e ELSE backends[ty]]
  /\ UNCHANGED <<catalogs, stores, attached, core, scans, views, log>>

-----------------------------------------------------------------------------
(* Calls into the extensions.  Whatever the TYPE of an attach, every call  *)
(* goes to the one backend that resolve_storage_backend picks.             *)

Registered == {backends[ty] : ty \in Types} \ {NoExt}

Resolve ==
  IF backends[Sqlite] # NoExt THEN backends[Sqlite]
  ELSE IF \E e \in Registered : Registered = {e} THEN CHOOSE e \in Registered : TRUE
  ELSE NoExt

\* What a catalog that extension e opened holds.
Holds(e, catalog) == IF e \in Direct THEN stores[catalog.store] ELSE catalog.image

storage_list_tables(e, catalog) == DOMAIN Holds(e, catalog)

\* storage-table-columns answers for the tables of an open catalog.
storage_table_columns(e, h, t) ==
  h \in DOMAIN catalogs[e] /\ t \in storage_list_tables(e, catalogs[e][h])

\* storage-attach: the bytes of the file that the string names are staged.
\* Faulty variant: nothing is ever staged.
StagedNever(dsn) == Blank

Staged(dsn) == stores[StoreOf[dsn]]

\* A component that writes the database itself has no use for the image.
storage_attach(dsn) ==
  [store |-> StoreOf[dsn], image |-> IF Resolve \in Direct THEN Blank ELSE Staged(dsn)]

-----------------------------------------------------------------------------
(* ATTACH.                                                                 *)

\* The statement got as far as an open catalog, the last one of Resolve.
Opens(a, ty, dsn) ==
  /\ dsn \in DsnsOf[a]
  /\ backends[ty] # NoExt /\ Resolve # NoExt
  /\ Len(catalogs[Resolve]) < MaxCatalogs
  /\ catalogs' = [catalogs EXCEPT ![Resolve] = Append(@, storage_attach(dsn))]
  /\ UNCHANGED <<backends, stores, log>>

\* Faulty variant: the handle of the catalog opened before.
PreviousHandle == Len(catalogs[Resolve])

NewHandle == Len(catalogs[Resolve]) + 1

\* What storage-list-tables returns for the catalog just opened.
Listed(dsn) == storage_list_tables(Resolve, storage_attach(dsn))

\* The catalog a table function reads.
register_at5_scan(ty) == [ext |-> backends[ty], handle |-> NewHandle]

\* register-table-function for a set of tables: the scan goes to the
\* extension of the TYPE, with the handle the resolved backend returned.
\* Faulty variant: every scan reads the first catalog.
ScansFirst(a, ty, done) ==
  [p \in Aliases \X Tables |->
     IF p[1] = a /\ p[2] \in done THEN [ext |-> backends[ty], handle |-> 1] ELSE scans[p]]

ScansWith(a, ty, done) ==
  [p \in Aliases \X Tables |->
     IF p[1] = a /\ p[2] \in done THEN register_at5_scan(ty) ELSE scans[p]]

Collides(a, tables) == {t \in tables : scans[<<a, t>>] # NoScan}

writes_persist_directly(e) == e \in Direct

\* IF NOT EXISTS on an attached alias, an unknown type, no unambiguous
\* backend and a failing storage-attach leave everything as it is.  The
\* other ways to fail, in the order of the code:

AttachListFails(a, ty, dsn) ==
  /\ "list" \in Faults
  /\ Opens(a, ty, dsn)
  /\ UNCHANGED <<attached, core, scans, views>>

\* The core refuses a name that is taken, or the call fails.
AttachRegisterFails(a, ty, dsn) ==
  /\ Opens(a, ty, dsn)
  /\ Collides(a, Listed(dsn)) # {} \/ (Listed(dsn) # {} /\ "register" \in Faults)
  /\ \E done \in SUBSET (Listed(dsn) \ Collides(a, Listed(dsn))) :
       /\ done # Listed(dsn)
       /\ scans' = ScansWith(a, ty, done)
  /\ UNCHANGED <<attached, core, views>>

Registers(a, ty, dsn) ==
  /\ Opens(a, ty, dsn)
  /\ Collides(a, Listed(dsn)) = {}
  /\ scans' = ScansWith(a, ty, Listed(dsn))

\* ATTACH ':memory:' AS <alias>, only for an alias that is not attached yet.
AttachMemoryFails(a, ty, dsn) ==
  /\ Registers(a, ty, dsn)
  /\ attached[a] = NoEntry /\ (a \in core \/ "memory" \in Faults)
  /\ UNCHANGED <<attached, core, views>>

HasCatalog(a) ==
  IF attached[a] = NoEntry THEN a \notin core /\ core' = core \cup {a} ELSE UNCHANGED core

\* CREATE OR REPLACE VIEW <alias>.main.<table>, table by table.
AttachViewFails(a, ty, dsn) ==
  /\ Registers(a, ty, dsn) /\ Listed(dsn) # {}
  /\ HasCatalog(a)
  /\ a \notin core' \/ "view" \in Faults
  /\ \E done \in SUBSET Listed(dsn) :
       /\ done # Listed(dsn) /\ (a \notin core' => done = {})
       /\ views' = views \cup {a} \X done
  /\ UNCHANGED attached

Attach(a, ty, dsn, ro) ==
  /\ Registers(a, ty, dsn)
  /\ HasCatalog(a)
  /\ Listed(dsn) # {} => a \in core'
  /\ views' = views \cup {a} \X Listed(dsn)
  /\ \E direct \in {~ro /\ writes_persist_directly(Resolve)} \cup (IF "probe" \in Faults THEN {FALSE} ELSE {}) :
       \E native \in {direct /\ ty = Sqlite /\ StoreOf[dsn] \in Files}
                       \cup (IF "open" \in Faults THEN {FALSE} ELSE {}) :
         attached' = [attached EXCEPT ![a] =
           [ext |-> backends[ty], handle |-> NewHandle, store |-> StoreOf[dsn],
            readOnly |-> ro, direct |-> direct, native |-> native]]

\* DETACH is not intercepted: the core drops its catalog and the views.
Detach(a) ==
  /\ a \in core
  /\ core' = core \ {a}
  /\ views' = {v \in views : v[1] # a}
  /\ UNCHANGED <<backends, catalogs, stores, attached, scans, log>>

-----------------------------------------------------------------------------
(* The calls that write.  A statement is a set of row changes <<old, new>>, *)
(* each naming at most one row of the table and at most one new row; what  *)
(* a call can do is a set of [image, ok].                                  *)

Applied(rows, changes) ==
  LET hit == {c \in changes : c[1] \subseteq rows}
  IN (rows \ UNION {c[1] : c \in hit}) \cup UNION {c[2] : c \in hit}

Inserts(rows) == {<<{}, {r}>> : r \in rows}
Updates(new) == {<<{r}, {new[r]}>> : r \in DOMAIN new}
Deletes(rows) == {<<{r}, {}>> : r \in rows}

Done(image) == [image |-> image, ok |-> TRUE]
Failed(image) == [image |-> image, ok |-> FALSE]

\* A call for several rows may fail after some of them.
Attempt(fault, image, t, changes) ==
  IF t \notin DOMAIN image THEN {Failed(image)}
  ELSE {Done([image EXCEPT ![t] = Applied(@, changes)])}
       \cup IF fault \in Faults
            THEN {Failed([image EXCEPT ![t] = Applied(@, part)]) : part \in SUBSET changes} ELSE {}

storage_insert_rows(image, t, rows) == Attempt("dispatch", image, t, Inserts(rows))
storage_update_rows(image, t, new) == Attempt("dispatch", image, t, Updates(new))
storage_delete_rows(image, t, rows) == Attempt("dispatch", image, t, Deletes(rows))

storage_create_table(image, t) ==
  IF t \in DOMAIN image THEN {Failed(image)}
  ELSE {Done([x \in DOMAIN image \cup {t} |-> IF x = t THEN {} ELSE image[x]])}
       \cup IF "dispatch" \in Faults THEN {Failed(image)} ELSE {}

\* begin; the call; commit, or rollback when the call failed.  A rollback
\* that fails goes unnoticed; a commit that fails may have taken effect.
InTransaction(image, calls) ==
  {c \in calls : c.ok}
  \cup {Failed(image) : c \in {d \in calls : ~d.ok}}
  \cup (IF "rollback" \in Faults THEN {c \in calls : ~c.ok} ELSE {})
  \cup (IF "begin" \in Faults THEN {Failed(image)} ELSE {})
  \cup (IF "commit" \in Faults
       THEN UNION {{Failed(image), Failed(c.image)} : c \in {d \in calls : d.ok}} ELSE {})

dispatch_storage_insert_direct(image, t, rows) == InTransaction(image, storage_insert_rows(image, t, rows))
dispatch_storage_update_direct(image, t, new) == InTransaction(image, storage_update_rows(image, t, new))
dispatch_storage_delete_direct(image, t, rows) == InTransaction(image, storage_delete_rows(image, t, rows))
dispatch_storage_create_table_direct(image, t) == InTransaction(image, storage_create_table(image, t))

\* The native connection writes row by row, without a transaction.
at5_native_insert(image, t, rows) == Attempt("native", image, t, Inserts(rows))
at5_native_update(image, t, new) == Attempt("native", image, t, Updates(new))
at5_native_delete(image, t, rows) == Attempt("native", image, t, Deletes(rows))

-----------------------------------------------------------------------------
(* Writes.  The parser only asks whether the alias is attached.            *)

\* at5_write_back has a file to write for this alias.
Backs(a) == ~attached[a].readOnly /\ ~attached[a].direct /\ attached[a].store \in Files

\* What a write-back of `image` leaves of the databases `held`: serialize
\* may fail, the file may not open, or be truncated and not written again.
at5_write_back(a, image, held) ==
  IF ~Backs(a) THEN {[stores |-> held, ok |-> TRUE]}
  ELSE {[stores |-> [held EXCEPT ![attached[a].store] = image], ok |-> TRUE]}
       \cup (IF {"serialize", "file"} \cap Faults # {} THEN {[stores |-> held, ok |-> FALSE]} ELSE {})
       \cup (IF "diskfull" \in Faults
            THEN {[stores |-> [held EXCEPT ![attached[a].store] = Blank], ok |-> FALSE]} ELSE {})

\* The catalog a write of alias a is dispatched to.  Without one the
\* statement fails and changes nothing.
Reaches(a) == Resolve # NoExt /\ attached[a].handle \in DOMAIN catalogs[Resolve]
Target(a) == catalogs[Resolve][attached[a].handle]
WriteContent(a) == Holds(Resolve, Target(a))

Asked(a, t, rows, op, ok) ==
  {[store |-> attached[a].store, table |-> t, row |-> r, op |-> op,
    ok |-> ok /\ ~attached[a].readOnly] : r \in rows}

\* A statement that failed and changed nothing is as if never asked.
Asks(a, t, changes, ok) ==
  log' = IF ~ok /\ UNCHANGED <<catalogs, stores>> THEN log
         ELSE log \cup Asked(a, t, UNION {c[1] : c \in changes}, "delete", ok)
                  \cup Asked(a, t, UNION {c[2] : c \in changes}, "insert", ok)

Unused == {r \in Rows : \A w \in log : w.row # r}
Quiet == UNCHANGED <<backends, attached, core, scans, views>>

\* The component's call ended as `out`; the write-back follows if it succeeded.
Dispatch(a, t, out, changes) ==
  LET held == IF Resolve \in Direct THEN [stores EXCEPT ![Target(a).store] = out.image] ELSE stores
  IN /\ catalogs' = IF Resolve \in Direct THEN catalogs
                    ELSE [catalogs EXCEPT ![Resolve][attached[a].handle].image = out.image]
     /\ \E back \in IF out.ok THEN at5_write_back(a, out.image, held) ELSE {[stores |-> held, ok |-> FALSE]} :
          stores' = back.stores /\ Asks(a, t, changes, back.ok)

\* The native connection's statement ended as `out`.
Native(a, t, out, changes) ==
  /\ stores' = [stores EXCEPT ![attached[a].store] = out.image]
  /\ UNCHANGED catalogs
  /\ Asks(a, t, changes, out.ok)

Insert(a, t) ==
  /\ attached[a] # NoEntry
  /\ \E rows \in SUBSET Unused \ {{}} :
       IF attached[a].native
       THEN \E out \in at5_native_insert(stores[attached[a].store], t, rows) : Native(a, t, out, Inserts(rows))
       ELSE /\ Reaches(a)
            /\ \E out \in dispatch_storage_insert_direct(WriteContent(a), t, rows) : Dispatch(a, t, out, Inserts(rows))
  /\ Quiet

\* The view's scan finds the catalog and the table it was made for.
storage_scan_open(scan, t) == storage_table_columns(scan.ext, scan.handle, t)

\* All rows: the scan is drained before it is closed.
storage_scan_next(scan, t) == Holds(scan.ext, catalogs[scan.ext][scan.handle])[t]

\* at5_prescan_rows: the sets of rows SELECT * FROM <alias>.main.<table>
\* may return under a WHERE clause; none when the SELECT fails.
at5_prescan_rows(a, t) ==
  IF <<a, t>> \in views /\ storage_scan_open(scans[<<a, t>>], t)
  THEN SUBSET storage_scan_next(scans[<<a, t>>], t) ELSE {}

\* at5_lookup_write_target asks the component, whatever writes later.
Rewritable(a, t) == attached[a] # NoEntry /\ Reaches(a) /\ storage_table_columns(Resolve, attached[a].handle, t)

\* UPDATE and DELETE: the pre-scan resolves the WHERE clause to rowids
\* through the view; the write names the rows by them.
Update(a, t) ==
  /\ Rewritable(a, t)
  /\ \E rows \in at5_prescan_rows(a, t) \ {{}} : \E new \in Injection(rows, Unused) :
       IF attached[a].native
       THEN \E out \in at5_native_update(stores[attached[a].store], t, new) : Native(a, t, out, Updates(new))
       ELSE \E out \in dispatch_storage_update_direct(WriteContent(a), t, new) : Dispatch(a, t, out, Updates(new))
  /\ Quiet

Delete(a, t) ==
  /\ Rewritable(a, t)
  /\ \E rows \in at5_prescan_rows(a, t) \ {{}} :
       IF attached[a].native
       THEN \E out \in at5_native_delete(stores[attached[a].store], t, rows) : Native(a, t, out, Deletes(rows))
       ELSE \E out \in dispatch_storage_delete_direct(WriteContent(a), t, rows) : Dispatch(a, t, out, Deletes(rows))
  /\ Quiet

\* CREATE TABLE always goes through the component.
CreateTable(a, t) ==
  /\ attached[a] # NoEntry /\ Reaches(a)
  /\ \E out \in dispatch_storage_create_table_direct(WriteContent(a), t) : Dispatch(a, t, out, {})
  /\ Quiet

\* The session ends, in order or not, and another one starts.
Restart ==
  /\ backends' = [ty \in Types |-> NoExt]
  /\ catalogs' = [e \in Exts |-> <<>>]
  /\ attached' = [a \in Aliases |-> NoEntry]
  /\ core' = {} /\ views' = {}
  /\ scans' = [p \in Aliases \X Tables |-> NoScan]
  /\ UNCHANGED <<stores, log>>

AttachFails(a, ty, dsn) ==
  \/ AttachListFails(a, ty, dsn) \/ AttachRegisterFails(a, ty, dsn)
  \/ AttachMemoryFails(a, ty, dsn) \/ AttachViewFails(a, ty, dsn)

Next ==
  \/ \E e \in Exts : Load(e)
  \/ \E a \in Aliases, ty \in Types, dsn \in Dsns :
       \/ AttachFails(a, ty, dsn)
       \/ \E ro \in Modes : Attach(a, ty, dsn, ro)
  \/ \E a \in Aliases : Detach(a)
  \/ \E a \in Aliases, t \in Tables : Insert(a, t) \/ Update(a, t) \/ Delete(a, t) \/ CreateTable(a, t)
  \/ Restart

Spec == Init /\ [][Next]_vars

-----------------------------------------------------------------------------
(* Properties.                                                             *)

\* The foreign database keeps what was acknowledged: every row whose INSERT
\* was acknowledged is there unless its removal was asked for, and no row
\* whose removal was acknowledged ("so the mutation persists on disk").  What
\* is written through a READ_ONLY alias is not covered.
Durable ==
  \A w \in log : w.ok =>
    /\ w.op = "insert" /\ (\A v \in log : v.op = "delete" => v.row # w.row) =>
         w.table \in DOMAIN stores[w.store] /\ w.row \in stores[w.store][w.table]
    /\ w.op = "delete" /\ w.table \in DOMAIN stores[w.store] =>
         w.row \notin stores[w.store][w.table]

\* A database only ever holds rows that a statement addressed to it: writes
\* to an alias "route back" to the database its ATTACH opened.
WritesStayHome ==
  \A s \in Stores : \A t \in DOMAIN stores[s] : \A r \in stores[s][t] :
    \E w \in log : w.op = "insert" /\ w.store = s /\ w.table = t /\ w.row = r

\* SELECT, the pre-scan of UPDATE / DELETE and the writes of one table of an
\* alias work on the same rows, whatever failed on the way.
ReadsBack ==
  \A a \in Aliases, t \in Tables :
    attached[a] # NoEntry /\ <<a, t>> \in views =>
      Holds(scans[<<a, t>>].ext, catalogs[scans[<<a, t>>].ext][scans[<<a, t>>].handle])
        = IF attached[a].native THEN stores[attached[a].store] ELSE WriteContent(a)

=============================================================================
