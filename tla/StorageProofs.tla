---------------------------- MODULE StorageProofs ----------------------------
(* Theorems about CarefulStorage: what an attached database keeps, for any *)
(* extensions, aliases, databases, statements and faults.                  *)
EXTENDS CarefulStorage, SequenceTheorems, TLAPS

(* The rows that the changes of a statement take out and put in.           *)
Removed(changes) == UNION {c[1] : c \in changes}
Added(changes) == UNION {c[2] : c \in changes}
Changes == SUBSET ((SUBSET Rows) \X (SUBSET Rows))
Outs == [image : Image, ok : BOOLEAN]

(* What every call that writes keeps: no table goes, rows come and go only *)
(* by the changes, in the table they name; a call that succeeds on the     *)
(* rows it was made for has made every change.                             *)
Outcome(image, t, out, changes) ==
  /\ out \in Outs
  /\ DOMAIN image \subseteq DOMAIN out.image
  /\ \A x \in DOMAIN image : \A r \in image[x] :
       r \in out.image[x] \/ (x = t /\ r \in Removed(changes))
  /\ \A x \in DOMAIN out.image : \A r \in out.image[x] :
       (x \in DOMAIN image /\ r \in image[x]) \/ (x = t /\ r \in Added(changes))
  /\ out.ok => t \in DOMAIN out.image
  /\ out.ok /\ (t \in DOMAIN image => Removed(changes) \subseteq image[t])
            /\ Removed(changes) \cap Added(changes) = {} =>
       Added(changes) \subseteq out.image[t] /\ Removed(changes) \cap out.image[t] = {}

-----------------------------------------------------------------------------
(* The calls that write.                                                   *)

(* An image is a function from some of the tables.                         *)
LEMMA ImageIs ==
  ASSUME NEW image
  PROVE  image \in Image <=> DOMAIN image \in SUBSET Tables /\ image \in [DOMAIN image -> SUBSET Rows]
<1>1. image \in Image => \E present \in SUBSET Tables : image \in [present -> SUBSET Rows]
  BY DEF Image
<1>2. ASSUME NEW present \in SUBSET Tables, image \in [present -> SUBSET Rows]
      PROVE  image \in Image
  BY <1>2, Zenon DEF Image
<1> QED BY <1>1, <1>2

LEMMA BlankIsImage == Blank \in Image /\ DOMAIN Blank = {}
<1>1. DOMAIN Blank = {} /\ Blank \in [{} -> SUBSET Rows]
  BY DEF Blank
<1>2. {} \in SUBSET Tables
  OBVIOUS
<1> QED BY <1>1, <1>2, ImageIs

(* Changes applied to rows.                                                *)
LEMMA AppliedRows ==
  ASSUME NEW changes \in Changes, NEW part \in SUBSET changes, NEW rows \in SUBSET Rows
  PROVE  /\ Applied(rows, part) \in SUBSET Rows
         /\ \A r \in rows : r \in Applied(rows, part) \/ r \in Removed(changes)
         /\ \A r \in Applied(rows, part) : r \in rows \/ r \in Added(changes)
         /\ Removed(changes) \subseteq rows /\ Removed(changes) \cap Added(changes) = {} =>
              /\ Added(changes) \subseteq Applied(rows, changes)
              /\ Removed(changes) \cap Applied(rows, changes) = {}
<1> DEFINE hit(cs) == {c \in cs : c[1] \subseteq rows}
<1>1. \A cs : Applied(rows, cs) = (rows \ UNION {c[1] : c \in hit(cs)}) \cup UNION {c[2] : c \in hit(cs)}
  BY DEF Applied
<1>2. \A c \in changes : c[1] \in SUBSET Rows /\ c[2] \in SUBSET Rows
  BY DEF Changes
<1>3. \A c \in hit(part) : c \in changes
  OBVIOUS
<1>4. UNION {c[2] : c \in hit(part)} \subseteq Added(changes)
  BY <1>3 DEF Added
<1>5. UNION {c[1] : c \in hit(part)} \subseteq Removed(changes)
  BY <1>3 DEF Removed
<1>6. Added(changes) \subseteq Rows
  BY <1>2 DEF Added
<1>7. ASSUME Removed(changes) \subseteq rows, Removed(changes) \cap Added(changes) = {}
      PROVE  /\ Added(changes) \subseteq Applied(rows, changes)
             /\ Removed(changes) \cap Applied(rows, changes) = {}
  <2>1. hit(changes) = changes
    BY <1>7 DEF Removed
  <2>2. Applied(rows, changes) = (rows \ Removed(changes)) \cup Added(changes)
    <3> HIDE DEF hit
    <3> QED BY <1>1, <2>1 DEF Removed, Added
  <2> QED BY <1>7, <2>2
<1>8. Applied(rows, part) = (rows \ UNION {c[1] : c \in hit(part)}) \cup UNION {c[2] : c \in hit(part)}
  BY <1>1
<1> HIDE DEF hit
<1> QED BY <1>4, <1>5, <1>6, <1>7, <1>8

LEMMA AttemptOutcome ==
  ASSUME NEW fault, NEW image \in Image, NEW t \in Tables, NEW changes \in Changes,
         NEW out \in Attempt(fault, image, t, changes)
  PROVE  Outcome(image, t, out, changes)
<1>1. DOMAIN image \in SUBSET Tables /\ image \in [DOMAIN image -> SUBSET Rows]
  BY ImageIs
<1>2. CASE t \notin DOMAIN image
  <2>1. out = Failed(image)
    BY <1>2 DEF Attempt
  <2> QED BY <2>1 DEF Failed, Outs, Outcome
<1>3. CASE t \in DOMAIN image
  <2> DEFINE new(part) == [image EXCEPT ![t] = Applied(image[t], part)]
  <2>0. out \in {Done(new(changes))} \cup {Failed(new(part)) : part \in SUBSET changes}
    BY <1>3 DEF Attempt
  <2>1. PICK part \in SUBSET changes :
          /\ out.image = new(part)
          /\ out.ok \in BOOLEAN /\ (out.ok => part = changes)
          /\ out = [image |-> out.image, ok |-> out.ok]
    <3> HIDE DEF new
    <3>1. CASE out = Done(new(changes))
      BY <3>1 DEF Done
    <3>2. CASE out \in {Failed(new(part)) : part \in SUBSET changes}
      <4>1. PICK part \in SUBSET changes : out = Failed(new(part))
        BY <3>2
      <4> QED BY <4>1 DEF Failed
    <3> QED BY <2>0, <3>1, <3>2
  <2>2. image[t] \in SUBSET Rows
    BY <1>1, <1>3
  <2>3. /\ DOMAIN out.image = DOMAIN image
        /\ out.image[t] = Applied(image[t], part)
        /\ \A x \in DOMAIN image : x # t => out.image[x] = image[x]
    BY <1>1, <1>3, <2>1
  <2>4. /\ Applied(image[t], part) \in SUBSET Rows
        /\ \A r \in image[t] : r \in Applied(image[t], part) \/ r \in Removed(changes)
        /\ \A r \in Applied(image[t], part) : r \in image[t] \/ r \in Added(changes)
        /\ Removed(changes) \subseteq image[t] /\ Removed(changes) \cap Added(changes) = {} =>
              /\ Added(changes) \subseteq Applied(image[t], changes)
              /\ Removed(changes) \cap Applied(image[t], changes) = {}
    BY <2>2, AppliedRows, Zenon
  <2>5. out.image \in Image
    <3>1. out.image \in [DOMAIN image -> SUBSET Rows]
      BY <1>1, <2>1, <2>4
    <3> QED BY <1>1, <2>3, <3>1, ImageIs
  <2>6. out \in Outs
    BY <2>1, <2>5 DEF Outs
  <2>7. \A x \in DOMAIN image : \A r \in image[x] :
          r \in out.image[x] \/ (x = t /\ r \in Removed(changes))
    BY <2>3, <2>4
  <2>8. \A x \in DOMAIN out.image : \A r \in out.image[x] :
          (x \in DOMAIN image /\ r \in image[x]) \/ (x = t /\ r \in Added(changes))
    BY <1>3, <2>3, <2>4
  <2>9. out.ok /\ Removed(changes) \subseteq image[t] /\ Removed(changes) \cap Added(changes) = {} =>
          Added(changes) \subseteq out.image[t] /\ Removed(changes) \cap out.image[t] = {}
    BY <2>1, <2>3, <2>4
  <2> QED BY <1>3, <2>3, <2>6, <2>7, <2>8, <2>9 DEF Outcome
<1> QED BY <1>2, <1>3

LEMMA CreateOutcome ==
  ASSUME NEW image \in Image, NEW t \in Tables, NEW out \in storage_create_table(image, t)
  PROVE  Outcome(image, t, out, {})
<1>1. DOMAIN image \in SUBSET Tables /\ image \in [DOMAIN image -> SUBSET Rows]
  BY ImageIs
<1>2. Removed({}) = {} /\ Added({}) = {}
  BY DEF Removed, Added
<1>3. CASE out = Failed(image)
  BY <1>3 DEF Failed, Outs, Outcome
<1>4. CASE out # Failed(image)
  <2> DEFINE new == [x \in DOMAIN image \cup {t} |-> IF x = t THEN {} ELSE image[x]]
  <2>1. t \notin DOMAIN image /\ out = Done(new)
    BY <1>4 DEF storage_create_table
  <2>2. DOMAIN new = DOMAIN image \cup {t} /\ new[t] = {} /\ \A x \in DOMAIN image : new[x] = image[x]
    BY <2>1
  <2>3. new \in [DOMAIN image \cup {t} -> SUBSET Rows] /\ DOMAIN image \cup {t} \in SUBSET Tables
    BY <1>1
  <2>4. new \in Image
    BY <2>2, <2>3, ImageIs
  <2>5. out.image = new /\ out \in Outs
    BY <2>1, <2>4 DEF Done, Outs
  <2> HIDE DEF new
  <2> QED BY <1>2, <2>1, <2>2, <2>5 DEF Outcome
<1> QED BY <1>3, <1>4

(* A transaction around a call keeps what the call keeps.                  *)
LEMMA TransactionOutcome ==
  ASSUME NEW image \in Image, NEW t \in Tables, NEW changes \in Changes, NEW calls,
         \A c \in calls : Outcome(image, t, c, changes),
         NEW out \in InTransaction(image, calls)
  PROVE  Outcome(image, t, out, changes)
<1>1. Outcome(image, t, Failed(image), changes)
  BY DEF Failed, Outs, Outcome
<1>2. ASSUME NEW c, Outcome(image, t, c, changes)
      PROVE  Outcome(image, t, Failed(c.image), changes)
  BY <1>2 DEF Failed, Outs, Outcome
<1>3. \/ out \in calls \/ out = Failed(image) \/ \E c \in calls : out = Failed(c.image)
  BY DEF InTransaction
<1> QED BY <1>1, <1>2, <1>3

-----------------------------------------------------------------------------
(* Statements.                                                             *)

(* A statement of alias a on table t: what a call made of the content it   *)
(* was made for, what was written back and what was logged.  The rows it   *)
(* puts in are new; those it takes out were read through the view.         *)
Statement(a, t, out, changes) ==
  /\ attached[a] # NoEntry
  /\ Quiet
  /\ changes \in Changes
  /\ Added(changes) \subseteq Unused
  /\ Removed(changes) # {} =>
       /\ <<a, t>> \in views
       /\ storage_scan_open(scans[<<a, t>>], t)
       /\ Removed(changes) \subseteq storage_scan_next(scans[<<a, t>>], t)
  /\ \/ /\ attached[a].native
        /\ Outcome(stores[attached[a].store], t, out, changes)
        /\ Native(a, t, out, changes)
     \/ /\ Reaches(a)
        /\ Outcome(WriteContent(a), t, out, changes)
        /\ Dispatch(a, t, out, changes)

LEMMA ResolveType ==
  ASSUME TypeOK
  PROVE  Resolve \in Exts \cup {NoExt}
<1>1. Registered \subseteq Exts /\ backends[Sqlite] \in Exts \cup {NoExt}
  BY StorageAssumption DEF TypeOK, Registered
<1>2. CASE backends[Sqlite] # NoExt
  BY <1>1, <1>2 DEF Resolve
<1>3. CASE backends[Sqlite] = NoExt /\ \E e \in Registered : Registered = {e}
  <2>1. PICK e \in Registered : Registered = {e}
    BY <1>3
  <2>2. Resolve = CHOOSE x \in Registered : TRUE
    BY <1>3 DEF Resolve
  <2> QED BY <1>1, <2>1, <2>2
<1>4. CASE backends[Sqlite] = NoExt /\ ~ \E e \in Registered : Registered = {e}
  BY <1>4 DEF Resolve
<1> QED BY <1>2, <1>3, <1>4

LEMMA TargetType ==
  ASSUME TypeOK, NEW a \in Aliases, attached[a] # NoEntry
  PROVE  /\ attached[a] \in Entry
         /\ stores[attached[a].store] \in Image
         /\ Reaches(a) => /\ Resolve \in Exts
                          /\ Target(a) \in Catalog
                          /\ WriteContent(a) \in Image
<1>1. attached[a] \in Entry
  BY DEF TypeOK
<1>2. stores[attached[a].store] \in Image
  BY <1>1 DEF TypeOK, Entry
<1>3. ASSUME Reaches(a)
      PROVE  Resolve \in Exts /\ Target(a) \in Catalog /\ WriteContent(a) \in Image
  <2>1. Resolve \in Exts
    BY <1>3, ResolveType DEF Reaches
  <2>2. catalogs[Resolve] \in Seq(Catalog)
    BY <2>1 DEF TypeOK
  <2>3. Target(a) \in Catalog
    BY <1>3, <2>2, ElementOfSeq DEF Reaches, Target
  <2>4. Target(a).image \in Image /\ stores[Target(a).store] \in Image
    BY <2>3 DEF Catalog, TypeOK
  <2> QED BY <2>1, <2>3, <2>4 DEF WriteContent, Holds
<1> QED BY <1>1, <1>2, <1>3

LEMMA ChangesOf ==
  /\ \A rows \in SUBSET Rows : /\ Inserts(rows) \in Changes
                               /\ Added(Inserts(rows)) = rows /\ Removed(Inserts(rows)) = {}
                               /\ Deletes(rows) \in Changes
                               /\ Added(Deletes(rows)) = {} /\ Removed(Deletes(rows)) = rows
  /\ \A rows \in SUBSET Rows : \A new \in [rows -> Unused] :
        /\ Updates(new) \in Changes
        /\ Added(Updates(new)) \subseteq Unused /\ Removed(Updates(new)) = rows
  /\ {} \in Changes /\ Added({}) = {} /\ Removed({}) = {}
<1>1. Unused \subseteq Rows
  BY DEF Unused
<1>2. ASSUME NEW rows \in SUBSET Rows
      PROVE  /\ Inserts(rows) \in Changes
             /\ Added(Inserts(rows)) = rows /\ Removed(Inserts(rows)) = {}
  <2>1. \A c \in Inserts(rows) : c[1] = {} /\ c[2] \subseteq rows /\ c = <<c[1], c[2]>>
    BY DEF Inserts
  <2>2. ASSUME NEW r \in rows
        PROVE  \E c \in Inserts(rows) : r \in c[2]
    <3>1. <<{}, {r}>> \in Inserts(rows)
      BY DEF Inserts
    <3>2. r \in <<{}, {r}>>[2]
      OBVIOUS
    <3> QED BY <3>1, <3>2, Zenon
  <2>3. Inserts(rows) \in Changes
    BY <2>1 DEF Changes
  <2> QED BY <2>1, <2>2, <2>3 DEF Added, Removed
<1>3. ASSUME NEW rows \in SUBSET Rows
      PROVE  /\ Deletes(rows) \in Changes
             /\ Added(Deletes(rows)) = {} /\ Removed(Deletes(rows)) = rows
  <2>1. \A c \in Deletes(rows) : c[1] \subseteq rows /\ c[2] = {} /\ c = <<c[1], c[2]>>
    BY DEF Deletes
  <2>2. ASSUME NEW r \in rows
        PROVE  \E c \in Deletes(rows) : r \in c[1]
    <3>1. <<{r}, {}>> \in Deletes(rows)
      BY DEF Deletes
    <3>2. r \in <<{r}, {}>>[1]
      OBVIOUS
    <3> QED BY <3>1, <3>2, Zenon
  <2>3. Deletes(rows) \in Changes
    BY <2>1 DEF Changes
  <2> QED BY <2>1, <2>2, <2>3 DEF Added, Removed
<1>4. ASSUME NEW rows \in SUBSET Rows, NEW new \in [rows -> Unused]
      PROVE  /\ Updates(new) \in Changes
             /\ Added(Updates(new)) \subseteq Unused /\ Removed(Updates(new)) = rows
  <2>1. \A c \in Updates(new) : c[1] \subseteq rows /\ c[2] \subseteq Unused /\ c = <<c[1], c[2]>>
    BY DEF Updates
  <2>2. ASSUME NEW r \in rows
        PROVE  \E c \in Updates(new) : r \in c[1]
    <3>1. <<{r}, {new[r]}>> \in Updates(new)
      BY DEF Updates
    <3>2. r \in <<{r}, {new[r]}>>[1]
      OBVIOUS
    <3> QED BY <3>1, <3>2, Zenon
  <2>3. Updates(new) \in Changes
    BY <1>1, <2>1 DEF Changes
  <2> QED BY <2>1, <2>2, <2>3 DEF Added, Removed
<1>5. {} \in Changes /\ Added({}) = {} /\ Removed({}) = {}
  BY DEF Changes, Added, Removed
<1> QED BY <1>2, <1>3, <1>4, <1>5

LEMMA CallOutcomes ==
  ASSUME NEW image \in Image, NEW t \in Tables
  PROVE  /\ \A rows \in SUBSET Rows :
              /\ \A out \in at5_native_insert(image, t, rows) : Outcome(image, t, out, Inserts(rows))
              /\ \A out \in dispatch_storage_insert_direct(image, t, rows) : Outcome(image, t, out, Inserts(rows))
              /\ \A out \in at5_native_delete(image, t, rows) : Outcome(image, t, out, Deletes(rows))
              /\ \A out \in dispatch_storage_delete_direct(image, t, rows) : Outcome(image, t, out, Deletes(rows))
         /\ \A rows \in SUBSET Rows : \A new \in [rows -> Unused] :
              /\ \A out \in at5_native_update(image, t, new) : Outcome(image, t, out, Updates(new))
              /\ \A out \in dispatch_storage_update_direct(image, t, new) : Outcome(image, t, out, Updates(new))
         /\ \A out \in dispatch_storage_create_table_direct(image, t) : Outcome(image, t, out, {})
<1>1. ASSUME NEW fault, NEW changes \in Changes
      PROVE  /\ \A out \in Attempt(fault, image, t, changes) : Outcome(image, t, out, changes)
             /\ \A out \in InTransaction(image, Attempt(fault, image, t, changes)) : Outcome(image, t, out, changes)
  BY AttemptOutcome, TransactionOutcome
<1>2. ASSUME NEW rows \in SUBSET Rows
      PROVE  /\ \A out \in at5_native_insert(image, t, rows) : Outcome(image, t, out, Inserts(rows))
             /\ \A out \in dispatch_storage_insert_direct(image, t, rows) : Outcome(image, t, out, Inserts(rows))
  BY <1>1, ChangesOf DEF at5_native_insert, dispatch_storage_insert_direct, storage_insert_rows
<1>3. ASSUME NEW rows \in SUBSET Rows
      PROVE  /\ \A out \in at5_native_delete(image, t, rows) : Outcome(image, t, out, Deletes(rows))
             /\ \A out \in dispatch_storage_delete_direct(image, t, rows) : Outcome(image, t, out, Deletes(rows))
  BY <1>1, ChangesOf DEF at5_native_delete, dispatch_storage_delete_direct, storage_delete_rows
<1>4. ASSUME NEW rows \in SUBSET Rows, NEW new \in [rows -> Unused]
      PROVE  /\ \A out \in at5_native_update(image, t, new) : Outcome(image, t, out, Updates(new))
             /\ \A out \in dispatch_storage_update_direct(image, t, new) : Outcome(image, t, out, Updates(new))
  BY <1>1, ChangesOf DEF at5_native_update, dispatch_storage_update_direct, storage_update_rows
<1>5. \A out \in dispatch_storage_create_table_direct(image, t) : Outcome(image, t, out, {})
  BY CreateOutcome, TransactionOutcome, ChangesOf DEF dispatch_storage_create_table_direct
<1> QED BY <1>2, <1>3, <1>4, <1>5

LEMMA PrescanRows ==
  ASSUME TypeOK, NEW a \in Aliases, NEW t \in Tables, NEW rows \in at5_prescan_rows(a, t)
  PROVE  /\ rows \in SUBSET Rows /\ <<a, t>> \in views
         /\ storage_scan_open(scans[<<a, t>>], t)
         /\ rows \subseteq storage_scan_next(scans[<<a, t>>], t)
<1> DEFINE scan == scans[<<a, t>>]
           catalog == catalogs[scan.ext][scan.handle]
<1>1. <<a, t>> \in views /\ storage_scan_open(scan, t) /\ rows \in SUBSET storage_scan_next(scan, t)
  BY DEF at5_prescan_rows
<1>2. scan \in Scan
  BY <1>1 DEF TypeOK
<1>3. scan.ext \in Exts /\ catalogs[scan.ext] \in Seq(Catalog)
  BY <1>2 DEF TypeOK, Scan
<1>4. catalog \in Catalog /\ t \in DOMAIN Holds(scan.ext, catalog)
  BY <1>1, <1>3, ElementOfSeq DEF storage_scan_open, storage_table_columns, storage_list_tables
<1>5. Holds(scan.ext, catalog) \in Image
  BY <1>4 DEF Holds, Catalog, TypeOK
<1>6. Holds(scan.ext, catalog)[t] \in SUBSET Rows
  BY <1>4, <1>5, ImageIs
<1> QED BY <1>1, <1>6 DEF storage_scan_next

(* Every write is a statement of this form.                                *)
LEMMA StatementIs ==
  ASSUME TypeOK, NEW a \in Aliases, NEW t \in Tables,
         Insert(a, t) \/ Update(a, t) \/ Delete(a, t) \/ CreateTable(a, t)
  PROVE  \E out, changes : Statement(a, t, out, changes)
<1>1. attached[a] # NoEntry /\ Quiet
  BY DEF Insert, Update, Delete, CreateTable, Rewritable
<1>2. /\ stores[attached[a].store] \in Image
      /\ Reaches(a) => WriteContent(a) \in Image
  BY <1>1, TargetType
<1>3. Unused \subseteq Rows
  BY DEF Unused
<1>4. CASE Insert(a, t)
  <2>1. PICK rows \in SUBSET Unused \ {{}} :
          IF attached[a].native
          THEN \E out \in at5_native_insert(stores[attached[a].store], t, rows) : Native(a, t, out, Inserts(rows))
          ELSE /\ Reaches(a)
               /\ \E out \in dispatch_storage_insert_direct(WriteContent(a), t, rows) : Dispatch(a, t, out, Inserts(rows))
    BY <1>4 DEF Insert
  <2>2. /\ rows \in SUBSET Rows /\ Inserts(rows) \in Changes
        /\ Added(Inserts(rows)) = rows /\ Removed(Inserts(rows)) = {}
    BY <1>3, ChangesOf
  <2>3. CASE attached[a].native
    <3>1. PICK out \in at5_native_insert(stores[attached[a].store], t, rows) : Native(a, t, out, Inserts(rows))
      BY <2>1, <2>3
    <3>2. Outcome(stores[attached[a].store], t, out, Inserts(rows))
      BY <1>2, <2>2, <3>1, CallOutcomes
    <3>3. Statement(a, t, out, Inserts(rows))
      BY <1>1, <2>2, <2>3, <3>1, <3>2 DEF Statement
    <3> QED BY <3>3
  <2>4. CASE ~attached[a].native
    <3>1. PICK out \in dispatch_storage_insert_direct(WriteContent(a), t, rows) : Dispatch(a, t, out, Inserts(rows))
      BY <2>1, <2>4
    <3>2. Reaches(a) /\ Outcome(WriteContent(a), t, out, Inserts(rows))
      BY <1>2, <2>1, <2>2, <2>4, <3>1, CallOutcomes
    <3>3. Statement(a, t, out, Inserts(rows))
      BY <1>1, <2>2, <3>1, <3>2 DEF Statement
    <3> QED BY <3>3
  <2> QED BY <2>3, <2>4
<1>5. CASE Update(a, t)
  <2>0. PICK rows \in at5_prescan_rows(a, t) \ {{}} : \E new \in Injection(rows, Unused) :
          IF attached[a].native
          THEN \E out \in at5_native_update(stores[attached[a].store], t, new) : Native(a, t, out, Updates(new))
          ELSE \E out \in dispatch_storage_update_direct(WriteContent(a), t, new) : Dispatch(a, t, out, Updates(new))
    BY <1>5 DEF Update
  <2>1. PICK new \in Injection(rows, Unused) :
          IF attached[a].native
          THEN \E out \in at5_native_update(stores[attached[a].store], t, new) : Native(a, t, out, Updates(new))
          ELSE \E out \in dispatch_storage_update_direct(WriteContent(a), t, new) : Dispatch(a, t, out, Updates(new))
    BY <2>0
  <2>2. /\ rows \in SUBSET Rows /\ <<a, t>> \in views /\ storage_scan_open(scans[<<a, t>>], t)
        /\ rows \subseteq storage_scan_next(scans[<<a, t>>], t)
    BY PrescanRows
  <2>3. new \in [rows -> Unused]
    BY <2>1 DEF Injection
  <2>4. Updates(new) \in Changes /\ Added(Updates(new)) \subseteq Unused /\ Removed(Updates(new)) = rows
    BY <2>2, <2>3, ChangesOf
  <2>5. CASE attached[a].native
    <3>1. PICK out \in at5_native_update(stores[attached[a].store], t, new) : Native(a, t, out, Updates(new))
      BY <2>1, <2>5
    <3>2. Outcome(stores[attached[a].store], t, out, Updates(new))
      BY <1>2, <2>2, <2>3, <3>1, CallOutcomes
    <3>3. Statement(a, t, out, Updates(new))
      BY <1>1, <2>2, <2>4, <2>5, <3>1, <3>2 DEF Statement
    <3> QED BY <3>3
  <2>6. CASE ~attached[a].native
    <3>1. PICK out \in dispatch_storage_update_direct(WriteContent(a), t, new) : Dispatch(a, t, out, Updates(new))
      BY <2>1, <2>6
    <3>2. Reaches(a)
      BY <1>5 DEF Update, Rewritable
    <3>3. Outcome(WriteContent(a), t, out, Updates(new))
      BY <1>2, <2>2, <2>3, <3>1, <3>2, CallOutcomes
    <3>4. Statement(a, t, out, Updates(new))
      BY <1>1, <2>2, <2>4, <3>1, <3>2, <3>3 DEF Statement
    <3> QED BY <3>4
  <2> QED BY <2>5, <2>6
<1>6. CASE Delete(a, t)
  <2>1. PICK rows \in at5_prescan_rows(a, t) \ {{}} :
          IF attached[a].native
          THEN \E out \in at5_native_delete(stores[attached[a].store], t, rows) : Native(a, t, out, Deletes(rows))
          ELSE \E out \in dispatch_storage_delete_direct(WriteContent(a), t, rows) : Dispatch(a, t, out, Deletes(rows))
    BY <1>6 DEF Delete
  <2>2. /\ rows \in SUBSET Rows /\ <<a, t>> \in views /\ storage_scan_open(scans[<<a, t>>], t)
        /\ rows \subseteq storage_scan_next(scans[<<a, t>>], t)
    BY PrescanRows
  <2>3. Deletes(rows) \in Changes /\ Added(Deletes(rows)) = {} /\ Removed(Deletes(rows)) = rows
    BY <2>2, ChangesOf
  <2>4. CASE attached[a].native
    <3>1. PICK out \in at5_native_delete(stores[attached[a].store], t, rows) : Native(a, t, out, Deletes(rows))
      BY <2>1, <2>4
    <3>2. Outcome(stores[attached[a].store], t, out, Deletes(rows))
      BY <1>2, <2>2, <3>1, CallOutcomes
    <3>3. Statement(a, t, out, Deletes(rows))
      BY <1>1, <2>2, <2>3, <2>4, <3>1, <3>2 DEF Statement
    <3> QED BY <3>3
  <2>5. CASE ~attached[a].native
    <3>1. PICK out \in dispatch_storage_delete_direct(WriteContent(a), t, rows) : Dispatch(a, t, out, Deletes(rows))
      BY <2>1, <2>5
    <3>2. Reaches(a)
      BY <1>6 DEF Delete, Rewritable
    <3>3. Outcome(WriteContent(a), t, out, Deletes(rows))
      BY <1>2, <2>2, <3>1, <3>2, CallOutcomes
    <3>4. Statement(a, t, out, Deletes(rows))
      BY <1>1, <2>2, <2>3, <3>1, <3>2, <3>3 DEF Statement
    <3> QED BY <3>4
  <2> QED BY <2>4, <2>5
<1>7. CASE CreateTable(a, t)
  <2>1. PICK out \in dispatch_storage_create_table_direct(WriteContent(a), t) : Dispatch(a, t, out, {})
    BY <1>7 DEF CreateTable
  <2>2. Reaches(a)
    BY <1>7 DEF CreateTable
  <2>3. Outcome(WriteContent(a), t, out, {})
    BY <1>2, <2>1, <2>2, CallOutcomes
  <2>4. Statement(a, t, out, {})
    BY <1>1, <2>1, <2>2, <2>3, ChangesOf DEF Statement
  <2> QED BY <2>4
<1> QED BY <1>4, <1>5, <1>6, <1>7

-----------------------------------------------------------------------------
(* ATTACH.                                                                 *)

(* What an open catalog adds: the last handle of Resolve, nothing else.    *)
LEMMA Opened ==
  ASSUME TypeOK, NEW a \in Aliases, NEW ty \in Types, NEW dsn \in Dsns, Opens(a, ty, dsn)
  PROVE  /\ Resolve \in Exts /\ NewHandle \in Nat /\ NewHandle \notin DOMAIN catalogs[Resolve]
         /\ backends[ty] \in Exts
         /\ storage_attach(dsn) \in Catalog /\ storage_attach(dsn).store = StoreOf[dsn]
         /\ Listed(dsn) \subseteq Tables
         /\ Listed(dsn) = DOMAIN stores[StoreOf[dsn]]
         /\ catalogs' \in [Exts -> Seq(Catalog)]
         /\ \A e \in Exts : e # Resolve => catalogs'[e] = catalogs[e]
         /\ DOMAIN catalogs'[Resolve] = DOMAIN catalogs[Resolve] \cup {NewHandle}
         /\ \A h \in DOMAIN catalogs[Resolve] : catalogs'[Resolve][h] = catalogs[Resolve][h]
         /\ catalogs'[Resolve][NewHandle] = storage_attach(dsn)
<1>1. Resolve \in Exts /\ backends[ty] \in Exts
  BY ResolveType DEF Opens, TypeOK
<1>2. StoreOf[dsn] \in Stores /\ stores[StoreOf[dsn]] \in Image
  BY StorageAssumption DEF TypeOK
<1>3. storage_attach(dsn) \in Catalog /\ storage_attach(dsn).store = StoreOf[dsn]
  BY <1>2, BlankIsImage DEF storage_attach, Staged, Catalog
<1>4. Listed(dsn) = DOMAIN stores[StoreOf[dsn]]
  BY DEF Listed, storage_list_tables, Holds, storage_attach, Staged
<1>5. Listed(dsn) \subseteq Tables
  BY <1>2, <1>4, ImageIs
<1>6. catalogs[Resolve] \in Seq(Catalog) /\ catalogs \in [Exts -> Seq(Catalog)]
  BY <1>1 DEF TypeOK
<1> DEFINE new == Append(catalogs[Resolve], storage_attach(dsn))
<1>7. /\ new \in Seq(Catalog) /\ Len(new) = Len(catalogs[Resolve]) + 1
      /\ \A i \in 1..Len(catalogs[Resolve]) : new[i] = catalogs[Resolve][i]
      /\ new[Len(catalogs[Resolve]) + 1] = storage_attach(dsn)
  BY <1>3, <1>6, AppendProperties
<1>8. catalogs' = [catalogs EXCEPT ![Resolve] = new]
  BY DEF Opens
<1> HIDE DEF new
<1>9. /\ catalogs' \in [Exts -> Seq(Catalog)] /\ catalogs'[Resolve] = new
      /\ \A e \in Exts : e # Resolve => catalogs'[e] = catalogs[e]
  BY <1>1, <1>6, <1>7, <1>8
<1>10. /\ Len(catalogs[Resolve]) \in Nat /\ DOMAIN catalogs[Resolve] = 1..Len(catalogs[Resolve])
       /\ DOMAIN new = 1..Len(new)
  BY <1>6, <1>7
<1>11. NewHandle \in Nat /\ NewHandle \notin DOMAIN catalogs[Resolve]
  BY <1>10 DEF NewHandle
<1>12. /\ DOMAIN new = DOMAIN catalogs[Resolve] \cup {NewHandle}
       /\ new[NewHandle] = storage_attach(dsn)
       /\ \A h \in DOMAIN catalogs[Resolve] : new[h] = catalogs[Resolve][h]
  BY <1>7, <1>10 DEF NewHandle
<1> QED BY <1>1, <1>3, <1>4, <1>5, <1>9, <1>11, <1>12

(* Every ATTACH, up to the entry: some of the table functions, and then,   *)
(* once all of them are there, some of the views.                          *)
Grafts(a, ty, dsn, done) ==
  /\ Opens(a, ty, dsn)
  /\ done \in SUBSET Listed(dsn) /\ done \cap Collides(a, Listed(dsn)) = {}
  /\ scans' = ScansWith(a, ty, done)
  /\ \/ UNCHANGED <<core, views>>
     \/ /\ Collides(a, Listed(dsn)) = {} /\ done = Listed(dsn)
        /\ HasCatalog(a)
        /\ \E shown \in SUBSET done : /\ shown # {} => a \in core'
                                      /\ views' = views \cup {a} \X shown

(* The table functions an ATTACH registers take names that were free.      *)
LEMMA Scanned ==
  ASSUME TypeOK, NEW a \in Aliases, NEW ty \in Types, NEW dsn \in Dsns, NEW done,
         Grafts(a, ty, dsn, done)
  PROVE  /\ scans' \in [Aliases \X Tables -> Scan \cup {NoScan}]
         /\ \A x \in done : /\ scans[<<a, x>>] = NoScan /\ scans'[<<a, x>>] # NoScan
                             /\ scans'[<<a, x>>].ext = backends[ty]
                             /\ scans'[<<a, x>>].handle = NewHandle
         /\ \A b \in Aliases, x \in Tables : b # a \/ x \notin done => scans'[<<b, x>>] = scans[<<b, x>>]
<1>1. [ext |-> backends[ty], handle |-> NewHandle] \in Scan
  BY Opened DEF Grafts, Scan
<1>2. [ext |-> backends[ty], handle |-> NewHandle] # NoScan
  BY <1>1, SentinelAssumption
<1>3. register_at5_scan(ty) = [ext |-> backends[ty], handle |-> NewHandle]
  BY DEF register_at5_scan
<1>4. scans \in [Aliases \X Tables -> Scan \cup {NoScan}]
  BY DEF TypeOK
<1>5. scans' \in [Aliases \X Tables -> Scan \cup {NoScan}]
  BY <1>1, <1>3, <1>4 DEF Grafts, ScansWith
<1>6. ASSUME NEW b \in Aliases, NEW x \in Tables
      PROVE  scans'[<<b, x>>] = IF b = a /\ x \in done THEN register_at5_scan(ty) ELSE scans[<<b, x>>]
  BY DEF Grafts, ScansWith
<1>7. ASSUME NEW x \in done
      PROVE  x \in Tables /\ scans[<<a, x>>] = NoScan
  <2>1. x \notin Collides(a, Listed(dsn)) /\ x \in Listed(dsn)
    BY DEF Grafts
  <2>2. x \in Tables
    BY <2>1, Opened DEF Grafts
  <2> QED BY <2>1, <2>2 DEF Collides
<1> QED BY <1>2, <1>3, <1>5, <1>6, <1>7

LEMMA AttachGrafts ==
  ASSUME TypeOK, NEW a \in Aliases, NEW ty \in Types, NEW dsn \in Dsns
  PROVE  /\ AttachFails(a, ty, dsn) => attached' = attached /\ \E done : Grafts(a, ty, dsn, done)
         /\ \A ro : Attach(a, ty, dsn, ro) =>
              Grafts(a, ty, dsn, Listed(dsn)) /\ Collides(a, Listed(dsn)) = {}
<1>1. ASSUME AttachListFails(a, ty, dsn)
      PROVE  attached' = attached /\ Grafts(a, ty, dsn, {})
  <2>1. scans' = scans /\ scans \in [Aliases \X Tables -> Scan \cup {NoScan}]
    BY <1>1 DEF AttachListFails, TypeOK
  <2>2. scans' = ScansWith(a, ty, {})
    BY <2>1 DEF ScansWith
  <2> QED BY <1>1, <2>2 DEF AttachListFails, Grafts
<1>2. ASSUME AttachRegisterFails(a, ty, dsn)
      PROVE  attached' = attached /\ \E done : Grafts(a, ty, dsn, done)
  <2>1. PICK done \in SUBSET (Listed(dsn) \ Collides(a, Listed(dsn))) : scans' = ScansWith(a, ty, done)
    BY <1>2 DEF AttachRegisterFails
  <2>2. Opens(a, ty, dsn) /\ UNCHANGED <<attached, core, views>>
    BY <1>2 DEF AttachRegisterFails
  <2>3. Grafts(a, ty, dsn, done)
    BY <2>1, <2>2 DEF Grafts
  <2> QED BY <2>2, <2>3
<1>3. ASSUME Registers(a, ty, dsn)
      PROVE  /\ Collides(a, Listed(dsn)) = {}
             /\ UNCHANGED <<core, views>> => Grafts(a, ty, dsn, Listed(dsn))
             /\ \A shown \in SUBSET Listed(dsn) :
                  HasCatalog(a) /\ (shown # {} => a \in core') /\ views' = views \cup {a} \X shown =>
                    Grafts(a, ty, dsn, Listed(dsn))
  BY <1>3 DEF Registers, Grafts
<1>4. ASSUME AttachMemoryFails(a, ty, dsn)
      PROVE  attached' = attached /\ Grafts(a, ty, dsn, Listed(dsn))
  BY <1>3, <1>4 DEF AttachMemoryFails
<1>5. ASSUME AttachViewFails(a, ty, dsn)
      PROVE  attached' = attached /\ Grafts(a, ty, dsn, Listed(dsn))
  <2>1. PICK shown \in SUBSET Listed(dsn) : (a \notin core' => shown = {}) /\ views' = views \cup {a} \X shown
    BY <1>5 DEF AttachViewFails
  <2> QED BY <1>3, <1>5, <2>1 DEF AttachViewFails
<1>6. ASSUME NEW ro, Attach(a, ty, dsn, ro)
      PROVE  Grafts(a, ty, dsn, Listed(dsn)) /\ Collides(a, Listed(dsn)) = {}
  BY <1>3, <1>6 DEF Attach
<1> QED BY <1>1, <1>2, <1>4, <1>5, <1>6 DEF AttachFails

(* The entry of an ATTACH that succeeds.                                   *)
LEMMA Entered ==
  ASSUME TypeOK, NEW a \in Aliases, NEW ty \in Types, NEW dsn \in Dsns, NEW ro \in Modes,
         Attach(a, ty, dsn, ro)
  PROVE  /\ attached'[a] \in Entry
         /\ attached'[a].ext = backends[ty] /\ attached'[a].handle = NewHandle
         /\ attached'[a].store = StoreOf[dsn]
         /\ attached'[a].readOnly = ro
         /\ attached'[a].direct \/ attached'[a].native => Resolve \in Direct
         /\ attached' \in [Aliases -> Entry \cup {NoEntry}]
         /\ \A b \in Aliases : b # a => attached'[b] = attached[b]
<1>1. PICK direct \in {~ro /\ writes_persist_directly(Resolve)} \cup (IF "probe" \in Faults THEN {FALSE} ELSE {}) :
        \E native \in {direct /\ ty = Sqlite /\ StoreOf[dsn] \in Files}
                        \cup (IF "open" \in Faults THEN {FALSE} ELSE {}) :
          attached' = [attached EXCEPT ![a] =
            [ext |-> backends[ty], handle |-> NewHandle, store |-> StoreOf[dsn],
             readOnly |-> ro, direct |-> direct, native |-> native]]
  BY DEF Attach
<1>2. PICK native \in {direct /\ ty = Sqlite /\ StoreOf[dsn] \in Files}
                        \cup (IF "open" \in Faults THEN {FALSE} ELSE {}) :
        attached' = [attached EXCEPT ![a] =
          [ext |-> backends[ty], handle |-> NewHandle, store |-> StoreOf[dsn],
           readOnly |-> ro, direct |-> direct, native |-> native]]
  BY <1>1
<1>3. ro \in BOOLEAN /\ StoreOf[dsn] \in Stores
  BY StorageAssumption
<1>4. direct \in BOOLEAN /\ (direct => Resolve \in Direct)
  BY <1>1, <1>3 DEF writes_persist_directly
<1>5. native \in BOOLEAN /\ (native => direct)
  BY <1>2, <1>4
<1>6. backends[ty] \in Exts /\ NewHandle \in Nat
  BY Opened DEF Attach, Registers
<1> DEFINE entry == [ext |-> backends[ty], handle |-> NewHandle, store |-> StoreOf[dsn],
                     readOnly |-> ro, direct |-> direct, native |-> native]
<1>7. entry \in Entry
  BY <1>3, <1>4, <1>5, <1>6 DEF Entry
<1>8. attached \in [Aliases -> Entry \cup {NoEntry}]
  BY DEF TypeOK
<1>9. attached'[a] = entry /\ \A b \in Aliases : b # a => attached'[b] = attached[b]
  BY <1>2, <1>8
<1>10. attached' \in [Aliases -> Entry \cup {NoEntry}]
  BY <1>2, <1>7, <1>8
<1> QED BY <1>4, <1>5, <1>7, <1>9, <1>10

-----------------------------------------------------------------------------
(* Types.                                                                  *)

LEMMA GraftsType ==
  ASSUME TypeOK, NEW a \in Aliases, NEW ty \in Types, NEW dsn \in Dsns, NEW done,
         Grafts(a, ty, dsn, done), attached' \in [Aliases -> Entry \cup {NoEntry}]
  PROVE  TypeOK'
<1>1. /\ Opens(a, ty, dsn) /\ done \in SUBSET Listed(dsn)
      /\ done \cap Collides(a, Listed(dsn)) = {} /\ scans' = ScansWith(a, ty, done)
  BY DEF Grafts
<1>2. /\ catalogs' \in [Exts -> Seq(Catalog)] /\ done \subseteq Tables
  BY <1>1, Opened
<1>3. UNCHANGED <<backends, stores, log>>
  BY <1>1 DEF Opens
<1>4. /\ scans' \in [Aliases \X Tables -> Scan \cup {NoScan}]
      /\ \A x \in done : scans'[<<a, x>>] # NoScan
      /\ \A b \in Aliases, x \in Tables : b # a \/ x \notin done => scans'[<<b, x>>] = scans[<<b, x>>]
  <2>1. scans' \in [Aliases \X Tables -> Scan \cup {NoScan}]
    BY Scanned
  <2>2. \A x \in done : scans'[<<a, x>>] # NoScan
    BY Scanned
  <2>3. \A b \in Aliases, x \in Tables : b # a \/ x \notin done => scans'[<<b, x>>] = scans[<<b, x>>]
    BY Scanned
  <2> QED BY <2>1, <2>2, <2>3
<1>5. ASSUME NEW v \in views
      PROVE  v \in Aliases \X Tables /\ scans'[v] # NoScan
  <2>1. v \in Aliases \X Tables /\ scans[v] # NoScan
    BY DEF TypeOK
  <2>2. PICK b \in Aliases, x \in Tables : v = <<b, x>>
    BY <2>1
  <2> QED BY <1>4, <2>1, <2>2
<1>6. CASE UNCHANGED <<core, views>>
  BY <1>2, <1>3, <1>4, <1>5, <1>6 DEF TypeOK
<1>7. CASE \E shown \in SUBSET done : /\ HasCatalog(a)
                                      /\ shown # {} => a \in core'
                                      /\ views' = views \cup {a} \X shown
  <2>1. PICK shown \in SUBSET done : /\ HasCatalog(a)
                                     /\ shown # {} => a \in core'
                                     /\ views' = views \cup {a} \X shown
    BY <1>7
  <2>2. core' \subseteq Aliases /\ core \subseteq core'
    BY <2>1 DEF HasCatalog, TypeOK
  <2>3. ASSUME NEW v \in {a} \X shown
        PROVE  v \in core' \X Tables /\ scans'[v] # NoScan
    <3>1. PICK x \in shown : v = <<a, x>>
      OBVIOUS
    <3> QED BY <1>2, <1>4, <2>1, <3>1
  <2>4. views' \subseteq core' \X Tables /\ \A v \in views' : scans'[v] # NoScan
    BY <1>5, <2>1, <2>2, <2>3 DEF TypeOK
  <2> QED BY <1>2, <1>3, <1>4, <2>2, <2>4 DEF TypeOK
<1> QED BY <1>6, <1>7 DEF Grafts

LEMMA AskedType ==
  ASSUME TypeOK, NEW a \in Aliases, attached[a] # NoEntry, NEW t \in Tables,
         NEW changes \in Changes, NEW ok \in BOOLEAN, Asks(a, t, changes, ok)
  PROVE  log' \subseteq Write
<1>1. attached[a] \in Entry
  BY DEF TypeOK
<1>2. Removed(changes) \subseteq Rows /\ Added(changes) \subseteq Rows
  BY DEF Removed, Added, Changes
<1>3. /\ Asked(a, t, Removed(changes), "delete", ok) \subseteq Write
      /\ Asked(a, t, Added(changes), "insert", ok) \subseteq Write
  <2>1. attached[a].store \in Stores /\ (ok /\ ~attached[a].readOnly) \in BOOLEAN
    BY <1>1 DEF Entry
  <2>2. ASSUME NEW rows \in SUBSET Rows, NEW op \in {"insert", "delete"}
        PROVE  Asked(a, t, rows, op, ok) \subseteq Write
    <3>1. ASSUME NEW w \in Asked(a, t, rows, op, ok)
          PROVE  w \in Write
      <4>1. PICK r \in rows : w = [store |-> attached[a].store, table |-> t, row |-> r, op |-> op,
                                    ok |-> ok /\ ~attached[a].readOnly]
        BY <3>1 DEF Asked
      <4> QED BY <2>1, <4>1 DEF Write
    <3> QED BY <3>1
  <2> QED BY <1>2, <2>2
<1>4. \/ log' = log
      \/ log' = log \cup Asked(a, t, Removed(changes), "delete", ok)
                    \cup Asked(a, t, Added(changes), "insert", ok)
  BY DEF Asks, Removed, Added
<1> QED BY <1>3, <1>4 DEF TypeOK

LEMMA BackType ==
  ASSUME TypeOK, NEW a \in Aliases, attached[a] # NoEntry, NEW image \in Image,
         NEW held \in [Stores -> Image], NEW back \in at5_write_back(a, image, held)
  PROVE  /\ back.stores \in [Stores -> Image] /\ back.ok \in BOOLEAN
         /\ \A z \in Stores : z # attached[a].store => back.stores[z] = held[z]
         /\ \/ back.stores = held /\ (back.ok => ~Backs(a))
            \/ Backs(a) /\ back.stores[attached[a].store] = image
            \/ "diskfull" \in Faults /\ ~back.ok /\ back.stores[attached[a].store] = Blank
<1>1. attached[a].store \in Stores
  BY DEF TypeOK, Entry
<1>2. \A i \in Image : [held EXCEPT ![attached[a].store] = i] \in [Stores -> Image]
  BY <1>1
<1>3. \/ back = [stores |-> held, ok |-> TRUE] /\ ~Backs(a)
      \/ back = [stores |-> [held EXCEPT ![attached[a].store] = image], ok |-> TRUE] /\ Backs(a)
      \/ back = [stores |-> held, ok |-> FALSE]
      \/ /\ back = [stores |-> [held EXCEPT ![attached[a].store] = Blank], ok |-> FALSE]
         /\ "diskfull" \in Faults
  BY DEF at5_write_back
<1>4. held[attached[a].store] \in Image
  BY <1>1
<1>5. ASSUME NEW i \in Image, NEW ok \in BOOLEAN,
             back = [stores |-> [held EXCEPT ![attached[a].store] = i], ok |-> ok]
      PROVE  /\ back.stores \in [Stores -> Image] /\ back.ok = ok
             /\ back.stores[attached[a].store] = i
             /\ \A z \in Stores : z # attached[a].store => back.stores[z] = held[z]
  BY <1>1, <1>5
<1>6. ASSUME NEW ok \in BOOLEAN, back = [stores |-> held, ok |-> ok]
      PROVE  back.stores = held /\ back.ok = ok
  BY <1>6
<1>7. CASE back = [stores |-> held, ok |-> TRUE] /\ ~Backs(a)
  BY <1>6, <1>7
<1>8. CASE back = [stores |-> [held EXCEPT ![attached[a].store] = image], ok |-> TRUE] /\ Backs(a)
  BY <1>5, <1>8
<1>9. CASE back = [stores |-> held, ok |-> FALSE]
  BY <1>6, <1>9
<1>10. CASE /\ back = [stores |-> [held EXCEPT ![attached[a].store] = Blank], ok |-> FALSE]
            /\ "diskfull" \in Faults
  BY <1>5, <1>10, BlankIsImage
<1> QED BY <1>3, <1>7, <1>8, <1>9, <1>10

(* What the component's call leaves of the databases: `held` before the    *)
(* write-back, which does nothing, writes, or fails in the middle.         *)
Leaves(a, t, out, changes, held, ok) ==
  /\ held \in [Stores -> Image] /\ ok \in BOOLEAN
  /\ Resolve \in Direct => held = [stores EXCEPT ![Target(a).store] = out.image]
  /\ Resolve \notin Direct => held = stores
  /\ ok => out.ok
  /\ Asks(a, t, changes, ok)
  /\ \A z \in Stores : z # attached[a].store => stores'[z] = held[z]
  /\ \/ stores' = held /\ (ok => ~Backs(a))
     \/ Backs(a) /\ stores'[attached[a].store] = out.image
     \/ "diskfull" \in Faults /\ ~ok /\ stores'[attached[a].store] = Blank

LEMMA Dispatched ==
  ASSUME TypeOK, NEW a \in Aliases, attached[a] # NoEntry, NEW t \in Tables,
         NEW out \in Outs, NEW changes \in Changes, Reaches(a), Dispatch(a, t, out, changes)
  PROVE  /\ catalogs' \in [Exts -> Seq(Catalog)] /\ stores' \in [Stores -> Image]
         /\ Resolve \in Direct => catalogs' = catalogs
         /\ Resolve \notin Direct =>
              catalogs' = [catalogs EXCEPT ![Resolve][attached[a].handle].image = out.image]
         /\ \E held, ok : Leaves(a, t, out, changes, held, ok)
<1> DEFINE held == IF Resolve \in Direct THEN [stores EXCEPT ![Target(a).store] = out.image] ELSE stores
<1>1. attached[a] \in Entry /\ Resolve \in Exts /\ Target(a) \in Catalog
  BY TargetType
<1>2. out.image \in Image /\ out.ok \in BOOLEAN
  BY DEF Outs
<1>3. Target(a).store \in Stores
  BY <1>1 DEF Catalog
<1>4. held \in [Stores -> Image]
  BY <1>2, <1>3 DEF TypeOK
<1>5. catalogs' = IF Resolve \in Direct THEN catalogs
                  ELSE [catalogs EXCEPT ![Resolve][attached[a].handle].image = out.image]
  BY DEF Dispatch
<1>6. catalogs' \in [Exts -> Seq(Catalog)]
  <2>1. catalogs[Resolve] \in Seq(Catalog) /\ attached[a].handle \in 1..Len(catalogs[Resolve])
    BY <1>1 DEF TypeOK, Reaches
  <2>2. [Target(a) EXCEPT !.image = out.image] \in Catalog
    BY <1>1, <1>2 DEF Catalog
  <2>3. [catalogs[Resolve] EXCEPT ![attached[a].handle] = [Target(a) EXCEPT !.image = out.image]] \in Seq(Catalog)
    BY <2>1, <2>2, ExceptSeq
  <2>4. [catalogs EXCEPT ![Resolve][attached[a].handle].image = out.image] =
          [catalogs EXCEPT ![Resolve] =
             [catalogs[Resolve] EXCEPT ![attached[a].handle] = [Target(a) EXCEPT !.image = out.image]]]
    BY DEF Target
  <2> QED BY <1>1, <1>5, <2>3, <2>4 DEF TypeOK
<1>7. PICK back \in IF out.ok THEN at5_write_back(a, out.image, held) ELSE {[stores |-> held, ok |-> FALSE]} :
        stores' = back.stores /\ Asks(a, t, changes, back.ok)
  BY DEF Dispatch
<1> HIDE DEF held
<1>8. /\ back.stores \in [Stores -> Image] /\ back.ok \in BOOLEAN /\ (back.ok => out.ok)
      /\ \A z \in Stores : z # attached[a].store => back.stores[z] = held[z]
      /\ \/ back.stores = held /\ (back.ok => ~Backs(a))
         \/ Backs(a) /\ back.stores[attached[a].store] = out.image
         \/ "diskfull" \in Faults /\ ~back.ok /\ back.stores[attached[a].store] = Blank
  <2>1. CASE out.ok
    BY <1>2, <1>4, <1>7, <2>1, BackType
  <2>2. CASE ~out.ok
    <3>1. back = [stores |-> held, ok |-> FALSE]
      BY <1>7, <2>2
    <3>2. back.stores = held /\ back.ok = FALSE
      BY <3>1
    <3> QED BY <1>4, <3>2
  <2> QED BY <1>2, <2>1, <2>2
<1>9. /\ Resolve \in Direct => held = [stores EXCEPT ![Target(a).store] = out.image]
      /\ Resolve \notin Direct => held = stores
  BY DEF held
<1>10. Leaves(a, t, out, changes, held, back.ok)
  BY <1>4, <1>7, <1>8, <1>9 DEF Leaves
<1>11. stores' \in [Stores -> Image]
  BY <1>7, <1>8
<1> QED BY <1>4, <1>5, <1>6, <1>8, <1>10, <1>11

LEMMA StatementType ==
  ASSUME TypeOK, NEW a \in Aliases, NEW t \in Tables, NEW out, NEW changes,
         Statement(a, t, out, changes)
  PROVE  TypeOK'
<1>1. attached[a] # NoEntry /\ changes \in Changes /\ Quiet
  BY DEF Statement
<1>2. CASE /\ Outcome(stores[attached[a].store], t, out, changes)
           /\ Native(a, t, out, changes)
  <2>1. out.image \in Image /\ out.ok \in BOOLEAN /\ attached[a].store \in Stores
    BY <1>1, <1>2, TargetType DEF Outcome, Outs, Entry
  <2>2. stores' \in [Stores -> Image] /\ catalogs' = catalogs
    BY <1>2, <2>1 DEF Native, TypeOK
  <2>3. log' \subseteq Write
    BY <1>1, <1>2, <2>1, AskedType DEF Native
  <2> QED BY <1>1, <2>2, <2>3 DEF TypeOK, Quiet
<1>3. CASE /\ Reaches(a)
           /\ Outcome(WriteContent(a), t, out, changes)
           /\ Dispatch(a, t, out, changes)
  <2>1. out \in Outs
    BY <1>3 DEF Outcome
  <2>2. /\ catalogs' \in [Exts -> Seq(Catalog)] /\ stores' \in [Stores -> Image]
        /\ \E ok \in BOOLEAN : Asks(a, t, changes, ok)
    <3>1. catalogs' \in [Exts -> Seq(Catalog)]
      BY <1>1, <1>3, <2>1, Dispatched
    <3>2. stores' \in [Stores -> Image]
      BY <1>1, <1>3, <2>1, Dispatched
    <3>3. PICK held, ok : Leaves(a, t, out, changes, held, ok)
      BY <1>1, <1>3, <2>1, Dispatched
    <3>4. Asks(a, t, changes, ok) /\ ok \in BOOLEAN
      BY <3>3 DEF Leaves
    <3> QED BY <3>1, <3>2, <3>4
  <2>3. log' \subseteq Write
    BY <1>1, <2>2, AskedType
  <2> QED BY <1>1, <2>2, <2>3 DEF TypeOK, Quiet
<1> QED BY <1>2, <1>3 DEF Statement

LEMMA InitType == Init => TypeOK
<1> SUFFICES ASSUME Init PROVE TypeOK
  OBVIOUS
<1>1. \A e \in Exts : catalogs[e] = <<>> /\ catalogs = [x \in Exts |-> <<>>]
  BY DEF Init, Fresh
<1>2. catalogs \in [Exts -> Seq(Catalog)]
  BY DEF Init, Fresh
<1>3. stores \in [Stores -> Image]
  BY StorageAssumption DEF Init, Image
<1>4. log \subseteq Write
  BY DEF Init
<1> QED BY <1>2, <1>3, <1>4 DEF Init, Fresh, TypeOK

LEMMA NextType == TypeOK /\ [Next]_vars => TypeOK'
<1> SUFFICES ASSUME TypeOK, [Next]_vars PROVE TypeOK'
  OBVIOUS
<1>1. ASSUME NEW e \in Exts, Load(e)
      PROVE  TypeOK'
  <2>1. backends' \in [Types -> Exts \cup {NoExt}]
    BY <1>1 DEF Load, TypeOK
  <2> QED BY <1>1, <2>1 DEF Load, TypeOK
<1>2. ASSUME NEW a \in Aliases, NEW ty \in Types, NEW dsn \in Dsns, AttachFails(a, ty, dsn)
      PROVE  TypeOK'
  <2>1. attached' \in [Aliases -> Entry \cup {NoEntry}] /\ \E done : Grafts(a, ty, dsn, done)
    BY <1>2, AttachGrafts DEF TypeOK
  <2> QED BY <2>1, GraftsType
<1>3. ASSUME NEW a \in Aliases, NEW ty \in Types, NEW dsn \in Dsns, NEW ro \in Modes, Attach(a, ty, dsn, ro)
      PROVE  TypeOK'
  BY <1>3, AttachGrafts, Entered, GraftsType
<1>4. ASSUME NEW a \in Aliases, Detach(a)
      PROVE  TypeOK'
  BY <1>4 DEF Detach, TypeOK
<1>5. ASSUME NEW a \in Aliases, NEW t \in Tables,
             Insert(a, t) \/ Update(a, t) \/ Delete(a, t) \/ CreateTable(a, t)
      PROVE  TypeOK'
  BY <1>5, StatementIs, StatementType
<1>6. CASE Restart
  BY <1>6 DEF Restart, TypeOK
<1>7. CASE UNCHANGED vars
  BY <1>7 DEF vars, TypeOK
<1> QED BY <1>1, <1>2, <1>3, <1>4, <1>5, <1>6, <1>7 DEF Next

(* The state has its type: an entry, a catalog and a view are what the     *)
(* code keeps for them, whatever is loaded, attached and written.          *)
THEOREM TypeCorrect == Spec => []TypeOK
<1> QED BY InitType, NextType, PTL DEF Spec

-----------------------------------------------------------------------------
(* One storage extension.                                                  *)

(* It serves every type that is served, and an alias that is attached has  *)
(* a catalog of it, of the database of the alias.                          *)
SoleInv ==
  /\ installed \in Exts
  /\ \A ty \in Types : backends[ty] \in {NoExt, installed}
  /\ \A a \in Aliases : attached[a] # NoEntry =>
       /\ \E ty \in Types : backends[ty] = installed
       /\ attached[a].ext = installed
       /\ attached[a].handle \in DOMAIN catalogs[installed]
       /\ catalogs[installed][attached[a].handle].store = attached[a].store
       /\ attached[a].direct \/ attached[a].native => installed \in Direct

LEMMA SoleResolve ==
  ASSUME SoleInv, NEW ty \in Types, backends[ty] # NoExt
  PROVE  Resolve = installed /\ backends[ty] = installed
<1>1. backends[ty] = installed /\ installed # NoExt
  BY StorageAssumption DEF SoleInv
<1>2. CASE backends[Sqlite] # NoExt
  BY <1>1, <1>2, StorageAssumption DEF SoleInv, Resolve
<1>3. CASE backends[Sqlite] = NoExt
  <2>1. Registered = {installed}
    BY <1>1 DEF SoleInv, Registered
  <2>2. Resolve = CHOOSE e \in Registered : TRUE
    BY <1>3, <2>1 DEF Resolve
  <2> QED BY <1>1, <2>1, <2>2
<1> QED BY <1>2, <1>3

(* What a write of alias a works on.                                       *)
Content(a) ==
  IF installed \in Direct THEN stores[attached[a].store]
  ELSE catalogs[installed][attached[a].handle].image

(* What a statement does to the databases, the catalogs and the log.       *)
Effect(a, t, out, changes, ok) ==
  /\ ok \in BOOLEAN /\ (ok => out.ok)
  /\ Asks(a, t, changes, ok)
  /\ Outcome(Content(a), t, out, changes)
  /\ \A z \in Stores : z # attached[a].store => stores'[z] = stores[z]
  /\ installed \in Direct =>
       /\ catalogs' = catalogs
       /\ \/ stores'[attached[a].store] = out.image
          \/ "diskfull" \in Faults /\ ~ok /\ stores'[attached[a].store] = Blank
  /\ installed \notin Direct =>
       /\ catalogs' = [catalogs EXCEPT ![installed][attached[a].handle].image = out.image]
       /\ \/ stores'[attached[a].store] = stores[attached[a].store] /\ (ok => ~Backs(a))
          \/ Backs(a) /\ stores'[attached[a].store] = out.image
          \/ "diskfull" \in Faults /\ ~ok /\ stores'[attached[a].store] = Blank

LEMMA StatementEffect ==
  ASSUME TypeOK, SoleInv, NEW a \in Aliases, NEW t \in Tables, NEW out, NEW changes,
         Statement(a, t, out, changes)
  PROVE  \E ok : Effect(a, t, out, changes, ok)
<1>1. attached[a] # NoEntry /\ changes \in Changes
  BY DEF Statement
<1>2. attached[a] \in Entry /\ attached[a].store \in Stores
  BY <1>1, TargetType DEF Entry
<1>3. Resolve = installed /\ installed \in Exts
  BY <1>1, SoleResolve, StorageAssumption DEF SoleInv
<1>4. Target(a) = catalogs[installed][attached[a].handle] /\ Target(a).store = attached[a].store
  BY <1>1, <1>3 DEF SoleInv, Target
<1>5. CASE /\ attached[a].native
           /\ Outcome(stores[attached[a].store], t, out, changes)
           /\ Native(a, t, out, changes)
  <2>1. installed \in Direct
    BY <1>1, <1>5 DEF SoleInv
  <2>2. Outcome(Content(a), t, out, changes) /\ out.ok \in BOOLEAN
    BY <1>5, <2>1 DEF Content, Outcome, Outs
  <2>3. /\ \A z \in Stores : z # attached[a].store => stores'[z] = stores[z]
        /\ stores'[attached[a].store] = out.image
        /\ catalogs' = catalogs /\ Asks(a, t, changes, out.ok)
    BY <1>2, <1>5 DEF Native, TypeOK
  <2>4. Effect(a, t, out, changes, out.ok)
    BY <2>1, <2>2, <2>3 DEF Effect
  <2> QED BY <2>4
<1>6. CASE /\ Reaches(a)
           /\ Outcome(WriteContent(a), t, out, changes)
           /\ Dispatch(a, t, out, changes)
  <2>1. WriteContent(a) = Content(a)
    BY <1>3, <1>4 DEF WriteContent, Content, Holds
  <2>2. out \in Outs
    BY <1>6 DEF Outcome
  <2>3. PICK held, ok : Leaves(a, t, out, changes, held, ok)
    BY <1>1, <1>6, <2>2, Dispatched
  <2>4. Resolve \in Direct => catalogs' = catalogs
    BY <1>1, <1>6, <2>2, Dispatched
  <2>5. CASE installed \in Direct
    <3>1. /\ \A z \in Stores : z # attached[a].store => held[z] = stores[z]
          /\ held[attached[a].store] = out.image
      BY <1>2, <1>3, <1>4, <2>3, <2>5 DEF Leaves, TypeOK
    <3>2. /\ \A z \in Stores : z # attached[a].store => stores'[z] = stores[z]
          /\ \/ stores'[attached[a].store] = out.image
             \/ "diskfull" \in Faults /\ ~ok /\ stores'[attached[a].store] = Blank
      BY <2>3, <3>1 DEF Leaves
    <3>3. Effect(a, t, out, changes, ok)
      BY <1>3, <1>6, <2>1, <2>3, <2>4, <2>5, <3>2 DEF Effect, Leaves
    <3> QED BY <3>3
  <2>6. CASE installed \notin Direct
    <3>1. held = stores
      BY <1>3, <2>3, <2>6 DEF Leaves
    <3>2. catalogs' = [catalogs EXCEPT ![installed][attached[a].handle].image = out.image]
      BY <1>3, <1>6, <2>6 DEF Dispatch
    <3>3. Effect(a, t, out, changes, ok)
      BY <1>6, <2>1, <2>3, <2>6, <3>1, <3>2 DEF Effect, Leaves
    <3> QED BY <3>3
  <2> QED BY <2>5, <2>6
<1> QED BY <1>5, <1>6 DEF Statement

(* The catalogs keep their databases; the image of one of them changes, if *)
(* any does.                                                               *)
LEMMA EffectCatalogs ==
  ASSUME TypeOK, SoleInv, NEW a \in Aliases, attached[a] # NoEntry, NEW t, NEW out, NEW changes, NEW ok,
         Effect(a, t, out, changes, ok), NEW e \in Exts
  PROVE  /\ DOMAIN catalogs'[e] = DOMAIN catalogs[e]
         /\ \A h \in DOMAIN catalogs[e] :
              /\ catalogs'[e][h].store = catalogs[e][h].store
              /\ \/ catalogs'[e][h].image = catalogs[e][h].image
                 \/ /\ installed \notin Direct /\ e = installed /\ h = attached[a].handle
                    /\ catalogs'[e][h].image = out.image
              /\ e # installed \/ h # attached[a].handle => catalogs'[e][h] = catalogs[e][h]
              /\ installed \notin Direct /\ e = installed /\ h = attached[a].handle =>
                   catalogs'[e][h].image = out.image
<1>1. CASE installed \in Direct
  BY <1>1 DEF Effect
<1>2. CASE installed \notin Direct
  <2> DEFINE c == catalogs[installed]
             k == attached[a].handle
  <2>1. catalogs' = [catalogs EXCEPT ![installed][k].image = out.image]
    BY <1>2 DEF Effect
  <2>2. catalogs \in [Exts -> Seq(Catalog)] /\ installed \in Exts /\ k \in DOMAIN c
    BY DEF TypeOK, SoleInv
  <2>3. c \in Seq(Catalog)
    BY <2>2
  <2>4. c[k] \in Catalog
    BY <2>2, <2>3, ElementOfSeq
  <2> DEFINE n == [c[k] EXCEPT !.image = out.image]
  <2>5. n.store = c[k].store /\ n.image = out.image
    BY <2>4 DEF Catalog
  <2>6. catalogs'[installed] = [c EXCEPT ![k] = n] /\ \A x \in Exts : x # installed => catalogs'[x] = catalogs[x]
    BY <2>1, <2>2
  <2> HIDE DEF n
  <2>7. DOMAIN [c EXCEPT ![k] = n] = DOMAIN c /\ \A h \in DOMAIN c : [c EXCEPT ![k] = n][h] = IF h = k THEN n ELSE c[h]
    BY <2>2
  <2> QED BY <1>2, <2>5, <2>6, <2>7
<1> QED BY <1>1, <1>2

(* What a statement logs: nothing if it failed and changed nothing, else   *)
(* every row it was asked to take out or put in.                           *)
Logs(a, t, changes, ok) ==
  /\ log \subseteq log'
  /\ \A w \in log' : w \in log \/ /\ w.store = attached[a].store /\ w.table = t
                                  /\ w.ok => ok /\ ~attached[a].readOnly
                                  /\ \/ w.op = "delete" /\ w.row \in Removed(changes)
                                     \/ w.op = "insert" /\ w.row \in Added(changes)
  /\ \A r \in Removed(changes) : \E w \in log' : w.op = "delete" /\ w.row = r
  /\ \A r \in Added(changes) : \E w \in log' :
       w.op = "insert" /\ w.store = attached[a].store /\ w.table = t /\ w.row = r

LEMMA AsksLogs ==
  ASSUME TypeOK, NEW a \in Aliases, attached[a] # NoEntry, NEW t, NEW changes, NEW ok \in BOOLEAN,
         Asks(a, t, changes, ok)
  PROVE  \/ log' = log /\ UNCHANGED <<catalogs, stores>>
         \/ Logs(a, t, changes, ok)
<1> DEFINE entry(r, op) == [store |-> attached[a].store, table |-> t, row |-> r, op |-> op,
                            ok |-> ok /\ ~attached[a].readOnly]
<1>1. \A rows, op : Asked(a, t, rows, op, ok) = {entry(r, op) : r \in rows}
  BY DEF Asked
<1>2. \A r, op : /\ entry(r, op).store = attached[a].store /\ entry(r, op).table = t
                 /\ entry(r, op).row = r /\ entry(r, op).op = op
                 /\ entry(r, op).ok => ok /\ ~attached[a].readOnly
  OBVIOUS
<1>3. CASE log' = log /\ UNCHANGED <<catalogs, stores>>
  BY <1>3
<1>4. CASE log' = log \cup Asked(a, t, Removed(changes), "delete", ok)
                      \cup Asked(a, t, Added(changes), "insert", ok)
  <2> HIDE DEF entry
  <2>1. log' = log \cup {entry(r, "delete") : r \in Removed(changes)} \cup {entry(r, "insert") : r \in Added(changes)}
    BY <1>1, <1>4
  <2>2. Logs(a, t, changes, ok)
    BY <1>2, <2>1 DEF Logs
  <2> QED BY <2>2
<1> QED BY <1>3, <1>4 DEF Asks, Removed, Added

LEMMA SoleInit == CarefulInit => SoleInv
BY DEF CarefulInit, Init, Fresh, SoleInv

(* An ATTACH keeps what is attached, and adds its catalog.                 *)
LEMMA GraftsCatalogs ==
  ASSUME TypeOK, SoleInv, NEW a \in Aliases, NEW ty \in Types, NEW dsn \in Dsns, NEW done,
         Grafts(a, ty, dsn, done)
  PROVE  /\ Resolve = installed /\ backends[ty] = installed
         /\ UNCHANGED <<backends, stores, log>>
         /\ \A e \in Exts : e # installed => catalogs'[e] = catalogs[e]
         /\ DOMAIN catalogs'[installed] = DOMAIN catalogs[installed] \cup {NewHandle}
         /\ \A h \in DOMAIN catalogs[installed] : catalogs'[installed][h] = catalogs[installed][h]
         /\ catalogs'[installed][NewHandle] = storage_attach(dsn)
<1>1. Opens(a, ty, dsn)
  BY DEF Grafts
<1>2. Resolve = installed /\ backends[ty] = installed
  BY <1>1, SoleResolve DEF Opens
<1>3. UNCHANGED <<backends, stores, log>>
  BY <1>1 DEF Opens
<1>4. /\ \A e \in Exts : e # Resolve => catalogs'[e] = catalogs[e]
      /\ DOMAIN catalogs'[Resolve] = DOMAIN catalogs[Resolve] \cup {NewHandle}
  BY <1>1, Opened
<1>5. \A h \in DOMAIN catalogs[Resolve] : catalogs'[Resolve][h] = catalogs[Resolve][h]
  BY <1>1, Opened
<1>6. catalogs'[Resolve][NewHandle] = storage_attach(dsn)
  BY <1>1, Opened
<1> QED BY <1>2, <1>3, <1>4, <1>5, <1>6

LEMMA SoleNext ==
  TypeOK /\ SoleInv /\ [CarefulNext /\ UNCHANGED installed]_<<vars, installed>> => SoleInv'
<1> SUFFICES ASSUME TypeOK, SoleInv, [CarefulNext /\ UNCHANGED installed]_<<vars, installed>>
             PROVE  SoleInv'
  OBVIOUS
<1>0. installed' = installed /\ installed \in Exts
  BY DEF SoleInv
<1>1. CASE Load(installed)
  <2>1. \A a \in Aliases : attached'[a] = NoEntry
    BY <1>1 DEF Load, SoleInv
  <2>2. \A ty \in Types : backends'[ty] \in {NoExt, installed}
    BY <1>1 DEF Load, SoleInv
  <2> QED BY <1>0, <2>1, <2>2 DEF SoleInv
<1>2. ASSUME NEW a \in Aliases, NEW ty \in Types, NEW dsn \in Dsns, AttachFails(a, ty, dsn)
      PROVE  SoleInv'
  <2>1. PICK done : Grafts(a, ty, dsn, done)
    BY <1>2, AttachGrafts
  <2>2. attached' = attached
    BY <1>2, AttachGrafts
  <2> QED BY <1>0, <2>1, <2>2, GraftsCatalogs DEF SoleInv
<1>3. ASSUME NEW a \in Aliases, NEW ty \in Types, NEW dsn \in Dsns, NEW ro \in Modes, Attach(a, ty, dsn, ro)
      PROVE  SoleInv'
  <2>1. Grafts(a, ty, dsn, Listed(dsn)) /\ Opens(a, ty, dsn)
    BY <1>3, AttachGrafts DEF Grafts
  <2>2. /\ backends' = backends /\ backends[ty] = installed /\ Resolve = installed
        /\ NewHandle \in DOMAIN catalogs'[installed]
        /\ catalogs'[installed][NewHandle].store = StoreOf[dsn]
        /\ \A h \in DOMAIN catalogs[installed] : /\ h \in DOMAIN catalogs'[installed]
                                                 /\ catalogs'[installed][h] = catalogs[installed][h]
    BY <2>1, GraftsCatalogs, Opened
  <2>3. /\ attached'[a].ext = backends[ty] /\ attached'[a].handle = NewHandle
        /\ attached'[a].store = StoreOf[dsn]
        /\ attached'[a].direct \/ attached'[a].native => Resolve \in Direct
        /\ \A b \in Aliases : b # a => attached'[b] = attached[b]
    BY <1>3, Entered
  <2> QED BY <1>0, <2>2, <2>3 DEF SoleInv
<1>4. ASSUME NEW a \in Aliases, Detach(a)
      PROVE  SoleInv'
  BY <1>0, <1>4 DEF Detach, SoleInv
<1>5. ASSUME NEW a \in Aliases, NEW t \in Tables,
             Insert(a, t) \/ Update(a, t) \/ Delete(a, t) \/ CreateTable(a, t)
      PROVE  SoleInv'
  <2>1. PICK out, changes : Statement(a, t, out, changes)
    BY <1>5, StatementIs
  <2>2. PICK ok : Effect(a, t, out, changes, ok)
    BY <2>1, StatementEffect
  <2>3. attached' = attached /\ backends' = backends /\ attached[a] # NoEntry
    BY <2>1 DEF Statement, Quiet
  <2>4. /\ DOMAIN catalogs'[installed] = DOMAIN catalogs[installed]
        /\ \A h \in DOMAIN catalogs[installed] : catalogs'[installed][h].store = catalogs[installed][h].store
    BY <1>0, <2>2, <2>3, EffectCatalogs
  <2> QED BY <1>0, <2>3, <2>4 DEF SoleInv
<1>6. CASE Restart
  BY <1>0, <1>6 DEF Restart, SoleInv
<1>7. CASE UNCHANGED <<vars, installed>>
  BY <1>7 DEF vars, SoleInv
<1> QED BY <1>1, <1>2, <1>3, <1>4, <1>5, <1>6, <1>7 DEF CarefulNext

-----------------------------------------------------------------------------
(* Rows stay at home.                                                      *)

(* The rows of an image of database s were put there by statements on it.  *)
Home(asked, image, s) ==
  \A t \in DOMAIN image : \A r \in image[t] :
    \E w \in asked : w.op = "insert" /\ w.store = s /\ w.table = t /\ w.row = r

HomeInv ==
  /\ \A s \in Stores : Home(log, stores[s], s)
  /\ \A e \in Exts : \A h \in DOMAIN catalogs[e] : Home(log, catalogs[e][h].image, catalogs[e][h].store)

LEMMA HomeGrows ==
  ASSUME NEW old, NEW new, old \subseteq new, NEW image, NEW s, Home(old, image, s)
  PROVE  Home(new, image, s)
BY DEF Home

LEMMA HomeAfter ==
  ASSUME NEW old, NEW new, old \subseteq new, NEW image, NEW s, Home(old, image, s),
         NEW t, NEW out, NEW changes, Outcome(image, t, out, changes),
         \A r \in Added(changes) : \E w \in new :
           w.op = "insert" /\ w.store = s /\ w.table = t /\ w.row = r
  PROVE  Home(new, out.image, s)
<1>1. ASSUME NEW x \in DOMAIN out.image, NEW r \in out.image[x]
      PROVE  \E w \in new : w.op = "insert" /\ w.store = s /\ w.table = x /\ w.row = r
  <2>1. (x \in DOMAIN image /\ r \in image[x]) \/ (x = t /\ r \in Added(changes))
    BY DEF Outcome
  <2> QED BY <2>1 DEF Home
<1> QED BY <1>1 DEF Home

LEMMA HomeInit == Init => HomeInv
<1> SUFFICES ASSUME Init PROVE HomeInv
  OBVIOUS
<1>1. \A e \in Exts : DOMAIN catalogs[e] = {}
  BY DEF Init, Fresh
<1>2. ASSUME NEW s \in Stores, NEW t \in DOMAIN stores[s], NEW r \in stores[s][t]
      PROVE  \E w \in log : w.op = "insert" /\ w.store = s /\ w.table = t /\ w.row = r
  <2> DEFINE w == [store |-> s, table |-> t, row |-> r, op |-> "insert", ok |-> TRUE]
  <2>1. stores[s] \in Image /\ stores = Existing
    BY StorageAssumption DEF Init, Image
  <2>2. t \in Tables /\ r \in Rows
    BY <2>1, ImageIs
  <2>3. w \in Write
    BY <2>2 DEF Write
  <2>4. w \in log
    BY <2>1, <2>3 DEF Init
  <2> QED BY <2>4
<1> QED BY <1>1, <1>2 DEF HomeInv, Home

LEMMA HomeGrafts ==
  ASSUME TypeOK, SoleInv, HomeInv, NEW a \in Aliases, NEW ty \in Types, NEW dsn \in Dsns, NEW done,
         Grafts(a, ty, dsn, done)
  PROVE  HomeInv'
<1>1. /\ UNCHANGED <<backends, stores, log>> /\ Resolve = installed
      /\ \A e \in Exts : e # installed => catalogs'[e] = catalogs[e]
      /\ DOMAIN catalogs'[installed] = DOMAIN catalogs[installed] \cup {NewHandle}
      /\ \A h \in DOMAIN catalogs[installed] : catalogs'[installed][h] = catalogs[installed][h]
      /\ catalogs'[installed][NewHandle] = storage_attach(dsn)
  BY GraftsCatalogs
<1>2. Home(log, storage_attach(dsn).image, storage_attach(dsn).store)
  <2>1. StoreOf[dsn] \in Stores
    BY StorageAssumption
  <2>2. CASE Resolve \in Direct
    BY <2>2, BlankIsImage DEF storage_attach, Home
  <2>3. CASE Resolve \notin Direct
    BY <2>1, <2>3 DEF storage_attach, Staged, HomeInv
  <2> QED BY <2>2, <2>3
<1>3. \A s \in Stores : Home(log, stores[s], s)'
  BY <1>1 DEF HomeInv, Home
<1>4. ASSUME NEW e \in Exts, NEW h \in DOMAIN catalogs'[e]
      PROVE  Home(log', catalogs'[e][h].image, catalogs'[e][h].store)
  BY <1>1, <1>2 DEF HomeInv
<1> QED BY <1>1, <1>4 DEF HomeInv

LEMMA HomeStatement ==
  ASSUME TypeOK, SoleInv, HomeInv, NEW a \in Aliases, NEW t \in Tables, NEW out, NEW changes,
         Statement(a, t, out, changes)
  PROVE  HomeInv'
<1>1. PICK ok : Effect(a, t, out, changes, ok)
  BY StatementEffect
<1>2. attached[a] # NoEntry /\ changes \in Changes
  BY DEF Statement
<1>3. ok \in BOOLEAN /\ Asks(a, t, changes, ok) /\ installed \in Exts
  BY <1>1 DEF Effect, SoleInv
<1>4. CASE log' = log /\ UNCHANGED <<catalogs, stores>>
  BY <1>4 DEF HomeInv
<1>5. CASE Logs(a, t, changes, ok)
  <2> DEFINE s == attached[a].store
  <2>1. log \subseteq log'
    BY <1>5 DEF Logs
  <2>2. Home(log, Content(a), s)
    <3>1. s \in Stores
      BY <1>2, TargetType DEF Entry
    <3> QED BY <1>2, <3>1 DEF Content, HomeInv, SoleInv
  <2>3. Home(log', out.image, s)
    <3>1. \A r \in Added(changes) : \E w \in log' :
            w.op = "insert" /\ w.store = s /\ w.table = t /\ w.row = r
      BY <1>5 DEF Logs
    <3>2. Outcome(Content(a), t, out, changes)
      BY <1>1 DEF Effect
    <3> HIDE DEF s
    <3> QED BY <2>1, <2>2, <3>1, <3>2, HomeAfter
  <2>4. Home(log', Blank, s)
    BY BlankIsImage DEF Home
  <2>5. ASSUME NEW z \in Stores
        PROVE  Home(log', stores'[z], z)
    <3>1. Home(log', stores[z], z)
      BY <2>1, HomeGrows DEF HomeInv
    <3>2. stores'[z] = stores[z] \/ (z = s /\ stores'[z] \in {out.image, Blank})
      BY <1>1 DEF Effect
    <3> QED BY <2>3, <2>4, <3>1, <3>2
  <2>6. ASSUME NEW e \in Exts, NEW h \in DOMAIN catalogs'[e]
        PROVE  Home(log', catalogs'[e][h].image, catalogs'[e][h].store)
    <3>1. h \in DOMAIN catalogs[e]
      BY <1>1, <1>2, EffectCatalogs
    <3>2. catalogs'[e][h].store = catalogs[e][h].store
      BY <1>1, <1>2, <3>1, EffectCatalogs
    <3>3. Home(log', catalogs[e][h].image, catalogs[e][h].store)
      BY <2>1, <3>1, HomeGrows DEF HomeInv
    <3>4. \/ catalogs'[e][h].image = catalogs[e][h].image
          \/ e = installed /\ h = attached[a].handle /\ catalogs'[e][h].image = out.image
      BY <1>1, <1>2, <3>1, EffectCatalogs
    <3>5. catalogs[installed][attached[a].handle].store = s
      BY <1>2 DEF SoleInv
    <3> QED BY <2>3, <3>2, <3>3, <3>4, <3>5
  <2> QED BY <2>5, <2>6 DEF HomeInv
<1> QED BY <1>2, <1>3, <1>4, <1>5, AsksLogs

LEMMA HomeNext ==
  TypeOK /\ SoleInv /\ HomeInv /\ [CarefulNext /\ UNCHANGED installed]_<<vars, installed>> => HomeInv'
<1> SUFFICES ASSUME TypeOK, SoleInv, HomeInv, [CarefulNext /\ UNCHANGED installed]_<<vars, installed>>
             PROVE  HomeInv'
  OBVIOUS
<1>1. CASE Load(installed)
  BY <1>1 DEF Load, HomeInv
<1>2. ASSUME NEW a \in Aliases, NEW ty \in Types, NEW dsn \in Dsns,
             AttachFails(a, ty, dsn) \/ \E ro \in Modes : Attach(a, ty, dsn, ro)
      PROVE  HomeInv'
  BY <1>2, AttachGrafts, HomeGrafts
<1>3. ASSUME NEW a \in Aliases, Detach(a)
      PROVE  HomeInv'
  BY <1>3 DEF Detach, HomeInv
<1>4. ASSUME NEW a \in Aliases, NEW t \in Tables,
             Insert(a, t) \/ Update(a, t) \/ Delete(a, t) \/ CreateTable(a, t)
      PROVE  HomeInv'
  BY <1>4, StatementIs, HomeStatement
<1>5. CASE Restart
  BY <1>5 DEF Restart, HomeInv
<1>6. CASE UNCHANGED <<vars, installed>>
  BY <1>6 DEF vars, HomeInv
<1> QED BY <1>1, <1>2, <1>3, <1>4, <1>5, <1>6 DEF CarefulNext

(* A step of CarefulNext is one of Next.                                   *)
LEMMA CarefulType ==
  TypeOK /\ SoleInv /\ [CarefulNext /\ UNCHANGED installed]_<<vars, installed>> => TypeOK'
<1>1. SoleInv /\ CarefulNext => Next
  BY DEF CarefulNext, Next, SoleInv
<1>2. UNCHANGED <<vars, installed>> => UNCHANGED vars
  OBVIOUS
<1> QED BY <1>1, <1>2, NextType

LEMMA CarefulTypes == CarefulSpec => [](TypeOK /\ SoleInv /\ HomeInv)
<1>1. CarefulInit => TypeOK /\ SoleInv /\ HomeInv
  BY SoleInit, InitType, HomeInit DEF CarefulInit
<1>2. TypeOK /\ SoleInv /\ HomeInv /\ [CarefulNext /\ UNCHANGED installed]_<<vars, installed>> =>
        TypeOK' /\ SoleInv' /\ HomeInv'
  BY CarefulType, SoleNext, HomeNext
<1> QED BY <1>1, <1>2, PTL DEF CarefulSpec

(* A database only ever holds rows that a statement addressed to it,       *)
(* whatever fails and wherever a statement is cut short, and through any   *)
(* number of aliases, ATTACHes and sessions.                               *)
THEOREM RowsStayHome == CarefulSpec => []WritesStayHome
<1>1. HomeInv => WritesStayHome
  BY DEF HomeInv, Home, WritesStayHome
<1> QED BY <1>1, CarefulTypes, PTL

-----------------------------------------------------------------------------
(* What SELECT, the pre-scan and the writes work on.                       *)

(* The databases share a table, so that a second ATTACH of an alias finds  *)
(* the name of a table function taken.                                     *)
SharedTable == \E t \in Tables : \A s \in Stores : t \in DOMAIN Existing[s]

(* Table t stays everywhere, its table function stays taken, and the views *)
(* of an attached alias scan the catalog that its writes go to.            *)
SeenInv(t) ==
  /\ \A s \in Stores : t \in DOMAIN stores[s]
  /\ installed \notin Direct => \A h \in DOMAIN catalogs[installed] : t \in DOMAIN catalogs[installed][h].image
  /\ \A a \in Aliases : attached[a] # NoEntry => scans[<<a, t>>] # NoScan
  /\ \A a \in Aliases, x \in Tables : attached[a] # NoEntry /\ <<a, x>> \in views =>
       scans[<<a, x>>].ext = installed /\ scans[<<a, x>>].handle = attached[a].handle

LEMMA SeenInit ==
  ASSUME NEW t \in Tables, \A s \in Stores : t \in DOMAIN Existing[s], CarefulInit
  PROVE  SeenInv(t)
BY DEF CarefulInit, Init, Fresh, SeenInv

(* An ATTACH of an attached alias fails before it touches a view; that of  *)
(* another one finds none of its own.                                      *)
LEMMA GraftsSeen ==
  ASSUME TypeOK, SoleInv, NEW t \in Tables, SeenInv(t),
         NEW a \in Aliases, NEW ty \in Types, NEW dsn \in Dsns, NEW done, Grafts(a, ty, dsn, done)
  PROVE  /\ t \in Listed(dsn)
         /\ attached[a] # NoEntry => UNCHANGED <<core, views>> /\ Collides(a, Listed(dsn)) # {}
         /\ \A b \in Aliases, x \in Tables : scans[<<b, x>>] # NoScan => scans'[<<b, x>>] = scans[<<b, x>>]
         /\ \A b \in Aliases, x \in Tables : b # a => (<<b, x>> \in views' <=> <<b, x>> \in views)
         /\ \A x \in Tables : attached[a] = NoEntry /\ <<a, x>> \in views' /\ Collides(a, Listed(dsn)) = {} =>
              <<a, x>> \in views \/ x \in done
<1>1. Opens(a, ty, dsn)
  BY DEF Grafts
<1>2. t \in Listed(dsn)
  <2>1. StoreOf[dsn] \in Stores
    BY StorageAssumption
  <2>2. Listed(dsn) = DOMAIN stores[StoreOf[dsn]]
    BY <1>1, Opened
  <2> QED BY <2>1, <2>2 DEF SeenInv
<1>3. attached[a] # NoEntry => Collides(a, Listed(dsn)) # {}
  BY <1>2 DEF SeenInv, Collides
<1>4. attached[a] # NoEntry => UNCHANGED <<core, views>>
  BY <1>3 DEF Grafts
<1>5. \A b \in Aliases, x \in Tables : b # a \/ x \notin done => scans'[<<b, x>>] = scans[<<b, x>>]
  BY Scanned
<1>6. \A x \in done : scans[<<a, x>>] = NoScan
  BY Scanned
<1>7. \/ views' = views
      \/ \E shown \in SUBSET done : views' = views \cup {a} \X shown
  BY DEF Grafts
<1>8. ASSUME NEW b \in Aliases, NEW x \in Tables
      PROVE  /\ b # a => (<<b, x>> \in views' <=> <<b, x>> \in views)
             /\ b = a /\ <<b, x>> \in views' => <<b, x>> \in views \/ x \in done
  BY <1>7
<1> QED BY <1>2, <1>3, <1>4, <1>5, <1>6, <1>8

LEMMA SeenCatalogs ==
  ASSUME TypeOK, SoleInv, NEW t \in Tables, SeenInv(t),
         NEW a \in Aliases, NEW ty \in Types, NEW dsn \in Dsns, NEW done, Grafts(a, ty, dsn, done)
  PROVE  /\ \A s \in Stores : t \in DOMAIN stores'[s]
         /\ installed \notin Direct =>
              \A h \in DOMAIN catalogs'[installed] : t \in DOMAIN catalogs'[installed][h].image
<1>1. /\ UNCHANGED <<backends, stores, log>> /\ Resolve = installed
      /\ DOMAIN catalogs'[installed] = DOMAIN catalogs[installed] \cup {NewHandle}
      /\ \A h \in DOMAIN catalogs[installed] : catalogs'[installed][h] = catalogs[installed][h]
      /\ catalogs'[installed][NewHandle] = storage_attach(dsn)
  BY GraftsCatalogs
<1>2. StoreOf[dsn] \in Stores
  BY StorageAssumption
<1>3. installed \notin Direct => t \in DOMAIN storage_attach(dsn).image
  BY <1>1, <1>2 DEF SeenInv, storage_attach, Staged
<1> QED BY <1>1, <1>3 DEF SeenInv

LEMMA SeenStatement ==
  ASSUME TypeOK, SoleInv, "diskfull" \notin Faults, NEW t \in Tables, SeenInv(t),
         NEW a \in Aliases, NEW x \in Tables, NEW out, NEW changes, Statement(a, x, out, changes),
         installed' = installed
  PROVE  SeenInv(t)'
<1>1. PICK ok : Effect(a, x, out, changes, ok)
  BY StatementEffect
<1>2. attached[a] # NoEntry /\ UNCHANGED <<attached, scans, views>>
  BY DEF Statement, Quiet
<1>3. installed \in Exts /\ attached[a].store \in Stores
  BY <1>2, TargetType DEF Entry, SoleInv
<1>4. t \in DOMAIN Content(a)
  BY <1>2, <1>3 DEF SeenInv, SoleInv, Content
<1>5. t \in DOMAIN out.image
  BY <1>1, <1>4 DEF Effect, Outcome
<1>6. ASSUME NEW s \in Stores
      PROVE  t \in DOMAIN stores'[s]
  <2>1. stores'[s] = stores[s] \/ stores'[s] = out.image
    BY <1>1 DEF Effect
  <2> QED BY <1>5, <2>1 DEF SeenInv
<1>7. ASSUME installed \notin Direct, NEW h \in DOMAIN catalogs'[installed]
      PROVE  t \in DOMAIN catalogs'[installed][h].image
  <2>1. h \in DOMAIN catalogs[installed]
    BY <1>1, <1>2, <1>3, EffectCatalogs
  <2>2. catalogs'[installed][h].image = catalogs[installed][h].image \/ catalogs'[installed][h].image = out.image
    BY <1>1, <1>2, <1>3, <2>1, EffectCatalogs
  <2> QED BY <1>5, <1>7, <2>1, <2>2 DEF SeenInv
<1> QED BY <1>2, <1>6, <1>7 DEF SeenInv

LEMMA SeenNext ==
  ASSUME TypeOK, SoleInv, "diskfull" \notin Faults, NEW t \in Tables, SeenInv(t),
         [CarefulNext /\ UNCHANGED installed]_<<vars, installed>>
  PROVE  SeenInv(t)'
<1>0. installed' = installed
  OBVIOUS
<1>1. CASE Load(installed)
  BY <1>0, <1>1 DEF Load, SeenInv
<1>2. ASSUME NEW a \in Aliases, NEW ty \in Types, NEW dsn \in Dsns, AttachFails(a, ty, dsn)
      PROVE  SeenInv(t)'
  <2>1. PICK done : Grafts(a, ty, dsn, done)
    BY <1>2, AttachGrafts
  <2>2. attached' = attached
    BY <1>2, AttachGrafts
  <2>3. \A b \in Aliases, x \in Tables : scans[<<b, x>>] # NoScan => scans'[<<b, x>>] = scans[<<b, x>>]
    BY <2>1, GraftsSeen
  <2>4. ASSUME NEW b \in Aliases, NEW x \in Tables, attached[b] # NoEntry, <<b, x>> \in views'
        PROVE  <<b, x>> \in views /\ scans'[<<b, x>>] = scans[<<b, x>>]
    <3>1. <<b, x>> \in views
      BY <2>1, <2>4, GraftsSeen
    <3>2. scans[<<b, x>>] # NoScan
      BY <3>1 DEF TypeOK
    <3> QED BY <2>3, <3>1, <3>2
  <2>5. /\ \A s \in Stores : t \in DOMAIN stores'[s]
        /\ installed \notin Direct =>
             \A h \in DOMAIN catalogs'[installed] : t \in DOMAIN catalogs'[installed][h].image
    BY <2>1, SeenCatalogs
  <2> QED BY <1>0, <2>2, <2>3, <2>4, <2>5 DEF SeenInv
<1>3. ASSUME NEW a \in Aliases, NEW ty \in Types, NEW dsn \in Dsns, NEW ro \in Modes, Attach(a, ty, dsn, ro)
      PROVE  SeenInv(t)'
  <2>1. Grafts(a, ty, dsn, Listed(dsn)) /\ Collides(a, Listed(dsn)) = {} /\ HasCatalog(a)
    BY <1>3, AttachGrafts DEF Attach
  <2>2. attached[a] = NoEntry
    BY <2>1, GraftsSeen
  <2>3. \A x \in Tables : <<a, x>> \notin views
    BY <2>1, <2>2 DEF HasCatalog, TypeOK
  <2>4. /\ backends[ty] = installed
        /\ attached'[a].handle = NewHandle
        /\ \A b \in Aliases : b # a => attached'[b] = attached[b]
    BY <1>3, <2>1, Entered, GraftsCatalogs
  <2>5. \A x \in Listed(dsn) : /\ scans'[<<a, x>>] # NoScan
                               /\ scans'[<<a, x>>].ext = backends[ty]
                               /\ scans'[<<a, x>>].handle = NewHandle
    BY <2>1, Scanned
  <2>6. t \in Listed(dsn)
    BY <2>1, GraftsSeen
  <2>7. \A b \in Aliases, x \in Tables : scans[<<b, x>>] # NoScan => scans'[<<b, x>>] = scans[<<b, x>>]
    BY <2>1, GraftsSeen
  <2>8. ASSUME NEW b \in Aliases, NEW x \in Tables, attached'[b] # NoEntry, <<b, x>> \in views'
        PROVE  scans'[<<b, x>>].ext = installed /\ scans'[<<b, x>>].handle = attached'[b].handle
    <3>1. CASE b = a
      <4>1. x \in Listed(dsn)
        BY <2>1, <2>2, <2>3, <2>8, <3>1, GraftsSeen
      <4> QED BY <2>4, <2>5, <3>1, <4>1
    <3>2. CASE b # a
      <4>1. <<b, x>> \in views
        BY <2>1, <2>8, <3>2, GraftsSeen
      <4>2. scans[<<b, x>>] # NoScan
        BY <4>1 DEF TypeOK
      <4> QED BY <2>4, <2>7, <2>8, <3>2, <4>1, <4>2 DEF SeenInv
    <3> QED BY <3>1, <3>2
  <2>9. \A b \in Aliases : attached'[b] # NoEntry => scans'[<<b, t>>] # NoScan
    BY <2>4, <2>5, <2>6, <2>7 DEF SeenInv
  <2>10. /\ \A s \in Stores : t \in DOMAIN stores'[s]
         /\ installed \notin Direct =>
              \A h \in DOMAIN catalogs'[installed] : t \in DOMAIN catalogs'[installed][h].image
    BY <2>1, SeenCatalogs
  <2> QED BY <1>0, <2>8, <2>9, <2>10 DEF SeenInv
<1>4. ASSUME NEW a \in Aliases, Detach(a)
      PROVE  SeenInv(t)'
  BY <1>0, <1>4 DEF Detach, SeenInv
<1>5. ASSUME NEW a \in Aliases, NEW x \in Tables,
             Insert(a, x) \/ Update(a, x) \/ Delete(a, x) \/ CreateTable(a, x)
      PROVE  SeenInv(t)'
  BY <1>0, <1>5, StatementIs, SeenStatement
<1>6. CASE Restart
  BY <1>0, <1>6 DEF Restart, SeenInv, SoleInv
<1>7. CASE UNCHANGED <<vars, installed>>
  BY <1>7 DEF vars, SeenInv
<1> QED BY <1>1, <1>2, <1>3, <1>4, <1>5, <1>6, <1>7 DEF CarefulNext

LEMMA SeenReadsBack ==
  ASSUME TypeOK, SoleInv, NEW t \in Tables, SeenInv(t)
  PROVE  ReadsBack
<1> SUFFICES ASSUME NEW a \in Aliases, NEW x \in Tables, attached[a] # NoEntry, <<a, x>> \in views
             PROVE  Holds(scans[<<a, x>>].ext, catalogs[scans[<<a, x>>].ext][scans[<<a, x>>].handle])
                      = IF attached[a].native THEN stores[attached[a].store] ELSE WriteContent(a)
  BY DEF ReadsBack
<1>1. scans[<<a, x>>].ext = installed /\ scans[<<a, x>>].handle = attached[a].handle
  BY DEF SeenInv
<1>2. Resolve = installed
  BY SoleResolve, StorageAssumption DEF SoleInv
<1>3. WriteContent(a) = Holds(installed, catalogs[installed][attached[a].handle])
  BY <1>2 DEF WriteContent, Target
<1>4. attached[a].native => WriteContent(a) = stores[attached[a].store]
  BY <1>3 DEF SoleInv, Holds
<1> QED BY <1>1, <1>3, <1>4

(* The rows that a statement takes out are in what it writes to.           *)
LEMMA RemovedThere ==
  ASSUME TypeOK, SoleInv, HomeInv, NEW t \in Tables, SeenInv(t),
         NEW a \in Aliases, NEW x \in Tables, NEW out, NEW changes, Statement(a, x, out, changes)
  PROVE  /\ x \in DOMAIN Content(a) => Removed(changes) \subseteq Content(a)[x]
         /\ Removed(changes) \cap Added(changes) = {}
<1>1. attached[a] # NoEntry /\ Added(changes) \subseteq Unused
  BY DEF Statement
<1>2. CASE Removed(changes) = {}
  BY <1>2
<1>3. CASE Removed(changes) # {}
  <2>1. /\ <<a, x>> \in views
        /\ storage_scan_open(scans[<<a, x>>], x)
        /\ Removed(changes) \subseteq storage_scan_next(scans[<<a, x>>], x)
    BY <1>3 DEF Statement
  <2>2. scans[<<a, x>>].ext = installed /\ scans[<<a, x>>].handle = attached[a].handle
    BY <1>1, <2>1 DEF SeenInv
  <2>3. Holds(installed, catalogs[installed][attached[a].handle]) = Content(a)
    BY <1>1 DEF Holds, Content, SoleInv
  <2>4. x \in DOMAIN Content(a) /\ Removed(changes) \subseteq Content(a)[x]
    BY <2>1, <2>2, <2>3 DEF storage_scan_open, storage_table_columns, storage_list_tables, storage_scan_next
  <2>5. Home(log, Content(a), attached[a].store)
    <3>1. attached[a].store \in Stores /\ installed \in Exts
      BY <1>1, TargetType DEF Entry, SoleInv
    <3> QED BY <1>1, <3>1 DEF Content, HomeInv, SoleInv
  <2>6. \A r \in Content(a)[x] : r \notin Unused
    BY <2>4, <2>5 DEF Home, Unused
  <2> QED BY <1>1, <2>4, <2>6
<1> QED BY <1>2, <1>3

-----------------------------------------------------------------------------
(* What was acknowledged stays.                                            *)

(* An image of database s holds what was acknowledged there.               *)
Kept(asked, image, s) ==
  \A w \in asked : w.ok /\ w.store = s =>
    /\ w.op = "insert" /\ (\A v \in asked : v.op = "delete" => v.row # w.row) =>
         w.table \in DOMAIN image /\ w.row \in image[w.table]
    /\ w.op = "delete" /\ w.table \in DOMAIN image => w.row \notin image[w.table]

(* No two aliases of a component that holds its catalogs in memory are     *)
(* attached to one database.                                               *)
OwnInv ==
  \A a, b \in Aliases : attached[a] # NoEntry /\ attached[b] # NoEntry /\ a # b =>
    installed \in Direct \/ attached[a].store # attached[b].store

(* Every database holds what was acknowledged, and so does the image that  *)
(* the next write through a writable alias starts from.                    *)
KeptInv ==
  /\ \A s \in Stores : Kept(log, stores[s], s)
  /\ \A a \in Aliases : attached[a] # NoEntry /\ ~attached[a].readOnly =>
       Kept(log, Content(a), attached[a].store)

(* Where there are databases that are not files, the component writes them *)
(* itself.                                                                 *)
WrittenBack == Exts \subseteq Direct \/ Stores \subseteq Files

LEMMA KeptStill ==
  ASSUME NEW old, NEW new, old \subseteq new, NEW image, NEW s, Kept(old, image, s),
         \A w \in new : w \in old \/ w.store # s \/ ~w.ok
  PROVE  Kept(new, image, s)
BY DEF Kept

LEMMA KeptAfter ==
  ASSUME NEW old, NEW new, old \subseteq new, NEW image, NEW s, Kept(old, image, s),
         NEW t, NEW out, NEW changes, Outcome(image, t, out, changes),
         t \in DOMAIN image => Removed(changes) \subseteq image[t],
         Removed(changes) \cap Added(changes) = {},
         \A w \in old : w.row \notin Added(changes),
         \A w \in new : w \in old \/ /\ w.table = t /\ (w.ok => out.ok)
                                     /\ \/ w.op = "delete" /\ w.row \in Removed(changes)
                                        \/ w.op = "insert" /\ w.row \in Added(changes),
         \A r \in Removed(changes) : \E w \in new : w.op = "delete" /\ w.row = r
  PROVE  Kept(new, out.image, s)
<1> SUFFICES ASSUME NEW w \in new, w.ok, w.store = s
             PROVE  /\ w.op = "insert" /\ (\A v \in new : v.op = "delete" => v.row # w.row) =>
                         w.table \in DOMAIN out.image /\ w.row \in out.image[w.table]
                    /\ w.op = "delete" /\ w.table \in DOMAIN out.image => w.row \notin out.image[w.table]
  BY DEF Kept
<1>1. CASE w \in old
  <2>1. ASSUME w.op = "insert", \A v \in new : v.op = "delete" => v.row # w.row
        PROVE  w.table \in DOMAIN out.image /\ w.row \in out.image[w.table]
    <3>1. w.table \in DOMAIN image /\ w.row \in image[w.table]
      BY <1>1, <2>1 DEF Kept
    <3>2. w.row \notin Removed(changes)
      BY <2>1
    <3> QED BY <3>1, <3>2 DEF Outcome
  <2>2. ASSUME w.op = "delete", w.table \in DOMAIN out.image, w.row \in out.image[w.table]
        PROVE  FALSE
    <3>1. w.table \in DOMAIN image /\ w.row \in image[w.table]
      BY <1>1, <2>2 DEF Outcome
    <3> QED BY <1>1, <2>2, <3>1 DEF Kept
  <2> QED BY <2>1, <2>2
<1>2. CASE w \notin old
  <2>1. /\ w.table = t /\ out.ok
        /\ \/ w.op = "delete" /\ w.row \in Removed(changes)
           \/ w.op = "insert" /\ w.row \in Added(changes)
    BY <1>2
  <2>2. /\ t \in DOMAIN out.image
        /\ Added(changes) \subseteq out.image[t] /\ Removed(changes) \cap out.image[t] = {}
    BY <2>1 DEF Outcome
  <2> QED BY <2>1, <2>2
<1> QED BY <1>1, <1>2

LEMMA KeptInit == CarefulInit => OwnInv /\ KeptInv
<1> SUFFICES ASSUME CarefulInit PROVE OwnInv /\ KeptInv
  OBVIOUS
<1>1. \A a \in Aliases : attached[a] = NoEntry
  BY DEF CarefulInit, Init, Fresh
<1>2. \A s \in Stores : Kept(log, stores[s], s)
  BY DEF CarefulInit, Init, Kept
<1> QED BY <1>1, <1>2 DEF OwnInv, KeptInv

LEMMA KeptStatement ==
  ASSUME TypeOK, SoleInv, HomeInv, OwnInv, KeptInv, "diskfull" \notin Faults, WrittenBack,
         NEW t \in Tables, SeenInv(t), installed' = installed,
         NEW a \in Aliases, NEW x \in Tables, NEW out, NEW changes, Statement(a, x, out, changes)
  PROVE  OwnInv' /\ KeptInv'
<1> DEFINE s == attached[a].store
<1>1. PICK ok : Effect(a, x, out, changes, ok)
  BY StatementEffect
<1>2. attached[a] # NoEntry /\ UNCHANGED attached /\ Added(changes) \subseteq Unused
  BY DEF Statement, Quiet
<1>3. installed \in Exts /\ s \in Stores /\ attached[a] \in Entry
  BY <1>2, TargetType DEF Entry, SoleInv
<1>4. OwnInv'
  BY <1>2 DEF OwnInv
<1>5. ok \in BOOLEAN /\ Asks(a, x, changes, ok) /\ (ok => out.ok)
  BY <1>1 DEF Effect
<1>6. CASE log' = log /\ UNCHANGED <<catalogs, stores>>
  <2>1. \A b \in Aliases : Content(b)' = Content(b)
    BY <1>2, <1>6 DEF Content
  <2> QED BY <1>2, <1>4, <1>6, <2>1 DEF KeptInv
<1>7. CASE Logs(a, x, changes, ok)
  <2>1. log \subseteq log' /\ \A w \in log' : w \in log \/ (w.store = s /\ (w.ok => ok /\ ~attached[a].readOnly))
    BY <1>7 DEF Logs
  <2>2. ASSUME NEW image, NEW z, z # s, Kept(log, image, z)
        PROVE  Kept(log', image, z)
    <3>1. \A w \in log' : w \in log \/ w.store # z \/ ~w.ok
      BY <2>1, <2>2
    <3> QED BY <2>1, <2>2, <3>1, KeptStill
  <2>3. ASSUME Kept(log, Content(a), s)
        PROVE  Kept(log', out.image, s)
    <3>1. Outcome(Content(a), x, out, changes)
      BY <1>1 DEF Effect
    <3>2. /\ x \in DOMAIN Content(a) => Removed(changes) \subseteq Content(a)[x]
          /\ Removed(changes) \cap Added(changes) = {}
      BY RemovedThere
    <3>3. \A w \in log : w.row \notin Added(changes)
      BY <1>2 DEF Unused
    <3>4. \A w \in log' : w \in log \/ /\ w.table = x /\ (w.ok => out.ok)
                                       /\ \/ w.op = "delete" /\ w.row \in Removed(changes)
                                          \/ w.op = "insert" /\ w.row \in Added(changes)
      BY <1>5, <1>7 DEF Logs
    <3>5. \A r \in Removed(changes) : \E w \in log' : w.op = "delete" /\ w.row = r
      BY <1>7 DEF Logs
    <3> HIDE DEF s
    <3> QED BY <2>1, <2>3, <3>1, <3>2, <3>3, <3>4, <3>5, KeptAfter
  <2>4. Kept(log', stores'[s], s)
    <3>1. CASE installed \in Direct
      <4>1. Content(a) = stores[s] /\ stores'[s] = out.image
        BY <1>1, <3>1 DEF Effect, Content
      <4> QED BY <1>3, <2>3, <4>1 DEF KeptInv
    <3>2. CASE installed \notin Direct /\ stores'[s] = stores[s] /\ (ok => ~Backs(a))
      <4>1. ok => attached[a].readOnly
        BY <1>2, <1>3, <3>2 DEF Backs, WrittenBack, SoleInv
      <4>2. \A w \in log' : w \in log \/ w.store # s \/ ~w.ok
        BY <2>1, <4>1
      <4>3. Kept(log, stores[s], s)
        BY <1>3 DEF KeptInv
      <4> HIDE DEF s
      <4> QED BY <2>1, <3>2, <4>2, <4>3, KeptStill
    <3>3. CASE installed \notin Direct /\ Backs(a) /\ stores'[s] = out.image
      BY <1>2, <2>3, <3>3 DEF KeptInv, Backs
    <3> QED BY <1>1, <3>1, <3>2, <3>3 DEF Effect
  <2>5. ASSUME NEW z \in Stores
        PROVE  Kept(log', stores'[z], z)
    <3>1. CASE z # s
      BY <1>1, <2>2, <3>1 DEF Effect, KeptInv
    <3> QED BY <2>4, <3>1
  <2>6. ASSUME NEW b \in Aliases, attached[b] # NoEntry, ~attached[b].readOnly
        PROVE  Kept(log', Content(b)', attached[b].store)
    <3>1. CASE installed \in Direct
      <4>1. Content(b)' = stores'[attached[b].store] /\ attached[b].store \in Stores
        BY <1>2, <2>6, <3>1, TargetType DEF Content, Entry
      <4> QED BY <2>5, <4>1
    <3>2. CASE installed \notin Direct
      <4> DEFINE h == attached[b].handle
      <4>1. Content(b)' = catalogs'[installed][h].image /\ Content(b) = catalogs[installed][h].image
        BY <1>2, <3>2 DEF Content
      <4>2. h \in DOMAIN catalogs[installed] /\ catalogs[installed][h].store = attached[b].store
        BY <2>6 DEF SoleInv
      <4>3. CASE b = a
        <5>1. catalogs'[installed][h].image = out.image
          BY <1>1, <1>2, <1>3, <3>2, <4>2, <4>3, EffectCatalogs
        <5> QED BY <2>3, <2>6, <4>1, <4>3, <5>1 DEF KeptInv
      <4>4. CASE b # a
        <5>1. attached[b].store # s
          BY <1>2, <2>6, <3>2, <4>4 DEF OwnInv
        <5>2. h # attached[a].handle
          BY <1>2, <4>2, <5>1 DEF SoleInv
        <5>3. catalogs'[installed][h] = catalogs[installed][h]
          BY <1>1, <1>2, <1>3, <4>2, <5>2, EffectCatalogs
        <5> QED BY <2>2, <2>6, <4>1, <5>1, <5>3 DEF KeptInv
      <4> QED BY <4>3, <4>4
    <3> QED BY <3>1, <3>2
  <2> QED BY <1>2, <1>4, <2>5, <2>6 DEF KeptInv
<1> QED BY <1>2, <1>4, <1>5, <1>6, <1>7, AsksLogs

(* An ATTACH leaves what the attached aliases work on.                     *)
LEMMA ContentStays ==
  ASSUME TypeOK, SoleInv, NEW a \in Aliases, NEW ty \in Types, NEW dsn \in Dsns, NEW done,
         Grafts(a, ty, dsn, done), installed' = installed,
         NEW b \in Aliases, attached[b] # NoEntry, attached'[b] = attached[b]
  PROVE  Content(b)' = Content(b)
<1>1. UNCHANGED stores /\ \A h \in DOMAIN catalogs[installed] : catalogs'[installed][h] = catalogs[installed][h]
  BY GraftsCatalogs
<1>2. attached[b].handle \in DOMAIN catalogs[installed]
  BY DEF SoleInv
<1> QED BY <1>1, <1>2 DEF Content

LEMMA KeptNext ==
  ASSUME TypeOK, SoleInv, HomeInv, OwnInv, KeptInv, "diskfull" \notin Faults, WrittenBack,
         NEW t \in Tables, SeenInv(t),
         [CarefulNext /\ UNCHANGED installed]_<<vars, installed>>
  PROVE  OwnInv' /\ KeptInv'
<1>0. installed' = installed
  OBVIOUS
<1>1. CASE Load(installed)
  BY <1>0, <1>1 DEF Load, OwnInv, KeptInv, Content
<1>2. ASSUME NEW a \in Aliases, NEW ty \in Types, NEW dsn \in Dsns, AttachFails(a, ty, dsn)
      PROVE  OwnInv' /\ KeptInv'
  <2>1. PICK done : Grafts(a, ty, dsn, done)
    BY <1>2, AttachGrafts
  <2>2. attached' = attached
    BY <1>2, AttachGrafts
  <2>3. UNCHANGED <<stores, log>>
    BY <2>1, GraftsCatalogs
  <2>4. \A b \in Aliases : attached[b] # NoEntry => Content(b)' = Content(b)
    BY <1>0, <2>1, <2>2, ContentStays
  <2> QED BY <1>0, <2>2, <2>3, <2>4 DEF OwnInv, KeptInv
<1>3. ASSUME NEW a \in Aliases, NEW ty \in Types, NEW dsn \in Dsns, NEW ro \in Modes,
             Attach(a, ty, dsn, ro), OwnDatabases
      PROVE  OwnInv' /\ KeptInv'
  <2>1. Grafts(a, ty, dsn, Listed(dsn))
    BY <1>3, AttachGrafts
  <2>2. UNCHANGED <<stores, log>> /\ Resolve = installed
    BY <2>1, GraftsCatalogs
  <2>3. catalogs'[installed][NewHandle] = storage_attach(dsn)
    BY <2>1, GraftsCatalogs
  <2>4. attached'[a].handle = NewHandle /\ attached'[a].store = StoreOf[dsn]
    BY <1>3, Entered
  <2>5. \A b \in Aliases : b # a => attached'[b] = attached[b]
    BY <1>3, Entered
  <2>6. OwnInv'
    <3>1. SoleInv'
      BY <1>0, <1>3, SoleNext DEF CarefulNext
    <3> QED BY <1>0, <1>3, <3>1 DEF OwnInv, OwnDatabases, SoleInv
  <2>7. Content(a)' = stores[StoreOf[dsn]] /\ StoreOf[dsn] \in Stores
    BY <1>0, <2>2, <2>3, <2>4, StorageAssumption DEF Content, storage_attach, Staged
  <2>8. ASSUME NEW b \in Aliases, attached'[b] # NoEntry, ~attached'[b].readOnly
        PROVE  Kept(log', Content(b)', attached'[b].store)
    <3>1. CASE b = a
      BY <2>2, <2>4, <2>7, <3>1 DEF KeptInv
    <3>2. CASE b # a
      <4>1. attached'[b] = attached[b]
        BY <2>5, <3>2
      <4>2. Content(b)' = Content(b)
        BY <1>0, <2>1, <2>8, <4>1, ContentStays
      <4> QED BY <2>2, <2>8, <4>1, <4>2 DEF KeptInv
    <3> QED BY <3>1, <3>2
  <2> QED BY <2>2, <2>6, <2>8 DEF KeptInv
<1>4. ASSUME NEW a \in Aliases, Detach(a)
      PROVE  OwnInv' /\ KeptInv'
  BY <1>0, <1>4 DEF Detach, OwnInv, KeptInv, Content
<1>5. ASSUME NEW a \in Aliases, NEW x \in Tables,
             Insert(a, x) \/ Update(a, x) \/ Delete(a, x) \/ CreateTable(a, x)
      PROVE  OwnInv' /\ KeptInv'
  BY <1>0, <1>5, StatementIs, KeptStatement
<1>6. CASE Restart
  BY <1>0, <1>6 DEF Restart, OwnInv, KeptInv
<1>7. CASE UNCHANGED <<vars, installed>>
  BY <1>7 DEF vars, OwnInv, KeptInv, Content
<1> QED BY <1>1, <1>2, <1>3, <1>4, <1>5, <1>6, <1>7 DEF CarefulNext

-----------------------------------------------------------------------------

(* Where the databases share a table and no write is cut short, SELECT,    *)
(* the pre-scan of UPDATE and DELETE and the writes of an alias work on    *)
(* the same rows, wherever an ATTACH or a statement fails.                 *)
THEOREM ViewsReadBack ==
  ASSUME SharedTable, "diskfull" \notin Faults
  PROVE  CarefulSpec => []ReadsBack
<1>1. PICK t \in Tables : \A s \in Stores : t \in DOMAIN Existing[s]
  BY DEF SharedTable
<1>2. CarefulInit => SeenInv(t)
  BY <1>1, SeenInit
<1>3. TypeOK /\ SoleInv /\ SeenInv(t) /\ [CarefulNext /\ UNCHANGED installed]_<<vars, installed>> =>
        SeenInv(t)'
  BY SeenNext
<1>4. TypeOK /\ SoleInv /\ SeenInv(t) => ReadsBack
  BY SeenReadsBack
<1> QED BY <1>2, <1>3, <1>4, CarefulTypes, PTL DEF CarefulSpec

(* In the same deployments a row whose INSERT was acknowledged is in the   *)
(* foreign database until its removal is asked for, and one whose removal  *)
(* was acknowledged is not: through failing calls, write-backs that fail,  *)
(* READ_ONLY aliases and the end of a session anywhere.                    *)
THEOREM WritesAreDurable ==
  ASSUME SharedTable, WrittenBack, "diskfull" \notin Faults
  PROVE  CarefulSpec => []Durable
<1>1. PICK t \in Tables : \A s \in Stores : t \in DOMAIN Existing[s]
  BY DEF SharedTable
<1>2. CarefulInit => SeenInv(t) /\ OwnInv /\ KeptInv
  BY <1>1, SeenInit, KeptInit
<1>3. TypeOK /\ SoleInv /\ HomeInv /\ SeenInv(t) /\ OwnInv /\ KeptInv
        /\ [CarefulNext /\ UNCHANGED installed]_<<vars, installed>> =>
      SeenInv(t)' /\ OwnInv' /\ KeptInv'
  BY SeenNext, KeptNext
<1>4. TypeOK /\ KeptInv => Durable
  <2>1. TypeOK => \A w \in log : w.store \in Stores
    BY DEF TypeOK, Write
  <2> QED BY <2>1 DEF KeptInv, Kept, Durable
<1> QED BY <1>2, <1>3, <1>4, CarefulTypes, PTL DEF CarefulSpec
=============================================================================
