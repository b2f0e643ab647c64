------------------------- MODULE ReplicationProofs -------------------------
(***************************************************************************)
(* Replication, for any database, any clock and any number of failures:    *)
(* what a successful backup covers stays published, what the object store  *)
(* publishes only becomes newer, and a restore returns nothing older than  *)
(* what was published when it began.                                       *)
(***************************************************************************)
EXTENDS Replication, TLAPS

Uploading == pc \in {"upload", "pointer", "state"}

(* Uploads come from one process, and each carries the newest image so     *)
(* far: no object is newer than the bytes that are being uploaded.         *)
Ordered ==
  \A t \in Times : objects[t] # None =>
    /\ objects[t].image <= file
    /\ Uploading => objects[t].image <= raw

(* The pointer names an object; it is moved after that object is there.    *)
Pointed ==
  /\ latest # None => objects[latest] # None
  /\ pc \in {"pointer", "state"} => objects[ts] # None /\ objects[ts].image = raw
  /\ pc = "state" => latest = ts

(* The checkpoint puts what the core opened into the bytes that are read.  *)
Covered ==
  /\ pc = "read" => view <= file
  /\ Uploading => view <= raw
  /\ NotOlder(Published, acked)

(* What the restore holds is at least as new as its floor, step by step.   *)
Pulled ==
  /\ rpc # "idle" => NotOlder(Published, floor)
  /\ rpc = "object" => objects[key] # None /\ NotOlder(objects[key].image, floor)
  /\ rpc \in {"write", "writing"} => NotOlder(got, floor)
  /\ RestoreFresh /\ RestoreFinds

IInv == TypeOK /\ Ordered /\ Pointed /\ Covered /\ Pulled

-----------------------------------------------------------------------------
(* The objects are replaced one at a time, by what is read.                *)
LEMMA CompressType ==
  ASSUME NEW image \in Commits
  PROVE  Compress(image) \in Object /\ Compress(image).image = image
PROOF
  <1>1. DbSize[image] \in Nat /\ Width \in Nat /\ Width > 0
    BY ReplicationAssumption DEF ReplicationAssumption, Commits
  <1>2. DbSize[image] % Width \in Nat
    BY <1>1
  <1> QED
    BY <1>2 DEF Compress, Object

LEMMA Facts ==
  /\ MaxCommits \in Nat /\ MaxCrashes \in Nat /\ MaxFailures \in Nat
  /\ None \notin Nat /\ Torn \notin Nat /\ None # Torn /\ None \notin Times
PROOF
  BY ReplicationAssumption DEF ReplicationAssumption

LEMMA BudgetType ==
  ASSUME StoreOK, Fail \/ UNCHANGED <<crashes, failures>>
  PROVE  crashes' \in 0..MaxCrashes /\ failures' \in 0..MaxFailures
PROOF
  BY Facts DEF StoreOK, Fail

LEMMA InitIInv == Init => IInv
PROOF
  BY ReplicationAssumption
  DEF Init, IInv, TypeOK, StoreOK, BackupOK, RestoreOK, Ordered, Pointed, Covered, Pulled, Published, NotOlder,
      ReplicationAssumption, Commits, Ended, RestoreFresh, RestoreFinds, Uploading

LEMMA NextIInv == IInv /\ [Next]_vars => IInv'
PROOF
  <1> SUFFICES ASSUME IInv, [Next]_vars PROVE IInv'
    OBVIOUS
  <1>1. CASE Commit
    <2> USE Facts DEF IInv, TypeOK, Commit,
      database, store, backup, restore, budget, Fail, SnapshotFails, RestoreFails
    <2>1. StoreOK'
      BY <1>1 DEF StoreOK, Commits
    <2>2. Ordered'
      BY <1>1 DEF StoreOK, BackupOK, Ordered, Uploading, Object, Commits
    <2>3. Pointed'
      BY <1>1 DEF Pointed
    <2>4. Covered'
      BY <1>1 DEF StoreOK, BackupOK, Covered, Uploading, Published, NotOlder
    <2>5. Pulled'
      BY <1>1 DEF Pulled, Published, NotOlder, RestoreFresh, RestoreFinds
    <2>6. BackupOK'
      BY <1>1 DEF StoreOK, BackupOK, Commits
    <2>7. RestoreOK'
      BY <1>1 DEF RestoreOK
    <2> QED
      BY <2>1, <2>2, <2>3, <2>4, <2>5, <2>6, <2>7
  <1>2. CASE WriterCheckpoint
    <2> USE Facts DEF IInv, TypeOK, WriterCheckpoint,
      database, store, backup, restore, budget, Fail, SnapshotFails, RestoreFails
    <2>1. StoreOK'
      BY <1>2 DEF StoreOK, Commits
    <2>2. Ordered'
      BY <1>2 DEF StoreOK, BackupOK, Ordered, Uploading, Object, Commits
    <2>3. Pointed'
      BY <1>2 DEF Pointed
    <2>4. Covered'
      BY <1>2 DEF StoreOK, BackupOK, Covered, Uploading, Published, NotOlder
    <2>5. Pulled'
      BY <1>2 DEF Pulled, Published, NotOlder, RestoreFresh, RestoreFinds
    <2>6. BackupOK'
      BY <1>2 DEF StoreOK, BackupOK, Commits
    <2>7. RestoreOK'
      BY <1>2 DEF RestoreOK
    <2> QED
      BY <2>1, <2>2, <2>3, <2>4, <2>5, <2>6, <2>7
  <1>3. CASE Start
    <2> USE Facts DEF IInv, TypeOK, Start,
      database, store, backup, restore, budget, Fail, SnapshotFails, RestoreFails
    <2>1. StoreOK'
      <3>1. crashes' \in 0..MaxCrashes /\ failures' \in 0..MaxFailures
        BY <1>3, BudgetType
      <3> QED
        BY <1>3, <3>1 DEF StoreOK, BackupOK, Object, Commits
    <2>6. BackupOK'
      BY <1>3 DEF StoreOK, BackupOK, BackupSteps, Commits
    <2>7. RestoreOK'
      BY <1>3 DEF StoreOK, RestoreOK, Ended, Object, Commits
    <2>2. Ordered'
      BY <1>3 DEF StoreOK, BackupOK, RestoreOK, Ordered, Uploading, Object, Commits, BackupSteps
    <2>3. Pointed'
      BY <1>3 DEF StoreOK, BackupOK, RestoreOK, Ordered, Pointed, Uploading, Object, Commits, BackupSteps
    <2>4. Covered'
      BY <1>3 DEF StoreOK, BackupOK, RestoreOK, Ordered, Pointed, Covered, Uploading, Published, NotOlder, Object, Commits, BackupSteps
    <2>5. Pulled'
      BY <1>3 DEF StoreOK, BackupOK, RestoreOK, Ordered, Pointed, Pulled, Uploading, Published, NotOlder, RestoreFresh, RestoreFinds, Object, Commits, Ended
    <2> QED
      BY <2>1, <2>2, <2>3, <2>4, <2>5, <2>6, <2>7
  <1>4. CASE CheckpointDb
    <2> USE Facts DEF IInv, TypeOK, CheckpointDb,
      database, store, backup, restore, budget, Fail, SnapshotFails, RestoreFails
    <2>1. StoreOK'
      <3>1. committed' \in Commits /\ file' \in 0..committed'
        BY <1>4 DEF StoreOK, BackupOK, Commits
      <3>2. crashes' \in 0..MaxCrashes /\ failures' \in 0..MaxFailures
        BY <1>4, BudgetType
      <3> QED
        BY <1>4, <3>1, <3>2 DEF StoreOK
    <2>6. BackupOK'
      BY <1>4 DEF StoreOK, BackupOK, BackupSteps, Commits
    <2>7. RestoreOK'
      BY <1>4 DEF StoreOK, RestoreOK, Ended, Object, Commits
    <2>2. Ordered'
      <3>1. file' \in Int /\ file' >= file /\ file \in Int
        BY <1>4 DEF StoreOK, BackupOK
      <3>2. \A t \in Times : objects[t] # None => objects[t].image \in Int
        BY DEF StoreOK, Object, Commits
      <3> QED
        BY <1>4, <3>1, <3>2 DEF Ordered, Uploading
    <2>3. Pointed'
      BY <1>4 DEF StoreOK, BackupOK, RestoreOK, Ordered, Pointed, Uploading, Object, Commits, BackupSteps
    <2>4. Covered'
      BY <1>4 DEF StoreOK, BackupOK, RestoreOK, Ordered, Pointed, Covered, Uploading, Published, NotOlder, Object, Commits, BackupSteps
    <2>5. Pulled'
      BY <1>4 DEF StoreOK, BackupOK, RestoreOK, Ordered, Pointed, Pulled, Uploading, Published, NotOlder, RestoreFresh, RestoreFinds, Object, Commits, Ended
    <2> QED
      BY <2>1, <2>2, <2>3, <2>4, <2>5, <2>6, <2>7
  <1>5. CASE ReadDb
    <2> USE Facts DEF IInv, TypeOK, ReadDb,
      database, store, backup, restore, budget, Fail, SnapshotFails, RestoreFails
    <2>1. StoreOK'
      <3>1. crashes' \in 0..MaxCrashes /\ failures' \in 0..MaxFailures
        BY <1>5, BudgetType
      <3> QED
        BY <1>5, <3>1 DEF StoreOK, BackupOK, Object, Commits
    <2>6. BackupOK'
      BY <1>5 DEF StoreOK, BackupOK, BackupSteps, Commits
    <2>7. RestoreOK'
      BY <1>5 DEF StoreOK, RestoreOK, Ended, Object, Commits
    <2>2. Ordered'
      <3>1. \A t \in Times : objects[t] # None => objects[t].image \in Int
        BY DEF StoreOK, Object, Commits
      <3> QED
        BY <1>5, <3>1 DEF StoreOK, BackupOK, Ordered, Uploading
    <2>3. Pointed'
      BY <1>5 DEF StoreOK, BackupOK, RestoreOK, Ordered, Pointed, Uploading, Object, Commits, BackupSteps
    <2>4. Covered'
      BY <1>5 DEF StoreOK, BackupOK, RestoreOK, Ordered, Pointed, Covered, Uploading, Published, NotOlder, Object, Commits, BackupSteps
    <2>5. Pulled'
      BY <1>5 DEF StoreOK, BackupOK, RestoreOK, Ordered, Pointed, Pulled, Uploading, Published, NotOlder, RestoreFresh, RestoreFinds, Object, Commits, Ended
    <2> QED
      BY <2>1, <2>2, <2>3, <2>4, <2>5, <2>6, <2>7
  <1>6. CASE PutSnapshot
    <2> USE ReplicationAssumption DEF ReplicationAssumption, IInv, TypeOK,
      database, store, backup, restore, budget
    <2> DEFINE uploaded == [objects EXCEPT ![ts] = Compress(raw)]
    <2>1. /\ pc = "upload" /\ objects' \in {objects, uploaded}
          /\ pc' = "pointer" => objects' = uploaded
          /\ pc' \in {"pointer", "down", "sleep"}
          /\ UNCHANGED <<committed, file, latest, sidecar, view, raw, ts, generation,
                         acked, rpc, key, got, dest, floor, crashes>>
          /\ failures' = failures \/ (failures < MaxFailures /\ failures' = failures + 1)
      BY <1>6 DEF PutSnapshot, SnapshotFails, Fail
    <2>2. ts \in Times /\ raw \in Commits /\ raw <= file /\ objects \in [Times -> Object \cup {None}]
      BY <2>1 DEF StoreOK, BackupOK, Commits
    <2>3. Compress(raw) \in Object /\ Compress(raw).image = raw /\ Compress(raw) # None
      BY <2>2, CompressType
    <2>4. /\ uploaded \in [Times -> Object \cup {None}] /\ uploaded[ts] = Compress(raw)
          /\ \A t \in Times : t # ts => uploaded[t] = objects[t]
      BY <2>2, <2>3
    <2> HIDE DEF uploaded
    <2>5. \A t \in Times : objects[t] # None =>
            /\ objects'[t] # None
            /\ objects[t].image \in Nat /\ objects[t].image <= raw
            /\ objects'[t].image \in Nat /\ objects'[t].image >= objects[t].image
      BY <2>1, <2>2, <2>3, <2>4 DEF Ordered, Uploading, Object, Commits
    <2>6. \A t \in Times : objects'[t] # None =>
            objects'[t].image \in Nat /\ objects'[t].image <= raw
      BY <2>1, <2>2, <2>3, <2>4, <2>5 DEF Object, Commits
    <2>7. StoreOK'
      BY <2>1, <2>2, <2>3, <2>4 DEF StoreOK
    <2>8. BackupOK' /\ RestoreOK'
      BY <2>1 DEF BackupOK, RestoreOK, BackupSteps
    <2>9. Ordered'
      BY <2>1, <2>2, <2>6 DEF Ordered, Commits, StoreOK
    <2>10. Pointed'
      BY <2>1, <2>2, <2>3, <2>4, <2>5 DEF Pointed, StoreOK
    <2>11. NotOlder(Published', Published) /\ Published' \in Nat \cup {None}
           /\ Published \in Nat \cup {None}
      BY <2>1, <2>2, <2>5 DEF NotOlder, Published, Pointed, StoreOK
    <2>12. Covered'
      BY <2>1, <2>11 DEF Covered, Uploading, BackupOK, NotOlder
    <2>13. Pulled'
      BY <2>1, <2>5, <2>11 DEF Pulled, RestoreOK, NotOlder, RestoreFresh, RestoreFinds, Commits
    <2> QED
      BY <2>7, <2>8, <2>9, <2>10, <2>12, <2>13
  <1>7. CASE PutLatest
    <2> USE Facts DEF IInv, TypeOK, PutLatest,
      database, store, backup, restore, budget, Fail, SnapshotFails, RestoreFails
    <2>1. StoreOK'
      <3>1. latest' \in Times \cup {None}
        BY <1>7 DEF StoreOK, BackupOK
      <3>2. crashes' \in 0..MaxCrashes /\ failures' \in 0..MaxFailures
        BY <1>7, BudgetType
      <3> QED
        BY <1>7, <3>1, <3>2 DEF StoreOK
    <2>6. BackupOK'
      BY <1>7 DEF StoreOK, BackupOK, BackupSteps, Commits
    <2>7. RestoreOK'
      BY <1>7 DEF StoreOK, RestoreOK, Ended, Object, Commits
    <2>2. Ordered'
      BY <1>7 DEF StoreOK, BackupOK, RestoreOK, Ordered, Uploading, Object, Commits, BackupSteps
    <2>3. Pointed'
      BY <1>7 DEF StoreOK, BackupOK, RestoreOK, Ordered, Pointed, Uploading, Object, Commits, BackupSteps
    <2>4. Covered'
      BY <1>7 DEF StoreOK, BackupOK, RestoreOK, Ordered, Pointed, Covered, Uploading, Published, NotOlder, Object, Commits, BackupSteps
    <2>5. Pulled'
      BY <1>7 DEF StoreOK, BackupOK, RestoreOK, Ordered, Pointed, Pulled, Uploading, Published, NotOlder, RestoreFresh, RestoreFinds, Object, Commits, Ended
    <2> QED
      BY <2>1, <2>2, <2>3, <2>4, <2>5, <2>6, <2>7
  <1>8. CASE PutState
    <2> USE Facts DEF IInv, TypeOK, PutState, NextGeneration,
      database, store, backup, restore, budget, Fail, SnapshotFails, RestoreFails
    <2>1. StoreOK'
      <3>1. NextGeneration \in Nat
        BY DEF NextGeneration, BackupOK
      <3>2. sidecar' \in [generation : Nat, ts : Times] \cup {None}
        BY <1>8, <3>1 DEF StoreOK, BackupOK
      <3>3. crashes' \in 0..MaxCrashes /\ failures' \in 0..MaxFailures
        BY <1>8, BudgetType
      <3> QED
        BY <1>8, <3>2, <3>3 DEF StoreOK
    <2>6. BackupOK'
      BY <1>8 DEF StoreOK, BackupOK, BackupSteps, Commits
    <2>7. RestoreOK'
      BY <1>8 DEF StoreOK, RestoreOK, Ended, Object, Commits
    <2>2. Ordered'
      BY <1>8 DEF StoreOK, BackupOK, RestoreOK, Ordered, Uploading, Object, Commits, BackupSteps
    <2>3. Pointed'
      BY <1>8 DEF StoreOK, BackupOK, RestoreOK, Ordered, Pointed, Uploading, Object, Commits, BackupSteps
    <2>4. Covered'
      BY <1>8 DEF StoreOK, BackupOK, RestoreOK, Ordered, Pointed, Covered, Uploading, Published, NotOlder, Object, Commits, BackupSteps
    <2>5. Pulled'
      BY <1>8 DEF StoreOK, BackupOK, RestoreOK, Ordered, Pointed, Pulled, Uploading, Published, NotOlder, RestoreFresh, RestoreFinds, Object, Commits, Ended
    <2> QED
      BY <2>1, <2>2, <2>3, <2>4, <2>5, <2>6, <2>7
  <1>9. CASE Wake
    BY <1>9, Facts
    DEF Wake, IInv, TypeOK, StoreOK, BackupOK, RestoreOK, Ordered, Pointed, Covered, Pulled, Published, NotOlder, Uploading,
      Ended, BackupSteps, RestoreFresh, RestoreFinds, Object, Commits,
      database, store, backup, restore, budget, Fail, SnapshotFails, RestoreFails
  <1>10. CASE CrashBackup
    BY <1>10, Facts
    DEF CrashBackup, IInv, TypeOK, StoreOK, BackupOK, RestoreOK, Ordered, Pointed, Covered, Pulled, Published, NotOlder, Uploading,
      Ended, BackupSteps, RestoreFresh, RestoreFinds, Object, Commits,
      database, store, backup, restore, budget, Fail, SnapshotFails, RestoreFails
  <1>11. CASE BeginRestore
    BY <1>11, Facts
    DEF BeginRestore, IInv, TypeOK, StoreOK, BackupOK, RestoreOK, Ordered, Pointed, Covered, Pulled, Published, NotOlder, Uploading,
      Ended, BackupSteps, RestoreFresh, RestoreFinds, Object, Commits,
      database, store, backup, restore, budget, Fail, SnapshotFails, RestoreFails
  <1>12. CASE GetLatest
    <2> USE Facts DEF IInv, TypeOK, GetLatest, Pointer,
      database, store, backup, restore, budget, Fail, SnapshotFails, RestoreFails
    <2>1. StoreOK'
      <3>1. crashes' \in 0..MaxCrashes /\ failures' \in 0..MaxFailures
        BY <1>12, BudgetType
      <3> QED
        BY <1>12, <3>1 DEF StoreOK, BackupOK, Object, Commits
    <2>6. BackupOK'
      BY <1>12 DEF StoreOK, BackupOK, BackupSteps, Commits
    <2>7. RestoreOK'
      BY <1>12 DEF StoreOK, RestoreOK, Ended, Object, Commits
    <2>2. Ordered'
      BY <1>12 DEF StoreOK, BackupOK, RestoreOK, Ordered, Uploading, Object, Commits, BackupSteps
    <2>3. Pointed'
      BY <1>12 DEF StoreOK, BackupOK, RestoreOK, Ordered, Pointed, Uploading, Object, Commits, BackupSteps
    <2>4. Covered'
      BY <1>12 DEF StoreOK, BackupOK, RestoreOK, Ordered, Pointed, Covered, Uploading, Published, NotOlder, Object, Commits, BackupSteps
    <2>5. Pulled'
      BY <1>12 DEF StoreOK, BackupOK, RestoreOK, Ordered, Pointed, Pulled, Uploading, Published, NotOlder, RestoreFresh, RestoreFinds, Object, Commits, Ended
    <2> QED
      BY <2>1, <2>2, <2>3, <2>4, <2>5, <2>6, <2>7
  <1>13. CASE GetSnapshot
    <2> USE Facts DEF IInv, TypeOK, GetSnapshot,
      database, store, backup, restore, budget, Fail, SnapshotFails, RestoreFails
    <2>1. StoreOK'
      <3>1. crashes' \in 0..MaxCrashes /\ failures' \in 0..MaxFailures
        BY <1>13, BudgetType
      <3> QED
        BY <1>13, <3>1 DEF StoreOK, BackupOK, Object, Commits
    <2>6. BackupOK'
      BY <1>13 DEF StoreOK, BackupOK, BackupSteps, Commits
    <2>7. RestoreOK'
      BY <1>13 DEF StoreOK, RestoreOK, Ended, Object, Commits
    <2>2. Ordered'
      BY <1>13 DEF StoreOK, BackupOK, RestoreOK, Ordered, Uploading, Object, Commits, BackupSteps
    <2>3. Pointed'
      BY <1>13 DEF StoreOK, BackupOK, RestoreOK, Ordered, Pointed, Uploading, Object, Commits, BackupSteps
    <2>4. Covered'
      BY <1>13 DEF StoreOK, BackupOK, RestoreOK, Ordered, Pointed, Covered, Uploading, Published, NotOlder, Object, Commits, BackupSteps
    <2>5. Pulled'
      BY <1>13 DEF StoreOK, BackupOK, RestoreOK, Ordered, Pointed, Pulled, Uploading, Published, NotOlder, RestoreFresh, RestoreFinds, Object, Commits, Ended
    <2> QED
      BY <2>1, <2>2, <2>3, <2>4, <2>5, <2>6, <2>7
  <1>14. CASE Truncate
    BY <1>14, Facts
    DEF Truncate, IInv, TypeOK, StoreOK, BackupOK, RestoreOK, Ordered, Pointed, Covered, Pulled, Published, NotOlder, Uploading,
      Ended, BackupSteps, RestoreFresh, RestoreFinds, Object, Commits,
      database, store, backup, restore, budget, Fail, SnapshotFails, RestoreFails
  <1>15. CASE WriteDest
    <2> USE Facts DEF IInv, TypeOK, WriteDest,
      database, store, backup, restore, budget, Fail, SnapshotFails, RestoreFails
    <2>1. StoreOK'
      <3>1. crashes' \in 0..MaxCrashes /\ failures' \in 0..MaxFailures
        BY <1>15, BudgetType
      <3> QED
        BY <1>15, <3>1 DEF StoreOK, BackupOK, Object, Commits
    <2>6. BackupOK'
      BY <1>15 DEF StoreOK, BackupOK, BackupSteps, Commits
    <2>7. RestoreOK'
      BY <1>15 DEF StoreOK, RestoreOK, Ended, Object, Commits
    <2>2. Ordered'
      BY <1>15 DEF StoreOK, BackupOK, RestoreOK, Ordered, Uploading, Object, Commits, BackupSteps
    <2>3. Pointed'
      BY <1>15 DEF StoreOK, BackupOK, RestoreOK, Ordered, Pointed, Uploading, Object, Commits, BackupSteps
    <2>4. Covered'
      BY <1>15 DEF StoreOK, BackupOK, RestoreOK, Ordered, Pointed, Covered, Uploading, Published, NotOlder, Object, Commits, BackupSteps
    <2>5. Pulled'
      BY <1>15 DEF StoreOK, BackupOK, RestoreOK, Ordered, Pointed, Pulled, Uploading, Published, NotOlder, RestoreFresh, RestoreFinds, Object, Commits, Ended
    <2> QED
      BY <2>1, <2>2, <2>3, <2>4, <2>5, <2>6, <2>7
  <1>16. CASE CrashRestore
    BY <1>16, Facts
    DEF CrashRestore, IInv, TypeOK, StoreOK, BackupOK, RestoreOK, Ordered, Pointed, Covered, Pulled, Published, NotOlder, Uploading,
      Ended, BackupSteps, RestoreFresh, RestoreFinds, Object, Commits,
      database, store, backup, restore, budget, Fail, SnapshotFails, RestoreFails
  <1>17. CASE UNCHANGED vars
    BY <1>17 DEF vars, IInv, TypeOK, StoreOK, BackupOK, RestoreOK, Ordered, Pointed, Covered, Pulled, Published, NotOlder, Uploading,
      Ended, BackupSteps, RestoreFresh, RestoreFinds, Object, Commits,
      database, store, backup, restore, budget, Fail, SnapshotFails, RestoreFails
  <1> QED
    BY <1>1, <1>2, <1>3, <1>4, <1>5, <1>6, <1>7, <1>8, <1>9, <1>10, <1>11, <1>12, <1>13, <1>14, <1>15, <1>16, <1>17 DEF Next

-----------------------------------------------------------------------------
THEOREM Invariance == Spec => []IInv
PROOF
  BY InitIInv, NextIInv, PTL DEF Spec

(* Type correctness of replication, and of the steps' preconditions: a     *)
(* process that uploads has a timestamp, a restore that writes an image.   *)
THEOREM ReplicationTyping == Spec => []TypeOK
PROOF
  BY Invariance, PTL DEF IInv

(* A restore that succeeds wrote an image as new as the published one was  *)
(* when it began, whatever backups, failures and crashes came in between;  *)
(* one that finds nothing began before anything was published.             *)
THEOREM RestoresSafely == Spec => []Restores
PROOF
  <1>1. IInv => Restores
    BY DEF IInv, Pulled, Restores
  <1> QED
    BY <1>1, Invariance, PTL

(* What a successful backup found when its core opened the database is     *)
(* published from then on.                                                 *)
THEOREM BackupsCover == Spec => []BackupCovers
PROOF
  <1>1. IInv => BackupCovers
    BY DEF IInv, Covered, BackupCovers
  <1> QED
    BY <1>1, Invariance, PTL

-----------------------------------------------------------------------------
(* The two uploads that can change what is published only make it newer.   *)
LEMMA PublishedGrows ==
  ASSUME IInv, IInv', PutSnapshot \/ PutLatest
  PROVE  /\ NotOlder(Published', Published)
         /\ Published' \in Nat \cup {None}
PROOF
  <1> USE ReplicationAssumption DEF ReplicationAssumption, IInv, TypeOK, Commits, Object
  <1>1. Published' \in Nat \cup {None} /\ Published \in Nat \cup {None}
    BY DEF Published, StoreOK, Pointed
  <1>2. ts \in Times /\ raw \in Nat
    BY DEF PutSnapshot, PutLatest, BackupOK, StoreOK
  <1>3. CASE PutSnapshot
    <2>1. latest' = latest /\ objects' \in {objects, [objects EXCEPT ![ts] = Compress(raw)]}
      BY <1>3 DEF PutSnapshot
    <2>2. raw \in Commits /\ Compress(raw).image = raw /\ Compress(raw) # None
      <3>1. raw \in Commits
        BY DEF StoreOK, BackupOK
      <3>2. Compress(raw) \in Object /\ Compress(raw).image = raw
        BY <3>1, CompressType
      <3> QED
        BY <3>1, <3>2
    <2>3. \A t \in Times : objects[t] # None =>
            objects'[t] # None /\ objects[t].image \in Nat
            /\ (objects'[t] = objects[t] \/ objects'[t].image = raw) /\ objects[t].image <= raw
      <3> SUFFICES ASSUME NEW t \in Times, objects[t] # None
                   PROVE  objects'[t] # None /\ objects[t].image \in Nat
                          /\ (objects'[t] = objects[t] \/ objects'[t].image = raw) /\ objects[t].image <= raw
        OBVIOUS
      <3>1. objects[t].image \in Nat /\ objects \in [Times -> Object \cup {None}]
        BY DEF StoreOK
      <3>2. objects[t].image <= raw
        BY <1>2, <1>3 DEF PutSnapshot, Ordered, Uploading
      <3>3. objects'[t] \in {objects[t], Compress(raw)}
        BY <2>1, <3>1
      <3> QED
        BY <2>2, <3>1, <3>2, <3>3
    <2>4. CASE latest = None
      BY <1>1, <2>1, <2>4 DEF NotOlder, Published
    <2>5. CASE latest # None
      <3>1. latest \in Times /\ objects[latest] # None
        BY <2>5 DEF StoreOK, Pointed
      <3>2. Published = objects[latest].image /\ Published' = objects'[latest].image
        BY <2>1, <2>3, <2>5, <3>1 DEF Published
      <3> QED
        BY <1>1, <1>2, <2>3, <3>1, <3>2 DEF NotOlder
    <2> QED
      BY <2>4, <2>5
  <1>4. CASE PutLatest
    <2>1. objects' = objects /\ latest' \in {latest, ts} /\ objects[ts] # None /\ objects[ts].image = raw
      BY <1>4 DEF PutLatest, Pointed
    <2>2. \A t \in Times : objects[t] # None => objects[t].image \in Nat /\ objects[t].image <= raw
      BY <1>4 DEF StoreOK, PutLatest, Ordered, Uploading
    <2> QED
      BY <1>1, <1>2, <2>1, <2>2 DEF NotOlder, Published, StoreOK
  <1> QED
    BY <1>3, <1>4

(* The object store implements a register that only moves to newer images, *)
(* and a restore reads it no earlier than it began.                        *)
THEOREM RegisterRefinement == Spec => RegisterSpec
PROOF
  <1> DEFINE answered == IF rpc = "restored" THEN dest ELSE None
  <1>1. Init => Register!Init
    BY DEF Init, Register!Init, Published
  <1>2. ASSUME IInv, IInv', [Next]_vars
        PROVE  [Register!Next]_(Register!vars)
    <2> USE DEF Register!vars, Register!Next
    <2>1. CASE BeginRestore
      <3>1. Published' = Published /\ floor' = Published /\ rpc' = "latest"
        BY <2>1 DEF BeginRestore, store, Published
      <3> QED
        BY <3>1 DEF Register!Begin
    <2>2. CASE WriteDest
      <3>1. Published' = Published /\ floor' = floor /\ rpc = "writing"
        BY <2>2 DEF WriteDest, store, Published
      <3>2. rpc' = "failed" \/ (rpc' = "restored" /\ dest' = got)
        BY <2>2 DEF WriteDest, RestoreFails
      <3>3. got \in Nat /\ Register!NotOlder(got, floor)
        <4>1. got \in Nat
          BY <1>2, <3>1, ReplicationAssumption
          DEF IInv, TypeOK, RestoreOK, Commits, ReplicationAssumption
        <4>2. NotOlder(got, floor)
          BY <1>2, <3>1 DEF IInv, Pulled
        <4> QED
          BY <4>1, <4>2 DEF NotOlder, Register!NotOlder
      <3> QED
        BY <3>1, <3>2, <3>3 DEF Register!Return
    <2>3. CASE PutSnapshot \/ PutLatest
      <3>1. UNCHANGED <<rpc, dest, floor>>
        BY <2>3 DEF PutSnapshot, PutLatest, restore
      <3>2. NotOlder(Published', Published) /\ Published' \in Nat \cup {None}
        BY <1>2, <2>3, PublishedGrows
      <3> QED
        BY <3>1, <3>2 DEF Register!Publish, NotOlder, Register!NotOlder
    <2>4. CASE \/ Commit \/ WriterCheckpoint \/ Start \/ CheckpointDb \/ ReadDb
               \/ PutState \/ Wake \/ CrashBackup \/ UNCHANGED vars
      <3>1. UNCHANGED <<objects, latest, rpc, dest, floor>>
        BY <2>4 DEF Commit, WriterCheckpoint, Start, CheckpointDb, ReadDb, PutState, Wake,
                    CrashBackup, vars, store, restore
      <3> QED
        BY <3>1 DEF Published
    <2>5. CASE GetLatest \/ GetSnapshot \/ Truncate \/ CrashRestore
      <3>1. UNCHANGED <<objects, latest, floor>> /\ rpc # "restored" /\ rpc' # "restored"
        BY <2>5 DEF GetLatest, GetSnapshot, Truncate, CrashRestore, RestoreFails, Ended, store
      <3> QED
        BY <3>1 DEF Published
    <2> QED
      BY <1>2, <2>1, <2>2, <2>3, <2>4, <2>5 DEF Next
  <1> QED
    BY <1>1, <1>2, Invariance, PTL DEF Spec, RegisterSpec, Register!Spec
=============================================================================
