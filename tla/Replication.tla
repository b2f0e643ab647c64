---------------------------- MODULE Replication ----------------------------
(***************************************************************************)
(* `ducklink backup` and `ducklink restore`: checkpoint-snapshot           *)
(* replication of one database file to an object store (replicate.rs).     *)
(*                                                                         *)
(* A snapshot is five steps of one process: CHECKPOINT, read the file,     *)
(* upload `snapshots/{ts}`, move the pointer `latest`, upload              *)
(* `state.json`.  Any of them can fail, an upload may take effect although *)
(* its answer is lost, and the process can die between any two.  A restore *)
(* follows the pointer, at any moment, in a process of its own.            *)
(*                                                                         *)
(* An image of the database is the number of the last commit in it.        *)
(***************************************************************************)
EXTENDS Integers

CONSTANTS
  Times,            \* the milliseconds now_millis may return
  Continuous,       \* --interval was given
  DbSize,           \* the size of the database after each commit
  Width,            \* the length lz4 prepends is a number below Width (2^32)
  None,             \* an absent object, pointer, image or timestamp
  Torn,             \* a file that was truncated and not written to its end
  MaxCommits,       \* bounds: commits of the other processes,
  MaxCrashes,       \*   deaths of the backup and restore processes,
  MaxFailures,      \*   failing calls,
  MaxGeneration     \*   generations told apart (higher ones look alike)

VARIABLES
  committed,        \* commits made by the processes that own the database
  file,             \* the image in the database file (the rest is in its WAL)
  objects,          \* snapshots/{ts}, by ts: image and prepended length
  latest,           \* the object `latest`: a ts
  sidecar,          \* the object `state.json`: generation and ts
  pc,               \* the next step of snapshot_once; "down" without a process
  view,             \* the image that the backup's core opened
  raw,              \* the bytes read from the file
  ts,               \* the timestamp of this snapshot
  generation,       \* `state.generation` of this backup process: 0 before its first snapshot
  acked,            \* history: the newest view whose backup reported success
  rpc,              \* the next step of run_restore, or how it ended
  key,              \* the pointer it has read
  got,              \* the image it has decompressed
  dest,             \* the file it writes
  floor,            \* history: the image behind `latest` when it began
  crashes, failures \* uses of the bounds

database == <<committed, file>>
store == <<objects, latest, sidecar>>
backup == <<pc, view, raw, ts, generation, acked>>
restore == <<rpc, key, got, dest, floor>>
budget == <<crashes, failures>>
vars == <<database, store, backup, restore, budget>>

Commits == 0..MaxCommits

Object == [image : Commits, prefix : Nat]

ReplicationAssumption ==
  /\ MaxCommits \in Nat /\ MaxCrashes \in Nat /\ MaxFailures \in Nat
  /\ MaxGeneration \in Nat \ {0}
  /\ Width \in Nat \ {0}
  /\ DbSize \in [Commits -> Nat]
  /\ None \notin Nat /\ Torn \notin Nat /\ None # Torn
  /\ None \notin Times /\ None \notin Object
  /\ Continuous \in BOOLEAN

ASSUME ReplicationAssumption

(* lz4_flex::compress_prepend_size: the data, after its length as a u32.   *)
Compress(image) == [image |-> image, prefix |-> DbSize[image] % Width]

(* lz4_flex::decompress_size_prepended needs a buffer of the full length.  *)
Decompresses(object) == object.prefix = DbSize[object.image]

(* The image that a restore would find now.                                *)
Published ==
  IF latest = None \/ objects[latest] = None THEN None ELSE objects[latest].image

NotOlder(v, w) == w = None \/ (v # None /\ v >= w)

Init ==
  /\ committed = 0 /\ file = 0
  /\ objects = [t \in Times |-> None] /\ latest = None /\ sidecar = None
  /\ pc = "down" /\ view = 0 /\ raw = 0 /\ ts = None
  /\ generation = 0 /\ acked = None
  /\ rpc = "idle" /\ key = None /\ got = None /\ dest = None /\ floor = None
  /\ crashes = 0 /\ failures = 0

-----------------------------------------------------------------------------
(* The processes that own the database.                                    *)

Commit ==
  /\ committed < MaxCommits
  /\ committed' = committed + 1
  /\ UNCHANGED <<file, store, backup, restore, budget>>

(* A checkpoint of their own, automatic or at close.                       *)
WriterCheckpoint ==
  /\ file < committed
  /\ file' = committed
  /\ UNCHANGED <<committed, store, backup, restore, budget>>

-----------------------------------------------------------------------------
(* The backup process.                                                     *)

Fail == failures < MaxFailures /\ failures' = failures + 1 /\ UNCHANGED crashes

(* A `?` of snapshot_once: the first snapshot's error ends run_backup, a   *)
(* later one is logged and the loop sleeps until the next interval.        *)
SnapshotFails == Fail /\ pc' = IF generation = 0 THEN "down" ELSE "sleep"

(* S3Client::new and open_persistent: the core replays the WAL it finds.   *)
Start ==
  /\ pc = "down"
  /\ \/ /\ pc' = "checkpoint" /\ view' = committed
        /\ generation' = 0
        /\ UNCHANGED <<raw, ts, acked, budget>>
     \/ Fail /\ UNCHANGED backup
  /\ UNCHANGED <<database, store, restore>>

(* Faulty variant: no CHECKPOINT, what is in the WAL only is not shipped.  *)
CheckpointSkipped ==
  /\ pc = "checkpoint"
  /\ pc' = "read"
  /\ UNCHANGED <<database, store, view, raw, ts, generation, acked, restore, budget>>

(* CHECKPOINT moves what this core knows of into the file.                 *)
CheckpointDb ==
  /\ pc = "checkpoint"
  /\ \/ /\ file' = IF view > file THEN view ELSE file
        /\ pc' = "read" /\ UNCHANGED budget
     \/ SnapshotFails /\ UNCHANGED file
  /\ UNCHANGED <<committed, store, view, raw, ts, generation, acked, restore>>

(* Faulty variant: the bytes are read once per process.                    *)
ReadDbOnce ==
  /\ pc = "read"
  /\ raw' = (IF generation = 0 THEN file ELSE raw) /\ ts' \in Times
  /\ pc' = "upload"
  /\ UNCHANGED <<database, store, view, generation, acked, restore, budget>>

(* std::fs::read, compression, now_millis.                                 *)
ReadDb ==
  /\ pc = "read"
  /\ \/ /\ raw' = file /\ ts' \in Times
        /\ pc' = "upload" /\ UNCHANGED budget
     \/ SnapshotFails /\ UNCHANGED <<raw, ts>>
  /\ UNCHANGED <<database, store, view, generation, acked, restore>>

(* Faulty variant: a failing upload is ignored.                            *)
PutSnapshotUnchecked ==
  /\ pc = "upload"
  /\ \/ objects' = [objects EXCEPT ![ts] = Compress(raw)] /\ UNCHANGED budget
     \/ UNCHANGED objects /\ Fail
  /\ pc' = "pointer"
  /\ UNCHANGED <<database, latest, sidecar, view, raw, ts, generation, acked, restore>>

(* A PUT succeeds, or fails with or without having taken effect.           *)
PutSnapshot ==
  LET uploaded == [objects EXCEPT ![ts] = Compress(raw)] IN
  /\ pc = "upload"
  /\ \/ objects' = uploaded /\ pc' = "pointer" /\ UNCHANGED budget
     \/ objects' \in {objects, uploaded} /\ SnapshotFails
  /\ UNCHANGED <<database, latest, sidecar, view, raw, ts, generation, acked, restore>>

PutLatest ==
  /\ pc = "pointer"
  /\ \/ latest' = ts /\ pc' = "state" /\ UNCHANGED budget
     \/ latest' \in {latest, ts} /\ SnapshotFails
  /\ UNCHANGED <<database, objects, sidecar, view, raw, ts, generation, acked, restore>>

NextGeneration == IF generation < MaxGeneration THEN generation + 1 ELSE generation

(* The new state becomes the process's own only after the last upload.     *)
PutState ==
  LET state == [generation |-> NextGeneration, ts |-> ts] IN
  /\ pc = "state"
  /\ \/ /\ sidecar' = state
        /\ pc' = IF Continuous THEN "sleep" ELSE "down"
        /\ generation' = NextGeneration /\ acked' = view
        /\ UNCHANGED budget
     \/ /\ sidecar' \in {sidecar, state}
        /\ SnapshotFails
        /\ UNCHANGED <<generation, acked>>
  /\ UNCHANGED <<database, objects, latest, view, raw, ts, restore>>

Wake ==
  /\ pc = "sleep"
  /\ pc' = "checkpoint"
  /\ UNCHANGED <<database, store, view, raw, ts, generation, acked, restore, budget>>

CrashBackup ==
  /\ pc # "down" /\ crashes < MaxCrashes
  /\ pc' = "down" /\ crashes' = crashes + 1
  /\ UNCHANGED <<database, store, view, raw, ts, generation, acked, restore, failures>>

Snapshot == CheckpointDb \/ ReadDb \/ PutSnapshot \/ PutLatest \/ PutState \/ Wake

-----------------------------------------------------------------------------
(* The restore process.  state.json only names the file it writes.         *)

Ended == {"idle", "restored", "missing", "corrupt", "failed"}

BeginRestore ==
  /\ rpc \in Ended
  /\ rpc' = "latest" /\ floor' = Published
  /\ key' = None /\ got' = None
  /\ UNCHANGED <<database, store, backup, dest, budget>>

RestoreFails == Fail /\ rpc' = "failed"

(* Faulty variant: the key is taken from state.json where there is one.    *)
PointerOfState == IF sidecar = None THEN latest ELSE sidecar.ts

(* Which snapshot to pull: `latest` is authoritative.                      *)
Pointer == latest

GetLatest ==
  /\ rpc = "latest"
  /\ \/ Pointer = None /\ rpc' = "missing" /\ UNCHANGED <<key, budget>>
     \/ Pointer # None /\ rpc' = "object" /\ key' = Pointer /\ UNCHANGED budget
     \/ RestoreFails /\ UNCHANGED key
  /\ UNCHANGED <<database, store, backup, got, dest, floor>>

GetSnapshot ==
  /\ rpc = "object"
  /\ \/ objects[key] = None /\ rpc' = "missing" /\ UNCHANGED <<got, budget>>
     \/ /\ objects[key] # None /\ Decompresses(objects[key])
        /\ rpc' = "write" /\ got' = objects[key].image /\ UNCHANGED budget
     \/ /\ objects[key] # None /\ ~Decompresses(objects[key])
        /\ rpc' = "corrupt" /\ UNCHANGED <<got, budget>>
     \/ RestoreFails /\ UNCHANGED got
  /\ UNCHANGED <<database, store, backup, key, dest, floor>>

(* std::fs::write truncates first, and can fail before the last byte.      *)
Truncate ==
  /\ rpc = "write"
  /\ dest' = Torn /\ rpc' = "writing"
  /\ UNCHANGED <<database, store, backup, key, got, floor, budget>>

WriteDest ==
  /\ rpc = "writing"
  /\ \/ dest' = got /\ rpc' = "restored" /\ UNCHANGED budget
     \/ RestoreFails /\ UNCHANGED dest
  /\ UNCHANGED <<database, store, backup, key, got, floor>>

CrashRestore ==
  /\ rpc \notin Ended /\ crashes < MaxCrashes
  /\ rpc' = "failed" /\ crashes' = crashes + 1
  /\ UNCHANGED <<database, store, backup, key, got, dest, floor, failures>>

Restore == BeginRestore \/ GetLatest \/ GetSnapshot \/ Truncate \/ WriteDest

-----------------------------------------------------------------------------
Next ==
  \/ Commit \/ WriterCheckpoint
  \/ Start \/ CheckpointDb \/ ReadDb \/ PutSnapshot \/ PutLatest \/ PutState \/ Wake
  \/ CrashBackup
  \/ BeginRestore \/ GetLatest \/ GetSnapshot \/ Truncate \/ WriteDest
  \/ CrashRestore

Spec == Init /\ [][Next]_vars

(* run_backup's loop always takes its next step; nothing makes it start.   *)
FairSpec == Spec /\ WF_vars(Snapshot)

-----------------------------------------------------------------------------
BackupSteps == {"checkpoint", "read", "upload", "pointer", "state", "sleep"}

StoreOK ==
  /\ committed \in Commits /\ file \in 0..committed
  /\ objects \in [Times -> Object \cup {None}]
  /\ latest \in Times \cup {None}
  /\ sidecar \in [generation : Nat, ts : Times] \cup {None}
  /\ crashes \in 0..MaxCrashes /\ failures \in 0..MaxFailures

BackupOK ==
  /\ pc \in BackupSteps \cup {"down"}
  /\ view \in 0..committed /\ raw \in 0..file /\ acked \in 0..committed \cup {None}
  /\ generation \in Nat /\ ts \in Times \cup {None}
  /\ pc \in {"upload", "pointer", "state"} => ts # None

RestoreOK ==
  /\ rpc \in Ended \cup {"latest", "object", "write", "writing"}
  /\ key \in Times \cup {None} /\ got \in Commits \cup {None}
  /\ rpc = "object" => key # None
  /\ rpc \in {"write", "writing"} => got # None
  /\ dest \in Commits \cup {None, Torn} /\ floor \in Commits \cup {None}

(* Type correctness; a process past the read has a timestamp, one past the *)
(* pointer has a pointer that names an object, and a restore that writes   *)
(* has an image.                                                           *)
TypeOK == StoreOK /\ BackupOK /\ RestoreOK

(* A restore that reports success has written a whole image, and one that  *)
(* is not older than what `latest` named when the restore began, whatever  *)
(* backups and crashes came in between.                                    *)
RestoreFresh == rpc = "restored" => dest \in Nat /\ NotOlder(dest, floor)

(* A restore finds no snapshot only if there was none when it began: the   *)
(* pointer never names an object that was not uploaded.                    *)
RestoreFinds == rpc = "missing" => floor = None

(* What a restore that comes to an end without an error may say.           *)
Restores == RestoreFresh /\ RestoreFinds

(* A backup that reported success holds every commit made before it was    *)
(* started, those that were still in the WAL included, and it stays so.    *)
BackupCovers == NotOlder(Published, acked)

(* The object store is a register that only moves to newer images.         *)
Register == INSTANCE SnapshotRegister
              WITH Nothing <- None, published <- Published, floor <- floor,
                   answer <- IF rpc = "restored" THEN dest ELSE None

RegisterSpec == Register!Spec

(* While a backup runs, what is in the database file gets published.       *)
Shipped ==
  \A v \in Commits :
    (pc # "down" /\ file >= v) ~> (pc = "down" \/ NotOlder(Published, v))

=============================================================================
