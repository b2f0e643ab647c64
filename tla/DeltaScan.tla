----------------------------- MODULE DeltaScan -----------------------------
(* delta_scan('dir') in a statement on its way to the core                 *)
(* (delta_rewrite.rs): the host reads the log of the Delta table in dir    *)
(* from its own file system and puts read_parquet over the table's active  *)
(* files in place of the call. Other processes commit to the tables in the *)
(* meantime, a directory is not listed in one step, and the file system    *)
(* may fail.                                                               *)
(*                                                                         *)
(* A text is a sequence of atoms (SqlText), a directory a sequence of      *)
(* names. A commit is one file, published whole and never changed.         *)
(* Checkpoints and the removal of old commits are left out: the code does  *)
(* not look at the one and is misled by the other.                         *)
EXTENDS SqlText

CONSTANTS
  Files,       \* data files; a writer adds each one once
  Hosts,       \* host directories of tables
  Preopens,    \* <<host directory, guest directory>>, in the order given
  Scans,       \* texts of statements
  Dirs,        \* what the literals in them name: atom -> guest directory
  MaxCommits,  \* bound: commits of each table
  Faults,      \* what may fail: "open" (read_dir), "entry" (its entries), "read" (a file)
  NoFiles      \* the call is left as it is

VARIABLES
  logs,        \* per table, the commits: sequences of [op, path]
  text,        \* the statement being rewritten
  nth,         \* the call that is next
  listing,     \* the commits when the listing began, {} when none is under way
  out          \* history: per call, its files, the versions it may stand for,
               \* and whether the log could not be read

deltaVars == <<logs, text, nth, listing, out>>

ASSUME DeltaAssumption ==
  /\ IsFiniteSet(Files)
  /\ \A S \in SUBSET Files : NoFiles \notin [1..Cardinality(S) -> Files]
  /\ \A t \in Scans : t \in Seq(Range(t))

AddLine(p) == [op |-> "add", path |-> p]
RemoveLine(p) == [op |-> "remove", path |-> p]
OtherLine == [op |-> "other", path |-> NoFiles]   \* metaData, commitInfo, a line that is no JSON

-----------------------------------------------------------------------------
(* What the code computes.                                                 *)

\* A set of positions or of versions, from the first to the last.
Ascending(S) ==
  CHOOSE f \in [1..Cardinality(S) -> S] : Range(f) = S /\ \A i, j \in DOMAIN f : i < j => f[i] < f[j]

Replay(acc, line) ==
  CASE line.op = "add" /\ line.path \notin acc.active ->
         [order |-> Append(acc.order, line.path), active |-> acc.active \cup {line.path}]
    [] line.op = "remove" -> [acc EXCEPT !.active = @ \ {line.path}]
    [] OTHER -> acc

\* The active files in the order of their add actions.
active_files(log) ==
  LET end == FoldLeft(Replay, [order |-> <<>>, active |-> {}], log)
      kept == {k \in DOMAIN end.order : end.order[k] \in end.active}
  IN [i \in 1..Cardinality(kept) |-> end.order[Ascending(kept)[i]]]

\* The lines of commits, by version.
LinesOf(t, versions) ==
  FlattenSeq([i \in 1..Cardinality(versions) |-> logs[t][Ascending(versions)[i]]])

\* Faulty variant: a commit that cannot be read is skipped.
SkipUnreadable(t, versions, unreadable) == [ok |-> TRUE, log |-> LinesOf(t, versions \ unreadable)]

\* One commit that cannot be read is an error of the whole log.
read_log_from_host(t, versions, unreadable) ==
  [ok |-> unreadable = {}, log |-> LinesOf(t, versions \ unreadable)]

\* Every delta_scan('...') starts here, those in a literal or a comment too.
find_delta_scan_calls(t) ==
  {i \in 1..(Len(t) - 5) : /\ t[i] = "delta_scan" /\ t[i + 1] = "("
                           /\ t[i + 2] = Quote /\ t[i + 3] \in DOMAIN Dirs /\ t[i + 4] = Quote
                           /\ t[i + 5] = ")"}

ScanCalls(t) == Ascending(find_delta_scan_calls(t))

\* The mount with the longest guest directory in front of dir, the first of
\* those, and what is left of dir.
resolve_guest_dir(dir) ==
  LET mounts == {k \in DOMAIN Preopens : IsPrefix(Preopens[k][2], dir)}
      best == {k \in mounts : \A m \in mounts : Len(Preopens[m][2]) <= Len(Preopens[k][2])}
  IN IF mounts = {} THEN NoFiles
     ELSE Preopens[Min(best)][1] \o SubSeq(dir, Len(Preopens[Min(best)][2]) + 1, Len(dir))

\* No table there: an empty log.
CommitsOf(host) == IF host \in Hosts THEN DOMAIN logs[host] ELSE {}

\* No active file: no read_parquet.
build_read_parquet(files) == IF files = <<>> THEN NoFiles ELSE files

\* What is put in place of a call, NoFiles for the call itself.
Replacement(read) == IF read.ok THEN build_read_parquet(active_files(read.log)) ELSE NoFiles

-----------------------------------------------------------------------------
DeltaInit ==
  /\ logs = [t \in Hosts |-> << <<OtherLine>> >>]
  /\ text = <<>> /\ nth = 1 /\ listing = {} /\ out = <<>>

Host == resolve_guest_dir(Dirs[text[ScanCalls(text)[nth] + 3]])

rewrite_delta_scan ==
  /\ text = <<>>
  /\ text' \in Scans
  /\ UNCHANGED <<logs, nth, listing, out>>

Push(files, from, to, failed) ==
  /\ out' = Append(out, [host |-> Host, files |-> files, from |-> from, to |-> to, failed |-> failed])
  /\ nth' = nth + 1 /\ listing' = {}

\* The call cannot be resolved, or has no table; its log cannot be listed, or
\* begins to be.
Resolve ==
  /\ text # <<>> /\ nth <= Len(ScanCalls(text)) /\ listing = {}
  /\ \/ Host \notin Hosts /\ Push(NoFiles, 0, 0, FALSE)
     \/ Host \in Hosts /\ "open" \in Faults /\ Push(NoFiles, 0, 0, TRUE)
     \/ Host \in Hosts /\ listing' = CommitsOf(Host) /\ UNCHANGED <<nth, out>>
  /\ UNCHANGED <<logs, text>>

\* The listing has every commit that was there, and any of the later ones. An
\* entry that fails is passed over (`filter_map(|e| e.ok())`).
Read ==
  /\ listing # {}
  /\ \E late \in SUBSET (CommitsOf(Host) \ listing) :
     \E passed \in IF "entry" \in Faults THEN SUBSET (listing \cup late) ELSE {{}} :
     \E unreadable \in IF "read" \in Faults THEN SUBSET ((listing \cup late) \ passed) ELSE {{}} :
       Push(Replacement(read_log_from_host(Host, (listing \cup late) \ passed, unreadable)),
              Max(listing), Max(CommitsOf(Host)), unreadable # {})
  /\ UNCHANGED <<logs, text>>

\* The statement is executed by the core.
Executed ==
  /\ text # <<>> /\ nth > Len(ScanCalls(text))
  /\ text' = <<>> /\ nth' = 1 /\ out' = <<>>
  /\ UNCHANGED <<logs, listing>>

-----------------------------------------------------------------------------
(* The writers, in other processes.                                        *)

\* The files that are active after version v, read off the commits.
LiveAt(t, v) ==
  {p \in Files : \E i \in 1..v : /\ Contains(logs[t][i], AddLine(p))
                                 /\ \A j \in i..v : ~Contains(logs[t][j], RemoveLine(p))}

Added(t) == {p \in Files : \E i \in DOMAIN logs[t] : Contains(logs[t][i], AddLine(p))}

\* A commit's lines. It adds and removes different files: their order in it
\* does not matter.
Lines(adds, removes) ==
  <<OtherLine>> \o SetToSeq({AddLine(p) : p \in adds}) \o SetToSeq({RemoveLine(p) : p \in removes})

Commit(t) ==
  /\ Len(logs[t]) < MaxCommits[t]
  /\ \E adds \in SUBSET (Files \ Added(t)), removes \in SUBSET LiveAt(t, Len(logs[t])) :
       logs' = [logs EXCEPT ![t] = Append(@, Lines(adds, removes))]
  /\ UNCHANGED <<text, nth, listing, out>>

DeltaNext ==
  \/ rewrite_delta_scan \/ Resolve \/ Read \/ Executed
  \/ \E t \in Hosts : Commit(t)

DeltaSpec == DeltaInit /\ [][DeltaNext]_deltaVars

-----------------------------------------------------------------------------
\* The files that a call reads are at least those that were active all the
\* time it took, and at most those that were active at some time of it, each
\* once, however many commits come in between. With one of them at most they
\* are the active files of one version ("honoring the log"). A call is left
\* alone only where that is nothing, or where the log cannot be read: it never
\* reads part of a log.
LiveDuring(o) == UNION {LiveAt(o.host, v) : v \in o.from..o.to}
LiveThroughout(o) == {p \in LiveDuring(o) : \A v \in o.from..o.to : p \in LiveAt(o.host, v)}

FilesOf(o) == IF o.files = NoFiles THEN {} ELSE Range(o.files)

OneVersion ==
  \A k \in DOMAIN out :
    LET o == out[k] IN
    IF o.failed \/ o.host \notin Hosts THEN o.files = NoFiles
    ELSE /\ LiveThroughout(o) \subseteq FilesOf(o) /\ FilesOf(o) \subseteq LiveDuring(o)
         /\ o.to <= o.from + 1 => \E v \in o.from..o.to : FilesOf(o) = LiveAt(o.host, v)
         /\ o.files # NoFiles => Len(o.files) = Cardinality(FilesOf(o))
=============================================================================
