---------------------------- MODULE Persistence ----------------------------
(***************************************************************************)
(* The snapshot protocol of class Persistence in                           *)
(* include/ddbplugin/Persistence.h: a snapshot is written to <name>.tmp    *)
(* and renamed to <name>.snapshot by commit(); the constructor first moves *)
(* the previous snapshot to <name>.bak.                                    *)
(*                                                                         *)
(* One engine name, one writer object and one reader object at a time; the *)
(* two may overlap.  The process may crash between any two system calls:   *)
(* what the file system holds survives, the objects do not.                *)
(***************************************************************************)
EXTENDS Integers

CONSTANT MaxSave        \* bound: writer objects created

ASSUME MaxSaveAssumption == MaxSave \in Nat

VARIABLES
    snapshot, tmp, bak, \* the three files
    writer,             \* where the writer object is
    reader,             \* where the reader object is
    ver,                \* the version the current or last writer writes
    flushed,            \* history: the writer's flush and close did not fail
    committed,          \* history: the last version commit() returned for
    cut,                \* history: its flush or close had failed
    previous,           \* history: what the commit before put into place
    abandoned           \* history: a save was given up since the last commit

fileVars == <<snapshot, tmp, bak>>
history == <<flushed, committed, cut, previous>>
snapshotVars == <<fileVars, writer, reader, ver, history, abandoned>>

\* A file holds one version, all of it or only a part.
NoFile    == [ver |-> 0, whole |-> FALSE]
Whole(v)  == [ver |-> v, whole |-> TRUE]
Part(v)   == [ver |-> v, whole |-> FALSE]
Exists(f) == f # NoFile

\* What a commit puts into place.
Image(v, c) == IF c THEN Part(v) ELSE Whole(v)

SnapshotInit ==
    /\ snapshot = NoFile
    /\ tmp = NoFile
    /\ bak = NoFile
    /\ writer = "idle"
    /\ reader = "idle"
    /\ ver = 0
    /\ flushed = FALSE
    /\ committed = 0
    /\ cut = FALSE
    /\ previous = NoFile
    /\ abandoned = FALSE

-----------------------------------------------------------------------------
(***************************************************************************)
(* Persistence(..., forWriting = true), the serialization, commit()        *)
(***************************************************************************)

\* An exception leaves the constructor, the serialization or commit(), and
\* the object is gone.
GiveUp ==
    /\ writer' = "idle"
    /\ abandoned' = TRUE
    /\ UNCHANGED <<snapshot, bak, history>>

OpenWriter ==
    /\ writer = "idle"
    /\ ver < MaxSave
    /\ ver' = ver + 1
    /\ writer' = IF Exists(tmp) THEN "rmTmp" ELSE "snap?"
    /\ UNCHANGED <<fileVars, reader, history, abandoned>>

\* std::remove(tmpPath_), its result unchecked.
WriterRemoveTmp ==
    /\ writer = "rmTmp"
    /\ tmp' \in {NoFile, tmp}
    /\ writer' = "snap?"
    /\ UNCHANGED <<snapshot, bak, reader, ver, history, abandoned>>

\* Mutant: the backup is dropped whether or not there is a snapshot.
MutCheckSnapshotNever ==
    /\ writer = "snap?"
    /\ writer' = IF Exists(bak) THEN "rmBak"
                 ELSE IF Exists(snapshot) THEN "mvBak" ELSE "open"
    /\ UNCHANGED <<fileVars, reader, ver, history, abandoned>>

\* fileExists(snapshotPath_) and fileExists(bakPath_).
CheckSnapshot ==
    /\ writer = "snap?"
    /\ \/ ~Exists(snapshot) /\ writer' = "open"
       \/ Exists(snapshot) /\ Exists(bak) /\ writer' = "rmBak"
       \/ Exists(snapshot) /\ ~Exists(bak) /\ writer' = "mvBak"
    /\ UNCHANGED <<fileVars, reader, ver, history, abandoned>>

\* std::remove(bakPath_), its result unchecked.
RemoveBak ==
    /\ writer = "rmBak"
    /\ bak' \in {NoFile, bak}
    /\ writer' = "mvBak"
    /\ UNCHANGED <<snapshot, tmp, reader, ver, history, abandoned>>

\* rename(snapshotPath_, bakPath_), or the exception when it fails.
MoveToBak ==
    /\ writer = "mvBak"
    /\ \/ /\ bak' = snapshot
          /\ snapshot' = NoFile
          /\ writer' = "open"
          /\ UNCHANGED <<history, abandoned>>
       \/ GiveUp
    /\ UNCHANGED <<tmp, reader, ver>>

\* Serializer(tmpPath_, true): fopen with "wb".
OpenTmp ==
    /\ writer = "open"
    /\ \/ /\ tmp' = Part(ver)
          /\ writer' = "write"
          /\ UNCHANGED <<snapshot, bak, history, abandoned>>
       \/ GiveUp /\ UNCHANGED tmp
    /\ UNCHANGED <<reader, ver>>

\* The caller's operator<< calls, any of which may throw.
Write ==
    /\ writer = "write"
    /\ \/ /\ writer' = "close"
          /\ UNCHANGED <<snapshot, bak, history, abandoned>>
       \/ GiveUp
    /\ UNCHANGED <<tmp, reader, ver>>

\* serializer_.close(): flush, then close, their results unchecked.  The bytes
\* reach the file the writer opened, all of them or, on a full disk, a part;
\* when tmpPath_ no longer names that file they reach nothing.
Close ==
    /\ writer = "close"
    /\ flushed' \in BOOLEAN
    /\ tmp' = IF tmp = Part(ver) THEN Image(ver, ~flushed') ELSE tmp
    /\ writer' = "commit"
    /\ UNCHANGED <<snapshot, bak, reader, ver, committed, cut, previous, abandoned>>

\* The history of a commit() that returns.
Committed ==
    /\ committed' = ver
    /\ cut' = ~flushed
    /\ previous' = IF committed = 0 THEN NoFile ELSE Image(committed, cut)
    /\ abandoned' = FALSE
    /\ UNCHANGED flushed

\* Mutant: commit() does not look at the result of rename.
MutCommitUnchecked ==
    /\ writer = "commit"
    /\ snapshot' = IF Exists(tmp) THEN tmp ELSE snapshot
    /\ tmp' = NoFile
    /\ writer' = "idle"
    /\ Committed
    /\ UNCHANGED <<bak, reader, ver>>

\* rename(tmpPath_, snapshotPath_), or the exception when it fails, as it
\* must when a reader has removed the file.
Commit ==
    /\ writer = "commit"
    /\ \/ /\ Exists(tmp)
          /\ snapshot' = tmp
          /\ tmp' = NoFile
          /\ writer' = "idle"
          /\ Committed
          /\ UNCHANGED bak
       \/ GiveUp /\ UNCHANGED tmp
    /\ UNCHANGED <<reader, ver>>

-----------------------------------------------------------------------------
(***************************************************************************)
(* Persistence(..., forWriting = false)                                    *)
(***************************************************************************)

\* The reading constructor too removes a temporary file it finds.
OpenReader ==
    /\ reader = "idle"
    /\ reader' = IF Exists(tmp) THEN "rmTmp" ELSE "snap?"
    /\ UNCHANGED <<fileVars, writer, ver, history, abandoned>>

ReaderRemoveTmp ==
    /\ reader = "rmTmp"
    /\ tmp' \in {NoFile, tmp}
    /\ reader' = "snap?"
    /\ UNCHANGED <<snapshot, bak, writer, ver, history, abandoned>>

\* Throws when there is no snapshot, bak or no bak.
CheckReadable ==
    /\ reader = "snap?"
    /\ reader' = IF Exists(snapshot) THEN "read" ELSE "idle"
    /\ UNCHANGED <<fileVars, writer, ver, history, abandoned>>

Read ==
    /\ reader = "read"
    /\ reader' = "idle"
    /\ UNCHANGED <<fileVars, writer, ver, history, abandoned>>

Crash ==
    /\ writer # "idle" \/ reader # "idle"
    /\ writer' = "idle"
    /\ reader' = "idle"
    /\ abandoned' = (abandoned \/ writer # "idle")
    /\ UNCHANGED <<fileVars, ver, history>>

-----------------------------------------------------------------------------
SnapshotNext ==
    \/ OpenWriter \/ WriterRemoveTmp \/ CheckSnapshot \/ RemoveBak \/ MoveToBak
    \/ OpenTmp \/ Write \/ Close \/ Commit
    \/ OpenReader \/ ReaderRemoveTmp \/ CheckReadable \/ Read
    \/ Crash

SnapshotSpec == SnapshotInit /\ [][SnapshotNext]_snapshotVars

-----------------------------------------------------------------------------
(***************************************************************************)
(* Properties                                                              *)
(***************************************************************************)

File == [ver : Nat, whole : BOOLEAN]

WriterPC ==
    {"idle", "rmTmp", "snap?", "rmBak", "mvBak", "open", "write", "close", "commit"}

SnapshotTypeOK ==
    /\ snapshot \in File
    /\ tmp \in File
    /\ bak \in File
    /\ writer \in WriterPC
    /\ reader \in {"idle", "rmTmp", "snap?", "read"}
    /\ ver \in Nat
    /\ flushed \in BOOLEAN
    /\ committed \in Nat
    /\ cut \in BOOLEAN
    /\ previous \in File
    /\ abandoned \in BOOLEAN

\* The last committed snapshot survives every crash, every failed save and a
\* reader that deletes the writer's temporary file: it is under its own name
\* or, when that name is free, under the backup's.  It is whole if the flush
\* of its writer did not fail; otherwise commit(), which does not look, has
\* put a part into place.
LatestSurvives ==
    IF committed = 0 THEN snapshot = NoFile
    ELSE \/ snapshot = Image(committed, cut)
         \/ snapshot = NoFile /\ bak = Image(committed, cut)

\* Whenever no save is going on and none was given up since, a reader finds
\* the last committed snapshot, and what was committed before it is the backup:
\* the only whole one after a commit that was cut, until the next save, which
\* puts the part in its place.  (After a save that was given up the reading
\* constructor may throw although the backup is there.)
ReadableWhenQuiet ==
    writer = "idle" /\ ~abandoned /\ committed > 0 =>
        /\ snapshot = Image(committed, cut)
        /\ previous # NoFile => bak = previous
=============================================================================
