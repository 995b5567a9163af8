----------------------------- MODULE AtomicSave -----------------------------
(***************************************************************************)
(* FileStore::save (earmark-store/src/file_store.rs) on ONE target path,   *)
(* down to the file system: create the temporary file, write it, fsync it, *)
(* rename it over the target.  The temporary name is a function of the     *)
(* target (path.with_extension("tmp")), so every saver of this target uses *)
(* the same temporary file, and nothing in the store serialises savers.    *)
(* Serialized = TRUE describes callers that do (one save of a path at a    *)
(* time); Serialized = FALSE is what FileStore, which is Send + Sync and   *)
(* takes &self, accepts.                                                   *)
(*                                                                         *)
(* The file system is external code, modelled from the calls save makes: a *)
(* directory of two names, inodes whose cached content may be newer than   *)
(* the content on the medium, and a directory whose entries reach the      *)
(* medium some time later.                                                 *)
(***************************************************************************)
EXTENDS Naturals

CONSTANTS Savers,      \* threads and processes that may save this record
          Values,      \* the records they save, as serialised JSON
          Size,        \* the length in bytes of each
          Inodes,
          NoInode,     \* the name has no entry
          None,        \* a file with no content yet; no file; no value
          Torn,        \* bytes that are no record
          Serialized,
          MaxSaves,    \* bound: calls of save
          MaxFailures, \* bound: write errors and killed processes
          MaxPowerLosses

ASSUME SizeAssumption == Size \in [Values -> Nat]
ASSUME SentinelAssumption == /\ NoInode \notin Inodes
                             /\ None \notin Values
                             /\ Torn \notin Values
                             /\ None # Torn
ASSUME SerializedAssumption == Serialized \in BOOLEAN
ASSUME BoundAssumption == /\ MaxSaves \in Nat
                          /\ MaxFailures \in Nat
                          /\ MaxPowerLosses \in Nat

Contents == Values \cup {None, Torn}

Entries == Inodes \cup {NoInode}

VARIABLES pc,      \* where each saver is in save
          val,     \* the record it saves
          fd,      \* the inode its open handle names
          dir,     \* the directory as readers see it: entries tmp and tgt
          durDir,  \* the directory on the medium
          data,    \* the content of each inode as readers see it
          disk,    \* the content of each inode on the medium
          acked,   \* the value of the last save that returned Ok
          since,   \* the values of the saves begun since that return
          met,     \* an observer: what the saves that overlapped each saver's and
                   \* ended have left to it
          saves, failures, losses

vars == <<pc, val, fd, dir, durDir, data, disk, acked, since, met, saves, failures, losses>>

TypeOK ==
  /\ pc \in [Savers -> {"idle", "create", "write", "sync", "rename", "return"}]
  /\ val \in [Savers -> Values \cup {None}]
  /\ \A s \in Savers : pc[s] # "idle" => val[s] \in Values
  /\ fd \in [Savers -> Entries]
  /\ dir \in [tmp : Entries, tgt : Entries]
  /\ durDir \in [tmp : Entries, tgt : Entries]
  /\ data \in [Inodes -> Contents]
  /\ disk \in [Inodes -> Contents]
  /\ acked \in Values \cup {None}
  /\ since \subseteq Values
  /\ met \in [Savers -> SUBSET (Values \cup {Torn})]
  /\ saves \in 0..MaxSaves
  /\ failures \in 0..MaxFailures
  /\ losses \in 0..MaxPowerLosses

Init ==
  /\ pc = [s \in Savers |-> "idle"]
  /\ val = [s \in Savers |-> None]
  /\ fd = [s \in Savers |-> NoInode]
  /\ dir = [tmp |-> NoInode, tgt |-> NoInode]
  /\ durDir = dir
  /\ data = [i \in Inodes |-> None]
  /\ disk = data
  /\ acked = None
  /\ since = {}
  /\ met = [s \in Savers |-> {}]
  /\ saves = 0
  /\ failures = 0
  /\ losses = 0

Idle(s) == pc[s] = "idle"

Referenced == {dir.tmp, dir.tgt, durDir.tmp, durDir.tgt} \cup {fd[s] : s \in Savers}

(* What a reader of an entry finds: no file, torn bytes or a whole record. *)
Read(entry, content) == IF entry = NoInode THEN None
                        ELSE IF content[entry] \in Values THEN content[entry]
                        ELSE Torn

Saving(s) == pc[s] \in {"create", "write", "sync", "rename"}

(* The save of s ends and leaves something to the savers it overlapped.    *)
Meet(s, left) ==
  met' = [t \in Savers |-> IF t = s THEN {}
                           ELSE IF Saving(s) /\ Saving(t) THEN met[t] \cup left
                           ELSE met[t]]

-----------------------------------------------------------------------------
(* The steps of save.                                                      *)

Begin(s, v) ==
  /\ Idle(s)
  /\ Serialized => \A t \in Savers : Idle(t)
  /\ saves < MaxSaves
  /\ saves' = saves + 1
  /\ pc' = [pc EXCEPT ![s] = "create"]
  /\ val' = [val EXCEPT ![s] = v]
  /\ since' = since \cup {v}
  /\ UNCHANGED <<met, fd, dir, durDir, data, disk, acked, failures, losses>>

(* A mutant: the target itself is created and written.                     *)
CreateInPlace(s) ==
  /\ pc[s] = "create"
  /\ \E i \in Inodes :
       /\ IF dir.tgt = NoInode THEN i \notin Referenced ELSE i = dir.tgt
       /\ fd' = [fd EXCEPT ![s] = i]
       /\ dir' = [tmp |-> i, tgt |-> i]
       /\ data' = [data EXCEPT ![i] = None]
       /\ disk' = IF dir.tgt = NoInode THEN [disk EXCEPT ![i] = None] ELSE disk
  /\ pc' = [pc EXCEPT ![s] = "write"]
  /\ UNCHANGED <<val, durDir, acked, since, met, saves, failures, losses>>

(* fs::File::create: an existing temporary file is truncated, otherwise a  *)
(* new inode gets the name.                                                *)
Create(s) ==
  /\ pc[s] = "create"
  /\ \E i \in Inodes :
       /\ IF dir.tmp = NoInode THEN i \notin Referenced ELSE i = dir.tmp
       /\ fd' = [fd EXCEPT ![s] = i]
       /\ dir' = [dir EXCEPT !.tmp = i]
       /\ data' = [data EXCEPT ![i] = None]
       /\ disk' = IF dir.tmp = NoInode THEN [disk EXCEPT ![i] = None] ELSE disk
  /\ pc' = [pc EXCEPT ![s] = "write"]
  /\ UNCHANGED <<val, durDir, acked, since, met, saves, failures, losses>>

(* The bytes of v written from offset 0 over what the inode holds: the     *)
(* tail of a longer content stays behind them.                             *)
Overwrite(old, v) == IF old = Torn THEN {v, Torn}
                     ELSE IF old \in Values \ {v} /\ Size[old] > Size[v] THEN {Torn}
                     ELSE {v}

WriteAll(s) ==
  /\ pc[s] = "write"
  /\ \E c \in Overwrite(data[fd[s]], val[s]) : data' = [data EXCEPT ![fd[s]] = c]
  /\ pc' = [pc EXCEPT ![s] = "sync"]
  /\ UNCHANGED <<val, fd, dir, durDir, disk, acked, since, met, saves, failures, losses>>

(* Mutants: no sync_all; the record moved into the block that ends here.   *)
SyncAllMissing(s) ==
  /\ pc[s] = "sync"
  /\ fd' = [fd EXCEPT ![s] = NoInode]
  /\ pc' = [pc EXCEPT ![s] = "rename"]
  /\ UNCHANGED <<val, dir, durDir, data, disk, acked, since, met, saves, failures, losses>>

SyncAllMovesRecord(s) ==
  /\ pc[s] = "sync"
  /\ disk' = [disk EXCEPT ![fd[s]] = data[fd[s]]]
  /\ fd' = [fd EXCEPT ![s] = NoInode]
  /\ val' = [val EXCEPT ![s] = None]
  /\ pc' = [pc EXCEPT ![s] = "rename"]
  /\ UNCHANGED <<dir, durDir, data, acked, since, met, saves, failures, losses>>

(* sync_all, after which the block ends and the handle is closed.          *)
SyncAll(s) ==
  /\ pc[s] = "sync"
  /\ disk' = [disk EXCEPT ![fd[s]] = data[fd[s]]]
  /\ fd' = [fd EXCEPT ![s] = NoInode]
  /\ pc' = [pc EXCEPT ![s] = "rename"]
  /\ UNCHANGED <<val, dir, durDir, data, acked, since, met, saves, failures, losses>>

(* A mutant: an existing target is not replaced.                           *)
RenameIfAbsent(s) ==
  /\ pc[s] = "rename"
  /\ dir.tmp # NoInode
  /\ dir' = IF dir.tgt = NoInode THEN [tmp |-> NoInode, tgt |-> dir.tmp] ELSE dir
  /\ Meet(s, {Torn})
  /\ pc' = [pc EXCEPT ![s] = "return"]
  /\ UNCHANGED <<val, fd, durDir, data, disk, acked, since, saves, failures, losses>>

Rename(s) ==
  /\ pc[s] = "rename"
  /\ dir.tmp # NoInode
  /\ dir' = [tmp |-> NoInode, tgt |-> dir.tmp]
  /\ Meet(s, {Torn})
  /\ pc' = [pc EXCEPT ![s] = "return"]
  /\ UNCHANGED <<val, fd, durDir, data, disk, acked, since, saves, failures, losses>>

(* The save ends: its value and its handle are gone.                       *)
Leave(s) ==
  /\ pc' = [pc EXCEPT ![s] = "idle"]
  /\ val' = [val EXCEPT ![s] = None]
  /\ fd' = [fd EXCEPT ![s] = NoInode]

(* A mutant: a failed rename is cleaned up after, at the wrong path.       *)
RenameFailsRemoves(s) ==
  /\ pc[s] = "rename"
  /\ dir.tmp = NoInode
  /\ dir' = [dir EXCEPT !.tgt = NoInode]
  /\ Leave(s)
  /\ Meet(s, {})
  /\ UNCHANGED <<durDir, data, disk, acked, since, saves, failures, losses>>

(* Another saver renamed the temporary file away: save returns Err.        *)
RenameFails(s) ==
  /\ pc[s] = "rename"
  /\ dir.tmp = NoInode
  /\ Leave(s)
  /\ Meet(s, {})
  /\ UNCHANGED <<dir, durDir, data, disk, acked, since, saves, failures, losses>>

ReturnOk(s) ==
  /\ pc[s] = "return"
  /\ acked' = val[s]
  /\ since' = {}
  /\ Leave(s)
  /\ UNCHANGED <<met, dir, durDir, data, disk, saves, failures, losses>>

-----------------------------------------------------------------------------
(* Faults.                                                                 *)

(* A mutant: the error of write_all is dropped.                            *)
WriteFailsIgnored(s) ==
  /\ pc[s] = "write"
  /\ failures < MaxFailures
  /\ failures' = failures + 1
  /\ data' = [data EXCEPT ![fd[s]] = Torn]
  /\ pc' = [pc EXCEPT ![s] = "sync"]
  /\ UNCHANGED <<val, fd, dir, durDir, disk, acked, since, met, saves, losses>>

(* write_all stops part of the way (a full disk) and save returns Err; the *)
(* temporary file stays.                                                   *)
WriteFails(s) ==
  /\ pc[s] = "write"
  /\ failures < MaxFailures
  /\ failures' = failures + 1
  /\ data' = [data EXCEPT ![fd[s]] = Torn]
  /\ Leave(s)
  /\ Meet(s, {val[s]})
  /\ UNCHANGED <<dir, durDir, disk, acked, since, saves, losses>>

(* The process is killed: the directory and the cached contents remain.    *)
Kill(s) ==
  /\ ~Idle(s)
  /\ failures < MaxFailures
  /\ failures' = failures + 1
  /\ Leave(s)
  /\ Meet(s, {val[s]})
  /\ UNCHANGED <<dir, durDir, data, disk, acked, since, saves, losses>>

(* The file system writes an inode's content back on its own time; a power *)
(* loss meanwhile may leave part of it.                                    *)
FlushData(i, c) ==
  /\ data[i] # disk[i]
  /\ c \in {data[i], Torn}
  /\ disk' = [disk EXCEPT ![i] = c]
  /\ UNCHANGED <<pc, val, fd, dir, durDir, data, acked, since, met, saves, failures, losses>>

(* The directory reaches the medium.  save never asks for it.              *)
FlushDir ==
  /\ durDir # dir
  /\ durDir' = dir
  /\ UNCHANGED <<pc, val, fd, dir, data, disk, acked, since, met, saves, failures, losses>>

PowerLoss ==
  /\ losses < MaxPowerLosses
  /\ losses' = losses + 1
  /\ dir' = durDir
  /\ data' = disk
  /\ pc' = [s \in Savers |-> "idle"]
  /\ val' = [s \in Savers |-> None]
  /\ fd' = [s \in Savers |-> NoInode]
  /\ met' = [s \in Savers |-> {}]
  /\ UNCHANGED <<durDir, disk, acked, since, saves, failures>>

SaveStep(s) == \/ Create(s) \/ WriteAll(s) \/ SyncAll(s)
               \/ Rename(s) \/ RenameFails(s) \/ ReturnOk(s)

Next ==
  \/ \E s \in Savers :
       \/ \E v \in Values : Begin(s, v)
       \/ SaveStep(s)
       \/ WriteFails(s)
       \/ Kill(s)
  \/ \E i \in Inodes, c \in Contents : FlushData(i, c)
  \/ FlushDir
  \/ PowerLoss

Spec == Init /\ [][Next]_vars

-----------------------------------------------------------------------------
(* Properties.                                                             *)

Current == Read(dir.tgt, data)

OnMedium == Read(durDir.tgt, disk)

(* "Atomic write pattern" (file_store.rs:115): whatever a saver, a kill or *)
(* a power loss does, a reader of the target finds a whole record or none, *)
(* now and after a power loss at this instant.                             *)
TargetWhole == Current # Torn /\ OnMedium # Torn

(* A save that returned Ok stays readable: the target holds the last       *)
(* acknowledged record or one whose save began after that, whatever savers *)
(* are killed or fail to write meanwhile, as long as the power holds.      *)
AckedReadable == losses = 0 /\ acked # None => Current \in {acked} \cup since

(* "Explicitly flush to physical media" (file_store.rs:118), "Atomically   *)
(* saved record to disk" (file_store.rs:139): the same across power losses.*)
AckedDurable == acked # None => Current \in {acked} \cup since

(* The steps of save and of the file system implement the atomic record.   *)
Atomic == INSTANCE AtomicRecord WITH rec <- Current, stable <- OnMedium

AtomicRecordSpec == Atomic!Spec

(* Savers of one path that race, none of them dying: each finds its own    *)
(* rename done or the temporary file taken by a rival that has renamed it, *)
(* so somebody is told Ok and there is a target.                           *)
RaceHasWinner ==
  saves > 0 /\ failures = 0 /\ losses = 0 /\ (\A s \in Savers : Idle(s))
    => acked # None /\ dir.tgt # NoInode

(* Without power losses, racing savers do no worse than RacySave, which is *)
(* what FileStore.tla builds on.                                           *)
Racy == INSTANCE RacySave WITH
          rec <- Current,
          saving <- [s \in Savers |-> IF Saving(s) THEN val[s] ELSE None]

RacySaveSpec == Racy!Spec
=============================================================================
