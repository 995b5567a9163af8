# Earmark kernel: specifications and proofs

TLA+ models of the Earmark kernel's workspace store, checked with TLC and
proved with TLAPS. Source paths are those of the repository
(`earmark-store/src/file_store.rs` is written `file_store.rs`, and so on).

## 1. The system

The kernel keeps a *workspace*: JSON records in files under `.earmark/`. A
caller (CLI, service, test) links the crates and calls them directly; there is
no server and no lock. Several threads, or several processes, may hold a
`FileStore` on one root.

| Component | State it keeps | Operations | Talks to |
|---|---|---|---|
| Record save (`FileStore::save`) | one file, its temporary file | create, write, fsync, rename | the file system |
| Canonical store (`FileStore`) | object, version, relation, run, packet, ... files | gated writers, readers, lists, the audit | record save |
| Sanctioned operations (`sanctioned.rs`) | none | `deposit_object`, `create_relation` | store, class registry |
| Archive (`archive.rs`, `import_archive`) | none | export, import | store (import bypasses the gate until its end) |
| Derived index (`sqlite_index.rs`, `surreal_index.rs`) | tables | rebuild, upsert, find | reads the store |
| Histories and standing (`get_standing`, `get_undo_history`, ..., `verify_maturity_gate`) | transition, activation and undo records | record; read all; read the latest per dimension; the gate of an import | record save, versions |
| Migrations (`migration.rs`) | migration records | apply, history | store |
| Declarations (`registry.rs`, `dev_pack.rs`, `portfolio_pack.rs`) | in-memory maps, declaration files | register, look up, verify, packs | store, archive, sanctioned operations |
| Ids, documents (`ids.rs`, `docs.rs`) | none | generate, parse, unwrap | - |

How they interact: everything that is durable goes through `save`. Every writer
except `import_archive` first runs `sanction_write`, which audits the *whole*
workspace (`verify_consistency`) and refuses the call if the audit reports
anything; `import_archive` saves everything and audits last. `deposit_object` of
`sanctioned.rs` reads the object record up to twice before the store's
`deposit_object` audits, makes the version's directory, saves the object record
and saves the version record, in this order.

What is hard here:

* nothing is locked, and a writer is a long sequence of file operations, so
  any two calls interleave at each of them;
* the temporary name of a save is a function of its target, so two savers of a
  path share a temporary file;
* a call of several saves has no transaction: an error, a kill or a power loss
  between two of them leaves the first;
* the gate reads, then the call writes: what it checked may be stale, and what
  it lets in may make it refuse everything afterwards;
* a history is a directory, listed and then read file by file, and the listing
  takes in the temporary files of saves, running or dead;
* some records are named by a time in whole seconds, and times may be equal;
* an error of a look-up is taken for a missing record;
* no gated operation repairs: a fault stays, unless an import, which goes past
  the gate, writes over it.

What makes each part correct:

* *save*: a reader finds a whole record or none; a record whose save returned
  Ok stays;
* *store*: every inconsistency comes from a known cause; the gate lets no write
  pass once the store is broken; every call returns; an object's head does not
  go back behind acknowledged work, and its class is its creator's, as far as
  no import has written it and no look-up of it has failed;
* *archive*: an export is never torn and misses nothing that was there before;
  it imports as what it was; a failed import can be retried;
* *index*: after a rebuild it answers as the store does, whatever it held;
* *histories, standing*: what was recorded is in the answer, and the standing
  is the latest transition, whatever else is in the directory; the maturity
  gate refuses an import just when a work item is completed without acceptance,
  as far as records stay what they are while it reads them;
* *declarations*: what a pack refers to is registered, and what is carried to
  another workspace arrives with what it refers to.

## 2. Modules

| Module | What it is | Code |
|---|---|---|
| `AtomicRecord` | abstract: one record file, replaced whole, taken back to an earlier whole record by a power loss | the promise of `file_store.rs:115-119` |
| `AtomicSave` | `save` on one path, with the directory, inodes and page cache | `file_store.rs:109-144` |
| `SharedTemp` | which contents a rename may publish when saves of a path overlap | `file_store.rs:121-132` |
| `RacySave` | abstract: one record file under savers that nothing serialises | `file_store.rs:121-132` |
| `FileStore` | the store's audit and writers under the sanctioned operations, many clients, all paths | `file_store.rs`, `sanctioned.rs` |
| `SqliteIndex` | the derived index: rebuilds statement by statement, upserts, a store that changes | `sqlite_index.rs` |
| `Archive` | export of a workspace that others write, import into another | `archive.rs`, `file_store.rs:1111-1231` |
| `Histories` | records read as histories, the standing, the maturity gate of an import, migrations | `file_store.rs:185-231`, `657-703`, `1027-1109`, `1194-1231`, `migration.rs` |
| `Declarations` | the registry, both packs, declarations in stores and their way to another workspace | `registry.rs`, `dev_pack.rs`, `portfolio_pack.rs`, `file_store.rs:758-1025`, `1111-1148`, `archive.rs` |
| `MC...` | instances for TLC | |
| `AtomicSaveProofs`, `FileStoreProofs`, `HeadProofs`, `SqliteIndexProofs`, `ArchiveProofs`, `HistoriesProofs`, `GateProofs`, `DeclarationsProofs` | theorems | |

Layers: `AtomicSave` is shown to implement `AtomicRecord` (savers of a path do
not overlap) and `RacySave` (they may). `RacySave` and `FileStore` are written
with the same operators of `SharedTemp`, so a save is *one* step of
`FileStore`, and what the overlap of several saves can do to a path is there
all the same (`Landed`, `Scribble`, `SaveLosesRace`). `Histories` uses
`SharedTemp` too, and keeps the temporary files, because its scans read them.
`SqliteIndex` and `Archive` see the store through the few steps of it that
matter to a reader, and take a save as atomic: writers of different records do
not share temporary files. `Declarations` leaves the saves out, and has the maps
and files.

### AtomicSave

`pc[s]` is the place of saver `s` in `save`; `dir` the names `tmp` and `tgt` as
readers see them, `durDir` as they are on the medium; `data` and `disk` the
same for the contents of inodes; `fd` the open handle. The actions are the
statements: `Create` (`File::create` truncates an existing temporary file),
`WriteAll` (which, over a longer content that a rival wrote, leaves its tail:
`Overwrite`), `SyncAll`, `Rename`, `RenameFails` (somebody else renamed the
temporary file), `ReturnOk`. Faults: `WriteFails` (a full disk), `Kill`,
`PowerLoss`; the file system writes contents and the directory back whenever
it likes (`FlushData`, `FlushDir`). A `Torn` content stands for any bytes that
do not parse. `acked`, `since` and `met` are observers.

The file system is external. What is assumed of it: rename is atomic for
readers, `sync_all` puts an inode's content on the medium, directory entries
reach the medium later and together, in the order of the renames, and a power
loss leaves exactly what was on the medium.

### FileStore

`file[p]` is what a reader finds at a path, `dirs` the objects with a
directory. A client's call is in `call[c]`, its place in `pc[c]`:

    deposit:  lookup - reread - audit (three phases) - mkdir - saveObject - save
    relate, record:               audit - save
    revise (update_version):      audit - check - save
    import (import_archive):      save, record by record - audit

`AuditOne` looks at one listed record at the time; `NextPhase` makes the next
listing. Runs, packets and reviews are one phase with one listing (the code has
three loops that are alike). `Reject` and `Sanctioned` are the verdict. `Fail`
ends a call anywhere outside a save, `FailSaving` within one. A call that dies
and one that returns an error are the same step: neither undoes anything.
In the look-up of a deposit an error does not end the call: `get_object` may
find no record (`LookupNew`), one that does not parse, or a whole one that it
fails to read (`LookupUnread`), and the object is new each time, with the
caller's class. `prior`, `acked`, `overtaken`, `createdAs`, `misread`,
`imported`, `minted` and `suspect` are observers: they record what the
properties speak of, and no guard reads them except that a generated id is new
(`minted`).

An import (`Import`) is given any set of records, for the archive may come from
anywhere. It saves them kind by kind (`ImportNext`, `ImportSave`, in the order
`Turn`; of the records of one kind in any order), and past the gate; then it
audits (`ImportAudit`) and returns Ok (`ImportReturns`) or Err (`Reject`), which
takes nothing back. Without overwrite it skips objects that have a directory:
that is an import of an archive without them. Declarations, transitions and
migrations of an archive are in other modules, since this audit reads none.

Abstracted: record contents to a class, a head, two endpoints or a payload;
timestamps, signals and actors to the payload; the registered classes to the
constant `Classes` (an unregistered class is refused before anything happens);
`create_run`, `update_run`, `create_packet`, `create_change_set`,
`create_check_result`, `create_handoff_manifest`, `create_review` and the other
writers of one file to `Record`. A `Revise` names a version id that was
generated, whether or not its record was written.

### SqliteIndex

A row is the revision of the record it copies (`row`), the store is the revision
of each record (`store`). A handle's rebuild is in `pc[h]` and `table[h]`:
`Begin`, seven times `Delete`, and for each of the five filled tables `List`,
then `Read` and `Insert` per record (`held` is what is between them), then
`NextTable` or `Done`. Every statement commits by itself, for the code opens no
transaction; one handle's operations take turns (its mutex), those of two
handles interleave at each statement. `Upsert` writes a revision its caller
saved some time ago. `Clashes` is the uniqueness of the keys, which `INSERT OR
REPLACE` (reviews, upserts) does not ask for. `start`, `rivals`, `built` and
`late` are observers.

### Archive

`source` and `target` are workspaces; the source has writers (deposits and
relations, at the steps of `FileStore`), the target has none. The user's call is
in `phase`: an export lists the objects, then per object reads its record
(`ReadObject`), lists its versions (`ListVersions`) and reads each; relations
come last. An import saves per object the record and the versions, or skips it
(`Skips`), then the relations, then audits (`Verify`). `ReadFails` is a listed
directory without its record, `ExportFails` and `ImportFails` are any other
error or death; they leave what was done. `before`, `kept`, `sane` and
`verdict` are observers.

The source's writers rest during an import: an import reads the archive and the
target only, so its steps commute with theirs. The target has no writers of its
own; what an import beside other writers may do is in `FileStore`. Runs, packets
and reviews are exported and imported by further loops of the same form and are
left out, and so is the redaction of payloads. Declarations travel in
`Declarations`; transitions and migrations arrive in `Histories`.

### Histories

`file[p]` is the record at a path, `left[p]` what an interrupted save left in
the path's temporary file; a path is a directory and a name, which is an id the
caller chose or a whole second (`Paths`, `Fits`). `item[c]` is the save a client
is in. A save begins with `Create` and ends with `Publish`, `Lose` or `Die`
(error or kill, before or after the rename). A call whose audit refuses it
changes nothing and is left out; so are the directories that
`record_undo` and `record_pack_activation` make per object and pack (one object
and one pack are modelled, since the files of another are in another
directory).

    scan:     list - read (file by file) - answered, failed or aborted
    import:   next - save - next ... - gate - list - read - judge - gate ...
              - passed, refused, failed or aborted

`Listed` is the listing, temporary files included; `Found` what reading a listed
file may give: another save's half-written content, or nothing any more. `Keep`
is the standing's update: strictly later replaces. Only transitions to
Completed, or not, are told apart, with the override (`admin`) in the rationale.

The gate reads a work item in three steps, and keeps what it read: its record
(`NextItem`: the version that the record names is the third component of
`scan`), its standing (`List`, `Read`), and, if it is completed, the record of
*that* version (`Judge`, `Signal`). `head` is the latest version an object's
record names and `version` what the record of each version says. Both move at any
moment: `SaveObject` names another version, `SaveVersion` writes any
version of the object, older ones too, with acceptance or without, as
`deposit_object`, `update_version` and `import_archive` do. Those two stand for
the saves of calls of their own, which `FileStore` has step by step; here they
are not tied to each other, which only adds orders. `Abort` is what cannot be
read: a torn object record, a version that is missing or torn, or any read that
fails with an I/O error.

`saved`, `due`, `wrecked`, `crossed`, `moved`, `latest` and `offending` are
observers, and `Observe`, which moves the last four, is a conjunct of every
action. The gate also reports consistency faults (`FileStore`, `Archive`).

### Declarations

`registry` is the process's `InProcessRegistry`, `source` and `target` are the
declaration files of two stores, `archive` is what travels. A declaration is its
kind and the set of ids it refers to. Both packs are written out
(`DevPack`, `PortfolioPack`), class by class and transition by transition. An
application registers declarations of its own (`Own`), perhaps under a pack's
ids, keeps some of the registry's in the source (`Keep`) and reads them back
(`Load`); `Restart` is a new process. Export and import go kind by kind, in
the order of the code (`Order`), and `Stop` anywhere. `verify_registry` is left
out, and with it the origins it asks for: it changes nothing, and what it would
report of the packs is plain from their text.

## 3. Properties and runs

| Run | Instance | Checks |
|---|---|---|
| `save_faults` | 2 savers that take turns, 2 records of different lengths, 4 saves, 2 write errors or kills, 2 power losses | `TypeOK`, `TargetWhole`, `AckedReadable`, `AtomicRecordSpec` |
| `save_race` | 3 savers, 3 saves, 2 write errors or kills, no power loss | `RaceHasWinner`, `RacySaveSpec` |
| `save_torn` | 2 savers, no failure | `TargetWhole` is violated |
| `save_powerloss` | 1 save, 1 power loss | `AckedDurable` is violated |
| `store_clients` | 2 clients, 2 objects, 3 versions, 1 relation, an audited and an unaudited record, archives of 1 record, 3 calls, 1 failure | `TypeOK`, `FaultsAccounted`, `HeadNotOvertaken`, `ClassFromCreator`, `FailClosed` |
| `store_import` | 2 clients, 1 object, 2 versions, 1 relation, an audited record, archives of 1 or 2 records, 2 calls, 1 failure, fair | `FaultsAccounted`, `FailClosed`, `CallsReturn` |
| `store_dangling` | 1 client, 1 call | `AtRestConsistent` is violated |
| `index_rebuild` | 2 handles, an object, a relation, a review, 2 writes, 2 rebuilds, 1 failure | `TypeOK`, `RebuildRestores`, `ClashHasRival` |
| `index_tables` | 1 handle, 1 rebuild | `AllTablesRestored` is violated |
| `archive_roundtrip` | 2 writers, 2 objects, 2 versions, 1 relation, 2 exports, 3 imports, 2 failures | `TypeOK`, `HeadsExported`, `ExportComplete`, `RoundTripAccepted`, `OkRestores` |
| `histories_scans` | 2 clients, 1 work item, 2 versions, 4 transitions, 2 ids, 2 times in 1 second, archives of 1 record, 3 calls or saves of objects and versions, 1 failure | `TypeOK`, `AnswersComplete`, `FailuresExplained`, `GateCatches`, `GateFair` |
| `declarations_packs` | both packs, an application's workflow over the portfolio pack's, 3 ids kept in the source | `TypeOK`, `RegistryResolves`, `TransferResolves`, `ArchiveArrives` |

* `TargetWhole`: the target is no torn file, now or after a power loss now.
  Holds when saves of the path take turns; does not when they overlap.
* `AckedReadable` / `AckedDurable`: an acknowledged record stays until a newer
  save. Holds while the power holds; not across power losses, for the directory
  is never synced.
* `AtomicRecordSpec`, `RacySaveSpec`: the refinements above.
* `RaceHasWinner`: savers that race without dying cannot all fail, or leave no
  file.
* `FaultsAccounted`: whatever an audit would report is owed by a deposit that
  is still running, or was touched by an import, a failed call, overlapping
  saves of the path, or a relation whose endpoint did not exist. So a store used
  by clients that never import, never overlap on a path, never fail and relate
  only what exists is consistent whenever no deposit is running.
* `FailClosed`: once a fault has outlived the writers that had passed their
  audit, no gated call changes a file, the fault included, and so the fault
  stays; only a step in which an import saves a record can end this. It is the
  gate's promise, and it is also why a single accepted dangling relation stops a
  workspace, until an import brings the missing object.
* `HeadNotOvertaken`: the head of an object that no import has written never
  names a version that was acknowledged before the call of a later acknowledged
  deposit began. Of two concurrent deposits either may win: this is what remains
  true of a read-modify-write without comparison. An import with overwrite may
  take a head back to any version.
* `ClassFromCreator`: a deposit to an existing object keeps its class, unless the
  look-up of some deposit failed on the record: any error makes the object new
  (`sanctioned.rs:43-46`), an I/O error on a whole record too, and then it gets
  the caller's class. Two deposits that both find no record may disagree, and
  then the class is one of theirs; an import brings the class of its archive.
* `CallsReturn`: no call waits for another.
* `RebuildRestores`: after a rebuild that returned Ok and met no other rebuild, a
  record not replaced since the rebuild began is in the index, in the store's
  revision, unless a late upsert brought back an older one.
* `ClashHasRival`: a rebuild finds a row in the way of an INSERT only if another
  handle has rebuilt or upserted meanwhile; so a failed rebuild can be repeated.
* `AllTablesRestored`: the same as `RebuildRestores` of every table; it is
  violated.
* `HeadsExported`: an archive has the version that each of its heads names. It
  holds because a deposit makes the version's directory before it moves the
  head, and because an export fails on a directory without a record.
* `ExportComplete`: an export has everything that was there when it began, and a
  relation in it dangles only at an object made during the export.
* `RoundTripAccepted`: the audit at the end of an import never refuses a
  consistent archive, if the target was consistent or is overwritten; also
  after imports that died half way, or that were refused.
* `OkRestores`: an import that returned Ok left a consistent target with all
  that is in the archive. The exception is what the code does: without
  overwrite, an object whose directory was there is not touched, and may lack
  versions (but not the one its head names, or the import does not return Ok).

* `AnswersComplete`: a history that is answered has every record whose save had
  ended, undisturbed, before the directory was listed; a standing has one of
  that dimension that is no older. The exception is what the code does: a save
  of the same path takes the record away, and for activations and migrations
  that is any save in the same second.
* `FailuresExplained`: a scan fails only if a save of its directory ran at the
  same time, or one died or met another and may have left a file.
* `GateCatches`: an import does not pass if some work item was, all the time its
  gate ran, completed without override as any reading would have it, and none
  of the versions that were its latest at some moment of the gate carried an
  Accepted signal from then on; unless the id of a transition is used again
  meanwhile. The stronger claim, that the item's latest version was never
  accepted, is false: the version is the one that the record named before the
  standing was read (`file_store.rs:192`, `204`), and if a deposit supersedes it
  and `update_version` then accepts it, the gate lets the item pass, although no
  version was accepted while it was the latest. TLC finds that interleaving when
  the property is stated so.
* `GateFair`: an import is refused for maturity only if some work item may be
  read as completed, its latest version unaccepted, without override, or the
  standings, the latest versions or the signals changed while the gate ran.
* `RegistryResolves`: what a process has of a pack it registered refers only to
  what is registered, whatever an application registers over it or reads from
  the store. Two references are broken as the code stands, and named in the
  property: `cls_worker_profile`, which no pack registers
  (`dev_pack.rs:559`), and `rp_default`, if the portfolio pack is registered
  without the dev pack (`portfolio_pack.rs:82`, `91`).
* `ArchiveArrives`: an import that ended has brought what the source had, of the
  kinds that travel, and without overwrite has changed nothing that was there;
  also if it repeats one that stopped.
* `TransferResolves`: nothing in the target then refers to what is missing, but
  for what was missing before, and templates, protocols and policies, which do
  not travel.

Bounds. A damaged save needs two savers, and a third to take the temporary file
of both. A stale read that survives an acknowledged deposit needs two clients
and three deposits (first version, the slow one, the overtaking one); a fault
seen by another call needs one failure and two calls; a relation and two objects
are the least for endpoints that exist. An import of one record breaks or
repairs a store (an object without its version, the missing object of a
relation), and one of two has steps between its saves, and brings versions too.
`store_import` has one call less than `store_clients`, since liveness allows no
symmetry: a call that makes a fault or meets it, and the import. Five inodes are
more than a serialised save can hold at once (two names, twice, and the new
one), and than three racing savers can. Ids, classes, payloads and clients are
only compared for equality, so they are symmetry sets in the runs that check
safety only.

Of the index, a rival needs a second handle; an object, a relation and a review
are the three ways a row can be written (upserted and inserted, and inserted
with replacement); two writes make a late upsert, and the second rebuild is the
retry or the rival. Runs, packets, versions and handoffs are empty sets there:
runs and packets are filled as objects are, without upserts, and their tables
differ in nothing else. Of the archive, two objects with two versions let the
head of a listed object move to a version that the listing has not seen; two
failures are a writer's and an import's; three imports are a failed one, its
retry, and one into what both left; two exports let an archive be older or
newer than what the target has.

Of the histories, a scan, a recorder that fails or overlaps another and one that
was there before are three calls; the gate adds an import, whose archive brings
the transition it will judge. Two ids of transitions let two of one time be read
in both orders, and let an id be used again; two times in one second are the
clash of names and the later transition. Three calls are enough for the stale
version: an import, a save of the object record that makes another version the
latest, and an update of the old one. All of the properties of `Histories` are
proved for any number of calls. Of the declarations, nothing is bounded but what
the application declares: a workflow under the id of a pack's, that refers to a
template that is registered and a validator that is not.

Fairness. `FairSpec` asks weak fairness of each client's own steps: a thread
that can go on does so in the end. No step of a call waits for another client,
so the scheduler of the operating system provides it. Callers need not call,
failures need not happen, and `Scribble` (a write through a handle whose file
was renamed) is not fair either.

`CHECK_DEADLOCK FALSE`: a store whose callers have stopped calling (here: used
up their bound) really stops. `Declarations` counts no calls, and never stops.

### Disagreements between code and documentation

1. Two concurrent saves of one path publish a torn file (`save_torn`,
   `file_store.rs:121`); the comment above and `docs/kernel_contract.md:9`
   promise an atomic write.
2. A power loss after Ok loses the record (`save_powerloss`,
   `file_store.rs:132`).
3. The gate audits the store before the write and never the write, so one
   accepted call makes the workspace inconsistent (`store_dangling`,
   `file_store.rs:455`), and gated writes are refused from then on.
4. A rebuild empties the tables of versions and handoffs and never fills them
   (`index_tables`, `sqlite_index.rs:122`); the comment there says it rebuilds
   versions, and `docs/kernel_contract.md:20` that the index is fully
   reconstructible.

## 4. Proofs

For every value of the constants, so for any number of clients, savers, ids,
calls and failures. The assumptions are those the modules name: sentinels are
no records, paths of different kinds differ, bounds are naturals.

`AtomicSaveProofs`

* `TypeCorrect`.
* `SerialTargetWhole`, `SerialAckedReadable`, `SerialImplementsAtomicRecord`,
  under `Serialized`. The invariant they rest on, `SerialInv`, says that at most
  one saver is active; that an inode the target names, in the directory or on
  the medium, holds a whole record in both places and is nobody's temporary
  file; and that the temporary file of a saver that is to rename holds its
  record, synced. Without the clause on the medium, `TargetWhole` is not
  inductive: a power loss would bring back a target with unsynced content.
* `RaceWinner` (`RaceHasWinner`) and `RaceImplementsRacySave` (`RacySaveSpec`),
  whether saves are serialised or not. They rest on `RaceInv`, which holds while
  the power does: a saver whose file no rival has renamed holds the temporary
  file, or has closed it (`RaceHolds`); whatever the temporary file has, each
  saver that is past its create can account for it, as its own record, one left
  to it by a rival that ended, or one a running rival has, and if it has met
  nobody it is just its own (`RaceContent`); and whoever renamed the temporary
  file is told Ok, unless it dies (`RaceWon`). `RaceWinner` has "no power loss" in
  the property. The refinement assumes `MaxPowerLosses = 0`, as the run does:
  `RacySave` says what a reader finds while the machine stays up, and after a
  power loss a path under racing savers may hold nothing at all. So
  `FileStore` and `Histories`, whose saves use the same operators of
  `SharedTemp` as `RacySave`, rest on a proved abstraction of the save.

`FileStoreProofs`

* `TypeCorrect`: in particular a call that has reached a save has decided what
  to save and where.
* `GateFailsClosed` (`FailClosed`). A client "meets" a fault if it is before its
  audit, or in it with the faulty record still listed or its kind still to be
  listed, or has recorded a violation, or is an import, which makes no gated
  write. The proof shows per action that a client that meets a fault still does
  after its step, and changes no file unless it is an import in a save.
* `EveryFaultAccounted` (`FaultsAccounted`). The property is not inductive: it
  does not say which deposit owes what. `FaultInv` does: an object directory
  that no failure has touched has a record whose version exists or is about to
  be saved by a deposit (`ObjectWhole`), or has none and a deposit is about to
  save it (`ObjectPending`); an object record implies its directory. Relations
  and plain records are whole, or suspect.

`HeadProofs`, which extends `FileStoreProofs`

* `ClassKept` (`ClassFromCreator`). `ClassInv` adds that a deposit that has
  looked the object up, an import that is to save its record, and whatever a
  rival of their saves has left to them, have a class the object was created
  with, as long as no look-up has failed on its record (`misread`).
* `HeadAdvances` (`HeadNotOvertaken`). `HeadInv` adds that the deposits under way
  have versions of their own, acknowledged nowhere (`OwnVersions`); that an
  object record which a save may still publish for a rival that ended is that
  of a failed deposit, whose version never will be acknowledged (`HeadsMet`); and
  that a deposit that has saved its object record finds there, until it
  returns, a head that was not acknowledged when it began (`HeadsSaved`). This
  is what makes its acknowledgement harmless: the versions it then supersedes
  are not the head. All of it is asked only of objects that no import has begun to
  write (`imported`). `HeadsMet` is needed because a save that overlaps another may
  publish what the other has written.

`SqliteIndexProofs`

* `TypeCorrect`.
* `SoleRebuildRestores` (`RebuildRestores`). `RebuildInv` follows one rebuild
  that has no rival rebuild (`SoleFills`): each record it has nothing more to do
  for (`Settled`), that was there when it began and was not replaced since, is
  in its row or was put back by a late upsert; and a record it holds for its
  next INSERT is the store's, unless that was replaced since.
* `ClashesHaveRivals` (`ClashHasRival`): as long as no other handle has worked,
  the tables a rebuild has emptied stay empty until it fills them, and within
  the one it fills, the rows of what is still to be inserted are absent
  (`Cleared`).

`ArchiveProofs`

* `TypeCorrect`.
* `ArchiveHasHeads` (`HeadsExported`) and `ArchiveComplete` (`ExportComplete`).
  `SourceInv` says of the source that a head names a version whose directory is
  there; `SourceGrows` that directories, versions and relations are never taken
  away, so what a listing saw can be compared with what `before` had; `ExportInv`
  that each object passed by the export has its head's version and all its
  earlier ones, and that for the object it is at, these are copied or still
  listed.
* `ImportAccepted` (`RoundTripAccepted`) and `ImportRestores` (`OkRestores`).
  `Nested` says that the target lists nothing, and relates nothing, that the
  current archive lacks: every archive comes of one source, which only grows.
  `Progress` says of the object at which an import is, and of those it has
  passed, that they are restored or were found in the target as they are.
  Without `Nested`, an object of the target that the archive does not have could
  fail the audit of an overwriting import.

`HistoriesProofs`

* `Typed` (`TypeOK`).
* `Complete` (`AnswersComplete`) and `Explained` (`FailuresExplained`). `SInv`
  says of the directories that a save that ended undisturbed is there with no
  saver on its path, and that torn or leftover files are only where a save
  failed or met another (`wrecked`). `RInv` says of a scan under way that each
  record it owes is in its answer or still to be read, and that a temporary file
  still to be read was listed because of a running save or a wreck. Without the
  second, a scan that lists a temporary file, and fails after the save it
  belonged to has ended, would be unexplained.

`GateProofs`, which extends `HistoriesProofs`

* `Catches` (`GateCatches`) and `Fair` (`GateFair`). Both rest on what a step does
  to a path (`PathsKept`): unless a save begins there, what may be read at it
  (`Content`: the file, a leftover, and what its savers hold or have been left)
  does not grow. `TakenThere` is needed for this: a saver whose temporary file a
  rival has renamed finds the rival's file at the target.
* The gate is then followed through the reading of one work item. `Follows`
  relates two sets of transitions to what it has read: it has none but those of
  P, and for each one of C it has one that is no older, or still lists a file in
  which just that one will be found. `FairInv` says that, while nothing has moved,
  this holds of what must and what may be found now, and the version to be read
  is still the latest. `NamedInv` says that this version has been the latest at
  some moment of the gate, and so is one of those `Offenders` asks about: nothing
  stronger holds of it. `CatchInv` says that an item
  that has offended all through the gate is still to be judged, has been found to
  offend, or is being read with sets that convict it (`Convicts`). These are the
  sets of the moment of the listing: later saves may hide the transition
  that completed the item from what must be found, and still the gate reads
  it or one that convicts as well.

`DeclarationsProofs`

* `Typed` (`TypeOK`).
* `Resolves` (`RegistryResolves`): every id of a registered pack stays
  registered, by that pack or something over it; what the packs refer to is
  computed from their definitions.
* `Arrives` (`ArchiveArrives`) and `Transfers` (`TransferResolves`). The
  invariant follows an undisturbed export and import through the kinds: what is
  passed has been copied, what is listed is still to be, and the target is what
  it was plus what has been saved.

Every safety property and both refinements that a passing run checks are
stated by one of these theorems. Only model-checked: `CallsReturn` (liveness
under fairness, which this prover does not do).

## 5. Not modelled

The SurrealDB index (optional, the same operations on another engine, which is
not in the repository); the dirty marker and the validation of envelopes
(nothing calls them); standing values of versions (a map that no operation
reads); the parsing of ids and documents (pure functions over strings); provider
profiles and connections (written and read one by one); the empty governance
crate, benchmarks and fuzz targets, logging and metrics. Of the index, the
columns by which `find_objects` and `find_relations_by_source` select; of the
archive, what section 2 names; of the store, the listings of runs, packets and
reviews inside the audit of another directory.

## 6. What could follow

Writers of the target during an import, and the composition of `Archive` with
the gate of `Histories`.
