------------------------------ MODULE Archive ------------------------------
(***************************************************************************)
(* Export and import of a workspace (earmark-store/src/archive.rs and      *)
(* FileStore::import_archive).  An export reads a store that others write, *)
(* file after file; an import saves what the archive holds into another    *)
(* workspace, past the write gate, and audits at the end.  Either may stop *)
(* anywhere; both can be called again.                                     *)
(*                                                                         *)
(* A user exports the source and imports into the target, in any sequence  *)
(* of calls.  The workspaces share nothing but the archive, so the writers *)
(* of the source rest while an import runs: no behaviour is lost.          *)
(***************************************************************************)
EXTENDS Naturals

CONSTANTS Objects, Versions, Relations, Writers,
          Missing,
          MaxExports, MaxImports, \* bounds: calls
          MaxFailures             \* bound: calls that die or fail

ASSUME SentinelAssumption ==
  Missing \notin Objects \cup Versions \cup (Objects \X Objects)
ASSUME NamesAssumption == Versions \cap Relations = {}
ASSUME BoundAssumption == {MaxExports, MaxImports, MaxFailures} \subseteq Nat

(* The directories of objects and of versions, and the records in them:    *)
(* the head that an object record names, the version records, the          *)
(* endpoints of relations.                                                 *)
Workspaces ==
  [dirs : SUBSET Objects, vdirs : SUBSET (Objects \X Versions),
   head : [Objects -> Versions \cup {Missing}], versions : SUBSET (Objects \X Versions),
   relations : [Relations -> (Objects \X Objects) \cup {Missing}]]

EmptyWorkspace ==
  [dirs |-> {}, vdirs |-> {}, head |-> [o \in Objects |-> Missing], versions |-> {},
   relations |-> [r \in Relations |-> Missing]]

(* verify_consistency; verify_maturity_gate has nothing to say of work     *)
(* items without standing.                                                 *)
Consistent(w) ==
  /\ \A o \in w.dirs : w.head[o] # Missing /\ <<o, w.head[o]>> \in w.versions
  /\ \A r \in Relations : w.relations[r] # Missing =>
       \A i \in {1, 2} : w.head[w.relations[r][i]] # Missing

Calls == [kind : {"deposit"}, object : Objects, version : Versions]
         \cup [kind : {"relate"}, relation : Relations, ends : Objects \X Objects]
Made(x) == IF x.kind = "deposit" THEN x.version ELSE x.relation

VARIABLES
  source, target,
  call, pc, \* per writer of the source
  minted,   \* the ids that calls have generated
  archive,  \* the archive, or what the running export has of it
  exported, \* it is the result of an export that returned Ok
  phase,    \* where the user's call is
  todo,     \* the objects it has listed
  cur,      \* the one it is at
  left,     \* the versions of it, or the relations, still to be copied
  overwrite,
  exports, imports, failures,
  (* Observers. *)
  before,   \* the source when the export began
  kept,     \* the objects an import without overwrite found in the target
  sane,     \* the target was consistent when the import began
  verdict   \* what the last import returned: "ok", "err"

writers == <<call, pc, minted>>
scan == <<todo, cur, left>>
observers == <<before, kept, sane, verdict>>
user == <<archive, exported, phase, scan, overwrite, exports, imports, observers>>
vars == <<source, target, writers, user, failures>>

Init ==
  /\ source = EmptyWorkspace /\ target = EmptyWorkspace
  /\ call = [w \in Writers |-> Missing]
  /\ pc = [w \in Writers |-> "idle"]
  /\ minted = {}
  /\ archive = EmptyWorkspace /\ exported = FALSE
  /\ phase = "rest" /\ todo = {} /\ cur = Missing /\ left = {}
  /\ overwrite = FALSE
  /\ exports = 0 /\ imports = 0 /\ failures = 0
  /\ before = EmptyWorkspace /\ kept = {} /\ sane = TRUE /\ verdict = "none"

Exporting == phase \in {"objects", "listing", "versions"}
Importing == phase \in {"saveObjects", "saveVersions", "saveRelations"}

-----------------------------------------------------------------------------
(* The writers of the source (FileStore.tla has them in full).             *)

(* The audit has passed.                                                   *)
Sanctioned(w, x) ==
  /\ ~Importing
  /\ pc[w] = "idle"
  /\ Consistent(source)
  /\ Made(x) \notin minted
  /\ minted' = minted \cup {Made(x)}
  /\ call' = [call EXCEPT ![w] = x]
  /\ UNCHANGED <<source, target, user, failures>>

Deposit(w) == \E o \in Objects, v \in Versions :
  /\ Sanctioned(w, [kind |-> "deposit", object |-> o, version |-> v])
  /\ pc' = [pc EXCEPT ![w] = "mkdir"]

(* Callers relate what exists (the store does not ask them to).            *)
Relate(w) == \E r \in Relations, a, b \in Objects :
  /\ source.head[a] # Missing /\ source.head[b] # Missing
  /\ Sanctioned(w, [kind |-> "relate", relation |-> r, ends |-> <<a, b>>])
  /\ pc' = [pc EXCEPT ![w] = "saveRelation"]

At(w, place) == ~Importing /\ pc[w] = place
Returns(w) == pc' = [pc EXCEPT ![w] = "idle"] /\ call' = [call EXCEPT ![w] = Missing]

(* A mutant: only the directory of the object is made ahead of the saves.  *)
MakeDirsLate(w) ==
  /\ At(w, "mkdir")
  /\ source' = [source EXCEPT !.dirs = @ \cup {call[w].object}]
  /\ pc' = [pc EXCEPT ![w] = "saveObject"]
  /\ UNCHANGED <<target, call, minted, user, failures>>

MakeDirs(w) ==
  /\ At(w, "mkdir")
  /\ source' = [source EXCEPT !.dirs = @ \cup {call[w].object},
                              !.vdirs = @ \cup {<<call[w].object, call[w].version>>}]
  /\ pc' = [pc EXCEPT ![w] = "saveObject"]
  /\ UNCHANGED <<target, call, minted, user, failures>>

SaveObject(w) ==
  /\ At(w, "saveObject")
  /\ source' = [source EXCEPT !.head[call[w].object] = call[w].version]
  /\ pc' = [pc EXCEPT ![w] = "saveVersion"]
  /\ UNCHANGED <<target, call, minted, user, failures>>

SaveVersion(w) ==
  /\ At(w, "saveVersion")
  /\ source' = [source EXCEPT !.vdirs = @ \cup {<<call[w].object, call[w].version>>},
                              !.versions = @ \cup {<<call[w].object, call[w].version>>}]
  /\ Returns(w)
  /\ UNCHANGED <<target, minted, user, failures>>

SaveRelation(w) ==
  /\ At(w, "saveRelation")
  /\ source' = [source EXCEPT !.relations[call[w].relation] = call[w].ends]
  /\ Returns(w)
  /\ UNCHANGED <<target, minted, user, failures>>

(* A call of a writer fails, or dies, and is not undone.                   *)
WriterFails(w) ==
  /\ ~Importing
  /\ pc[w] # "idle"
  /\ failures < MaxFailures
  /\ failures' = failures + 1
  /\ Returns(w)
  /\ UNCHANGED <<source, target, minted, user>>

Write(w) == \/ Deposit(w) \/ Relate(w)
            \/ MakeDirs(w) \/ SaveObject(w) \/ SaveVersion(w) \/ SaveRelation(w)
            \/ WriterFails(w)

-----------------------------------------------------------------------------
(* export_workspace.                                                       *)

(* A mutant: a running export counts as the result of the last one.        *)
BeginExportKeepsResult ==
  /\ phase = "rest"
  /\ exports < MaxExports
  /\ exports' = exports + 1
  /\ archive' = EmptyWorkspace /\ exported' = exported
  /\ phase' = "objects" /\ todo' = source.dirs
  /\ before' = source /\ verdict' = "none"
  /\ UNCHANGED <<source, target, writers, cur, left, overwrite, imports, failures, kept, sane>>

BeginExport ==
  /\ phase = "rest"
  /\ exports < MaxExports
  /\ exports' = exports + 1
  /\ archive' = EmptyWorkspace /\ exported' = FALSE
  /\ phase' = "objects" /\ todo' = source.dirs
  /\ before' = source /\ verdict' = "none"
  /\ UNCHANGED <<source, target, writers, cur, left, overwrite, imports, failures, kept, sane>>

ReadObject(o) ==
  /\ phase = "objects"
  /\ o \in todo
  /\ source.head[o] # Missing
  /\ archive' = [archive EXCEPT !.dirs = @ \cup {o}, !.head[o] = source.head[o]]
  /\ todo' = todo \ {o} /\ cur' = o
  /\ phase' = "listing"
  /\ UNCHANGED <<source, target, writers, exported, left, overwrite,
                 exports, imports, failures, observers>>

(* A mutant: only the version that the head names is copied.               *)
ListHead ==
  /\ phase = "listing"
  /\ left' = {archive.head[cur]}
  /\ phase' = "versions"
  /\ UNCHANGED <<source, target, writers, archive, exported, todo, cur, overwrite,
                 exports, imports, failures, observers>>

ListVersions ==
  /\ phase = "listing"
  /\ left' = {v \in Versions : <<cur, v>> \in source.vdirs}
  /\ phase' = "versions"
  /\ UNCHANGED <<source, target, writers, archive, exported, todo, cur, overwrite,
                 exports, imports, failures, observers>>

ReadVersion(v) ==
  /\ phase = "versions"
  /\ v \in left
  /\ <<cur, v>> \in source.versions
  /\ archive' = [archive EXCEPT !.vdirs = @ \cup {<<cur, v>>},
                                !.versions = @ \cup {<<cur, v>>}]
  /\ left' = left \ {v}
  /\ UNCHANGED <<source, target, writers, exported, phase, todo, cur, overwrite,
                 exports, imports, failures, observers>>

NextObject ==
  /\ phase = "versions"
  /\ left = {}
  /\ phase' = "objects"
  /\ cur' = Missing
  /\ UNCHANGED <<source, target, writers, archive, exported, todo, left, overwrite,
                 exports, imports, failures, observers>>

(* Relations come after the objects: the listing and the reads are one     *)
(* step, for a relation stays once it is there.  Of the other records the  *)
(* model has none.                                                         *)
ReadRelations ==
  /\ phase = "objects"
  /\ todo = {}
  /\ archive' = [archive EXCEPT !.relations = source.relations]
  /\ exported' = TRUE
  /\ phase' = "rest"
  /\ UNCHANGED <<source, target, writers, scan, overwrite, exports, imports, failures, observers>>

(* A listed object or version without its record ends the export with Err. *)
ReadFails ==
  /\ \/ phase = "objects" /\ \E o \in todo : source.head[o] = Missing
     \/ phase = "versions" /\ \E v \in left : <<cur, v>> \notin source.versions
  /\ phase' = "rest" /\ todo' = {} /\ cur' = Missing /\ left' = {}
  /\ UNCHANGED <<source, target, writers, archive, exported, overwrite,
                 exports, imports, failures, observers>>

ExportFails ==
  /\ Exporting
  /\ failures < MaxFailures
  /\ failures' = failures + 1
  /\ phase' = "rest" /\ todo' = {} /\ cur' = Missing /\ left' = {}
  /\ UNCHANGED <<source, target, writers, archive, exported, overwrite,
                 exports, imports, observers>>

Export == \/ BeginExport \/ ListVersions \/ NextObject \/ ReadRelations
          \/ ReadFails \/ ExportFails
          \/ \E o \in Objects : ReadObject(o)
          \/ \E v \in Versions : ReadVersion(v)

-----------------------------------------------------------------------------
(* import_archive.                                                         *)

BeginImport ==
  /\ phase = "rest"
  /\ exported
  /\ imports < MaxImports
  /\ imports' = imports + 1
  /\ overwrite' \in BOOLEAN
  /\ phase' = "saveObjects" /\ todo' = archive.dirs
  /\ kept' = IF overwrite' THEN {} ELSE archive.dirs \cap target.dirs
  /\ sane' = Consistent(target)
  /\ verdict' = "none"
  /\ UNCHANGED <<source, target, writers, archive, exported, cur, left, exports, failures, before>>

(* A mutant: overwrite is forgotten.                                       *)
SkipsAlways(o) == o \in target.dirs

Skips(o) == ~overwrite /\ o \in target.dirs

SkipObject(o) ==
  /\ phase = "saveObjects"
  /\ o \in todo
  /\ Skips(o)
  /\ todo' = todo \ {o}
  /\ UNCHANGED <<source, target, writers, archive, exported, phase, cur, left, overwrite,
                 exports, imports, failures, observers>>

ImportObject(o) ==
  /\ phase = "saveObjects"
  /\ o \in todo
  /\ ~Skips(o)
  /\ target' = [target EXCEPT !.dirs = @ \cup {o}, !.head[o] = archive.head[o]]
  /\ todo' = todo \ {o} /\ cur' = o
  /\ left' = {v \in Versions : <<o, v>> \in archive.versions}
  /\ phase' = "saveVersions"
  /\ UNCHANGED <<source, writers, archive, exported, overwrite,
                 exports, imports, failures, observers>>

ImportVersion(v) ==
  /\ phase = "saveVersions"
  /\ v \in left
  /\ target' = [target EXCEPT !.vdirs = @ \cup {<<cur, v>>}, !.versions = @ \cup {<<cur, v>>}]
  /\ left' = left \ {v}
  /\ UNCHANGED <<source, writers, archive, exported, phase, todo, cur, overwrite,
                 exports, imports, failures, observers>>

(* A mutant: the version that the head names is enough.                    *)
ObjectImportedEarly ==
  /\ phase = "saveVersions"
  /\ <<cur, archive.head[cur]>> \in target.versions
  /\ phase' = "saveObjects"
  /\ cur' = Missing /\ left' = {}
  /\ UNCHANGED <<source, target, writers, archive, exported, todo, overwrite,
                 exports, imports, failures, observers>>

ObjectImported ==
  /\ phase = "saveVersions"
  /\ left = {}
  /\ phase' = "saveObjects"
  /\ cur' = Missing
  /\ UNCHANGED <<source, target, writers, archive, exported, todo, left, overwrite,
                 exports, imports, failures, observers>>

ObjectsImported ==
  /\ phase = "saveObjects"
  /\ todo = {}
  /\ phase' = "saveRelations"
  /\ left' = {r \in Relations : archive.relations[r] # Missing}
  /\ UNCHANGED <<source, target, writers, archive, exported, todo, cur, overwrite,
                 exports, imports, failures, observers>>

(* Relations are replaced with and without overwrite.                      *)
ImportRelation(r) ==
  /\ phase = "saveRelations"
  /\ r \in left
  /\ target' = [target EXCEPT !.relations[r] = archive.relations[r]]
  /\ left' = left \ {r}
  /\ UNCHANGED <<source, writers, archive, exported, phase, todo, cur, overwrite,
                 exports, imports, failures, observers>>

Audited == phase = "saveRelations" /\ left = {}

Verify ==
  /\ Audited
  /\ verdict' = IF Consistent(target) THEN "ok" ELSE "err"
  /\ phase' = "rest" /\ overwrite' = FALSE /\ sane' = TRUE
  /\ UNCHANGED <<source, target, writers, archive, exported, scan,
                 exports, imports, failures, before, kept>>

(* A save fails, or the process dies, perhaps with the directory of the    *)
(* record made already.                                                    *)
ImportFails ==
  /\ Importing
  /\ failures < MaxFailures
  /\ failures' = failures + 1
  /\ \/ target' = target
     \/ phase = "saveObjects" /\ \E o \in todo :
          ~Skips(o) /\ target' = [target EXCEPT !.dirs = @ \cup {o}]
     \/ phase = "saveVersions" /\ \E v \in left :
          target' = [target EXCEPT !.vdirs = @ \cup {<<cur, v>>}]
  /\ verdict' = "err"
  /\ phase' = "rest" /\ todo' = {} /\ cur' = Missing /\ left' = {}
  /\ overwrite' = FALSE /\ sane' = TRUE /\ kept' = {}
  /\ UNCHANGED <<source, writers, archive, exported, exports, imports, before>>

Import == \/ BeginImport \/ ObjectImported \/ ObjectsImported \/ Verify \/ ImportFails
          \/ \E o \in Objects : SkipObject(o) \/ ImportObject(o)
          \/ \E v \in Versions : ImportVersion(v)
          \/ \E r \in Relations : ImportRelation(r)

Next == (\E w \in Writers : Write(w)) \/ Export \/ Import

Spec == Init /\ [][Next]_vars

-----------------------------------------------------------------------------
(* Properties.                                                             *)

TypeOK ==
  /\ {source, target, archive, before} \subseteq Workspaces
  /\ call \in [Writers -> Calls \cup {Missing}]
  /\ pc \in [Writers -> {"idle", "mkdir", "saveObject", "saveVersion", "saveRelation"}]
  /\ \A w \in Writers :
       /\ pc[w] = "idle" => call[w] = Missing
       /\ pc[w] \in {"mkdir", "saveObject", "saveVersion"} =>
            call[w] \in Calls /\ call[w].kind = "deposit"
       /\ pc[w] = "saveRelation" => call[w] \in Calls /\ call[w].kind = "relate"
  /\ minted \subseteq Versions \cup Relations
  /\ exported \in BOOLEAN /\ overwrite \in BOOLEAN /\ sane \in BOOLEAN
  /\ Exporting \/ Importing \/ phase = "rest"
  /\ phase \in {"rest", "saveRelations"} => todo = {}
  /\ phase \in {"rest", "objects", "listing", "saveObjects"} => left = {}
  /\ Importing => exported
  /\ Exporting => ~exported
  /\ todo \subseteq Objects /\ kept \subseteq Objects
  /\ cur \in Objects \cup {Missing}
  /\ phase \in {"listing", "versions", "saveVersions"} => cur \in Objects
  /\ phase \in {"versions", "saveVersions"} => left \subseteq Versions
  /\ phase = "saveRelations" => left \subseteq Relations
  /\ left \subseteq Versions \cup Relations
  /\ exports \in 0..MaxExports /\ imports \in 0..MaxImports /\ failures \in 0..MaxFailures
  /\ verdict \in {"none", "ok", "err"}

(* An archive is never torn between an object and its versions, whatever   *)
(* deposits run or died: it has the version that each of its heads names.  *)
(* (A deposit makes the directory of the version before it moves the head, *)
(* and a listed directory without a record ends the export.)               *)
HeadsExported ==
  exported => \A o \in archive.dirs : <<o, archive.head[o]>> \in archive.versions

(* An export has all that was there when it began, so a relation in it     *)
(* dangles only if its endpoint was made during the export.                *)
ExportComplete ==
  exported =>
    /\ before.dirs \subseteq archive.dirs
    /\ before.versions \subseteq archive.versions
    /\ \A r \in Relations : before.relations[r] # Missing =>
         archive.relations[r] = before.relations[r]
    /\ \A r \in Relations, i \in {1, 2} :
         /\ archive.relations[r] # Missing
         /\ archive.relations[r][i] \notin archive.dirs
         => archive.relations[r][i] \notin before.dirs

(* The audit of an import never refuses a consistent archive, if the       *)
(* target was consistent or is overwritten: not after imports that died,   *)
(* and not after imports of archives that it did refuse.                   *)
RoundTripAccepted ==
  Audited /\ Consistent(archive) /\ (overwrite \/ sane) => Consistent(target)

(* An import that returned Ok left a consistent target, with everything    *)
(* that is in the archive, except versions of the objects that an import   *)
(* without overwrite found there already.                                  *)
OkRestores ==
  verdict = "ok" =>
    /\ Consistent(target)
    /\ archive.dirs \subseteq target.dirs
    /\ \A o \in archive.dirs \ kept :
         /\ target.head[o] = archive.head[o]
         /\ \A v \in Versions : <<o, v>> \in archive.versions => <<o, v>> \in target.versions
    /\ \A r \in Relations : archive.relations[r] # Missing =>
         target.relations[r] = archive.relations[r]
=============================================================================
