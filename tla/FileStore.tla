------------------------------ MODULE FileStore ------------------------------
(***************************************************************************)
(* The canonical store: FileStore (earmark-store/src/file_store.rs) under  *)
(* the sanctioned operations (earmark-store/src/sanctioned.rs).  Clients   *)
(* are threads or processes that call it on one workspace.  A write call   *)
(* audits the whole store file by file (sanction_write), and then saves    *)
(* its records one by one; nothing is locked, so the steps of different    *)
(* calls interleave, and a call may fail or be killed between any two.  An *)
(* import is the exception: it saves first and audits afterwards.          *)
(*                                                                         *)
(* One save of one path is what AtomicSave.tla and RacySave.tla establish: *)
(* the record whole, unless another save of the same path overlaps it,     *)
(* when the shared temporary file lets the record of either saver, or torn *)
(* bytes, reach the target (SharedTemp!Published).                         *)
(***************************************************************************)
EXTENDS Naturals, SharedTemp

CONSTANTS Clients,
          Objects,   \* object ids, and the paths of the object records
          Versions,  \* version ids, and the paths of the version records
          Relations, \* relation ids, and the paths of the relation records
          Plain,     \* paths of the single-file records: runs, packets, ...
          Audited,   \* those verify_consistency parses: runs, packets, reviews
          Classes,   \* the registered classes, and "no class"
          Payloads,  \* the rest of a record
          Missing,   \* no file at this path (Torn: a file that is no record)
          Nothing,   \* no value in a field
          MaxCalls,  \* bound: calls
          MaxFailures,
          MaxImported \* bound: the records of an archive

Paths == Objects \cup Versions \cup Relations \cup Plain

ObjectRecords == [class : Classes, latest : Versions]

RelationRecords == [source : Objects, target : Objects]

Bodies == Payloads \cup RelationRecords

Contents == ObjectRecords \cup Bodies \cup {Missing, Torn}

ASSUME PathAssumption ==
  /\ Objects \cap Versions = {} /\ Objects \cap Relations = {} /\ Objects \cap Plain = {}
  /\ Versions \cap Relations = {} /\ Versions \cap Plain = {} /\ Relations \cap Plain = {}
  /\ Audited \subseteq Plain
ASSUME SentinelAssumption ==
  /\ Missing # Torn
  /\ {Missing, Torn} \cap (ObjectRecords \cup Bodies) = {}
  /\ ObjectRecords \cap Bodies = {}
  /\ Nothing \notin Objects \cup Classes \cup Paths \cup Bodies \cup ObjectRecords
ASSUME BoundAssumption == MaxCalls \in Nat /\ MaxFailures \in Nat /\ MaxImported \in Nat

VARIABLES
  file,     \* what a reader finds at each path
  dirs,     \* the objects with a directory under .earmark/objects
  pc,       \* where each client's call is
  call,     \* its arguments, and the object record fields it has decided
  todo,     \* what the audit has listed and not yet looked at, or what of
            \* its archive an import has not yet saved
  bad,      \* the audit has recorded a violation
  calls, failures,
  met,      \* what saves of the path being saved, that ended, have left to it
  (* Observers: no step of the code depends on them. *)
  minted,   \* ids generated so far: a generated id is never generated again
  prior,    \* the deposits acknowledged before each client's call began
  acked,    \* the deposits acknowledged, as <<object, version>>
  overtaken,\* those of them that a later acknowledged deposit followed
  createdAs,\* the classes given by deposits that found no record and by imports
  misread,  \* objects a deposit took for new although they had a record
  imported, \* paths an import has begun to write
  suspect   \* paths an import or some failed, overlapping or dangling write
            \* has touched

disk == <<file, dirs>>
history == <<minted, acked, overtaken, createdAs, misread, imported>>
observers == <<history, prior, suspect>>
vars == <<file, dirs, pc, call, todo, bad, met, calls, failures,
          minted, prior, acked, overtaken, createdAs, misread, imported, suspect>>

(* What an archive may hold: records, and the paths they belong to.        *)
Entries == (Objects \X ObjectRecords) \cup (Relations \X RelationRecords)
           \cup ((Versions \cup Plain) \X Payloads)

(* What a call was given; Nothing in the fields its kind does not have.    *)
(* path and body are the record it saves last.                             *)
DepositCalls == [kind : {"deposit"}, object : Objects, class : Classes,
                 path : Versions, body : Payloads]
RelateCalls == [kind : {"relate"}, object : {Nothing}, class : {Nothing},
                path : Relations, body : RelationRecords]
ReviseCalls == [kind : {"revise"}, object : {Nothing}, class : {Nothing},
                path : Versions, body : Payloads]
RecordCalls == [kind : {"record"}, object : {Nothing}, class : {Nothing},
                path : Plain, body : Payloads]
(* An import's path and body are the record it has come to.                *)
ImportCalls == [kind : {"import"}, object : {Nothing}, class : {Nothing},
                path : Paths \cup {Nothing}, body : ObjectRecords \cup Bodies \cup {Nothing}]
Calls == DepositCalls \cup RelateCalls \cup ReviseCalls \cup RecordCalls \cup ImportCalls

NoCall == [kind |-> "none"]

Before == {"lookup", "reread"}
Auditing == {"auditObjects", "auditRelations", "auditRecords"}
Importing == {"import", "importSave"}
Saving == {"saveObject", "save", "importSave"}

Init ==
  /\ file = [p \in Paths |-> Missing]
  /\ dirs = {}
  /\ pc = [c \in Clients |-> "idle"]
  /\ call = [c \in Clients |-> NoCall]
  /\ todo = [c \in Clients |-> {}]
  /\ bad = [c \in Clients |-> FALSE]
  /\ met = [c \in Clients |-> {}]
  /\ calls = 0
  /\ failures = 0
  /\ minted = {}
  /\ prior = [c \in Clients |-> {}]
  /\ acked = {}
  /\ overtaken = {}
  /\ createdAs = [o \in Objects |-> {}]
  /\ misread = {}
  /\ imported = {}
  /\ suspect = {}

Goto(c, label) == pc' = [pc EXCEPT ![c] = label]

-----------------------------------------------------------------------------
(* The audit: verify_consistency, which looks at one record at a time.     *)

Exists(p) == file[p] # Missing

(* list_objects lists directories, the others list files.                  *)
Listing(phase) ==
  CASE phase = "auditObjects" -> dirs
    [] phase = "auditRelations" -> {r \in Relations : Exists(r)}
    [] phase = "auditRecords" -> {p \in Audited : Exists(p)}

ObjectFault(o) == \/ file[o] \notin ObjectRecords
                  \/ ~Exists(file[o].latest)

RelationFault(r) == \/ file[r] \notin RelationRecords
                    \/ ~Exists(file[r].source)
                    \/ ~Exists(file[r].target)

RecordFault(p) == file[p] \notin Payloads

Faulty(p) == \/ p \in Objects /\ ObjectFault(p)
             \/ p \in Relations /\ RelationFault(p)
             \/ p \in Audited /\ RecordFault(p)

(* Everything an audit with the store to itself would report.              *)
Faults == {p \in dirs : ObjectFault(p)}
          \cup {p \in Relations : Exists(p) /\ RelationFault(p)}
          \cup {p \in Audited : Exists(p) /\ RecordFault(p)}

BeginAudit(c) ==
  /\ Goto(c, "auditObjects")
  /\ todo' = [todo EXCEPT ![c] = dirs]
  /\ bad' = [bad EXCEPT ![c] = FALSE]

(* A mutant: each record's verdict replaces the one before.                *)
AuditOneForgets(c) ==
  /\ pc[c] \in Auditing
  /\ \E p \in todo[c] :
       /\ todo' = [todo EXCEPT ![c] = @ \ {p}]
       /\ bad' = [bad EXCEPT ![c] = Faulty(p)]
  /\ UNCHANGED <<disk, pc, call, met, calls, failures, observers>>

AuditOne(c) ==
  /\ pc[c] \in Auditing
  /\ \E p \in todo[c] :
       /\ todo' = [todo EXCEPT ![c] = @ \ {p}]
       /\ bad' = [bad EXCEPT ![c] = @ \/ Faulty(p)]
  /\ UNCHANGED <<disk, pc, call, met, calls, failures, observers>>

(* A mutant: objects are followed by records, and relations left out.      *)
NextPhaseSkipsRelations(c) ==
  /\ pc[c] = "auditObjects"
  /\ todo[c] = {}
  /\ Goto(c, "auditRecords")
  /\ todo' = [todo EXCEPT ![c] = Listing("auditRecords")]
  /\ UNCHANGED <<disk, call, bad, met, calls, failures, observers>>

NextPhase(c) ==
  /\ pc[c] \in {"auditObjects", "auditRelations"}
  /\ todo[c] = {}
  /\ LET phase == IF pc[c] = "auditObjects" THEN "auditRelations" ELSE "auditRecords"
     IN  /\ Goto(c, phase)
         /\ todo' = [todo EXCEPT ![c] = Listing(phase)]
  /\ UNCHANGED <<disk, call, bad, met, calls, failures, observers>>

-----------------------------------------------------------------------------
(* Saving one record, alone or overlapped by another save of its path.     *)

Target(c) == IF pc[c] = "saveObject" THEN call[c].object ELSE call[c].path

Content(c) == IF pc[c] = "saveObject"
              THEN [class |-> call[c].class, latest |-> call[c].path]
              ELSE call[c].body

Rivals(c) == {d \in Clients \ {c} : /\ pc[c] \in Saving /\ pc[d] \in Saving
                                    /\ Target(d) = Target(c)}

Overlapped(c) == met[c] # {} \/ Rivals(c) # {}

Landed(c) == Published(Content(c), met[c], {Content(d) : d \in Rivals(c)})

(* The save of c ends and leaves something to those it overlapped.         *)
Meet(c, left) == met' = [d \in Clients |-> IF d = c THEN {}
                                           ELSE IF d \in Rivals(c) THEN met[d] \cup left
                                           ELSE met[d]]

(* The call returns to its caller, or dies.                                *)
Leave(c) ==
  /\ Goto(c, "idle")
  /\ call' = [call EXCEPT ![c] = NoCall]
  /\ todo' = [todo EXCEPT ![c] = {}]
  /\ bad' = [bad EXCEPT ![c] = FALSE]
  /\ prior' = [prior EXCEPT ![c] = {}]

Dangling(c) == call[c].kind = "relate" /\ ~(Exists(call[c].body.source) /\ Exists(call[c].body.target))

Touched(c) == IF Overlapped(c) \/ Dangling(c) THEN {Target(c)} ELSE {}

(* A mutant: an existing object record keeps its head.                     *)
SaveObjectKeepsHead(c) ==
  /\ pc[c] = "saveObject"
  /\ \E x \in Landed(c) :
       file' = [file EXCEPT ![Target(c)] = IF @ \in ObjectRecords THEN @ ELSE x]
  /\ suspect' = suspect \cup Touched(c)
  /\ Meet(c, {Torn})
  /\ Goto(c, "save")
  /\ UNCHANGED <<dirs, call, todo, bad, calls, failures, history, prior>>

SaveObject(c) ==
  /\ pc[c] = "saveObject"
  /\ \E x \in Landed(c) : file' = [file EXCEPT ![Target(c)] = x]
  /\ suspect' = suspect \cup Touched(c)
  /\ Meet(c, {Torn})
  /\ Goto(c, "save")
  /\ UNCHANGED <<dirs, call, todo, bad, calls, failures, history, prior>>

(* A mutant: the error of the last save is dropped.                        *)
SaveAndReturnDropsError(c) ==
  /\ pc[c] = "save"
  /\ \E x \in Landed(c) \cup {file[Target(c)]} : file' = [file EXCEPT ![Target(c)] = x]
  /\ suspect' = suspect \cup Touched(c)
  /\ Leave(c)
  /\ Meet(c, {Torn})
  /\ IF call[c].kind = "deposit"
     THEN /\ acked' = acked \cup {<<call[c].object, call[c].path>>}
          /\ overtaken' = overtaken \cup {a \in prior[c] : a[1] = call[c].object}
     ELSE UNCHANGED <<acked, overtaken>>
  /\ UNCHANGED <<dirs, calls, failures, minted, createdAs, misread, imported>>

(* The last save of the call; its caller gets Ok.                          *)
SaveAndReturn(c) ==
  /\ pc[c] = "save"
  /\ \E x \in Landed(c) : file' = [file EXCEPT ![Target(c)] = x]
  /\ suspect' = suspect \cup Touched(c)
  /\ Leave(c)
  /\ Meet(c, {Torn})
  /\ IF call[c].kind = "deposit"
     THEN /\ acked' = acked \cup {<<call[c].object, call[c].path>>}
          /\ overtaken' = overtaken \cup {a \in prior[c] : a[1] = call[c].object}
     ELSE UNCHANGED <<acked, overtaken>>
  /\ UNCHANGED <<dirs, calls, failures, minted, createdAs, misread, imported>>

(* What a deposit that stops half way leaves its object as.                *)
Wreck(c) == Touched(c) \cup (IF call[c].kind = "deposit" THEN {call[c].object} ELSE {})

(* A rival has renamed the file this save holds open: the write goes into  *)
(* the target...                                                           *)
Scribble(c) ==
  /\ pc[c] \in Saving
  /\ Taken(met[c])
  /\ \E x \in {Content(c), Torn} : file' = [file EXCEPT ![Target(c)] = x]
  /\ suspect' = suspect \cup Touched(c)
  /\ UNCHANGED <<dirs, pc, call, todo, bad, met, calls, failures,
                 history, prior>>

(* ... and rename finds the temporary file gone: the call returns Err.     *)
SaveLosesRace(c) ==
  /\ pc[c] \in Saving
  /\ Taken(met[c])
  /\ suspect' = suspect \cup Wreck(c)
  /\ Leave(c)
  /\ Meet(c, {})
  /\ UNCHANGED <<disk, calls, failures, history>>

-----------------------------------------------------------------------------
(* The verdict of the audit.                                               *)

(* A mutant: a refused call audits again until the store is consistent.    *)
RejectRetries(c) ==
  /\ pc[c] = "auditRecords"
  /\ todo[c] = {}
  /\ bad[c]
  /\ BeginAudit(c)
  /\ UNCHANGED <<disk, call, met, calls, failures, observers>>

(* Err(Consistency), or the Err(Regression) of an import: the store is     *)
(* left as it is.                                                          *)
Reject(c) ==
  /\ pc[c] = "auditRecords"
  /\ todo[c] = {}
  /\ bad[c]
  /\ Leave(c)
  /\ UNCHANGED <<disk, met, calls, failures, history, suspect>>

(* A mutant: update_version makes the version's directory as deposits do.  *)
SanctionedCreates(c) ==
  /\ pc[c] = "auditRecords"
  /\ todo[c] = {}
  /\ ~bad[c]
  /\ call[c].kind # "import"
  /\ Goto(c, IF call[c].kind \in {"deposit", "revise"} THEN "mkdir" ELSE "save")
  /\ UNCHANGED <<disk, call, todo, bad, met, calls, failures, observers>>

Sanctioned(c) ==
  /\ pc[c] = "auditRecords"
  /\ todo[c] = {}
  /\ ~bad[c]
  /\ call[c].kind # "import"
  /\ Goto(c, CASE call[c].kind = "deposit" -> "mkdir"
               [] call[c].kind = "revise" -> "check"
               [] OTHER -> "save")
  /\ UNCHANGED <<disk, call, todo, bad, met, calls, failures, observers>>

-----------------------------------------------------------------------------
(* The calls.                                                              *)

Begin(c, kind, object, class, path, body) ==
  /\ pc[c] = "idle"
  /\ calls < MaxCalls
  /\ calls' = calls + 1
  /\ call' = [call EXCEPT ![c] = [kind |-> kind, object |-> object, class |-> class,
                                  path |-> path, body |-> body]]
  /\ prior' = [prior EXCEPT ![c] = acked]
  /\ UNCHANGED <<disk, met, failures, acked, overtaken, misread, imported, suspect>>

(* sanctioned::deposit_object with an id: look the object up first.  A     *)
(* class that is not registered is refused before any of this.             *)
DepositTo(c, o, k, v, b) ==
  /\ v \notin minted
  /\ minted' = minted \cup {v}
  /\ Begin(c, "deposit", o, k, v, b)
  /\ Goto(c, "lookup")
  /\ UNCHANGED <<todo, bad, createdAs>>

(* ... and without one: a fresh object.                                    *)
DepositNew(c, o, k, v, b) ==
  /\ {o, v} \cap minted = {}
  /\ \A d \in Clients : pc[d] # "idle" => call[d].object # o
  /\ o \notin dirs
  /\ minted' = minted \cup {o, v}
  /\ Begin(c, "deposit", o, k, v, b)
  /\ BeginAudit(c)
  /\ createdAs' = [createdAs EXCEPT ![o] = @ \cup {k}]

LookupNew(c) ==
  /\ pc[c] = "lookup"
  /\ ~Exists(call[c].object)
  /\ createdAs' = [createdAs EXCEPT ![call[c].object] = @ \cup {call[c].class}]
  /\ BeginAudit(c)
  /\ UNCHANGED <<disk, call, met, calls, failures, minted, prior, acked, overtaken,
                 misread, imported, suspect>>

(* Any error of get_object, not only ObjectNotFound, makes the object new: *)
(* a record that does not parse, or a whole one that could not be read.    *)
LookupUnread(c) ==
  /\ pc[c] = "lookup"
  /\ Exists(call[c].object)
  /\ \/ file[call[c].object] = Torn /\ UNCHANGED failures
     \/ failures < MaxFailures /\ failures' = failures + 1
  /\ misread' = misread \cup {call[c].object}
  /\ BeginAudit(c)
  /\ UNCHANGED <<disk, call, met, calls, minted, prior, acked, overtaken,
                 createdAs, imported, suspect>>

LookupFound(c) ==
  /\ pc[c] = "lookup"
  /\ file[call[c].object] \in ObjectRecords
  /\ Goto(c, "reread")
  /\ UNCHANGED <<disk, call, todo, bad, met, calls, failures, observers>>

(* A mutant: the record is built from the caller's input.                  *)
RereadKeepsInput(c) ==
  /\ pc[c] = "reread"
  /\ file[call[c].object] \in ObjectRecords
  /\ BeginAudit(c)
  /\ UNCHANGED <<disk, call, met, calls, failures, observers>>

(* The second get_object, whose fields the new record keeps.               *)
Reread(c) ==
  /\ pc[c] = "reread"
  /\ file[call[c].object] \in ObjectRecords
  /\ call' = [call EXCEPT ![c].class = file[call[c].object].class]
  /\ BeginAudit(c)
  /\ UNCHANGED <<disk, met, calls, failures, observers>>

RereadFails(c) ==
  /\ pc[c] = "reread"
  /\ file[call[c].object] \notin ObjectRecords
  /\ Leave(c)
  /\ UNCHANGED <<disk, met, calls, failures, history, suspect>>

(* create_dir_all(ver_dir) makes the object's directory too.               *)
MakeDir(c) ==
  /\ pc[c] = "mkdir"
  /\ dirs' = dirs \cup {call[c].object}
  /\ Goto(c, "saveObject")
  /\ UNCHANGED <<file, call, todo, bad, met, calls, failures, observers>>

(* sanctioned::create_relation: a generated id, and endpoints nobody looks *)
(* up.                                                                     *)
Relate(c, r, body) ==
  /\ r \notin minted
  /\ minted' = minted \cup {r}
  /\ Begin(c, "relate", Nothing, Nothing, r, body)
  /\ BeginAudit(c)
  /\ UNCHANGED createdAs

(* update_version of a version somebody created.                           *)
Revise(c, v, b) ==
  /\ v \in minted
  /\ Begin(c, "revise", Nothing, Nothing, v, b)
  /\ BeginAudit(c)
  /\ UNCHANGED <<minted, createdAs>>

CheckFound(c) ==
  /\ pc[c] = "check"
  /\ Exists(call[c].path)
  /\ Goto(c, "save")
  /\ UNCHANGED <<disk, call, todo, bad, met, calls, failures, observers>>

VersionNotFound(c) ==
  /\ pc[c] = "check"
  /\ ~Exists(call[c].path)
  /\ Leave(c)
  /\ UNCHANGED <<disk, met, calls, failures, history, suspect>>

(* create_run, update_run, create_packet, create_review and the other      *)
(* writers of one file, which overwrite what is there.                     *)
Record(c, p, b) ==
  /\ Begin(c, "record", Nothing, Nothing, p, b)
  /\ BeginAudit(c)
  /\ UNCHANGED <<minted, createdAs>>

(* import_archive saves the records of an archive, exported anywhere, past *)
(* the gate: objects with their versions, then relations, then the rest.   *)
(* Without overwrite it skips objects that have a directory, as it would   *)
(* had the archive come without them.                                      *)
Import(c, archive) ==
  /\ Begin(c, "import", Nothing, Nothing, Nothing, Nothing)
  /\ archive # {}
  /\ \A e, f \in archive : e[1] = f[1] => e = f
  /\ (\E e \in archive : e[1] \in Versions) => \E e \in archive : e[1] \in Objects
  /\ Goto(c, "import")
  /\ todo' = [todo EXCEPT ![c] = archive]
  /\ minted' = minted \cup ({e[1] : e \in archive} \ Plain)
                     \cup {e[2].latest : e \in archive \cap (Objects \X ObjectRecords)}
  /\ UNCHANGED <<bad, createdAs>>

Turn(p) == CASE p \in Objects \cup Versions -> 0
             [] p \in Relations -> 1
             [] p \in Plain -> 2

(* save makes the directory before anything else.                          *)
ImportNext(c, p, x) ==
  /\ pc[c] = "import"
  /\ <<p, x>> \in todo[c]
  /\ \A e \in todo[c] : Turn(p) <= Turn(e[1])
  /\ p \in Versions => call[c].path # Nothing
  /\ Goto(c, "importSave")
  /\ call' = [call EXCEPT ![c].path = p, ![c].body = x]
  /\ todo' = [todo EXCEPT ![c] = @ \ {<<p, x>>}]
  /\ dirs' = dirs \cup ({p} \cap Objects)
  /\ createdAs' = IF p \in Objects THEN [createdAs EXCEPT ![p] = @ \cup {x.class}] ELSE createdAs
  /\ imported' = imported \cup {p}
  /\ suspect' = suspect \cup {p}
  /\ UNCHANGED <<file, bad, met, calls, failures, minted, prior, acked, overtaken, misread>>

ImportSave(c) ==
  /\ pc[c] = "importSave"
  /\ \E x \in Landed(c) : file' = [file EXCEPT ![Target(c)] = x]
  /\ suspect' = suspect \cup Touched(c)
  /\ Meet(c, {Torn})
  /\ Goto(c, "import")
  /\ UNCHANGED <<dirs, call, todo, bad, calls, failures, history, prior>>

(* verify_regression_gate, of whose two parts Histories.tla has the other. *)
ImportAudit(c) ==
  /\ pc[c] = "import"
  /\ todo[c] = {}
  /\ BeginAudit(c)
  /\ UNCHANGED <<disk, call, met, calls, failures, observers>>

ImportReturns(c) ==
  /\ pc[c] = "auditRecords"
  /\ todo[c] = {}
  /\ ~bad[c]
  /\ call[c].kind = "import"
  /\ Leave(c)
  /\ UNCHANGED <<disk, met, calls, failures, history, suspect>>

(* An I/O error or the death of the process ends the call where it is; in  *)
(* the look-up only the death does (LookupUnread).                         *)
Fail(c) ==
  /\ pc[c] \notin Saving \cup {"idle"}
  /\ failures < MaxFailures
  /\ failures' = failures + 1
  /\ \/ UNCHANGED <<dirs, suspect>>
     \/ /\ pc[c] = "mkdir"
        /\ dirs' = dirs \cup {call[c].object}
        /\ suspect' = suspect \cup {call[c].object}
  /\ Leave(c)
  /\ UNCHANGED <<file, met, calls, history>>

(* ... within a save: before its rename, with its bytes in the temporary   *)
(* file or in a target a rival made of it, or after its rename.            *)
FailSaving(c) ==
  /\ pc[c] \in Saving
  /\ failures < MaxFailures
  /\ failures' = failures + 1
  /\ \/ /\ \E x \in {file[Target(c)]} \cup (IF Taken(met[c]) THEN {Torn} ELSE {}) :
             file' = [file EXCEPT ![Target(c)] = x]
        /\ Meet(c, {Content(c)})
     \/ /\ \E x \in Landed(c) : file' = [file EXCEPT ![Target(c)] = x]
        /\ Meet(c, {Torn})
  /\ suspect' = suspect \cup Wreck(c)
  /\ Leave(c)
  /\ UNCHANGED <<dirs, calls, history>>

-----------------------------------------------------------------------------

Call(c) ==
  \/ \E o \in Objects, k \in Classes, v \in Versions, b \in Payloads :
       DepositTo(c, o, k, v, b) \/ DepositNew(c, o, k, v, b)
  \/ \E r \in Relations, body \in RelationRecords : Relate(c, r, body)
  \/ \E v \in Versions, b \in Payloads : Revise(c, v, b)
  \/ \E p \in Plain, b \in Payloads : Record(c, p, b)
  \/ \E entry \in [1..MaxImported -> Entries] : Import(c, {entry[i] : i \in 1..MaxImported})

Step(c) ==
  \/ LookupNew(c) \/ LookupUnread(c) \/ LookupFound(c) \/ Reread(c) \/ RereadFails(c)
  \/ AuditOne(c) \/ NextPhase(c) \/ Reject(c) \/ Sanctioned(c)
  \/ MakeDir(c) \/ CheckFound(c) \/ VersionNotFound(c)
  \/ SaveObject(c) \/ SaveAndReturn(c) \/ SaveLosesRace(c)
  \/ (\E e \in Entries : ImportNext(c, e[1], e[2]))
  \/ ImportSave(c) \/ ImportAudit(c) \/ ImportReturns(c)

Next == \E c \in Clients : Call(c) \/ Step(c) \/ Scribble(c) \/ Fail(c) \/ FailSaving(c)

Spec == Init /\ [][Next]_vars

(* A client that is scheduled makes its next step: no call waits for       *)
(* another.  Nobody has to call, and nothing has to fail.                  *)
FairSpec == Spec /\ \A c \in Clients : WF_vars(Step(c))

-----------------------------------------------------------------------------
(* Properties.                                                             *)

TypeOK ==
  /\ file \in [Paths -> Contents]
  /\ dirs \subseteq Objects
  /\ pc \in [Clients -> {"idle", "mkdir", "check"} \cup Before \cup Auditing
                       \cup Importing \cup Saving]
  /\ call \in [Clients -> Calls \cup {NoCall}]
  /\ \A c \in Clients : /\ (pc[c] = "idle") <=> (call[c] = NoCall)
                        /\ pc[c] \in Before \cup {"mkdir", "saveObject"} => call[c] \in DepositCalls
                        /\ pc[c] = "check" => call[c] \in ReviseCalls
                        /\ pc[c] \in Importing => call[c] \in ImportCalls
                        /\ pc[c] = "importSave" => call[c].path \in imported /\ call[c].body # Nothing
                        /\ pc[c] = "save" => call[c].kind # "import"
  /\ todo \in [Clients -> SUBSET (Paths \cup Entries)]
  /\ bad \in [Clients -> BOOLEAN]
  /\ met \in [Clients -> SUBSET (Contents \ {Missing})]
  /\ calls \in 0..MaxCalls
  /\ failures \in 0..MaxFailures
  /\ minted \subseteq Objects \cup Versions \cup Relations
  /\ prior \in [Clients -> SUBSET (Objects \X Versions)]
  /\ acked \subseteq Objects \X Versions
  /\ overtaken \subseteq Objects \X Versions
  /\ createdAs \in [Objects -> SUBSET Classes]
  /\ misread \subseteq Objects
  /\ imported \subseteq suspect /\ suspect \subseteq Paths

(* deposit_object saves the object record before the version record it     *)
(* names, and no gated call repairs another's work: still, whatever        *)
(* clients interleave and wherever calls fail, everything an audit would   *)
(* report is the work of a deposit that is still running, or was touched   *)
(* by an import, a call that failed half way, a save that overlapped       *)
(* another of the same path, or a relation whose endpoint was missing.     *)
InFlight(o) == \E c \in Clients : /\ pc[c] \in Saving
                                  /\ call[c].kind = "deposit"
                                  /\ call[c].object = o

FaultsAccounted == \A p \in Faults : p \in suspect \/ (p \in Objects /\ InFlight(p))

(* deposit_object overwrites the object record without comparing it to     *)
(* what it read (sanctioned.rs:77): a slow deposit may still replace a     *)
(* newer head, but unless an import wrote the record, the head never goes  *)
(* back to a version whose acknowledgement came before a deposit that was  *)
(* acknowledged in turn.                                                   *)
HeadNotOvertaken ==
  \A o \in Objects \ imported :
    file[o] \in ObjectRecords => <<o, file[o].latest>> \notin overtaken

(* The class of an object was given by a deposit that found no record      *)
(* under its id, or by an import: a deposit to an existing object keeps    *)
(* its class, whatever class it is called with, unless the look-up of some *)
(* deposit could not read the record that was there (sanctioned.rs:42).    *)
ClassFromCreator ==
  \A o \in Objects \ misread :
    file[o] \in ObjectRecords => file[o].class \in createdAs[o]

(* A fault every gated call will meet: none is past the audit of it.       *)
Meets(c, p) ==
  \/ pc[c] \in {"idle"} \cup Before
  \/ call[c].kind = "import"
  \/ pc[c] \in Auditing /\ \/ bad[c]
                           \/ p \in todo[c]
                           \/ p \notin Objects /\ pc[c] = "auditObjects"
                           \/ p \in Plain /\ pc[c] = "auditRelations"

Wedged == \E p \in Faults : \A c \in Clients : Meets(c, p)

(* The gate fails closed, and for good: once a fault has outlived the      *)
(* writers that were past it, no gated call changes a file, the fault      *)
(* included.  Only an import can, which goes past the gate and may repair  *)
(* the fault (file_store.rs:1150, "bypass sanction_write").                *)
ImportWrites(c) == pc[c] \in Importing /\ (Step(c) \/ Scribble(c) \/ FailSaving(c))

FailClosed == [][Wedged => \/ Wedged' /\ disk' = disk
                           \/ \E c \in Clients : ImportWrites(c)]_vars

(* Every call returns, whatever the other clients do or leave undone.      *)
CallsReturn == \A c \in Clients : pc[c] # "idle" ~> pc[c] = "idle"

(* "The Kernel Foundation enforces structural integrity at the write       *)
(* boundary" (file_store.rs:147): with no call running, the audit finds    *)
(* nothing to report.                                                      *)
AtRestConsistent == (\A c \in Clients : pc[c] = "idle") => Faults = {}
=============================================================================
