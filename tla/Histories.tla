------------------------------ MODULE Histories ------------------------------
(***************************************************************************)
(* The records the store keeps as histories: standing transitions, pack    *)
(* activations, undo records and migrations (file_store.rs).  A record is  *)
(* one file, named by an id its caller chose or by a time in whole         *)
(* seconds.  A history is answered by reading every file of its directory, *)
(* a temporary file of a save as well.  The standing of an object is the   *)
(* latest transition of each dimension; import_archive adds transitions    *)
(* and migrations past the write gate, and then verify_maturity_gate reads *)
(* every work item: its record, which names its latest version, its        *)
(* standing, and then the record of the version that was named.            *)
(*                                                                         *)
(* A recording call whose audit refuses it changes nothing (FileStore.tla) *)
(* and is left out: a call here begins when its save creates the temporary *)
(* file.  Overlapping saves of a path do what RacySave.tla allows.         *)
(***************************************************************************)
EXTENDS Naturals, SharedTemp

CONSTANTS Clients,
          WorkItems,   \* the objects of class cls_work_item
          Versions,    \* ids of versions; every work item has its own
          Transitions, \* the standing transitions callers record
          Ids,         \* file names of transitions and undo records
          Times,       \* values of created_at
          Ticks,       \* moments per second
          Archives,    \* what is imported: sets of <<path, record>>
          Missing,     \* no such file, no such value
          MaxCalls,    \* bound: calls, and saves of objects and versions
          MaxFailures  \* bound: calls that die, fail in a save or cannot read

Second(t) == t \div Ticks
Seconds == {Second(t) : t \in Times}

Dirs == {"standing", "activations", "undo", "migrations"}

Paths == ({"standing", "undo"} \X Ids) \cup ({"activations", "migrations"} \X Seconds)

(* Of the records that are no transitions only the time is kept.           *)
Marks == [time : Times]
Records == Transitions \cup Marks

(* What may be saved where.  An activation is named by its created_at; a   *)
(* migration by a reading of the clock before the one it is stamped with,  *)
(* and the wall clock may be set back between the two.                     *)
Fits(p, b) == CASE p[1] = "standing" -> b \in Transitions
                [] p[1] = "activations" -> b \in Marks /\ p[2] = Second(b.time)
                [] OTHER -> b \in Marks

ASSUME TimeAssumption == Times \subseteq Nat /\ Ticks \in Nat \ {0}
ASSUME TransitionAssumption ==
  \A r \in Transitions : /\ r.object \in WorkItems
                         /\ r.dimension \in {"status", "review"}
                         /\ r.token \in {"Completed", "Open"}
                         /\ r.admin \in BOOLEAN \* what the rationale says
                         /\ r.time \in Times
ASSUME ArchiveAssumption ==
  \A a \in Archives : \A s \in a : s \in Paths \X Records /\ Fits(s[1], s[2])
ASSUME SentinelAssumption == /\ Missing # Torn /\ {Missing, Torn} \cap Records = {}
                             /\ Torn \notin Versions
                             /\ Transitions \cap Marks = {}
                             /\ Missing \notin WorkItems \cup (Paths \X Records)
ASSUME BoundAssumption == MaxCalls \in Nat /\ MaxFailures \in Nat

VARIABLES
  file,     \* the record, or Torn, at each path
  left,     \* what an interrupted save left in the path's temporary file
  head,     \* the version each work item's record names as latest, or Torn
  version,  \* what the record of each version of a work item says
  pc, kind, \* where each client's call is, and what it was
  work,     \* the saves an import has left
  item,     \* the save under way: <<path, record>>
  met,      \* what saves that overlapped it, and ended, have left to it
  items,    \* the work items the gate has not judged
  scan,     \* the directory being read, the object it is read for, and the
            \* version the gate has found to be that object's latest
  todo,     \* the files listed and not read: <<path, "file" or "temp">>
  got,      \* the answer so far
  flawed,   \* the gate has recorded a violation
  calls, failures,
  (* Observers. *)
  saved,    \* the saves that ended undisturbed, until their path is saved again
  due,      \* those of them a scan must answer
  wrecked,  \* the directories where a save failed or met another
  crossed,  \* some save of the directory ran during the scan
  moved,    \* a standing, a latest version or a signal may have changed
            \* during the gate
  latest,   \* the versions that have been latest during the gate, of each item
  offending \* the work items that offended all through the gate

objects == <<head, version>>
disk == <<file, left, objects>>
progress == <<pc, kind, work, item, met, items, scan, todo, got, flawed>>
observers == <<saved, due, wrecked, crossed, moved, latest, offending>>
vars == <<disk, progress, calls, failures, observers>>

NoScan == <<"none", Missing, Missing>>

Init ==
  /\ file = [p \in Paths |-> Missing]
  /\ left = [p \in Paths |-> Missing]
  /\ head \in [WorkItems -> Versions]
  /\ version = [o \in WorkItems |-> [v \in Versions |-> IF v = head[o] THEN "plain" ELSE Missing]]
  /\ pc = [c \in Clients |-> "idle"]
  /\ kind = [c \in Clients |-> "none"]
  /\ work = [c \in Clients |-> {}]
  /\ item = [c \in Clients |-> Missing]
  /\ met = [c \in Clients |-> {}]
  /\ items = [c \in Clients |-> {}]
  /\ scan = [c \in Clients |-> NoScan]
  /\ todo = [c \in Clients |-> {}]
  /\ got = [c \in Clients |-> {}]
  /\ flawed = [c \in Clients |-> FALSE]
  /\ calls = 0 /\ failures = 0
  /\ saved = {} /\ wrecked = {}
  /\ due = [c \in Clients |-> {}]
  /\ crossed = [c \in Clients |-> FALSE]
  /\ moved = [c \in Clients |-> FALSE]
  /\ latest = [c \in Clients |-> {}]
  /\ offending = [c \in Clients |-> {}]

Goto(c, label) == pc' = [pc EXCEPT ![c] = label]

-----------------------------------------------------------------------------
(* What the directories hold.                                              *)

Saving(c) == item[c] # Missing
Savers(p) == {c \in Clients : Saving(c) /\ item[c][1] = p}
SavedIn(d) == \E c \in Clients : Saving(c) /\ item[c][1][1] = d

Listed(d) == {e \in Paths \X {"file", "temp"} :
                /\ e[1][1] = d
                /\ \/ e[2] = "file" /\ file[e[1]] # Missing
                   \/ e[2] = "temp" /\ (left[e[1]] # Missing \/ Savers(e[1]) # {})}

(* What reading a listed file may find: a temporary file may be being      *)
(* written, or be gone.                                                    *)
Found(e) == IF e[2] = "file" THEN {file[e[1]]}
            ELSE {left[e[1]]} \cup (IF Savers(e[1]) = {} THEN {}
                                    ELSE {Torn} \cup {item[c][2] : c \in Savers(e[1])})

(* What may be read at a path, until a save of it begins.                  *)
Content(p) == {file[p], left[p]} \cup UNION {{item[c][2]} \cup met[c] : c \in Savers(p)}

(* The status transitions of an object that a reading of the directory     *)
(* must find, and those it may find.                                       *)
StandingPaths == {p \in Paths : p[1] = "standing"}
StatusOf(o, S) == {r \in S \cap Transitions : r.object = o /\ r.dimension = "status"}
Certain(o) == StatusOf(o, {file[p] : p \in StandingPaths}
                          \cup {left[p] : p \in {q \in StandingPaths : Savers(q) = {}}})
Possible(o) == StatusOf(o, UNION {Content(p) : p \in StandingPaths})
Standing(o) == {r \in Possible(o) : \A s \in Certain(o) : s.time <= r.time}

(* A version that carries an Accepted signal.                              *)
Accepted(o, v) == v \in Versions /\ version[o][v] = "accepted"

(* A completed work item without the signal and without an override:       *)
(* perhaps; and for certain, in whatever a gate may have found to be its   *)
(* latest version.                                                         *)
Unmet(r) == r.token = "Completed" /\ ~r.admin
MayOffend == {o \in WorkItems : /\ ~Accepted(o, head[o])
                                /\ \E r \in Standing(o) : Unmet(r)}
Offenders(c) == {o \in WorkItems : /\ \A v \in Versions : <<o, v>> \in latest[c] => ~Accepted(o, v)
                                   /\ Certain(o) # {}
                                   /\ \A r \in Standing(o) : Unmet(r)}

Gating(c) == /\ kind[c] = "import"
             /\ pc[c] \in {"gate", "list", "read", "judge", "passed", "refused"}
Reading(c) == pc[c] \in {"read", "answered", "failed"}

(* The id of a transition is used again: a save begins where one is or is  *)
(* being saved, or has put it in the place of another.                     *)
Used(p) == file[p] # Missing \/ left[p] # Missing \/ Savers(p) # {}
Reused == \/ \E c \in Clients : /\ ~Saving(c) /\ Saving(c)'
                                /\ item'[c][1][1] = "standing" /\ Used(item'[c][1])
          \/ \E p \in Paths : /\ p[1] = "standing"
                              /\ \/ file[p] \notin {Missing, file'[p]}
                                 \/ left[p] \notin {Missing, left'[p]}

(* The observers follow every step.                                        *)
Observe ==
  /\ crossed' = [c \in Clients |-> /\ Reading(c)'
                                   /\ \/ crossed[c]
                                      \/ SavedIn(scan[c][1]) \/ SavedIn(scan[c][1])']
  /\ moved' = [c \in Clients |-> /\ Gating(c)'
                                 /\ \/ moved[c]
                                    \/ Gating(c) /\ (disk' # disk \/ SavedIn("standing"))]
  /\ latest' = [c \in Clients |-> IF Gating(c)'
                                  THEN latest[c] \cup {<<o, head'[o]>> : o \in WorkItems}
                                  ELSE {}]
  /\ offending' = [c \in Clients |-> IF ~Gating(c)' \/ (Gating(c) /\ Reused) THEN {}
                                     ELSE IF Gating(c) THEN offending[c] \cap Offenders(c)'
                                     ELSE Offenders(c)']

-----------------------------------------------------------------------------
(* Saving one record.                                                      *)

Rivals(c) == IF Saving(c) THEN Savers(item[c][1]) \ {c} ELSE {}
Landed(c) == Published(item[c][2], met[c], {item[d][2] : d \in Rivals(c)})
Overlapped(c) == met[c] # {} \/ Rivals(c) # {}
Meet(c, rest) == met' = [d \in Clients |-> IF d = c THEN {}
                                           ELSE IF d \in Rivals(c) THEN met[d] \cup rest
                                           ELSE met[d]]

(* File::create truncates what an interrupted save has left.               *)
Create(c, p, b) ==
  /\ item' = [item EXCEPT ![c] = <<p, b>>]
  /\ left' = [left EXCEPT ![p] = Missing]
  /\ saved' = {s \in saved : s[1] # p}
  /\ due' = [d \in Clients |-> {s \in due[d] : s[1] # p}]
  /\ wrecked' = IF Savers(p) = {} THEN wrecked ELSE wrecked \cup {p[1]}

(* The save is over: a recording call returns, an import goes on.          *)
AfterSave(c, label) ==
  /\ item' = [item EXCEPT ![c] = Missing]
  /\ Goto(c, label)
  /\ kind' = [kind EXCEPT ![c] = IF label = "idle" THEN "none" ELSE @]
  /\ work' = [work EXCEPT ![c] = IF label = "idle" THEN {} ELSE @]

(* Mutant: the record is copied, and its temporary file stays.             *)
PublishByCopy(c) ==
  /\ pc[c] = "save"
  /\ \E x \in Landed(c) : file' = [file EXCEPT ![item[c][1]] = x]
  /\ left' = [left EXCEPT ![item[c][1]] = Torn]
  /\ saved' = IF Overlapped(c) THEN saved ELSE saved \cup {item[c]}
  /\ Meet(c, {Torn})
  /\ AfterSave(c, IF kind[c] = "import" THEN "next" ELSE "idle")
  /\ UNCHANGED <<objects, items, scan, todo, got, flawed, calls, failures, due, wrecked>>
  /\ Observe

Publish(c) ==
  /\ pc[c] = "save"
  /\ \E x \in Landed(c) : file' = [file EXCEPT ![item[c][1]] = x]
  /\ left' = [left EXCEPT ![item[c][1]] = Missing]
  /\ saved' = IF Overlapped(c) THEN saved ELSE saved \cup {item[c]}
  /\ Meet(c, {Torn})
  /\ AfterSave(c, IF kind[c] = "import" THEN "next" ELSE "idle")
  /\ UNCHANGED <<objects, items, scan, todo, got, flawed, calls, failures, due, wrecked>>
  /\ Observe

(* A rival has renamed the file this save holds open.                      *)
Scribble(c) ==
  /\ pc[c] = "save"
  /\ Taken(met[c])
  /\ \E x \in {item[c][2], Torn} : file' = [file EXCEPT ![item[c][1]] = x]
  /\ UNCHANGED <<left, objects, progress, calls, failures, saved, due, wrecked>>
  /\ Observe

Lose(c) ==
  /\ pc[c] = "save"
  /\ Taken(met[c])
  /\ Meet(c, {})
  /\ AfterSave(c, "idle")
  /\ UNCHANGED <<disk, items, scan, todo, got, flawed, calls, failures, saved, due, wrecked>>
  /\ Observe

(* An I/O error or the death of the process, before the rename or after.   *)
(* The temporary file stays, unless a rival has renamed it.                *)
Die(c) ==
  /\ pc[c] = "save"
  /\ failures < MaxFailures
  /\ failures' = failures + 1
  /\ \/ /\ \E x \in {Torn, item[c][2]} \cup (IF Overlapped(c) THEN {left[item[c][1]]} ELSE {}) :
             /\ x # Missing \/ Taken(met[c])
             /\ left' = [left EXCEPT ![item[c][1]] = x]
        /\ \E x \in {file[item[c][1]]} \cup (IF Taken(met[c]) THEN {Torn} ELSE {}) :
             file' = [file EXCEPT ![item[c][1]] = x]
        /\ Meet(c, {item[c][2]})
     \/ /\ \E x \in Landed(c) : file' = [file EXCEPT ![item[c][1]] = x]
        /\ left' = [left EXCEPT ![item[c][1]] = Missing]
        /\ Meet(c, {Torn})
  /\ wrecked' = wrecked \cup {item[c][1][1]}
  /\ AfterSave(c, "idle")
  /\ UNCHANGED <<objects, items, scan, todo, got, flawed, calls, saved, due>>
  /\ Observe

-----------------------------------------------------------------------------
(* The recording calls.                                                    *)

Begin(c, k) ==
  /\ pc[c] = "idle"
  /\ calls < MaxCalls
  /\ calls' = calls + 1
  /\ kind' = [kind EXCEPT ![c] = k]

(* record_standing_transition, record_undo, record_pack_activation.        *)
Record(c, p, b) ==
  /\ p[1] # "migrations" /\ Fits(p, b)
  /\ Begin(c, "record")
  /\ Create(c, p, b)
  /\ Goto(c, "save")
  /\ UNCHANGED <<file, objects, work, met, items, scan, todo, got, flawed, failures>>
  /\ Observe

(* apply_migration between two versions that differ: the clock is read for *)
(* the id, and again for created_at.                                       *)
Migrate(c, clock, stamp) ==
  /\ Begin(c, "record")
  /\ Create(c, <<"migrations", Second(clock)>>, [time |-> stamp])
  /\ Goto(c, "save")
  /\ UNCHANGED <<file, objects, work, met, items, scan, todo, got, flawed, failures>>
  /\ Observe

(* import_archive: its transitions and migrations one by one...            *)
Import(c, archive) ==
  /\ Begin(c, "import")
  /\ work' = [work EXCEPT ![c] = archive]
  /\ Goto(c, "next")
  /\ UNCHANGED <<disk, item, met, items, scan, todo, got, flawed, failures, saved, due, wrecked>>
  /\ Observe

SaveNext(c) ==
  /\ pc[c] = "next"
  /\ \E s \in work[c] : /\ work' = [work EXCEPT ![c] = @ \ {s}]
                        /\ Create(c, s[1], s[2])
  /\ Goto(c, "save")
  /\ UNCHANGED <<file, objects, kind, met, items, scan, todo, got, flawed, calls, failures>>
  /\ Observe

(* The records of objects and versions are FileStore.tla's: deposit_object *)
(* and import_archive name another version as latest, and the version      *)
(* there may have any signal, or not be there yet; update_version replaces *)
(* a version that exists, an older one too; saves that overlap may tear    *)
(* what they save.                                                         *)
SaveObject(o, v) ==
  /\ calls < MaxCalls
  /\ calls' = calls + 1
  /\ head' = [head EXCEPT ![o] = v]
  /\ UNCHANGED <<file, left, version, progress, failures, saved, due, wrecked>>
  /\ Observe

SaveVersion(o, v, signal) ==
  /\ calls < MaxCalls
  /\ calls' = calls + 1
  /\ version' = [version EXCEPT ![o][v] = signal]
  /\ UNCHANGED <<file, left, head, progress, failures, saved, due, wrecked>>
  /\ Observe

-----------------------------------------------------------------------------
(* get_standing, get_pack_activation_history, get_undo_history and         *)
(* get_migration_history: list the directory, read what is listed.         *)

Scan(c, d, o) ==
  /\ d = "standing" <=> o # Missing
  /\ Begin(c, "scan")
  /\ scan' = [scan EXCEPT ![c] = <<d, o, Missing>>]
  /\ Goto(c, "list")
  /\ UNCHANGED <<disk, work, item, met, items, todo, got, flawed, failures, saved, due, wrecked>>
  /\ Observe

List(c) ==
  /\ pc[c] = "list"
  /\ todo' = [todo EXCEPT ![c] = Listed(scan[c][1])]
  /\ got' = [got EXCEPT ![c] = {}]
  /\ due' = [due EXCEPT ![c] = {s \in saved : s[1][1] = scan[c][1]}]
  /\ Goto(c, "read")
  /\ UNCHANGED <<disk, kind, work, item, met, items, scan, flawed, calls, failures, saved, wrecked>>
  /\ Observe

(* Mutant: the last transition read of a dimension is kept.                *)
KeepLastRead(S, r) == {s \in S : s.dimension # r.dimension} \cup {r}

(* The latest transition of each dimension: of two with the same time, the *)
(* one that is read first.                                                 *)
Keep(S, r) ==
  LET rivals == {s \in S : s.dimension = r.dimension}
  IN  IF \A s \in rivals : r.time > s.time THEN (S \ rivals) \cup {r} ELSE S

Add(target, S, r) ==
  CASE target[1] # "standing" -> S \cup {r}
    [] target[1] = "standing" -> IF r.object = target[2] THEN Keep(S, r) ELSE S

(* Mutant: what does not parse is kept as it is.                           *)
ReadAnything(c) ==
  /\ pc[c] = "read"
  /\ \E e \in todo[c] :
       /\ todo' = [todo EXCEPT ![c] = @ \ {e}]
       /\ \E r \in Found(e) : got' = [got EXCEPT ![c] = @ \cup {r}]
  /\ UNCHANGED <<disk, pc, kind, work, item, met, items, scan, flawed, calls, failures,
                 saved, due, wrecked>>
  /\ Observe

Read(c) ==
  /\ pc[c] = "read"
  /\ \E e \in todo[c] :
       /\ todo' = [todo EXCEPT ![c] = @ \ {e}]
       /\ \E r \in Found(e) \ {Torn, Missing} : got' = [got EXCEPT ![c] = Add(scan[c], @, r)]
  /\ UNCHANGED <<disk, pc, kind, work, item, met, items, scan, flawed, calls, failures,
                 saved, due, wrecked>>
  /\ Observe

(* A file that does not parse, or has gone, fails the whole call, and the  *)
(* import whose gate made it.                                              *)
ReadFails(c) ==
  /\ pc[c] = "read"
  /\ \E e \in todo[c] : Found(e) \cap {Torn, Missing} # {}
  /\ Goto(c, "failed")
  /\ UNCHANGED <<disk, kind, work, item, met, items, scan, todo, got, flawed, calls, failures,
                 saved, due, wrecked>>
  /\ Observe

Answer(c) ==
  /\ pc[c] = "read"
  /\ todo[c] = {}
  /\ Goto(c, IF kind[c] = "import" THEN "judge" ELSE "answered")
  /\ UNCHANGED <<disk, kind, work, item, met, items, scan, todo, got, flawed, calls, failures,
                 saved, due, wrecked>>
  /\ Observe

-----------------------------------------------------------------------------
(* ... and then verify_maturity_gate.                                      *)

BeginGate(c) ==
  /\ pc[c] = "next"
  /\ work[c] = {}
  /\ items' = [items EXCEPT ![c] = WorkItems]
  /\ Goto(c, "gate")
  /\ UNCHANGED <<disk, kind, work, item, met, scan, todo, got, flawed, calls, failures,
                 saved, due, wrecked>>
  /\ Observe

(* Mutant: any version may be taken for the latest.                        *)
NextItemOfAnyVersion(c) ==
  /\ pc[c] = "gate"
  /\ \E o \in items[c], v \in Versions :
       /\ items' = [items EXCEPT ![c] = @ \ {o}]
       /\ scan' = [scan EXCEPT ![c] = <<"standing", o, v>>]
  /\ Goto(c, "list")
  /\ UNCHANGED <<disk, kind, work, item, met, todo, got, flawed, calls, failures,
                 saved, due, wrecked>>
  /\ Observe

(* The record of the next work item is read before its standing.           *)
NextItem(c) ==
  /\ pc[c] = "gate"
  /\ \E o \in items[c] : /\ head[o] # Torn
                         /\ items' = [items EXCEPT ![c] = @ \ {o}]
                         /\ scan' = [scan EXCEPT ![c] = <<"standing", o, head[o]>>]
  /\ Goto(c, "list")
  /\ UNCHANGED <<disk, kind, work, item, met, todo, got, flawed, calls, failures,
                 saved, due, wrecked>>
  /\ Observe

(* The version that was the latest when the record was read is read after  *)
(* the standing, and only of an item that is completed.                    *)
Completed(c) == \E r \in got[c] : r.dimension = "status" /\ r.token = "Completed"

Signal(c) == version[scan[c][2]][scan[c][3]]

(* Mutant: the rationale of a transition of any dimension overrides.       *)
ViolatesUnlessAnyOverride(c) == /\ Completed(c) /\ Signal(c) # "accepted"
                                /\ \A r \in got[c] : ~r.admin

Violates(c) == /\ Signal(c) # "accepted"
               /\ \E r \in got[c] : r.dimension = "status" /\ Unmet(r)

Judge(c) ==
  /\ pc[c] = "judge"
  /\ Completed(c) => Signal(c) \in {"plain", "accepted"}
  /\ flawed' = [flawed EXCEPT ![c] = @ \/ Violates(c)]
  /\ Goto(c, "gate")
  /\ UNCHANGED <<disk, kind, work, item, met, items, scan, todo, got, calls, failures,
                 saved, due, wrecked>>
  /\ Observe

(* Err(Regression) leaves everything that was imported.                    *)
Verdict(c) ==
  /\ pc[c] = "gate"
  /\ items[c] = {}
  /\ Goto(c, IF flawed[c] THEN "refused" ELSE "passed")
  /\ UNCHANGED <<disk, kind, work, item, met, items, scan, todo, got, flawed, calls, failures,
                 saved, due, wrecked>>
  /\ Observe

(* What cannot be read ends the call: the record of a work item or of its  *)
(* version, by what it is, and anything by an I/O error.                   *)
Abort(c) ==
  /\ \/ /\ pc[c] = "gate"
        /\ \E o \in items[c] : head[o] = Torn
        /\ UNCHANGED failures
     \/ /\ pc[c] = "judge"
        /\ Completed(c) /\ Signal(c) \in {Missing, Torn}
        /\ UNCHANGED failures
     \/ /\ pc[c] \in {"gate", "list", "read", "judge"}
        /\ failures < MaxFailures
        /\ failures' = failures + 1
  /\ Goto(c, "aborted")
  /\ UNCHANGED <<disk, kind, work, item, met, items, scan, todo, got, flawed, calls,
                 saved, due, wrecked>>
  /\ Observe

Return(c) ==
  /\ pc[c] \in {"answered", "failed", "aborted", "passed", "refused"}
  /\ Goto(c, "idle")
  /\ kind' = [kind EXCEPT ![c] = "none"]
  /\ scan' = [scan EXCEPT ![c] = NoScan]
  /\ todo' = [todo EXCEPT ![c] = {}]
  /\ got' = [got EXCEPT ![c] = {}]
  /\ items' = [items EXCEPT ![c] = {}]
  /\ flawed' = [flawed EXCEPT ![c] = FALSE]
  /\ due' = [due EXCEPT ![c] = {}]
  /\ UNCHANGED <<disk, work, item, met, calls, failures, saved, wrecked>>
  /\ Observe

-----------------------------------------------------------------------------

Call(c) ==
  \/ \E p \in Paths, b \in Records : Record(c, p, b)
  \/ \E clock \in Times, stamp \in Times : Migrate(c, clock, stamp)
  \/ \E a \in Archives : Import(c, a)
  \/ \E d \in Dirs, o \in WorkItems \cup {Missing} : Scan(c, d, o)

Revise(o) ==
  \/ \E v \in Versions \cup {Torn} : SaveObject(o, v)
  \/ \E v \in Versions, signal \in {"plain", "accepted", Torn} : SaveVersion(o, v, signal)

Step(c) ==
  \/ Publish(c) \/ Lose(c) \/ SaveNext(c)
  \/ List(c) \/ Read(c) \/ ReadFails(c) \/ Answer(c)
  \/ BeginGate(c) \/ NextItem(c) \/ Judge(c) \/ Verdict(c) \/ Abort(c) \/ Return(c)

Next == \/ \E c \in Clients : Call(c) \/ Step(c) \/ Scribble(c) \/ Die(c)
        \/ \E o \in WorkItems : Revise(o)

Spec == Init /\ [][Next]_vars

-----------------------------------------------------------------------------
(* Properties.                                                             *)

TypeOK ==
  /\ file \in [Paths -> Records \cup {Missing, Torn}]
  /\ left \in [Paths -> Records \cup {Missing, Torn}]
  /\ head \in [WorkItems -> Versions \cup {Torn}]
  /\ version \in [WorkItems -> [Versions -> {"plain", "accepted", Missing, Torn}]]
  /\ pc \in [Clients -> {"idle", "save", "next", "gate", "list", "read", "judge",
                         "answered", "failed", "aborted", "passed", "refused"}]
  /\ kind \in [Clients -> {"none", "record", "import", "scan"}]
  /\ work \in [Clients -> SUBSET (Paths \X Records)]
  /\ item \in [Clients -> (Paths \X Records) \cup {Missing}]
  /\ met \in [Clients -> SUBSET (Records \cup {Torn})]
  /\ items \in [Clients -> SUBSET WorkItems]
  /\ scan \in [Clients -> {NoScan} \cup (Dirs \X (WorkItems \cup {Missing})
                                            \X (Versions \cup {Missing}))]
  /\ todo \in [Clients -> SUBSET (Paths \X {"file", "temp"})]
  /\ got \in [Clients -> SUBSET Records]
  /\ flawed \in [Clients -> BOOLEAN]
  /\ calls \in 0..MaxCalls /\ failures \in 0..MaxFailures

(* A history that is answered is complete: every record whose save had     *)
(* ended, undisturbed, before the directory was listed is in the answer,   *)
(* or the standing has a transition of its dimension that is no older,     *)
(* whatever is saved, interrupted or left behind in the directory, unless  *)
(* the record's own path has been saved again.                             *)
AnswersComplete ==
  \A c \in Clients : pc[c] \in {"answered", "judge"} =>
    \A s \in due[c] :
      IF scan[c][1] # "standing" THEN s[2] \in got[c]
      ELSE s[2].object = scan[c][2] => \E r \in got[c] : /\ r.dimension = s[2].dimension
                                                         /\ r.time >= s[2].time

(* A file of a history does not parse or has gone, which fails the         *)
(* reading, only because of its writers: a save of the directory ran at    *)
(* the same time, or one that failed or met another has left its traces.   *)
(* (An I/O error fails a reading too; it is counted apart.)                *)
FailuresExplained ==
  \A c \in Clients : pc[c] = "failed" => crossed[c] \/ scan[c][1] \in wrecked

(* The maturity gate lets no import pass over a work item that was         *)
(* completed without an override all the time the gate ran, if none of the *)
(* versions that were its latest at some moment of the gate carried an     *)
(* Accepted signal from then on, in whatever order the directory is read   *)
(* and whatever is saved meanwhile, unless an id of a transition is used   *)
(* again meanwhile (verify_maturity_gate).  A version that was the latest  *)
(* when the gate read the item's record, was superseded and is accepted    *)
(* before the gate reads it lets the item pass.                            *)
GateCatches == \A c \in Clients : pc[c] = "passed" => offending[c] = {}

(* The gate refuses no import because of maturity unless some work item    *)
(* may be read as completed, its latest version unaccepted and without an  *)
(* override, or the standings, the latest versions or the signals changed  *)
(* while it ran.                                                           *)
GateFair == \A c \in Clients : pc[c] = "refused" => moved[c] \/ MayOffend # {}
=============================================================================
