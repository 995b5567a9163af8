--------------------------- MODULE ArchiveProofs ---------------------------
(***************************************************************************)
(* Proofs about Archive for any objects, versions, relations and writers,  *)
(* and any number of calls and failures.                                   *)
(***************************************************************************)
EXTENDS Archive, TLAPS

(***************************************************************************)
(* Types.                                                                  *)
(***************************************************************************)
LEMMA EmptyIsWorkspace == EmptyWorkspace \in Workspaces
  BY DEF EmptyWorkspace, Workspaces

LEMMA WorkspaceUpdates ==
  ASSUME NEW w \in Workspaces
  PROVE  /\ \A o \in Objects : [w EXCEPT !.dirs = @ \cup {o}] \in Workspaces
         /\ \A o \in Objects, v \in Versions :
              /\ [w EXCEPT !.dirs = @ \cup {o}, !.vdirs = @ \cup {<<o, v>>}] \in Workspaces
              /\ [w EXCEPT !.vdirs = @ \cup {<<o, v>>}, !.versions = @ \cup {<<o, v>>}] \in Workspaces
              /\ [w EXCEPT !.vdirs = @ \cup {<<o, v>>}] \in Workspaces
              /\ [w EXCEPT !.head[o] = v] \in Workspaces
         /\ \A o \in Objects, h \in Versions \cup {Missing} :
              [w EXCEPT !.dirs = @ \cup {o}, !.head[o] = h] \in Workspaces
         /\ \A r \in Relations, e \in (Objects \X Objects) \cup {Missing} :
              [w EXCEPT !.relations[r] = e] \in Workspaces
         /\ \A x \in Workspaces : [w EXCEPT !.relations = x.relations] \in Workspaces
<1>1. \A o \in Objects : [w EXCEPT !.dirs = @ \cup {o}] \in Workspaces
  BY DEF Workspaces
<1>2. \A o \in Objects, v \in Versions :
        [w EXCEPT !.dirs = @ \cup {o}, !.vdirs = @ \cup {<<o, v>>}] \in Workspaces
  <2> TAKE o \in Objects, v \in Versions
  <2> DEFINE a == w.dirs \cup {o}
             b == w.vdirs \cup {<<o, v>>}
  <2>1. a \in SUBSET Objects /\ b \in SUBSET (Objects \X Versions)
    BY DEF Workspaces
  <2> HIDE DEF a, b
  <2>2. [w EXCEPT !.dirs = a, !.vdirs = b] \in Workspaces
    BY <2>1 DEF Workspaces
  <2>3. QED
    BY <2>2 DEF a, b
<1>3. \A o \in Objects, v \in Versions :
        [w EXCEPT !.vdirs = @ \cup {<<o, v>>}, !.versions = @ \cup {<<o, v>>}] \in Workspaces
  <2> TAKE o \in Objects, v \in Versions
  <2> DEFINE a == w.vdirs \cup {<<o, v>>}
             b == w.versions \cup {<<o, v>>}
  <2>1. a \in SUBSET (Objects \X Versions) /\ b \in SUBSET (Objects \X Versions)
    BY DEF Workspaces
  <2> HIDE DEF a, b
  <2>2. [w EXCEPT !.vdirs = a, !.versions = b] \in Workspaces
    BY <2>1 DEF Workspaces
  <2>3. QED
    BY <2>2 DEF a, b
<1>4. \A o \in Objects, v \in Versions : [w EXCEPT !.vdirs = @ \cup {<<o, v>>}] \in Workspaces
  BY DEF Workspaces
<1>5. \A o \in Objects, h \in Versions \cup {Missing} : [w EXCEPT !.head[o] = h] \in Workspaces
  BY DEF Workspaces
<1>6. \A o \in Objects, h \in Versions \cup {Missing} :
        [w EXCEPT !.dirs = @ \cup {o}, !.head[o] = h] \in Workspaces
  BY DEF Workspaces
<1>7. \A r \in Relations, e \in (Objects \X Objects) \cup {Missing} :
        [w EXCEPT !.relations[r] = e] \in Workspaces
  BY DEF Workspaces
<1>8. \A x \in Workspaces : [w EXCEPT !.relations = x.relations] \in Workspaces
  BY DEF Workspaces
<1>9. QED
  BY <1>1, <1>2, <1>3, <1>4, <1>5, <1>6, <1>7, <1>8

LEMMA CallParts ==
  ASSUME NEW x \in Calls
  PROVE  /\ x.kind = "deposit" => x.object \in Objects /\ x.version \in Versions
         /\ x.kind = "relate" => x.relation \in Relations /\ x.ends \in Objects \X Objects
  BY DEF Calls

(* The part of the types that steps of writers may change, and the part    *)
(* that the user's may.                                                    *)
WriterTypes ==
  /\ source \in Workspaces
  /\ call \in [Writers -> Calls \cup {Missing}]
  /\ pc \in [Writers -> {"idle", "mkdir", "saveObject", "saveVersion", "saveRelation"}]
  /\ \A w \in Writers :
       /\ pc[w] = "idle" => call[w] = Missing
       /\ pc[w] \in {"mkdir", "saveObject", "saveVersion"} =>
            call[w] \in Calls /\ call[w].kind = "deposit"
       /\ pc[w] = "saveRelation" => call[w] \in Calls /\ call[w].kind = "relate"
  /\ minted \subseteq Versions \cup Relations
  /\ failures \in 0..MaxFailures

UserTypes ==
  /\ {target, archive, before} \subseteq Workspaces
  /\ exported \in BOOLEAN /\ overwrite \in BOOLEAN /\ sane \in BOOLEAN
  /\ Exporting \/ Importing \/ phase = "rest"
  /\ phase \in {"rest", "saveRelations"} => todo = {}
  /\ phase \in {"rest", "objects", "listing", "saveObjects"} => left = {}
  /\ Importing => exported
  /\ Exporting => ~exported
  /\ todo \subseteq Objects /\ kept \subseteq Objects
  /\ cur \in Objects \cup {Missing}
  /\ phase \in {"listing", "versions", "saveVersions"} => cur \in Objects
  /\ phase \in {"versions", "saveVersions"} => left \subseteq Versions
  /\ phase = "saveRelations" => left \subseteq Relations
  /\ left \subseteq Versions \cup Relations
  /\ exports \in 0..MaxExports /\ imports \in 0..MaxImports
  /\ failures \in 0..MaxFailures
  /\ verdict \in {"none", "ok", "err"}

LEMMA TypesSplit == TypeOK <=> WriterTypes /\ UserTypes
  BY DEF TypeOK, WriterTypes, UserTypes

LEMMA WriterTypesKept ==
  ASSUME WriterTypes, NEW w \in Writers, Write(w)
  PROVE  WriterTypes'
<1> USE BoundAssumption
<1>1. CASE Deposit(w)
  <2>1. PICK o \in Objects, v \in Versions :
          Sanctioned(w, [kind |-> "deposit", object |-> o, version |-> v])
    BY <1>1 DEF Deposit
  <2> DEFINE x == [kind |-> "deposit", object |-> o, version |-> v]
  <2>2. x \in Calls /\ x.kind = "deposit" /\ Made(x) \in Versions
    BY DEF Calls, Made
  <2> HIDE DEF x
  <2>3. QED
    BY <1>1, <2>1, <2>2 DEF x, Deposit, Sanctioned, WriterTypes
<1>2. CASE Relate(w)
  <2>1. PICK r \in Relations, a, b \in Objects :
          Sanctioned(w, [kind |-> "relate", relation |-> r, ends |-> <<a, b>>])
    BY <1>2 DEF Relate
  <2> DEFINE x == [kind |-> "relate", relation |-> r, ends |-> <<a, b>>]
  <2>2. x \in Calls /\ x.kind = "relate" /\ Made(x) \in Relations
    BY DEF Calls, Made
  <2> HIDE DEF x
  <2>3. QED
    BY <1>2, <2>1, <2>2 DEF x, Relate, Sanctioned, WriterTypes
<1>3. CASE MakeDirs(w) \/ SaveObject(w)
  <2>1. call[w] \in Calls /\ call[w].kind = "deposit"
    BY <1>3 DEF MakeDirs, SaveObject, At, WriterTypes
  <2>2. call[w].object \in Objects /\ call[w].version \in Versions
    BY <2>1, CallParts
  <2>3. source' \in Workspaces
    <3>1. CASE MakeDirs(w)
      BY <3>1, <2>2, WorkspaceUpdates DEF MakeDirs, WriterTypes
    <3>2. CASE SaveObject(w)
      BY <3>2, <2>2, WorkspaceUpdates DEF SaveObject, WriterTypes
    <3>3. QED
      BY <1>3, <3>1, <3>2
  <2>4. QED
    BY <1>3, <2>1, <2>3 DEF MakeDirs, SaveObject, WriterTypes
<1>4. CASE SaveVersion(w) \/ SaveRelation(w) \/ WriterFails(w)
  <2>1. source' \in Workspaces
    <3>1. CASE SaveVersion(w)
      <4>1. call[w].object \in Objects /\ call[w].version \in Versions
        BY <3>1, CallParts DEF SaveVersion, At, WriterTypes
      <4>2. QED
        BY <3>1, <4>1, WorkspaceUpdates DEF SaveVersion, WriterTypes
    <3>2. CASE SaveRelation(w)
      <4>1. call[w].relation \in Relations /\ call[w].ends \in Objects \X Objects
        BY <3>2, CallParts DEF SaveRelation, At, WriterTypes
      <4>2. QED
        BY <3>2, <4>1, WorkspaceUpdates DEF SaveRelation, WriterTypes
    <3>3. CASE WriterFails(w)
      BY <3>3 DEF WriterFails, WriterTypes
    <3>4. QED
      BY <1>4, <3>1, <3>2, <3>3
  <2>2. QED
    BY <1>4, <2>1 DEF SaveVersion, SaveRelation, WriterFails, Returns, WriterTypes
<1>5. QED
  BY <1>1, <1>2, <1>3, <1>4 DEF Write

LEMMA UserTypesKept ==
  ASSUME TypeOK, Export \/ Import
  PROVE  UserTypes'
<1> USE BoundAssumption
<1>0. UserTypes /\ source \in Workspaces
  BY DEF TypeOK, UserTypes
<1>1. CASE BeginExport
  <2>1. todo' \subseteq Objects
    BY <1>0, <1>1 DEF BeginExport, Workspaces
  <2>2. {target', archive', before'} \subseteq Workspaces
    BY <1>0, <1>1, EmptyIsWorkspace DEF BeginExport, UserTypes
  <2>3. exports' \in 0..MaxExports
    BY <1>0, <1>1 DEF BeginExport, UserTypes
  <2>4. phase = "rest" /\ phase' = "objects" /\ exported' = FALSE /\ verdict' = "none"
        /\ UNCHANGED <<cur, left, overwrite, imports, failures, kept, sane>>
    BY <1>1 DEF BeginExport
  <2>5. QED
    BY <1>0, <2>1, <2>2, <2>3, <2>4 DEF UserTypes, Exporting, Importing
<1>2. ASSUME NEW o \in Objects, ReadObject(o)
      PROVE  UserTypes'
  <2>1. source.head[o] \in Versions \cup {Missing}
    BY <1>0 DEF Workspaces
  <2>2. archive' \in Workspaces
    BY <1>0, <1>2, <2>1, WorkspaceUpdates DEF ReadObject, UserTypes
  <2>3. QED
    BY <1>0, <1>2, <2>2 DEF ReadObject, UserTypes, Exporting, Importing, observers
<1>3. CASE ListVersions \/ NextObject
  <2>1. CASE ListVersions
    BY <1>0, <2>1 DEF ListVersions, UserTypes, Exporting, Importing, observers
  <2>2. CASE NextObject
    BY <1>0, <2>2 DEF NextObject, UserTypes, Exporting, Importing, observers
  <2>3. QED
    BY <1>3, <2>1, <2>2
<1>4. ASSUME NEW v \in Versions, ReadVersion(v)
      PROVE  UserTypes'
  <2>1. archive' \in Workspaces
    BY <1>0, <1>4, WorkspaceUpdates DEF ReadVersion, UserTypes
  <2>2. QED
    BY <1>0, <1>4, <2>1 DEF ReadVersion, UserTypes, Exporting, Importing, observers
<1>5. CASE ReadRelations
  <2>1. archive' \in Workspaces
    BY <1>0, <1>5, WorkspaceUpdates DEF ReadRelations, UserTypes
  <2>2. QED
    BY <1>0, <1>5, <2>1 DEF ReadRelations, UserTypes, Exporting, Importing, scan, observers
<1>6. CASE ReadFails \/ ExportFails
  BY <1>0, <1>6 DEF ReadFails, ExportFails, UserTypes, Exporting, Importing, observers
<1>7. CASE BeginImport
  <2>1. archive.dirs \subseteq Objects
    BY <1>0 DEF UserTypes, Workspaces
  <2>2. QED
    BY <1>0, <1>7, <2>1 DEF BeginImport, UserTypes, Exporting, Importing, Consistent
<1>8. ASSUME NEW o \in Objects, ImportObject(o)
      PROVE  UserTypes'
  <2>1. archive.head[o] \in Versions \cup {Missing}
    BY <1>0 DEF UserTypes, Workspaces
  <2>2. target' \in Workspaces
    BY <1>0, <1>8, <2>1, WorkspaceUpdates DEF ImportObject, UserTypes
  <2>3. QED
    BY <1>0, <1>8, <2>2 DEF ImportObject, UserTypes, Exporting, Importing, observers
<1>9. ASSUME NEW v \in Versions, ImportVersion(v)
      PROVE  UserTypes'
  <2>1. target' \in Workspaces
    BY <1>0, <1>9, WorkspaceUpdates DEF ImportVersion, UserTypes
  <2>2. QED
    BY <1>0, <1>9, <2>1 DEF ImportVersion, UserTypes, Exporting, Importing, observers
<1>10. ASSUME NEW r \in Relations, ImportRelation(r)
       PROVE  UserTypes'
  <2>1. archive.relations[r] \in (Objects \X Objects) \cup {Missing}
    BY <1>0 DEF UserTypes, Workspaces
  <2>2. target' \in Workspaces
    BY <1>0, <1>10, <2>1, WorkspaceUpdates DEF ImportRelation, UserTypes
  <2>3. QED
    BY <1>0, <1>10, <2>2 DEF ImportRelation, UserTypes, Exporting, Importing, observers
<1>11. ASSUME NEW o \in Objects, SkipObject(o)
       PROVE  UserTypes'
  BY <1>0, <1>11 DEF SkipObject, UserTypes, Exporting, Importing, observers
<1>12. CASE ObjectImported \/ ObjectsImported
  BY <1>0, <1>12 DEF ObjectImported, ObjectsImported, UserTypes, Exporting, Importing, observers
<1>13. CASE Verify
  BY <1>0, <1>13 DEF Verify, Audited, UserTypes, Exporting, Importing, scan
<1>14. CASE ImportFails
  <2>1. target' \in Workspaces
    <3>1. CASE target' = target
      BY <1>0, <3>1 DEF UserTypes
    <3>2. ASSUME NEW o \in todo, target' = [target EXCEPT !.dirs = @ \cup {o}]
          PROVE  target' \in Workspaces
      BY <1>0, <3>2, WorkspaceUpdates DEF UserTypes
    <3>3. ASSUME NEW v \in left, phase = "saveVersions",
                 target' = [target EXCEPT !.vdirs = @ \cup {<<cur, v>>}]
          PROVE  target' \in Workspaces
      BY <1>0, <3>3, WorkspaceUpdates DEF UserTypes
    <3>4. QED
      BY <1>14, <3>1, <3>2, <3>3 DEF ImportFails
  <2>2. /\ phase' = "rest" /\ todo' = {} /\ cur' = Missing /\ left' = {}
        /\ overwrite' = FALSE /\ sane' = TRUE /\ kept' = {} /\ verdict' = "err"
        /\ failures < MaxFailures /\ failures' = failures + 1
        /\ UNCHANGED <<archive, exported, exports, imports, before>>
    BY <1>14 DEF ImportFails
  <2>3. failures' \in 0..MaxFailures
    BY <1>0, <2>2 DEF UserTypes
  <2>4. {target, archive, before}' \subseteq Workspaces
    BY <1>0, <2>1, <2>2 DEF UserTypes
  <2>5. exported' \in BOOLEAN /\ overwrite' \in BOOLEAN /\ sane' \in BOOLEAN
    BY <1>0, <2>2 DEF UserTypes
  <2>6. exports' \in 0..MaxExports /\ imports' \in 0..MaxImports
    BY <1>0, <2>2 DEF UserTypes
  <2>7. ~Importing' /\ ~Exporting'
    BY <2>2 DEF Importing, Exporting
  <2>8. QED
    BY <2>2, <2>3, <2>4, <2>5, <2>6, <2>7 DEF UserTypes
<1>15. QED
  BY <1>1, <1>2, <1>3, <1>4, <1>5, <1>6, <1>7, <1>8, <1>9, <1>10, <1>11, <1>12, <1>13, <1>14
     DEF Export, Import

(* What a step of one side leaves alone.                                   *)
LEMMA WriterLeavesUser ==
  ASSUME NEW w \in Writers, Write(w)
  PROVE  UNCHANGED <<target, user>> /\ ~Importing
  BY DEF Write, Deposit, Relate, Sanctioned, MakeDirs, SaveObject, SaveVersion, SaveRelation,
         WriterFails, At

LEMMA UserLeavesWriters ==
  ASSUME Export \/ Import
  PROVE  UNCHANGED <<source, writers>>
  BY DEF Export, BeginExport, ReadObject, ListVersions, ReadVersion, NextObject, ReadRelations,
         ReadFails, ExportFails, Import, BeginImport, SkipObject, ImportObject, ImportVersion,
         ObjectImported, ObjectsImported, ImportRelation, Verify, ImportFails

LEMMA TypesKept ==
  ASSUME TypeOK, [Next]_vars
  PROVE  TypeOK'
<1>1. ASSUME NEW w \in Writers, Write(w)
      PROVE  TypeOK'
  <2>1. WriterTypes'
    BY <1>1, TypesSplit, WriterTypesKept
  <2>2. UserTypes'
    BY <1>1, <2>1, TypesSplit, WriterLeavesUser
       DEF user, scan, observers, UserTypes, WriterTypes, Exporting, Importing
  <2>3. QED
    BY <2>1, <2>2 DEF TypeOK, WriterTypes, UserTypes
<1>2. CASE Export \/ Import
  <2>1. UserTypes'
    BY <1>2, UserTypesKept
  <2>2. WriterTypes'
    BY <1>2, <2>1, TypesSplit, UserLeavesWriters DEF writers, WriterTypes, UserTypes
  <2>3. QED
    BY <2>1, <2>2 DEF TypeOK, WriterTypes, UserTypes
<1>3. CASE UNCHANGED vars
  BY <1>3 DEF vars, writers, user, scan, observers, TypeOK, Exporting, Importing
<1>4. QED
  BY <1>1, <1>2, <1>3 DEF Next

LEMMA InitTypes == Init => TypeOK
<1> SUFFICES ASSUME Init PROVE TypeOK
  OBVIOUS
<1>1. WriterTypes
  BY EmptyIsWorkspace, BoundAssumption DEF Init, WriterTypes
<1>2. UserTypes
  <2>1. target \in Workspaces /\ archive \in Workspaces /\ before \in Workspaces
    BY EmptyIsWorkspace DEF Init
  <2>2. exports \in 0..MaxExports /\ imports \in 0..MaxImports /\ failures \in 0..MaxFailures
    BY BoundAssumption DEF Init
  <2>3. QED
    BY <2>1, <2>2 DEF Init, UserTypes, Exporting, Importing
<1>3. QED
  BY <1>1, <1>2, TypesSplit

(* Every variable of the workspaces and of the user's call keeps its type; *)
(* in particular only the result of a whole export is ever imported.       *)
THEOREM TypeCorrect == Spec => []TypeOK
  BY InitTypes, TypesKept, PTL DEF Spec

(***************************************************************************)
(* The source under its writers: it only grows, and a head never names a   *)
(* version that has no directory.                                          *)
(***************************************************************************)
SourceInv ==
  /\ \A o \in Objects : source.head[o] # Missing => <<o, source.head[o]>> \in source.vdirs
  /\ source.versions \subseteq source.vdirs
  /\ \A o \in Objects, v \in Versions : <<o, v>> \in source.vdirs => o \in source.dirs
  /\ \A w \in Writers : pc[w] \in {"saveObject", "saveVersion"} =>
       <<call[w].object, call[w].version>> \in source.vdirs
  /\ \A r \in Relations : source.relations[r] # Missing => r \in minted
  /\ \A w \in Writers : pc[w] = "saveRelation" =>
       /\ call[w].relation \in minted
       /\ source.relations[call[w].relation] = Missing
  /\ \A w, x \in Writers : pc[w] = "saveRelation" /\ pc[x] = "saveRelation" /\ w # x =>
       call[w].relation # call[x].relation

(* The workspace b has what a has.                                         *)
Grows(a, b) ==
  /\ a.dirs \subseteq b.dirs /\ a.vdirs \subseteq b.vdirs /\ a.versions \subseteq b.versions
  /\ \A r \in Relations : a.relations[r] # Missing => b.relations[r] = a.relations[r]

LEMMA GrowsTransitive ==
  ASSUME NEW a, NEW b, NEW c, Grows(a, b), Grows(b, c)
  PROVE  Grows(a, c)
  BY DEF Grows

LEMMA SourceGrows ==
  ASSUME TypeOK, TypeOK', SourceInv, NEW w \in Writers, Write(w)
  PROVE  SourceInv' /\ Grows(source, source')
<1>0. WriterTypes /\ WriterTypes'
  BY TypesSplit DEF TypeOK, WriterTypes
<1>1. CASE Deposit(w)
  <2>1. PICK o \in Objects, v \in Versions :
          Sanctioned(w, [kind |-> "deposit", object |-> o, version |-> v])
    BY <1>1 DEF Deposit
  <2>2. /\ source' = source /\ pc' = [pc EXCEPT ![w] = "mkdir"]
        /\ minted \subseteq minted'
        /\ \A x \in Writers : x # w => call'[x] = call[x]
    BY <1>0, <1>1, <2>1 DEF Deposit, Sanctioned, WriterTypes
  <2>3. \A x \in Writers : pc'[x] \in {"saveObject", "saveVersion", "saveRelation"} =>
          pc'[x] = pc[x] /\ call'[x] = call[x]
    BY <1>0, <2>2 DEF WriterTypes
  <2>4. QED
    BY <2>2, <2>3 DEF SourceInv, Grows
<1>2. CASE Relate(w)
  <2>1. PICK r \in Relations, a, b \in Objects :
          Sanctioned(w, [kind |-> "relate", relation |-> r, ends |-> <<a, b>>])
    BY <1>2 DEF Relate
  <2>2. r \notin minted /\ minted' = minted \cup {r}
    BY <2>1 DEF Sanctioned, Made
  <2>3. call'[w].relation = r /\ pc'[w] = "saveRelation" /\ source' = source
    BY <1>0, <1>2, <2>1 DEF Relate, Sanctioned, WriterTypes
  <2>4. \A x \in Writers : x # w => call'[x] = call[x] /\ pc'[x] = pc[x]
    BY <1>0, <1>2, <2>1 DEF Relate, Sanctioned, WriterTypes
  <2>5. QED
    BY <2>2, <2>3, <2>4 DEF SourceInv, Grows
<1>3. CASE MakeDirs(w)
  <2>1. call[w].object \in Objects /\ call[w].version \in Versions
    BY <1>0, <1>3, CallParts DEF MakeDirs, At, WriterTypes
  <2>2. /\ source'.dirs = source.dirs \cup {call[w].object}
        /\ source'.vdirs = source.vdirs \cup {<<call[w].object, call[w].version>>}
        /\ source'.head = source.head /\ source'.versions = source.versions
        /\ source'.relations = source.relations
    BY <1>0, <1>3 DEF MakeDirs, WriterTypes, Workspaces
  <2>3. pc' = [pc EXCEPT ![w] = "saveObject"] /\ UNCHANGED <<call, minted>>
    BY <1>3 DEF MakeDirs
  <2>4. QED
    BY <1>0, <2>1, <2>2, <2>3 DEF SourceInv, Grows, WriterTypes
<1>4. CASE SaveObject(w)
  <2>1. call[w].object \in Objects /\ call[w].version \in Versions
    BY <1>0, <1>4, CallParts DEF SaveObject, At, WriterTypes
  <2>2. /\ source'.head = [source.head EXCEPT ![call[w].object] = call[w].version]
        /\ source'.dirs = source.dirs /\ source'.vdirs = source.vdirs
        /\ source'.versions = source.versions /\ source'.relations = source.relations
    BY <1>0, <1>4 DEF SaveObject, WriterTypes, Workspaces
  <2>3. pc' = [pc EXCEPT ![w] = "saveVersion"] /\ UNCHANGED <<call, minted>>
        /\ pc[w] = "saveObject"
    BY <1>4 DEF SaveObject, At
  <2>4. \A o \in Objects : source'.head[o] # Missing => <<o, source'.head[o]>> \in source'.vdirs
    BY <1>0, <2>1, <2>2, <2>3 DEF SourceInv, WriterTypes, Workspaces
  <2>5. QED
    BY <1>0, <2>2, <2>3, <2>4 DEF SourceInv, Grows, WriterTypes
<1>5. CASE SaveVersion(w)
  <2>1. /\ source'.versions = source.versions \cup {<<call[w].object, call[w].version>>}
        /\ source'.vdirs = source.vdirs \cup {<<call[w].object, call[w].version>>}
        /\ source'.dirs = source.dirs /\ source'.head = source.head
        /\ source'.relations = source.relations
    BY <1>0, <1>5 DEF SaveVersion, WriterTypes, Workspaces
  <2>2. <<call[w].object, call[w].version>> \in source.vdirs
    BY <1>5 DEF SaveVersion, At, SourceInv
  <2>3. \A x \in Writers : pc'[x] # "idle" => pc'[x] = pc[x] /\ call'[x] = call[x]
    BY <1>0, <1>5 DEF SaveVersion, Returns, WriterTypes
  <2>4. QED
    BY <1>5, <2>1, <2>2, <2>3 DEF SaveVersion, SourceInv, Grows
<1>6. CASE SaveRelation(w)
  <2>1. /\ call[w].relation \in Relations /\ call[w].ends \in Objects \X Objects
        /\ pc[w] = "saveRelation"
    BY <1>0, <1>6, CallParts DEF SaveRelation, At, WriterTypes
  <2>2. /\ source'.relations = [source.relations EXCEPT ![call[w].relation] = call[w].ends]
        /\ source'.dirs = source.dirs /\ source'.head = source.head
        /\ source'.versions = source.versions /\ source'.vdirs = source.vdirs
    BY <1>0, <1>6 DEF SaveRelation, WriterTypes, Workspaces
  <2>3. \A x \in Writers : pc'[x] # "idle" => x # w /\ pc'[x] = pc[x] /\ call'[x] = call[x]
    BY <1>0, <1>6 DEF SaveRelation, Returns, WriterTypes
  <2>4. \A r \in Relations : r # call[w].relation => source'.relations[r] = source.relations[r]
    BY <1>0, <2>1, <2>2 DEF WriterTypes, Workspaces
  <2>5. \A x \in Writers : pc'[x] = "saveRelation" =>
          call[x].relation \in Relations /\ call[x].relation # call[w].relation
    BY <1>0, <2>1, <2>3, CallParts DEF SourceInv, WriterTypes
  <2>6. minted' = minted /\ call[w].relation \in minted
        /\ source.relations[call[w].relation] = Missing
    BY <1>6, <2>1 DEF SaveRelation, SourceInv
  <2>7. QED
    BY <2>2, <2>3, <2>4, <2>5, <2>6 DEF SourceInv, Grows
<1>7. CASE WriterFails(w)
  <2>1. \A x \in Writers : pc'[x] # "idle" => pc'[x] = pc[x] /\ call'[x] = call[x]
    BY <1>0, <1>7 DEF WriterFails, Returns, WriterTypes
  <2>2. QED
    BY <1>7, <2>1 DEF WriterFails, SourceInv, Grows
<1>8. QED
  BY <1>1, <1>2, <1>3, <1>4, <1>5, <1>6, <1>7 DEF Write

(***************************************************************************)
(* The export, which reads a source that grows.                            *)
(***************************************************************************)

(* The archive has of o the version its head names, and all there were.    *)
Copied(o) ==
  /\ <<o, archive.head[o]>> \in archive.versions
  /\ \A v \in Versions : <<o, v>> \in before.versions => <<o, v>> \in archive.versions

Scanned ==
  /\ phase = "objects" => \A o \in archive.dirs : Copied(o)
  /\ phase \in {"listing", "versions"} =>
       cur \in archive.dirs /\ \A o \in archive.dirs : o # cur => Copied(o)
  /\ phase = "listing" =>
       archive.head[cur] \in Versions /\ <<cur, archive.head[cur]>> \in source.vdirs
  /\ phase = "versions" =>
       /\ archive.head[cur] \in left \/ <<cur, archive.head[cur]>> \in archive.versions
       /\ \A v \in Versions : <<cur, v>> \in before.versions =>
            v \in left \/ <<cur, v>> \in archive.versions

Whole ==
  /\ before.dirs \subseteq archive.dirs
  /\ \A o \in archive.dirs : Copied(o)
  /\ \A r \in Relations : before.relations[r] # Missing =>
       archive.relations[r] = before.relations[r]

ExportInv ==
  /\ Grows(before, source)
  /\ before.versions \subseteq before.vdirs
  /\ \A o \in Objects, v \in Versions : <<o, v>> \in before.vdirs => o \in before.dirs
  /\ Exporting => before.dirs \subseteq archive.dirs \cup todo
  /\ Scanned
  /\ exported => Whole

LEMMA ExportInvByWriters ==
  ASSUME TypeOK, TypeOK', SourceInv, ExportInv, NEW w \in Writers, Write(w)
  PROVE  ExportInv'
<1>1. Grows(source, source') /\ UNCHANGED <<target, user>>
  BY SourceGrows, WriterLeavesUser
<1>2. Grows(before, source)'
  BY <1>1, GrowsTransitive DEF ExportInv, user, observers
<1>3. Scanned'
  BY <1>1 DEF ExportInv, Scanned, Copied, Grows, user, scan, observers
<1>4. QED
  BY <1>1, <1>2, <1>3 DEF ExportInv, Whole, Copied, Exporting, user, scan, observers

LEMMA ExportInvByExport ==
  ASSUME TypeOK, TypeOK', SourceInv, ExportInv, Export
  PROVE  ExportInv'
<1>0. source' = source /\ UserTypes /\ UserTypes' /\ source \in Workspaces
  BY UserLeavesWriters, TypesSplit DEF TypeOK, UserTypes
<1>1. CASE BeginExport
  <2>1. before' = source /\ archive' = EmptyWorkspace /\ exported' = FALSE
        /\ phase' = "objects" /\ todo' = source.dirs
    BY <1>1 DEF BeginExport
  <2>2. Grows(source, source)
    BY DEF Grows
  <2>3. archive'.dirs = {}
    BY <2>1 DEF EmptyWorkspace
  <2>4. QED
    BY <1>0, <2>1, <2>2, <2>3 DEF ExportInv, SourceInv, Scanned
<1>2. ASSUME NEW o \in Objects, ReadObject(o)
      PROVE  ExportInv'
  <2>1. /\ archive'.dirs = archive.dirs \cup {o}
        /\ archive'.head = [archive.head EXCEPT ![o] = source.head[o]]
        /\ archive'.versions = archive.versions
    BY <1>0, <1>2 DEF ReadObject, UserTypes, Workspaces
  <2>2. archive'.head[o] = source.head[o] /\ archive'.head[o] \in Versions
        /\ \A x \in Objects : x # o => archive'.head[x] = archive.head[x]
    BY <1>0, <1>2, <2>1 DEF ReadObject, UserTypes, Workspaces
  <2>3. phase = "objects" /\ phase' = "listing" /\ cur' = o /\ todo' = todo \ {o}
        /\ exported' = exported /\ before' = before /\ ~exported
    BY <1>0, <1>2 DEF ReadObject, UserTypes, Exporting, observers
  <2>4. \A x \in archive.dirs : x \in Objects
    BY <1>0 DEF UserTypes, Workspaces
  <2>5. \A x \in archive'.dirs : x # o => Copied(x)'
    BY <2>1, <2>2, <2>3, <2>4 DEF ExportInv, Scanned, Copied
  <2>6. <<o, source.head[o]>> \in source.vdirs
    BY <1>2 DEF ReadObject, SourceInv
  <2>7. Scanned'
    BY <1>0, <2>1, <2>2, <2>3, <2>5, <2>6 DEF Scanned
  <2>8. QED
    BY <1>0, <2>1, <2>3, <2>7 DEF ExportInv, Exporting
<1>3. CASE ListVersions
  <2>1. phase = "listing" /\ phase' = "versions" /\ ~exported
        /\ left' = {v \in Versions : <<cur, v>> \in source.vdirs}
        /\ UNCHANGED <<archive, exported, todo, cur, before>>
    BY <1>0, <1>3 DEF ListVersions, UserTypes, Exporting, observers
  <2>2. archive.head[cur] \in left'
    BY <2>1 DEF ExportInv, Scanned
  <2>3. \A v \in Versions : <<cur, v>> \in before.versions => v \in left'
    BY <2>1 DEF ExportInv, Grows
  <2>4. Scanned'
    BY <2>1, <2>2, <2>3 DEF ExportInv, Scanned, Copied
  <2>5. QED
    BY <1>0, <2>1, <2>4 DEF ExportInv, Exporting
<1>4. ASSUME NEW v \in Versions, ReadVersion(v)
      PROVE  ExportInv'
  <2>1. /\ archive'.versions = archive.versions \cup {<<cur, v>>}
        /\ archive'.dirs = archive.dirs /\ archive'.head = archive.head
    BY <1>0, <1>4 DEF ReadVersion, UserTypes, Workspaces
  <2>2. phase = "versions" /\ left' = left \ {v} /\ ~exported
        /\ UNCHANGED <<phase, exported, todo, cur, before>>
    BY <1>0, <1>4 DEF ReadVersion, UserTypes, Exporting, observers
  <2>3. \A x : Copied(x) => Copied(x)'
    BY <2>1, <2>2 DEF Copied
  <2>4. Scanned'
    BY <2>1, <2>2, <2>3 DEF ExportInv, Scanned
  <2>5. QED
    BY <1>0, <2>1, <2>2, <2>4 DEF ExportInv, Exporting
<1>5. CASE NextObject
  <2>1. phase = "versions" /\ phase' = "objects" /\ left = {} /\ ~exported
        /\ UNCHANGED <<archive, exported, todo, before>>
    BY <1>0, <1>5 DEF NextObject, UserTypes, Exporting, observers
  <2>2. Copied(cur)
    BY <2>1 DEF ExportInv, Scanned, Copied
  <2>3. Scanned'
    BY <2>1, <2>2 DEF ExportInv, Scanned, Copied
  <2>4. QED
    BY <1>0, <2>1, <2>3 DEF ExportInv, Exporting
<1>6. CASE ReadRelations
  <2>1. /\ archive'.relations = source.relations
        /\ archive'.dirs = archive.dirs /\ archive'.head = archive.head
        /\ archive'.versions = archive.versions
    BY <1>0, <1>6 DEF ReadRelations, UserTypes, Workspaces
  <2>2. phase = "objects" /\ todo = {} /\ phase' = "rest" /\ before' = before
    BY <1>6 DEF ReadRelations, observers
  <2>3. before.dirs \subseteq archive.dirs /\ \A o \in archive.dirs : Copied(o)
    BY <2>2 DEF ExportInv, Exporting, Scanned
  <2>4. Whole'
    BY <2>1, <2>2, <2>3 DEF Whole, Copied, ExportInv, Grows
  <2>5. QED
    BY <1>0, <2>2, <2>4 DEF ExportInv, Exporting, Scanned
<1>7. CASE ReadFails \/ ExportFails
  <2>1. phase' = "rest" /\ UNCHANGED <<archive, exported, before>>
    BY <1>7 DEF ReadFails, ExportFails, observers
  <2>2. QED
    BY <1>0, <2>1 DEF ExportInv, Exporting, Scanned, Whole, Copied
<1>8. QED
  BY <1>1, <1>2, <1>3, <1>4, <1>5, <1>6, <1>7 DEF Export

LEMMA ImportLeaves ==
  ASSUME TypeOK, TypeOK', Import
  PROVE  /\ UNCHANGED <<source, writers, archive, exported, before>>
         /\ exported /\ ~Exporting /\ ~Exporting'
<1>1. UNCHANGED <<source, writers, archive, exported, before>>
  BY DEF Import, BeginImport, SkipObject, ImportObject, ImportVersion, ObjectImported,
         ObjectsImported, ImportRelation, Verify, ImportFails, observers
<1>2. exported
  BY DEF Import, BeginImport, SkipObject, ImportObject, ImportVersion, ObjectImported,
         ObjectsImported, ImportRelation, Verify, Audited, ImportFails, TypeOK, Importing
<1>3. QED
  BY <1>1, <1>2 DEF TypeOK

LEMMA ExportInvByImport ==
  ASSUME TypeOK, TypeOK', ExportInv, Import
  PROVE  ExportInv'
  BY ImportLeaves DEF ExportInv, Scanned, Whole, Copied, Exporting

ScanInv == TypeOK /\ SourceInv /\ ExportInv

LEMMA ScanInvKept ==
  ASSUME ScanInv, [Next]_vars
  PROVE  ScanInv'
<1>0. TypeOK /\ TypeOK'
  BY TypesKept DEF ScanInv
<1>1. ASSUME NEW w \in Writers, Write(w)
      PROVE  ScanInv'
  BY <1>0, <1>1, SourceGrows, ExportInvByWriters DEF ScanInv
<1>2. CASE Export \/ Import
  <2>1. ExportInv'
    BY <1>0, <1>2, ExportInvByExport, ExportInvByImport DEF ScanInv
  <2>2. SourceInv'
    BY <1>2, UserLeavesWriters DEF ScanInv, SourceInv, writers
  <2>3. QED
    BY <1>0, <2>1, <2>2 DEF ScanInv
<1>3. CASE UNCHANGED vars
  BY <1>0, <1>3 DEF ScanInv, SourceInv, ExportInv, Grows, Scanned, Whole, Copied, Exporting,
                    vars, writers, user, scan, observers
<1>4. QED
  BY <1>1, <1>2, <1>3 DEF Next

LEMMA ScanInvInit == Init => ScanInv
<1> SUFFICES ASSUME Init PROVE ScanInv
  OBVIOUS
<1>1. TypeOK
  BY InitTypes
<1>2. SourceInv
  BY DEF Init, SourceInv, EmptyWorkspace
<1>3. ExportInv
  BY DEF Init, ExportInv, Grows, EmptyWorkspace, Exporting, Scanned
<1>4. QED
  BY <1>1, <1>2, <1>3 DEF ScanInv

(* An archive has the version that each of its heads names, whatever       *)
(* deposits ran during the export, or died before it.                      *)
THEOREM ArchiveHasHeads == Spec => []HeadsExported
<1>1. ScanInv => HeadsExported
  BY DEF ScanInv, ExportInv, Whole, Copied, HeadsExported
<1>2. QED
  BY <1>1, ScanInvInit, ScanInvKept, PTL DEF Spec

(* An archive has all that the source had when the export began.           *)
THEOREM ArchiveComplete == Spec => []ExportComplete
<1>1. ScanInv => ExportComplete
  <2> SUFFICES ASSUME ScanInv, exported PROVE ExportComplete
    BY DEF ExportComplete
  <2>1. Whole /\ before \in Workspaces
    BY DEF ScanInv, ExportInv, TypeOK
  <2>2. ASSUME NEW p \in before.versions
        PROVE  p \in archive.versions
    <3>1. PICK o \in Objects, v \in Versions : p = <<o, v>>
      BY <2>1, <2>2 DEF Workspaces
    <3>2. o \in archive.dirs
      BY <2>1, <2>2, <3>1 DEF ScanInv, ExportInv, Whole
    <3>3. QED
      BY <2>1, <2>2, <3>1, <3>2 DEF Whole, Copied
  <2>3. QED
    BY <2>1, <2>2 DEF Whole, ExportComplete
<1>2. QED
  BY <1>1, ScanInvInit, ScanInvKept, PTL DEF Spec
(***************************************************************************)
(* The import.                                                             *)
(***************************************************************************)

(* All that t lists, and each relation of t, is in w.                      *)
Within(t, w) ==
  /\ t.dirs \subseteq w.dirs
  /\ \A r \in Relations : t.relations[r] # Missing => w.relations[r] = t.relations[r]

(* A target holds imports of archives of one source, each of which grew    *)
(* out of the one before: there is nothing in it that a newer one lacks.   *)
Nested ==
  /\ Within(target, source) /\ Within(archive, source)
  /\ Exporting => target.dirs \subseteq before.dirs
  /\ exported => Within(target, archive)
  /\ \A o \in Objects : archive.head[o] # Missing => o \in archive.dirs

Begun(o) == o \in target.dirs /\ target.head[o] = archive.head[o]

Restored(o) ==
  /\ Begun(o)
  /\ \A v \in Versions : <<o, v>> \in archive.versions => <<o, v>> \in target.versions

Sound(o) == target.head[o] # Missing /\ <<o, target.head[o]>> \in target.versions

(* Of the archive's objects, those not still to be done are restored, were *)
(* found in the target, or are being saved; the ones found are as they     *)
(* were.                                                                   *)
Progress ==
  /\ todo \subseteq archive.dirs
  /\ \A o \in archive.dirs \ (todo \cup kept) :
       Restored(o) \/ (phase = "saveVersions" /\ o = cur)
  /\ phase = "saveVersions" =>
       /\ cur \in archive.dirs /\ Begun(cur)
       /\ \A v \in Versions : <<cur, v>> \in archive.versions =>
            v \in left \/ <<cur, v>> \in target.versions
  /\ phase = "saveRelations" =>
       \A r \in Relations : archive.relations[r] # Missing =>
         r \in left \/ target.relations[r] = archive.relations[r]
  /\ kept \subseteq target.dirs
  /\ overwrite => kept = {}
  /\ ~overwrite => todo \cap target.dirs \subseteq kept
  /\ sane /\ ~overwrite => \A o \in kept : Sound(o)

ImportInv ==
  /\ Importing => Progress
  /\ Exporting \/ Importing => verdict = "none"
  /\ OkRestores

RoundInv == ScanInv /\ Nested /\ ImportInv

LEMMA RoundInvInit == Init => RoundInv
<1> SUFFICES ASSUME Init PROVE RoundInv
  OBVIOUS
<1>1. ScanInv
  BY ScanInvInit
<1>2. Nested
  BY DEF Init, Nested, Within, EmptyWorkspace, Exporting
<1>3. ImportInv
  BY DEF Init, ImportInv, Importing, Exporting, OkRestores
<1>4. QED
  BY <1>1, <1>2, <1>3 DEF RoundInv

LEMMA RoundByWriters ==
  ASSUME RoundInv, NEW w \in Writers, Write(w)
  PROVE  Nested' /\ ImportInv'
<1>1. TypeOK /\ TypeOK' /\ SourceInv
  BY TypesKept DEF RoundInv, ScanInv, Next
<1>2. Grows(source, source') /\ UNCHANGED <<target, user>>
  BY <1>1, SourceGrows, WriterLeavesUser
<1>3. Nested'
  BY <1>2 DEF RoundInv, Nested, Within, Grows, Exporting, user, scan, observers
<1>4. ImportInv'
  BY <1>2 DEF RoundInv, ImportInv, Importing, Exporting, Progress, Restored, Begun, Sound,
              OkRestores, Consistent, user, scan, observers
<1>5. QED
  BY <1>3, <1>4

LEMMA ExportLeaves ==
  ASSUME Export
  PROVE  /\ UNCHANGED <<target, kept, overwrite, sane>> /\ ~Importing'
         /\ \/ BeginExport
            \/ Exporting /\ before' = before /\ verdict' = verdict
<1>1. CASE BeginExport
  BY <1>1 DEF BeginExport, Importing
<1>2. CASE ListVersions \/ NextObject
  BY <1>2 DEF ListVersions, NextObject, Importing, Exporting, observers
<1>3. CASE ReadRelations \/ ReadFails \/ ExportFails
  BY <1>3 DEF ReadRelations, ReadFails, ExportFails, Importing, Exporting, observers
<1>4. ASSUME NEW o \in Objects, ReadObject(o)
      PROVE  /\ UNCHANGED <<target, kept, overwrite, sane, before, verdict>>
             /\ ~Importing' /\ Exporting
  BY <1>4 DEF ReadObject, Importing, Exporting, observers
<1>5. ASSUME NEW v \in Versions, ReadVersion(v)
      PROVE  /\ UNCHANGED <<target, kept, overwrite, sane, before, verdict>>
             /\ ~Importing' /\ Exporting
  BY <1>5 DEF ReadVersion, Importing, Exporting, observers
<1>6. QED
  BY <1>1, <1>2, <1>3, <1>4, <1>5 DEF Export

LEMMA NestedByExport ==
  ASSUME RoundInv, Export
  PROVE  Nested'
<1>1. /\ UserTypes /\ UserTypes' /\ source \in Workspaces
      /\ source' = source /\ target' = target
  <2>1. TypeOK /\ TypeOK'
    BY TypesKept DEF RoundInv, ScanInv, Next
  <2>2. QED
    BY <2>1, UserLeavesWriters, ExportLeaves DEF TypeOK, UserTypes
<1>2. CASE BeginExport
  <2>1. /\ archive' = EmptyWorkspace /\ exported' = FALSE /\ before' = source
        /\ phase' = "objects"
    BY <1>2 DEF BeginExport
  <2>2. /\ archive'.dirs = {} /\ \A o \in Objects : archive'.head[o] = Missing
        /\ \A r \in Relations : archive'.relations[r] = Missing
    BY <2>1 DEF EmptyWorkspace
  <2>3. QED
    BY <1>1, <2>1, <2>2 DEF RoundInv, Nested, Within
<1>3. ASSUME NEW o \in Objects, ReadObject(o)
      PROVE  Nested'
  <2>1. /\ archive'.dirs = archive.dirs \cup {o}
        /\ archive'.head = [archive.head EXCEPT ![o] = source.head[o]]
        /\ archive'.relations = archive.relations
    BY <1>1, <1>3 DEF ReadObject, UserTypes, Workspaces
  <2>2. o \in source.dirs
    <3>1. source.head[o] \in Versions
      BY <1>1, <1>3 DEF ReadObject, Workspaces
    <3>2. <<o, source.head[o]>> \in source.vdirs
      BY <1>3 DEF ReadObject, RoundInv, ScanInv, SourceInv
    <3>3. QED
      BY <3>1, <3>2 DEF RoundInv, ScanInv, SourceInv
  <2>3. Within(archive', source)
    BY <2>1, <2>2 DEF RoundInv, Nested, Within
  <2>4. \A p \in Objects : archive'.head[p] # Missing => p \in archive'.dirs
    BY <1>1, <2>1 DEF RoundInv, Nested, UserTypes, Workspaces
  <2>5. /\ Exporting /\ ~exported' /\ before' = before
    BY <1>1, <1>3 DEF ReadObject, UserTypes, Exporting, observers
  <2>6. QED
    BY <1>1, <2>3, <2>4, <2>5 DEF RoundInv, Nested, Within
<1>4. CASE ListVersions \/ NextObject
  <2>1. /\ UNCHANGED <<archive, exported, before>> /\ Exporting
    BY <1>4 DEF ListVersions, NextObject, Exporting, observers
  <2>2. QED
    BY <1>1, <2>1 DEF RoundInv, Nested, Within
<1>5. ASSUME NEW v \in Versions, ReadVersion(v)
      PROVE  Nested'
  <2>1. archive'.dirs = archive.dirs /\ archive'.head = archive.head
        /\ archive'.relations = archive.relations
    BY <1>1, <1>5 DEF ReadVersion, UserTypes, Workspaces
  <2>2. QED
    BY <1>1, <1>5, <2>1 DEF ReadVersion, RoundInv, Nested, Within, Exporting, observers
<1>6. CASE ReadRelations
  <2>1. archive'.dirs = archive.dirs /\ archive'.head = archive.head
        /\ archive'.relations = source.relations
    BY <1>1, <1>6 DEF ReadRelations, UserTypes, Workspaces
  <2>2. target.dirs \subseteq archive.dirs
    BY <1>6 DEF ReadRelations, RoundInv, Nested, ScanInv, ExportInv, Exporting
  <2>3. QED
    <3>1. exported' /\ ~Exporting'
      BY <1>6 DEF ReadRelations, Exporting
    <3>2. Within(target, archive') /\ Within(archive', source)
      BY <2>1, <2>2 DEF RoundInv, Nested, Within
    <3>3. QED
      BY <1>1, <2>1, <3>1, <3>2 DEF RoundInv, Nested, Within
<1>7. CASE ReadFails \/ ExportFails
  <2>1. UNCHANGED <<archive, exported>> /\ ~Exporting'
    BY <1>7 DEF ReadFails, ExportFails, Exporting
  <2>2. QED
    BY <1>1, <2>1 DEF RoundInv, Nested, Within
<1>8. QED
  BY <1>2, <1>3, <1>4, <1>5, <1>6, <1>7 DEF Export

LEMMA ImportInvByExport ==
  ASSUME RoundInv, Export
  PROVE  ImportInv'
<1>1. verdict' = "none"
  BY ExportLeaves DEF RoundInv, ImportInv, BeginExport
<1>2. QED
  BY <1>1, ExportLeaves DEF ImportInv, OkRestores

(* What the steps of an import do to the target.                           *)
LEMMA ImportTarget ==
  ASSUME RoundInv, Import
  PROVE  Within(target', archive)
<1>1. UserTypes /\ Within(target, archive)
  BY ImportLeaves, TypesSplit, TypesKept DEF RoundInv, ScanInv, Nested, Next
<1>2. CASE UNCHANGED target
  BY <1>1, <1>2
<1>3. ASSUME NEW o \in todo, phase = "saveObjects",
             target' = [target EXCEPT !.dirs = @ \cup {o}]
             \/ target' = [target EXCEPT !.dirs = @ \cup {o}, !.head[o] = archive.head[o]]
      PROVE  Within(target', archive)
  <2>1. o \in archive.dirs
    BY <1>3 DEF RoundInv, ImportInv, Progress, Importing
  <2>2. target'.dirs = target.dirs \cup {o} /\ target'.relations = target.relations
    BY <1>1, <1>3 DEF UserTypes, Workspaces
  <2>3. QED
    BY <1>1, <2>1, <2>2 DEF Within
<1>4. ASSUME NEW v \in Versions,
             target' = [target EXCEPT !.vdirs = @ \cup {<<cur, v>>}]
             \/ target' = [target EXCEPT !.vdirs = @ \cup {<<cur, v>>},
                                         !.versions = @ \cup {<<cur, v>>}]
      PROVE  Within(target', archive)
  <2>1. target'.dirs = target.dirs /\ target'.relations = target.relations
    BY <1>1, <1>4 DEF UserTypes, Workspaces
  <2>2. QED
    BY <1>1, <2>1 DEF Within
<1>5. ASSUME NEW r \in Relations, ImportRelation(r)
      PROVE  Within(target', archive)
  <2>1. target'.dirs = target.dirs
        /\ target'.relations = [target.relations EXCEPT ![r] = archive.relations[r]]
    BY <1>1, <1>5 DEF ImportRelation, UserTypes, Workspaces
  <2>2. QED
    BY <1>1, <2>1 DEF Within, UserTypes, Workspaces
<1>6. CASE BeginImport \/ ObjectImported \/ ObjectsImported \/ Verify
  BY <1>2, <1>6 DEF BeginImport, ObjectImported, ObjectsImported, Verify
<1>7. CASE ImportFails
  <2>1. \/ target' = target
        \/ phase = "saveObjects" /\ \E o \in todo : target' = [target EXCEPT !.dirs = @ \cup {o}]
        \/ \E v \in Versions : target' = [target EXCEPT !.vdirs = @ \cup {<<cur, v>>}]
    BY <1>1, <1>7 DEF ImportFails, UserTypes
  <2>2. QED
    BY <2>1, <1>2, <1>3, <1>4
<1>8. ASSUME NEW o \in Objects, SkipObject(o) \/ ImportObject(o)
      PROVE  Within(target', archive)
  <2>1. \/ target' = target
        \/ /\ phase = "saveObjects" /\ o \in todo
           /\ target' = [target EXCEPT !.dirs = @ \cup {o}, !.head[o] = archive.head[o]]
    BY <1>8 DEF SkipObject, ImportObject
  <2>2. QED
    BY <2>1, <1>2, <1>3
<1>9. ASSUME NEW v \in Versions, ImportVersion(v)
      PROVE  Within(target', archive)
  <2>1. target' = [target EXCEPT !.vdirs = @ \cup {<<cur, v>>},
                                 !.versions = @ \cup {<<cur, v>>}]
    BY <1>9 DEF ImportVersion
  <2>2. QED
    BY <2>1, <1>4
<1>10. QED
  BY <1>5, <1>6, <1>7, <1>8, <1>9 DEF Import

LEMMA NestedByImport ==
  ASSUME RoundInv, Import
  PROVE  Nested'
<1>1. UNCHANGED <<source, archive, exported, before>> /\ ~Exporting'
  BY ImportLeaves, TypesKept DEF RoundInv, ScanInv, Next, writers
<1>2. Within(target', archive)
  BY ImportTarget
<1>3. Within(target', source)
  BY <1>2 DEF RoundInv, Nested, Within
<1>4. QED
  BY <1>1, <1>2, <1>3 DEF RoundInv, Nested
LEMMA ImportFacts ==
  ASSUME RoundInv, Import
  PROVE  UserTypes /\ UserTypes' /\ archive' = archive /\ ~Exporting'
<1>1. TypeOK /\ TypeOK'
  BY TypesKept DEF RoundInv, ScanInv, Next
<1>2. QED
  BY <1>1, ImportLeaves DEF TypeOK, UserTypes

(* A step within an import that keeps Progress keeps the invariant.        *)
LEMMA GoesOn ==
  ASSUME RoundInv, Import, Importing, verdict' = verdict, Progress'
  PROVE  ImportInv'
<1>1. verdict' = "none" /\ ~Exporting'
  BY ImportFacts DEF RoundInv, ImportInv
<1>2. QED
  BY <1>1 DEF ImportInv, OkRestores

LEMMA ProgressByBegin ==
  ASSUME RoundInv, BeginImport
  PROVE  ImportInv'
<1>1. /\ phase' = "saveObjects" /\ todo' = archive.dirs /\ verdict' = "none"
      /\ overwrite' \in BOOLEAN /\ sane' = Consistent(target)
      /\ kept' = IF overwrite' THEN {} ELSE archive.dirs \cap target.dirs
      /\ UNCHANGED <<archive, target, cur, left>>
  BY DEF BeginImport
<1>2. sane' /\ ~overwrite' => \A o \in kept' : Sound(o)
  BY <1>1 DEF Consistent, Sound
<1>3. Progress'
  BY <1>1, <1>2 DEF Progress, Sound
<1>4. ~Exporting'
  BY <1>1 DEF Exporting
<1>5. QED
  BY <1>1, <1>3, <1>4 DEF ImportInv, OkRestores

LEMMA ProgressBySkip ==
  ASSUME RoundInv, NEW o \in Objects, SkipObject(o)
  PROVE  Progress'
<1>1. Progress
  BY DEF SkipObject, RoundInv, ImportInv, Importing
<1>2. /\ o \in todo /\ ~overwrite /\ o \in target.dirs /\ todo' = todo \ {o}
      /\ phase = "saveObjects"
      /\ UNCHANGED <<target, archive, phase, cur, left, overwrite, kept, sane>>
  BY DEF SkipObject, Skips, observers
<1>3. o \in kept
  BY <1>1, <1>2 DEF Progress
<1>4. QED
  BY <1>1, <1>2, <1>3 DEF Progress, Restored, Begun, Sound

LEMMA ProgressByObject ==
  ASSUME RoundInv, NEW o \in Objects, ImportObject(o)
  PROVE  Progress'
<1>0. UserTypes
  BY DEF RoundInv, ScanInv, TypeOK, UserTypes
<1>1. Progress
  BY DEF ImportObject, RoundInv, ImportInv, Importing
<1>2. /\ o \in todo /\ todo' = todo \ {o} /\ cur' = o /\ phase' = "saveVersions"
      /\ left' = {v \in Versions : <<o, v>> \in archive.versions}
      /\ (overwrite \/ o \notin target.dirs)
      /\ UNCHANGED <<archive, overwrite, kept, sane>>
  BY DEF ImportObject, Skips, observers
<1>3. /\ target'.dirs = target.dirs \cup {o} /\ target'.versions = target.versions
      /\ target'.head = [target.head EXCEPT ![o] = archive.head[o]]
  BY <1>0 DEF ImportObject, UserTypes, Workspaces
<1>4. o \notin kept
  BY <1>1, <1>2 DEF Progress
<1>5. \A p \in Objects : target'.head[p] = IF p = o THEN archive.head[o] ELSE target.head[p]
  BY <1>0, <1>3 DEF UserTypes, Workspaces
<1>6. archive.dirs \subseteq Objects /\ kept \subseteq Objects
  BY <1>0 DEF UserTypes, Workspaces
<1>7. \A p \in archive.dirs \ (todo' \cup kept') : Restored(p)' \/ p = cur'
  BY <1>1, <1>2, <1>3, <1>5, <1>6 DEF Progress, Restored, Begun, ImportObject
<1>8. \A p \in kept' : Sound(p) => Sound(p)'
  BY <1>2, <1>3, <1>4, <1>5, <1>6 DEF Sound
<1>9. /\ todo' \subseteq archive'.dirs
      /\ cur' \in archive'.dirs /\ Begun(cur)'
      /\ \A v \in Versions : <<cur', v>> \in archive'.versions => v \in left'
  BY <1>1, <1>2, <1>3, <1>5 DEF Progress, Begun
<1>10. /\ kept' \subseteq target'.dirs /\ (overwrite' => kept' = {})
       /\ ~overwrite' => todo' \cap target'.dirs \subseteq kept'
       /\ sane' /\ ~overwrite' => \A p \in kept' : Sound(p)
  BY <1>1, <1>2, <1>3 DEF Progress
<1>11. QED
  BY <1>2, <1>7, <1>8, <1>9, <1>10 DEF Progress

LEMMA ProgressByVersion ==
  ASSUME RoundInv, NEW v \in Versions, ImportVersion(v)
  PROVE  Progress'
<1>0. UserTypes
  BY DEF RoundInv, ScanInv, TypeOK, UserTypes
<1>1. Progress
  BY DEF ImportVersion, RoundInv, ImportInv, Importing
<1>2. /\ target'.dirs = target.dirs /\ target'.head = target.head
      /\ target'.versions = target.versions \cup {<<cur, v>>}
  BY <1>0 DEF ImportVersion, UserTypes, Workspaces
<1>3. /\ phase = "saveVersions" /\ left' = left \ {v}
      /\ UNCHANGED <<archive, phase, todo, cur, overwrite, kept, sane>>
  BY DEF ImportVersion, observers
<1>4. QED
  BY <1>1, <1>2, <1>3 DEF Progress, Restored, Begun, Sound

LEMMA ProgressByNext ==
  ASSUME RoundInv, ObjectImported \/ ObjectsImported
  PROVE  Progress'
<1>1. Progress
  BY DEF ObjectImported, ObjectsImported, RoundInv, ImportInv, Importing
<1>2. CASE ObjectImported
  <2>1. /\ phase = "saveVersions" /\ left = {} /\ phase' = "saveObjects"
        /\ UNCHANGED <<target, archive, todo, overwrite, kept, sane>>
    BY <1>2 DEF ObjectImported, observers
  <2>2. Restored(cur)
    BY <1>1, <2>1 DEF Progress, Restored
  <2>3. QED
    BY <1>1, <2>1, <2>2 DEF Progress, Restored, Begun, Sound
<1>3. CASE ObjectsImported
  <2>1. /\ phase = "saveObjects" /\ phase' = "saveRelations"
        /\ left' = {r \in Relations : archive.relations[r] # Missing}
        /\ UNCHANGED <<target, archive, todo, overwrite, kept, sane>>
    BY <1>3 DEF ObjectsImported, observers
  <2>2. QED
    BY <1>1, <2>1 DEF Progress, Restored, Begun, Sound
<1>4. QED
  BY <1>2, <1>3

LEMMA ProgressByRelation ==
  ASSUME RoundInv, NEW r \in Relations, ImportRelation(r)
  PROVE  Progress'
<1>0. UserTypes
  BY DEF RoundInv, ScanInv, TypeOK, UserTypes
<1>1. Progress
  BY DEF ImportRelation, RoundInv, ImportInv, Importing
<1>2. /\ target'.dirs = target.dirs /\ target'.head = target.head
      /\ target'.versions = target.versions
      /\ target'.relations = [target.relations EXCEPT ![r] = archive.relations[r]]
  BY <1>0 DEF ImportRelation, UserTypes, Workspaces
<1>3. \A q \in Relations :
        target'.relations[q] = IF q = r THEN archive.relations[r] ELSE target.relations[q]
  BY <1>0, <1>2 DEF UserTypes, Workspaces
<1>4. /\ phase = "saveRelations" /\ left' = left \ {r}
      /\ UNCHANGED <<archive, phase, todo, cur, overwrite, kept, sane>>
  BY DEF ImportRelation, observers
<1>5. QED
  BY <1>1, <1>2, <1>3, <1>4 DEF Progress, Restored, Begun, Sound

(* Where the audit begins, all is restored.                                *)
LEMMA AuditedRestored ==
  ASSUME RoundInv, Audited
  PROVE  /\ Progress /\ archive.dirs \subseteq target.dirs
         /\ \A o \in archive.dirs \ kept : Restored(o)
         /\ \A r \in Relations : archive.relations[r] # Missing =>
              target.relations[r] = archive.relations[r]
<1>1. Progress /\ todo = {}
  BY DEF Audited, RoundInv, ImportInv, Importing, ScanInv, TypeOK
<1>2. QED
  BY <1>1 DEF Audited, Progress, Restored, Begun

LEMMA OkByVerify ==
  ASSUME RoundInv, Verify
  PROVE  ImportInv'
<1>1. /\ Audited /\ phase' = "rest" /\ (verdict' = "ok" => Consistent(target))
      /\ UNCHANGED <<target, archive, kept>>
  BY DEF Verify
<1>2. OkRestores'
  BY <1>1, AuditedRestored DEF OkRestores, Restored, Begun, Consistent
<1>3. ~Importing' /\ ~Exporting'
  BY <1>1 DEF Importing, Exporting
<1>4. QED
  BY <1>2, <1>3 DEF ImportInv

LEMMA ImportInvByImport ==
  ASSUME RoundInv, Import
  PROVE  ImportInv'
<1>1. ASSUME NEW o \in Objects, SkipObject(o) \/ ImportObject(o)
      PROVE  ImportInv'
  <2>1. Importing /\ verdict' = verdict
    BY <1>1 DEF SkipObject, ImportObject, Importing, observers
  <2>2. QED
    BY <1>1, <2>1, ProgressBySkip, ProgressByObject, GoesOn
<1>2. ASSUME NEW v \in Versions, ImportVersion(v)
      PROVE  ImportInv'
  <2>1. Importing /\ verdict' = verdict
    BY <1>2 DEF ImportVersion, Importing, observers
  <2>2. QED
    BY <1>2, <2>1, ProgressByVersion, GoesOn
<1>3. CASE ObjectImported \/ ObjectsImported
  <2>1. Importing /\ verdict' = verdict
    BY <1>3 DEF ObjectImported, ObjectsImported, Importing, observers
  <2>2. QED
    BY <1>3, <2>1, ProgressByNext, GoesOn
<1>4. ASSUME NEW r \in Relations, ImportRelation(r)
      PROVE  ImportInv'
  <2>1. Importing /\ verdict' = verdict
    BY <1>4 DEF ImportRelation, Importing, observers
  <2>2. QED
    BY <1>4, <2>1, ProgressByRelation, GoesOn
<1>5. CASE ImportFails
  BY <1>5 DEF ImportFails, ImportInv, Importing, Exporting, OkRestores
<1>6. QED
  BY <1>1, <1>2, <1>3, <1>4, <1>5, ProgressByBegin, OkByVerify DEF Import

LEMMA RoundInvKept ==
  ASSUME RoundInv, [Next]_vars
  PROVE  RoundInv'
<1>1. ScanInv'
  BY ScanInvKept DEF RoundInv
<1>2. CASE UNCHANGED vars
  BY <1>1, <1>2 DEF RoundInv, Nested, Within, ImportInv, Importing, Exporting, Progress,
                    Restored, Begun, Sound, OkRestores, Consistent,
                    vars, user, scan, observers
<1>3. QED
  BY <1>1, <1>2, RoundByWriters, NestedByExport, ImportInvByExport, NestedByImport,
     ImportInvByImport DEF RoundInv, Next

(* Nothing that imports and their failures leave in a target makes an      *)
(* import of a consistent archive fail its audit.                          *)
THEOREM ImportAccepted == Spec => []RoundTripAccepted
<1>1. RoundInv => RoundTripAccepted
  <2> SUFFICES ASSUME RoundInv, Audited, Consistent(archive), overwrite \/ sane
               PROVE  Consistent(target)
    BY DEF RoundTripAccepted
  <2>1. /\ Progress /\ archive.dirs \subseteq target.dirs
        /\ \A o \in archive.dirs \ kept : Restored(o)
    BY AuditedRestored
  <2>2. /\ UserTypes /\ exported /\ Within(target, archive)
    BY DEF Audited, RoundInv, Nested, ScanInv, TypeOK, UserTypes, Importing
  <2>3. \A o \in archive.dirs : Sound(o)
    <3> TAKE o \in archive.dirs
    <3>1. CASE o \in kept
      BY <2>1, <3>1 DEF Progress
    <3>2. CASE o \notin kept
      <4>1. archive.head[o] \in Versions /\ <<o, archive.head[o]>> \in archive.versions
        BY <2>2 DEF Consistent, UserTypes, Workspaces
      <4>2. QED
        BY <2>1, <3>2, <4>1, SentinelAssumption DEF Restored, Begun, Sound
    <3>3. QED
      BY <3>1, <3>2
  <2>4. ASSUME NEW r \in Relations, target.relations[r] # Missing, NEW i \in {1, 2}
        PROVE  target.head[target.relations[r][i]] # Missing
    <3>1. archive.relations[r] = target.relations[r]
      BY <2>2, <2>4 DEF Within
    <3>2. archive.relations[r][i] \in Objects
      BY <2>2, <2>4, <3>1 DEF UserTypes, Workspaces
    <3>3. archive.head[archive.relations[r][i]] # Missing
      BY <2>4, <3>1 DEF Consistent
    <3>4. archive.relations[r][i] \in archive.dirs
      BY <3>2, <3>3 DEF RoundInv, Nested
    <3>5. QED
      BY <2>3, <3>1, <3>4 DEF Sound
  <2>5. QED
    BY <2>2, <2>3, <2>4 DEF Consistent, Within, Sound
<1>2. QED
  BY <1>1, RoundInvInit, RoundInvKept, PTL DEF Spec

(* An import that returned Ok restored the archive.                        *)
THEOREM ImportRestores == Spec => []OkRestores
<1>1. RoundInv => OkRestores
  BY DEF RoundInv, ImportInv
<1>2. QED
  BY <1>1, RoundInvInit, RoundInvKept, PTL DEF Spec
=============================================================================
