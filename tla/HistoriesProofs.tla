--------------------------- MODULE HistoriesProofs ---------------------------
(***************************************************************************)
(* Proofs about Histories, for any clients, records, archives and bounds.  *)
(***************************************************************************)
EXTENDS Histories, TLAPS

-----------------------------------------------------------------------------
(* Types, and who is saving.                                               *)

Saves == \A c \in Clients : IF pc[c] = "save" THEN item[c] \in Paths \X Records
                            ELSE item[c] = Missing /\ met[c] = {}
TInv == TypeOK /\ Saves

LEMMA MissingIsNone ==
  /\ \A s \in Paths \X Records : s # Missing
  /\ Missing \notin Records /\ Torn \notin Records /\ Missing # Torn
  BY SentinelAssumption

LEMMA SavingIs ==
  ASSUME TInv, NEW c \in Clients
  PROVE  /\ Saving(c) <=> pc[c] = "save"
         /\ Saving(c) => item[c] \in Paths \X Records
  BY MissingIsNone DEF Saving, TInv, Saves

LEMMA MigrationFits ==
  ASSUME NEW clock \in Times, NEW stamp \in Times
  PROVE  <<"migrations", Second(clock)>> \in Paths /\ [time |-> stamp] \in Records
  BY DEF Paths, Seconds, Records, Marks

(* What a rename may publish.                                              *)
LEMMA LandedIs ==
  ASSUME TInv, NEW c \in Clients, pc[c] = "save"
  PROVE  /\ Landed(c) \subseteq Records \cup {Torn}
         /\ ~Overlapped(c) => Landed(c) = {item[c][2]}
         /\ item[c][1] \in Paths /\ item[c][2] \in Records
<1>1. item[c] \in Paths \X Records /\ met[c] \subseteq Records \cup {Torn}
  BY DEF TInv, Saves, TypeOK
<1>2. {item[d][2] : d \in Rivals(c)} \subseteq Records
  BY SavingIs DEF Rivals, Savers
<1>3. Landed(c) \subseteq Records \cup {Torn}
  BY <1>1, <1>2 DEF Landed, Published
<1>4. ~Overlapped(c) => Landed(c) = {item[c][2]}
  BY DEF Overlapped, Landed, Published
<1> QED  BY <1>1, <1>3, <1>4

LEMMA MeetTypes ==
  ASSUME TInv, NEW c \in Clients, NEW rest \in SUBSET (Records \cup {Torn}), Meet(c, rest)
  PROVE  /\ met' \in [Clients -> SUBSET (Records \cup {Torn})]
         /\ met'[c] = {}
         /\ \A d \in Clients : pc[d] # "save" => met'[d] = {}
<1>1. met \in [Clients -> SUBSET (Records \cup {Torn})]
  BY DEF TInv, TypeOK
<1>2. \A d \in Clients : met[d] \cup rest \in SUBSET (Records \cup {Torn})
  BY <1>1
<1>3. \A d \in Clients : pc[d] # "save" => met[d] = {} /\ d \notin Rivals(c)
  BY SavingIs DEF Rivals, Savers, TInv, Saves
<1> QED  BY <1>1, <1>2, <1>3 DEF Meet

LEMMA TInit == Init => TInv
  BY BoundAssumption DEF Init, TInv, TypeOK, Saves

(* A save begins.                                                          *)
LEMMA TCreate ==
  ASSUME TInv, NEW c \in Clients, NEW p \in Paths, NEW b \in Records,
         Create(c, p, b), Goto(c, "save"), pc[c] # "save",
         kind' \in [Clients -> {"none", "record", "import", "scan"}],
         work' \in [Clients -> SUBSET (Paths \X Records)], calls' \in 0..MaxCalls,
         UNCHANGED <<file, objects, met, items, scan, todo, got, flawed, failures>>
  PROVE  TInv'
<1> USE DEF TInv, TypeOK, Create, Goto, objects
<1>1. TypeOK'
  OBVIOUS
<1>2. Saves'
  BY DEF Saves
<1> QED  BY <1>1, <1>2

LEMMA TBegins ==
  ASSUME TInv, NEW c \in Clients, NEW k \in {"record", "import", "scan"}, Begin(c, k)
  PROVE  /\ kind' \in [Clients -> {"none", "record", "import", "scan"}]
         /\ calls' \in 0..MaxCalls /\ pc[c] # "save"
  BY BoundAssumption DEF TInv, TypeOK, Begin

LEMMA TRecord ==
  ASSUME TInv, NEW c \in Clients, NEW p \in Paths, NEW b \in Records, Record(c, p, b)
  PROVE  TInv'
<1>1. work' \in [Clients -> SUBSET (Paths \X Records)]
  BY DEF Record, TInv, TypeOK
<1> QED  BY <1>1, TBegins, TCreate DEF Record

LEMMA TMigrate ==
  ASSUME TInv, NEW c \in Clients, NEW clock \in Times, NEW stamp \in Times, Migrate(c, clock, stamp)
  PROVE  TInv'
<1>1. work' \in [Clients -> SUBSET (Paths \X Records)]
  BY DEF Migrate, TInv, TypeOK
<1> QED  BY <1>1, TBegins, TCreate, MigrationFits DEF Migrate

LEMMA TSaveNext ==
  ASSUME TInv, NEW c \in Clients, SaveNext(c)
  PROVE  TInv'
<1>1. PICK s \in work[c] : /\ work' = [work EXCEPT ![c] = @ \ {s}]
                           /\ Create(c, s[1], s[2])
  BY DEF SaveNext
<1>2. s[1] \in Paths /\ s[2] \in Records
  BY DEF TInv, TypeOK
<1>3. /\ work' \in [Clients -> SUBSET (Paths \X Records)]
      /\ kind' \in [Clients -> {"none", "record", "import", "scan"}]
      /\ calls' \in 0..MaxCalls /\ pc[c] # "save"
  BY <1>1 DEF SaveNext, TInv, TypeOK
<1> QED  BY <1>1, <1>2, <1>3, TCreate DEF SaveNext

(* A save ends.                                                            *)
LEMMA TSaveEnds ==
  ASSUME TInv, NEW c \in Clients, pc[c] = "save", NEW label \in {"idle", "next"},
         NEW rest \in SUBSET (Records \cup {Torn}), Meet(c, rest), AfterSave(c, label),
         file' \in [Paths -> Records \cup {Missing, Torn}],
         left' \in [Paths -> Records \cup {Missing, Torn}],
         failures' \in 0..MaxFailures,
         UNCHANGED <<objects, items, scan, todo, got, flawed, calls>>
  PROVE  TInv'
<1> USE DEF TInv, TypeOK, AfterSave, Goto, objects
<1>1. met' \in [Clients -> SUBSET (Records \cup {Torn})]
  BY MeetTypes
<1>2. TypeOK'
  BY <1>1
<1>3. Saves'
  BY MeetTypes DEF Saves
<1> QED  BY <1>2, <1>3

LEMMA TPublish ==
  ASSUME TInv, NEW c \in Clients, Publish(c)
  PROVE  TInv'
<1>1. /\ file' \in [Paths -> Records \cup {Missing, Torn}]
      /\ left' \in [Paths -> Records \cup {Missing, Torn}]
  BY LandedIs DEF Publish, TInv, TypeOK
<1>2. failures' \in 0..MaxFailures
  BY DEF Publish, TInv, TypeOK
<1> QED  BY <1>1, <1>2, TSaveEnds DEF Publish

LEMMA TScribble ==
  ASSUME TInv, NEW c \in Clients, Scribble(c)
  PROVE  TInv'
<1>1. file' \in [Paths -> Records \cup {Missing, Torn}]
  BY LandedIs DEF Scribble, TInv, TypeOK
<1>2. UNCHANGED <<left, objects, pc, kind, work, item, met, items, scan, todo, got, flawed,
                  calls, failures>>
  BY DEF Scribble, progress
<1> QED  BY <1>1, <1>2 DEF TInv, TypeOK, Saves, objects

LEMMA TLose ==
  ASSUME TInv, NEW c \in Clients, Lose(c)
  PROVE  TInv'
<1>1. /\ file' \in [Paths -> Records \cup {Missing, Torn}]
      /\ left' \in [Paths -> Records \cup {Missing, Torn}]
      /\ failures' \in 0..MaxFailures
      /\ objects' = objects
  BY DEF Lose, TInv, TypeOK, disk
<1> QED  BY <1>1, TSaveEnds DEF Lose

LEMMA TDie ==
  ASSUME TInv, NEW c \in Clients, Die(c)
  PROVE  TInv'
<1>1. item[c][1] \in Paths /\ item[c][2] \in Records
  BY LandedIs DEF Die
<1>2. /\ file' \in [Paths -> Records \cup {Missing, Torn}]
      /\ left' \in [Paths -> Records \cup {Missing, Torn}]
  <2>1. CASE /\ \E x \in {Torn, item[c][2]} \cup (IF Overlapped(c) THEN {left[item[c][1]]} ELSE {}) :
                  left' = [left EXCEPT ![item[c][1]] = x]
             /\ \E x \in {file[item[c][1]]} \cup (IF Taken(met[c]) THEN {Torn} ELSE {}) :
                  file' = [file EXCEPT ![item[c][1]] = x]
    <3>1. {left[item[c][1]], file[item[c][1]], item[c][2], Torn} \subseteq Records \cup {Missing, Torn}
      BY <1>1 DEF TInv, TypeOK
    <3>2. \E x \in Records \cup {Missing, Torn} : left' = [left EXCEPT ![item[c][1]] = x]
      BY <2>1, <3>1
    <3>3. \E x \in Records \cup {Missing, Torn} : file' = [file EXCEPT ![item[c][1]] = x]
      BY <2>1, <3>1
    <3> QED  BY <3>2, <3>3 DEF TInv, TypeOK
  <2>2. CASE /\ \E x \in Landed(c) : file' = [file EXCEPT ![item[c][1]] = x]
             /\ left' = [left EXCEPT ![item[c][1]] = Missing]
    <3>1. Landed(c) \subseteq Records \cup {Torn}
      BY LandedIs DEF Die
    <3> QED  BY <2>2, <3>1 DEF TInv, TypeOK
  <2> QED  BY <2>1, <2>2 DEF Die
<1>3. failures' \in 0..MaxFailures
  BY BoundAssumption DEF Die, TInv, TypeOK
<1>4. Meet(c, {item[c][2]}) \/ Meet(c, {Torn})
  BY DEF Die
<1> QED  BY <1>1, <1>2, <1>3, <1>4, TSaveEnds DEF Die

(* The other steps.                                                        *)
LEMMA TOthers ==
  ASSUME TInv, NEW c \in Clients,
         \/ \E a \in Archives : Import(c, a)
         \/ \E d \in Dirs, o \in WorkItems \cup {Missing} : Scan(c, d, o)
         \/ List(c) \/ ReadFails(c) \/ Answer(c) \/ BeginGate(c)
         \/ NextItem(c) \/ Judge(c) \/ Verdict(c) \/ Abort(c) \/ Return(c)
  PROVE  TInv'
<1> USE DEF TInv, TypeOK, Saves, Goto, disk, objects
<1>1. ASSUME NEW a \in Archives, Import(c, a)  PROVE TInv'
  <2>1. a \in SUBSET (Paths \X Records)
    BY ArchiveAssumption
  <2>2. /\ kind' \in [Clients -> {"none", "record", "import", "scan"}]
        /\ calls' \in 0..MaxCalls /\ pc[c] # "save"
    BY <1>1, TBegins DEF Import
  <2> QED  BY <1>1, <2>1, <2>2 DEF Import
<1>2. ASSUME NEW d \in Dirs, NEW o \in WorkItems \cup {Missing}, Scan(c, d, o)  PROVE TInv'
  <2>1. /\ kind' \in [Clients -> {"none", "record", "import", "scan"}]
        /\ calls' \in 0..MaxCalls /\ pc[c] # "save"
    BY <1>2, TBegins DEF Scan
  <2>2. scan' \in [Clients -> {NoScan} \cup (Dirs \X (WorkItems \cup {Missing})
                                                  \X (Versions \cup {Missing}))]
    BY <1>2 DEF Scan
  <2> QED  BY <1>2, <2>1, <2>2 DEF Scan
<1>3. CASE List(c)
  <2>1. Listed(scan[c][1]) \in SUBSET (Paths \X {"file", "temp"})
    BY DEF Listed
  <2> QED  BY <1>3, <2>1 DEF List
<1>4. CASE ReadFails(c) \/ Answer(c)
  BY <1>4 DEF ReadFails, Answer
<1>5. CASE BeginGate(c)
  BY <1>5 DEF BeginGate
<1>6. CASE NextItem(c)
  <2>1. PICK o \in items[c] : /\ head[o] # Torn
                             /\ items' = [items EXCEPT ![c] = @ \ {o}]
                             /\ scan' = [scan EXCEPT ![c] = <<"standing", o, head[o]>>]
    BY <1>6 DEF NextItem
  <2>2. o \in WorkItems /\ head[o] \in Versions
    BY <2>1
  <2>3. scan' \in [Clients -> {NoScan} \cup (Dirs \X (WorkItems \cup {Missing})
                                                  \X (Versions \cup {Missing}))]
    BY <2>1, <2>2 DEF Dirs
  <2> QED  BY <1>6, <2>1, <2>3 DEF NextItem
<1>7. CASE Judge(c)
  BY <1>7 DEF Judge
<1>8. CASE Verdict(c)
  BY <1>8 DEF Verdict
<1>9. CASE Abort(c)
  <2>1. failures' \in 0..MaxFailures
    BY <1>9, BoundAssumption DEF Abort
  <2> QED  BY <1>9, <2>1 DEF Abort
<1>10. CASE Return(c)
  BY <1>10 DEF Return
<1> QED  BY <1>1, <1>2, <1>3, <1>4, <1>5, <1>6, <1>7, <1>8, <1>9, <1>10

(* What a reading finds that parses is a record.                           *)
LEMMA FoundIs ==
  ASSUME TInv, NEW e \in Paths \X {"file", "temp"}
  PROVE  Found(e) \subseteq Records \cup {Missing, Torn}
<1>1. {file[e[1]], left[e[1]]} \subseteq Records \cup {Missing, Torn}
  BY DEF TInv, TypeOK
<1>2. {item[d][2] : d \in Savers(e[1])} \subseteq Records
  BY SavingIs DEF Savers
<1> QED  BY <1>1, <1>2 DEF Found

LEMMA AddIs ==
  ASSUME NEW target, NEW S \in SUBSET Records, NEW r \in Records
  PROVE  Add(target, S, r) \in SUBSET Records
  BY DEF Add, Keep

LEMMA TRead ==
  ASSUME TInv, NEW c \in Clients, Read(c)
  PROVE  TInv'
<1>1. PICK e \in todo[c] :
        /\ todo' = [todo EXCEPT ![c] = @ \ {e}]
        /\ \E r \in Found(e) \ {Torn, Missing} : got' = [got EXCEPT ![c] = Add(scan[c], @, r)]
  BY DEF Read
<1>2. e \in Paths \X {"file", "temp"} /\ got[c] \in SUBSET Records
  BY DEF TInv, TypeOK
<1>3. PICK r \in Records : got' = [got EXCEPT ![c] = Add(scan[c], @, r)]
  BY <1>1, <1>2, FoundIs
<1>4. Add(scan[c], got[c], r) \in SUBSET Records
  BY <1>2, AddIs
<1>5. got' \in [Clients -> SUBSET Records]
  BY <1>3, <1>4 DEF TInv, TypeOK
<1> QED  BY <1>1, <1>5 DEF Read, TInv, TypeOK, Saves, disk, objects

LEMMA TObjects ==
  ASSUME TInv, NEW o \in WorkItems, Revise(o)
  PROVE  TInv'
<1>1. calls' \in 0..MaxCalls
  BY BoundAssumption DEF Revise, SaveObject, SaveVersion, TInv, TypeOK
<1>2. CASE \E v \in Versions \cup {Torn} : SaveObject(o, v)
  BY <1>1, <1>2 DEF SaveObject, TInv, TypeOK, Saves, progress
<1>3. CASE \E v \in Versions, signal \in {"plain", "accepted", Torn} : SaveVersion(o, v, signal)
  <2> DEFINE S == {"plain", "accepted", Missing, Torn}
  <2>1. PICK v \in Versions, signal \in S : SaveVersion(o, v, signal)
    BY <1>3
  <2>2. [version[o] EXCEPT ![v] = signal] \in [Versions -> S]
    BY DEF TInv, TypeOK
  <2>3. version' = [version EXCEPT ![o] = [version[o] EXCEPT ![v] = signal]]
    BY <2>1 DEF SaveVersion, TInv, TypeOK
  <2>4. version' \in [WorkItems -> [Versions -> S]]
    BY <2>2, <2>3 DEF TInv, TypeOK
  <2> QED  BY <1>1, <2>1, <2>4 DEF SaveVersion, TInv, TypeOK, Saves, progress
<1> QED  BY <1>2, <1>3 DEF Revise

LEMMA TStep ==
  ASSUME TInv, [Next]_vars
  PROVE  TInv'
<1>1. ASSUME NEW c \in Clients, Call(c)  PROVE TInv'
  <2>1. ASSUME NEW p \in Paths, NEW b \in Records, Record(c, p, b)  PROVE TInv'
    BY <2>1, TRecord
  <2>2. ASSUME NEW clock \in Times, NEW stamp \in Times, Migrate(c, clock, stamp)  PROVE TInv'
    BY <2>2, TMigrate
  <2> QED  BY <1>1, <2>1, <2>2, TOthers DEF Call
<1>2. ASSUME NEW c \in Clients, Step(c) \/ Scribble(c) \/ Die(c)  PROVE TInv'
  BY <1>2, TPublish, TLose, TSaveNext, TOthers, TRead, TScribble, TDie DEF Step
<1>3. CASE UNCHANGED vars
  BY <1>3 DEF vars, disk, objects, progress, TInv, TypeOK, Saves
<1> QED  BY <1>1, <1>2, <1>3, TObjects DEF Next

(* TypeOK: the store, the calls and their answers are well typed.          *)
THEOREM Typed == Spec => []TypeOK
<1>1. TInv => TypeOK
  BY DEF TInv
<1> QED  BY <1>1, TInit, TStep, PTL DEF Spec

-----------------------------------------------------------------------------
(* What the directories hold: a save that ended undisturbed is there, and  *)
(* only a save that failed or met another leaves a trace.                  *)

SavedStay == \A s \in saved : /\ s \in Paths \X Records
                              /\ file[s[1]] = s[2] /\ Savers(s[1]) = {}
TracesKnown == \A p \in Paths : left[p] # Missing \/ file[p] = Torn => p[1] \in wrecked
OverlapKnown == \A c \in Clients : Saving(c) /\ Overlapped(c) => item[c][1][1] \in wrecked
SInv == SavedStay /\ TracesKnown /\ OverlapKnown

LEMMA SInit == Init => SInv
  BY MissingIsNone DEF Init, SInv, SavedStay, TracesKnown, OverlapKnown, Saving

LEMMA SCreate ==
  ASSUME TInv, SInv, NEW c \in Clients, NEW p \in Paths, NEW b \in Records, pc[c] # "save",
         Create(c, p, b), UNCHANGED <<file, met>>
  PROVE  SInv'
<1>1. /\ item' = [item EXCEPT ![c] = <<p, b>>] /\ item[c] = Missing /\ met[c] = {}
      /\ <<p, b>> # Missing /\ DOMAIN item = Clients
  BY MissingIsNone DEF Create, TInv, Saves, TypeOK
<1>2. ASSUME NEW q \in Paths
      PROVE  Savers(q)' = IF q = p THEN Savers(q) \cup {c} ELSE Savers(q)
  BY <1>1 DEF Savers, Saving
<1>3. SavedStay'
  BY <1>2 DEF SInv, SavedStay, Create
<1>4. TracesKnown'
  BY DEF SInv, TracesKnown, Create, TInv, TypeOK
<1>5. OverlapKnown'
  <2> SUFFICES ASSUME NEW d \in Clients, Saving(d)', Overlapped(d)'
               PROVE  item'[d][1][1] \in wrecked'
    BY DEF OverlapKnown
  <2>1. wrecked \subseteq wrecked' /\ (Savers(p) # {} => p[1] \in wrecked')
    BY DEF Create
  <2>2. CASE d = c
    <3>1. item'[c] = <<p, b>>
      BY <1>1
    <3>2. Rivals(c)' = Savers(p)
      BY <1>1, <1>2, <2>2, <3>1 DEF Rivals, Savers, Saving
    <3>3. Rivals(c)' # {}
      BY <1>1, <2>2 DEF Overlapped
    <3> QED  BY <2>1, <2>2, <3>1, <3>2, <3>3
  <2>3. CASE d # c
    <3>1. item'[d] = item[d] /\ Saving(d) /\ item[d] \in Paths \X Records
      BY <1>1, <2>3, SavingIs DEF Saving
    <3>2. CASE item[d][1] = p
      <4>1. d \in Savers(p)
        BY <3>1, <3>2 DEF Savers
      <4> QED  BY <2>1, <3>1, <3>2, <4>1
    <3>3. CASE item[d][1] # p
      <4>1. Rivals(d)' = Rivals(d)
        BY <1>2, <3>1, <3>3 DEF Rivals, Saving
      <4>2. Overlapped(d)
        BY <4>1 DEF Overlapped
      <4> QED  BY <2>1, <3>1, <4>2 DEF SInv, OverlapKnown
    <3> QED  BY <3>2, <3>3
  <2> QED  BY <2>2, <2>3
<1> QED  BY <1>3, <1>4, <1>5 DEF SInv

(* A saver is no path of a save that ended undisturbed.                    *)
LEMMA SaverOf ==
  ASSUME TInv, SInv, NEW c \in Clients, pc[c] = "save"
  PROVE  /\ Saving(c) /\ item[c] \in Paths \X Records
         /\ c \in Savers(item[c][1])
         /\ \A s \in saved : s[1] # item[c][1]
<1>1. Saving(c) /\ item[c] \in Paths \X Records
  BY SavingIs
<1>2. c \in Savers(item[c][1])
  BY <1>1 DEF Savers
<1>3. \A s \in saved : s[1] # item[c][1]
  BY <1>2 DEF SInv, SavedStay
<1> QED  BY <1>1, <1>2, <1>3

LEMMA SSaveEnds ==
  ASSUME TInv, SInv, NEW c \in Clients, pc[c] = "save", NEW rest,
         item' = [item EXCEPT ![c] = Missing], Meet(c, rest), wrecked \subseteq wrecked',
         \A q \in Paths : q # item[c][1] => file'[q] = file[q] /\ left'[q] = left[q],
         left'[item[c][1]] # Missing \/ file'[item[c][1]] = Torn => item[c][1][1] \in wrecked',
         \/ saved' = saved
         \/ /\ ~Overlapped(c) /\ saved' = saved \cup {item[c]}
            /\ file'[item[c][1]] = item[c][2]
  PROVE  SInv'
<1>1. /\ Saving(c) /\ item[c] \in Paths \X Records /\ c \in Savers(item[c][1])
      /\ \A s \in saved : s[1] # item[c][1]
  BY SaverOf
<1>2. /\ item'[c] = Missing /\ DOMAIN item = Clients
      /\ \A d \in Clients \ {c} : item'[d] = item[d]
  BY DEF TInv, TypeOK
<1>3. ASSUME NEW q  PROVE Savers(q)' = Savers(q) \ {c}
  BY <1>2 DEF Savers, Saving
<1>4. SavedStay'
  <2> SUFFICES ASSUME NEW s \in saved'
               PROVE  s \in Paths \X Records /\ file'[s[1]] = s[2] /\ Savers(s[1])' = {}
    BY DEF SavedStay
  <2>1. CASE s \in saved
    <3>1. /\ s \in Paths \X Records /\ file[s[1]] = s[2] /\ Savers(s[1]) = {}
          /\ s[1] # item[c][1]
      BY <1>1, <2>1 DEF SInv, SavedStay
    <3> QED  BY <1>3, <3>1
  <2>2. CASE s = item[c] /\ ~Overlapped(c) /\ file'[item[c][1]] = item[c][2]
    <3>1. Savers(s[1]) \ {c} = {}
      BY <1>1, <2>2 DEF Overlapped, Rivals
    <3> QED  BY <1>1, <1>3, <2>2, <3>1
  <2> QED  BY <2>1, <2>2
<1>5. TracesKnown'
  BY <1>1 DEF SInv, TracesKnown
<1>6. OverlapKnown'
  <2> SUFFICES ASSUME NEW d \in Clients, Saving(d)', Overlapped(d)'
               PROVE  item'[d][1][1] \in wrecked'
    BY DEF OverlapKnown
  <2>1. d # c /\ item'[d] = item[d] /\ Saving(d)
    BY <1>2 DEF Saving
  <2>2. Rivals(d)' \subseteq Rivals(d)
    BY <1>3, <2>1 DEF Rivals, Saving
  <2>3. Overlapped(d)
    <3>1. CASE d \in Rivals(c)
      <4>1. c \in Rivals(d)
        BY <1>1, <2>1, <3>1 DEF Rivals, Savers
      <4> QED  BY <4>1 DEF Overlapped
    <3>2. CASE d \notin Rivals(c)
      <4>1. met'[d] = met[d]
        BY <2>1, <3>2 DEF Meet
      <4> QED  BY <2>2, <4>1 DEF Overlapped
    <3> QED  BY <3>1, <3>2
  <2> QED  BY <2>1, <2>3 DEF SInv, OverlapKnown
<1> QED  BY <1>4, <1>5, <1>6 DEF SInv

LEMMA SPublish ==
  ASSUME TInv, SInv, NEW c \in Clients, Publish(c)
  PROVE  SInv'
<1> DEFINE p == item[c][1]
<1>1. pc[c] = "save" /\ Meet(c, {Torn}) /\ item' = [item EXCEPT ![c] = Missing] /\ wrecked' = wrecked
  BY DEF Publish, AfterSave
<1>2. p \in Paths /\ item[c][2] \in Records /\ Saving(c)
  BY <1>1, LandedIs, SavingIs
<1>3. PICK x \in Landed(c) : file' = [file EXCEPT ![p] = x]
  BY DEF Publish
<1>4. /\ file'[p] = x /\ left'[p] = Missing
      /\ \A q \in Paths : q # p => file'[q] = file[q] /\ left'[q] = left[q]
  BY <1>2, <1>3 DEF Publish, TInv, TypeOK
<1>5. CASE Overlapped(c)
  <2>1. p[1] \in wrecked
    BY <1>2, <1>5 DEF SInv, OverlapKnown
  <2>2. saved' = saved
    BY <1>5 DEF Publish
  <2> QED  BY <1>1, <1>4, <2>1, <2>2, SSaveEnds
<1>6. CASE ~Overlapped(c)
  <2>1. x = item[c][2] /\ x # Torn
    BY <1>1, <1>2, <1>6, LandedIs, MissingIsNone
  <2>2. saved' = saved \cup {item[c]}
    BY <1>6 DEF Publish
  <2> QED  BY <1>1, <1>4, <1>6, <2>1, <2>2, SSaveEnds
<1> QED  BY <1>5, <1>6

LEMMA SScribble ==
  ASSUME TInv, SInv, NEW c \in Clients, Scribble(c)
  PROVE  SInv'
<1> DEFINE p == item[c][1]
<1>1. pc[c] = "save" /\ UNCHANGED <<left, item, met, saved, wrecked>>
  BY DEF Scribble, progress
<1>2. Saving(c) /\ p \in Paths /\ \A s \in saved : s[1] # p
  BY <1>1, SaverOf
<1>3. p[1] \in wrecked
  BY <1>2 DEF Scribble, Taken, Overlapped, SInv, OverlapKnown
<1>4. \A q \in Paths : q # p => file'[q] = file[q]
  BY DEF Scribble, TInv, TypeOK
<1>5. SavedStay'
  BY <1>1, <1>2, <1>4 DEF SInv, SavedStay, Savers, Saving
<1>6. TracesKnown'
  BY <1>1, <1>3, <1>4 DEF SInv, TracesKnown
<1>7. OverlapKnown'
  BY <1>1 DEF SInv, OverlapKnown, Overlapped, Rivals, Savers, Saving
<1> QED  BY <1>5, <1>6, <1>7 DEF SInv

LEMMA SLose ==
  ASSUME TInv, SInv, NEW c \in Clients, Lose(c)
  PROVE  SInv'
<1>1. /\ pc[c] = "save" /\ Meet(c, {}) /\ item' = [item EXCEPT ![c] = Missing]
      /\ UNCHANGED <<file, left, saved, wrecked>>
  BY DEF Lose, AfterSave, disk
<1>2. item[c][1] \in Paths
  BY <1>1, LandedIs
<1> QED  BY <1>1, <1>2, SSaveEnds DEF SInv, TracesKnown

LEMMA SDie ==
  ASSUME TInv, SInv, NEW c \in Clients, Die(c)
  PROVE  SInv'
<1>1. /\ pc[c] = "save" /\ item' = [item EXCEPT ![c] = Missing] /\ saved' = saved
      /\ Meet(c, {item[c][2]}) \/ Meet(c, {Torn})
      /\ wrecked \subseteq wrecked' /\ item[c][1][1] \in wrecked'
  BY DEF Die, AfterSave
<1>2. \A q \in Paths : q # item[c][1] => file'[q] = file[q] /\ left'[q] = left[q]
  BY DEF Die, TInv, TypeOK
<1> QED  BY <1>1, <1>2, SSaveEnds

LEMMA SSame ==
  ASSUME SInv, UNCHANGED <<file, left, item, met, saved, wrecked>>
  PROVE  SInv'
  BY DEF SInv, SavedStay, TracesKnown, OverlapKnown, Overlapped, Rivals, Savers, Saving

LEMMA SStep ==
  ASSUME TInv, SInv, [Next]_vars
  PROVE  SInv'
<1>1. ASSUME NEW c \in Clients, Call(c)  PROVE SInv'
  <2>1. ASSUME NEW p \in Paths, NEW b \in Records, Record(c, p, b)  PROVE SInv'
    BY <2>1, SCreate DEF Record, Begin
  <2>2. ASSUME NEW clock \in Times, NEW stamp \in Times, Migrate(c, clock, stamp)  PROVE SInv'
    BY <2>2, SCreate, MigrationFits DEF Migrate, Begin
  <2>3. ASSUME NEW a \in Archives, Import(c, a)  PROVE SInv'
    BY <2>3, SSame DEF Import, disk
  <2>4. ASSUME NEW d \in Dirs, NEW o \in WorkItems \cup {Missing}, Scan(c, d, o)  PROVE SInv'
    BY <2>4, SSame DEF Scan, disk
  <2> QED  BY <1>1, <2>1, <2>2, <2>3, <2>4 DEF Call
<1>2. ASSUME NEW c \in Clients, Step(c)  PROVE SInv'
  <2>1. CASE SaveNext(c)
    <3>1. PICK s \in work[c] : Create(c, s[1], s[2])
      BY <2>1 DEF SaveNext
    <3>2. s[1] \in Paths /\ s[2] \in Records
      BY DEF TInv, TypeOK
    <3> QED  BY <2>1, <3>1, <3>2, SCreate DEF SaveNext
  <2>2. CASE List(c) \/ Read(c) \/ ReadFails(c) \/ Answer(c)
    BY <2>2, SSame DEF List, Read, ReadFails, Answer, disk
  <2>3. CASE BeginGate(c) \/ NextItem(c) \/ Judge(c) \/ Verdict(c) \/ Abort(c) \/ Return(c)
    BY <2>3, SSame DEF BeginGate, NextItem, Judge, Verdict, Abort, Return, disk
  <2> QED  BY <1>2, <2>1, <2>2, <2>3, SPublish, SLose DEF Step
<1>3. ASSUME NEW o \in WorkItems, Revise(o)  PROVE SInv'
  BY <1>3, SSame DEF Revise, SaveObject, SaveVersion, progress
<1>4. CASE UNCHANGED vars
  BY <1>4, SSame DEF vars, disk, progress, observers
<1> QED  BY <1>1, <1>2, <1>3, <1>4, SScribble, SDie DEF Next

-----------------------------------------------------------------------------
(* What a scan that is under way has, and has still to read.               *)

Has(c, s) == IF scan[c][1] # "standing" THEN s[2] \in got[c]
             ELSE s[2].object = scan[c][2] =>
                    \E r \in got[c] : r.dimension = s[2].dimension /\ r.time >= s[2].time

ScanStates == {"read", "answered", "judge", "failed"}
DueInv == /\ DOMAIN due = Clients
          /\ \A c \in Clients : due[c] \subseteq saved
          /\ \A c \in Clients : pc[c] \in {"read", "answered", "judge"} =>
               \A s \in due[c] : /\ s[1][1] = scan[c][1]
                                 /\ <<s[1], "file">> \in todo[c] \/ Has(c, s)
EndInv == \A c \in Clients : pc[c] \in {"answered", "judge"} => todo[c] = {}
TodoInv == \A c \in Clients : pc[c] = "read" =>
             \A e \in todo[c] : /\ e[1][1] = scan[c][1]
                                /\ e[2] = "file" => file[e[1]] # Missing
                                /\ e[2] = "temp" => crossed[c] \/ scan[c][1] \in wrecked
RInv == DueInv /\ EndInv /\ TodoInv /\ FailuresExplained

LEMMA RInit == Init => RInv
  BY DEF Init, RInv, DueInv, EndInv, TodoInv, FailuresExplained

(* A scan keeps what it has while others save, and remembers that they did.*)
LEMMA RSame ==
  ASSUME RInv, wrecked \subseteq wrecked', Observe,
         \A p \in Paths : file[p] # Missing => file'[p] # Missing,
         TInv, DOMAIN due' = Clients,
         \A d \in Clients : pc'[d] \in ScanStates =>
           pc'[d] = pc[d] /\ scan'[d] = scan[d] /\ todo'[d] = todo[d] /\ got'[d] = got[d],
         \A d \in Clients : due'[d] \subseteq due[d] /\ due'[d] \subseteq saved'
  PROVE  RInv'
<1>1. DueInv'
  BY DEF RInv, DueInv, Has, ScanStates
<1>2. EndInv'
  BY DEF RInv, EndInv, ScanStates
<1>3. \A d \in Clients : pc'[d] \in {"read", "failed"} /\ crossed[d] => crossed'[d]
  BY DEF Observe, Reading
<1>4. TodoInv'
  BY <1>3 DEF RInv, TodoInv, ScanStates, TInv, TypeOK
<1>5. FailuresExplained'
  BY <1>3 DEF RInv, FailuresExplained, ScanStates
<1> QED  BY <1>1, <1>2, <1>4, <1>5 DEF RInv

LEMMA RCreate ==
  ASSUME TInv, SInv, RInv, NEW c \in Clients, NEW p \in Paths, NEW b \in Records,
         Create(c, p, b), Goto(c, "save"), UNCHANGED <<file, scan, todo, got>>, Observe
  PROVE  RInv'
<1>1. /\ DOMAIN due' = Clients
      /\ \A d \in Clients : due'[d] \subseteq due[d] /\ due'[d] \subseteq saved'
  BY DEF Create, RInv, DueInv
<1>2. \A d \in Clients : pc'[d] \in ScanStates => pc'[d] = pc[d]
  BY DEF Goto, ScanStates, TInv, TypeOK
<1>3. wrecked \subseteq wrecked'
  BY DEF Create
<1> QED  BY <1>1, <1>2, <1>3, RSame

LEMMA RMoves ==
  ASSUME TInv, RInv, NEW c \in Clients, NEW label, label \notin ScanStates, Goto(c, label),
         \A d \in Clients \ {c} : scan'[d] = scan[d] /\ todo'[d] = todo[d] /\ got'[d] = got[d],
         \A p \in Paths : file[p] # Missing => file'[p] # Missing,
         DOMAIN due' = Clients, \A d \in Clients : due'[d] \subseteq due[d],
         saved \subseteq saved', wrecked \subseteq wrecked', Observe
  PROVE  RInv'
<1>1. \A d \in Clients : pc'[d] \in ScanStates => d # c /\ pc'[d] = pc[d]
  BY DEF Goto, TInv, TypeOK
<1>2. \A d \in Clients : due'[d] \subseteq due[d] /\ due'[d] \subseteq saved'
  BY DEF RInv, DueInv
<1> QED  BY <1>1, <1>2, RSame

LEMMA RSaves ==
  ASSUME TInv, SInv, RInv, NEW c \in Clients, Publish(c) \/ Scribble(c) \/ Lose(c) \/ Die(c)
  PROVE  RInv'
<1> DEFINE p == item[c][1]
<1>1. /\ pc[c] = "save" /\ UNCHANGED <<scan, todo, got, due>> /\ Observe
      /\ DOMAIN due = Clients /\ saved \subseteq saved' /\ wrecked \subseteq wrecked'
  BY DEF Publish, Scribble, Lose, Die, progress, RInv, DueInv
<1>2. p \in Paths /\ item[c][2] \in Records /\ Landed(c) \subseteq Records \cup {Torn}
  BY <1>1, LandedIs
<1>3. \A q \in Paths : file[q] # Missing => file'[q] # Missing
  <2>1. CASE Publish(c)
    BY <1>2, <2>1, MissingIsNone DEF Publish, TInv, TypeOK
  <2>2. CASE Scribble(c)
    BY <1>2, <2>2, MissingIsNone DEF Scribble, TInv, TypeOK
  <2>3. CASE Lose(c)
    BY <2>3 DEF Lose, disk
  <2>4. CASE Die(c)
    <3>1. \E x \in {file[p]} \cup {Torn} \cup Landed(c) : file' = [file EXCEPT ![p] = x]
      BY <2>4 DEF Die
    <3> QED  BY <1>2, <3>1, MissingIsNone DEF TInv, TypeOK
  <2> QED  BY <2>1, <2>2, <2>3, <2>4
<1>4. CASE Scribble(c)
  <2>1. pc' = pc
    BY <1>4 DEF Scribble, progress
  <2> QED  BY <1>1, <1>3, <2>1, RSame DEF RInv, DueInv
<1>5. CASE ~Scribble(c)
  <2>1. Goto(c, "idle") \/ Goto(c, "next")
    BY <1>5 DEF Publish, Lose, Die, AfterSave
  <2>2. "idle" \notin ScanStates /\ "next" \notin ScanStates
    BY DEF ScanStates
  <2> QED  BY <1>1, <1>3, <2>1, <2>2, RMoves
<1> QED  BY <1>4, <1>5

LEMMA ROthers ==
  ASSUME TInv, RInv, NEW c \in Clients,
         \/ \E a \in Archives : Import(c, a)
         \/ \E d \in Dirs, o \in WorkItems \cup {Missing} : Scan(c, d, o)
         \/ BeginGate(c) \/ NextItem(c) \/ Judge(c) \/ Verdict(c) \/ Abort(c) \/ Return(c)
  PROVE  RInv'
<1>1. PICK label \in {"next", "list", "gate", "refused", "passed", "aborted", "idle"} : Goto(c, label)
  BY DEF Import, Scan, BeginGate, NextItem, Judge, Verdict, Abort, Return
<1>2. label \notin ScanStates
  BY DEF ScanStates
<1>3. \A d \in Clients \ {c} : scan'[d] = scan[d] /\ todo'[d] = todo[d] /\ got'[d] = got[d]
  BY DEF Import, Scan, BeginGate, NextItem, Judge, Verdict, Abort, Return, TInv, TypeOK
<1>4. file' = file /\ saved' = saved /\ wrecked' = wrecked /\ Observe
  BY DEF Import, Scan, BeginGate, NextItem, Judge, Verdict, Abort, Return, disk
<1>5. DOMAIN due' = Clients /\ \A d \in Clients : due'[d] \subseteq due[d]
  <2>1. due' = due \/ due' = [due EXCEPT ![c] = {}]
    BY DEF Import, Scan, BeginGate, NextItem, Judge, Verdict, Abort, Return
  <2> QED  BY <2>1 DEF RInv, DueInv
<1> QED  BY <1>1, <1>2, <1>3, <1>4, <1>5, RMoves

LEMMA RListed ==
  ASSUME TInv, SInv, RInv, NEW c \in Clients, List(c)
  PROVE  RInv'
<1> USE DEF List, disk
<1>1. /\ pc' = [pc EXCEPT ![c] = "read"] /\ pc'[c] = "read"
      /\ todo'[c] = Listed(scan[c][1]) /\ due'[c] = {s \in saved : s[1][1] = scan[c][1]}
      /\ \A d \in Clients \ {c} : pc'[d] = pc[d] /\ todo'[d] = todo[d] /\ got'[d] = got[d]
                                 /\ due'[d] = due[d]
      /\ UNCHANGED <<file, scan, saved, wrecked>>
  BY DEF Goto, TInv, TypeOK, RInv, DueInv
<1>2. DueInv'
  <2>1. ASSUME NEW s \in due'[c]  PROVE s[1][1] = scan[c][1] /\ <<s[1], "file">> \in todo'[c]
    <3>1. s \in Paths \X Records /\ file[s[1]] = s[2] /\ s[1][1] = scan[c][1]
      BY <1>1, <2>1 DEF SInv, SavedStay
    <3>2. file[s[1]] # Missing
      BY <3>1, MissingIsNone
    <3> QED  BY <1>1, <3>1, <3>2 DEF Listed
  <2>2. \A d \in Clients \ {c} : \A s : Has(d, s)' <=> Has(d, s)
    BY <1>1 DEF Has
  <2> QED  BY <1>1, <2>1, <2>2 DEF RInv, DueInv
<1>3. EndInv'
  BY <1>1 DEF RInv, EndInv
<1>4. \A d \in Clients : pc[d] \in {"read", "failed"} /\ crossed[d] => crossed'[d]
  BY <1>1 DEF Observe, Reading
<1>5. TodoInv'
  <2>1. ASSUME NEW e \in todo'[c]
        PROVE  /\ e[1][1] = scan[c][1]
               /\ e[2] = "file" => file[e[1]] # Missing
               /\ e[2] = "temp" => crossed'[c] \/ scan[c][1] \in wrecked
    <3>1. /\ e \in Paths \X {"file", "temp"} /\ e[1][1] = scan[c][1]
          /\ \/ e[2] = "file" /\ file[e[1]] # Missing
             \/ e[2] = "temp" /\ (left[e[1]] # Missing \/ Savers(e[1]) # {})
      BY <1>1, <2>1 DEF Listed
    <3>2. CASE left[e[1]] # Missing
      <4>1. e[1] \in Paths
        BY <3>1
      <4> QED  BY <3>1, <3>2, <4>1 DEF SInv, TracesKnown
    <3>3. CASE Savers(e[1]) # {}
      <4>1. SavedIn(scan[c][1])
        BY <3>1, <3>3 DEF Savers, SavedIn
      <4>2. crossed'[c]
        BY <1>1, <4>1 DEF Observe, Reading
      <4> QED  BY <3>1, <4>2
    <3> QED  BY <3>1, <3>2, <3>3
  <2> QED  BY <1>1, <1>4, <2>1 DEF RInv, TodoInv
<1>6. FailuresExplained'
  BY <1>1, <1>4 DEF RInv, FailuresExplained
<1> QED  BY <1>2, <1>3, <1>5, <1>6 DEF RInv

LEMMA RecordTimes == \A r \in Records : r.time \in Nat
  BY TimeAssumption, TransitionAssumption DEF Records, Marks

(* Keep gives up a transition only for a later one.                        *)
LEMMA AddKeeps ==
  ASSUME NEW c \in Clients, NEW S \in SUBSET Records, NEW r \in Records, NEW s \in Paths \X Records,
         got[c] = S, got'[c] = Add(scan[c], S, r), scan' = scan, Has(c, s)
  PROVE  Has(c, s)'
<1>1. CASE scan[c][1] # "standing"
  BY <1>1 DEF Has, Add
<1>2. CASE scan[c][1] = "standing" /\ s[2].object = scan[c][2]
  <2>1. PICK q \in S : q.dimension = s[2].dimension /\ q.time >= s[2].time
    BY <1>2 DEF Has
  <2>2. q.time \in Nat /\ r.time \in Nat /\ s[2].time \in Nat
    BY RecordTimes
  <2>3. CASE got'[c] = S
    BY <1>2, <2>1, <2>3 DEF Has
  <2>4. CASE got'[c] # S
    <3> DEFINE rivals == {t \in S : t.dimension = r.dimension}
    <3>1. got'[c] = (S \ rivals) \cup {r} /\ \A t \in rivals : r.time > t.time
      BY <1>2, <2>4 DEF Add, Keep
    <3>2. CASE q \in rivals
      <4>1. r.dimension = s[2].dimension /\ r.time >= s[2].time
        BY <2>1, <2>2, <3>1, <3>2
      <4> QED  BY <1>2, <3>1, <4>1 DEF Has
    <3>3. CASE q \notin rivals
      <4>1. q \in got'[c]
        BY <3>1, <3>3
      <4> QED  BY <1>2, <2>1, <4>1 DEF Has
    <3> QED  BY <3>2, <3>3
  <2> QED  BY <2>3, <2>4
<1>3. CASE scan[c][1] = "standing" /\ s[2].object # scan[c][2]
  BY <1>3 DEF Has
<1> QED  BY <1>1, <1>2, <1>3

LEMMA AddHas ==
  ASSUME NEW c \in Clients, NEW S \in SUBSET Records, NEW s \in Paths \X Records,
         got'[c] = Add(scan[c], S, s[2]), scan' = scan
  PROVE  Has(c, s)'
<1>1. CASE scan[c][1] # "standing"
  BY <1>1 DEF Has, Add
<1>2. CASE scan[c][1] = "standing" /\ s[2].object = scan[c][2]
  <2>1. got'[c] = Keep(S, s[2])
    BY <1>2 DEF Add
  <2>2. s[2].time >= s[2].time
    BY RecordTimes
  <2>3. CASE \A t \in S : t.dimension = s[2].dimension => s[2].time > t.time
    <3>1. s[2] \in got'[c]
      BY <2>1, <2>3 DEF Keep
    <3> QED  BY <1>2, <2>2, <3>1 DEF Has
  <2>4. CASE \E t \in S : t.dimension = s[2].dimension /\ ~(s[2].time > t.time)
    <3>1. PICK t \in S : t.dimension = s[2].dimension /\ ~(s[2].time > t.time)
      BY <2>4
    <3>2. t.time >= s[2].time
      BY <3>1, RecordTimes
    <3>3. t \in got'[c]
      BY <2>1, <3>1 DEF Keep
    <3> QED  BY <1>2, <3>1, <3>2, <3>3 DEF Has
  <2> QED  BY <2>3, <2>4
<1>3. CASE scan[c][1] = "standing" /\ s[2].object # scan[c][2]
  BY <1>3 DEF Has
<1> QED  BY <1>1, <1>2, <1>3

LEMMA RRead ==
  ASSUME TInv, SInv, RInv, NEW c \in Clients, Read(c)
  PROVE  RInv'
<1>1. PICK e \in todo[c] :
        /\ todo' = [todo EXCEPT ![c] = @ \ {e}]
        /\ \E r \in Found(e) \ {Torn, Missing} : got' = [got EXCEPT ![c] = Add(scan[c], @, r)]
  BY DEF Read
<1>2. e \in Paths \X {"file", "temp"} /\ got[c] \in SUBSET Records
  BY DEF TInv, TypeOK
<1>3. PICK r \in Records : r \in Found(e) /\ got' = [got EXCEPT ![c] = Add(scan[c], @, r)]
  BY <1>1, <1>2, FoundIs
<1>4. /\ got'[c] = Add(scan[c], got[c], r) /\ todo'[c] = todo[c] \ {e}
      /\ \A d \in Clients \ {c} : todo'[d] = todo[d] /\ got'[d] = got[d]
      /\ UNCHANGED <<file, pc, scan, due, saved, wrecked>> /\ pc[c] = "read" /\ Observe
  BY <1>1, <1>3 DEF Read, disk, TInv, TypeOK
<1>5. DueInv'
  <2>1. ASSUME NEW s \in due[c]
        PROVE  s[1][1] = scan[c][1] /\ (<<s[1], "file">> \in todo'[c] \/ Has(c, s)')
    <3>0. s \in saved
      BY <2>1 DEF RInv, DueInv
    <3>1. /\ s \in Paths \X Records /\ file[s[1]] = s[2]
          /\ s[1][1] = scan[c][1] /\ (<<s[1], "file">> \in todo[c] \/ Has(c, s))
      <4>1. s \in Paths \X Records /\ file[s[1]] = s[2]
        BY <3>0 DEF SInv, SavedStay
      <4>2. s[1][1] = scan[c][1] /\ (<<s[1], "file">> \in todo[c] \/ Has(c, s))
        BY <1>4, <2>1 DEF RInv, DueInv
      <4> QED  BY <4>1, <4>2
    <3>2. CASE Has(c, s)
      BY <1>2, <1>4, <3>1, <3>2, AddKeeps
    <3>3. CASE e = <<s[1], "file">>
      <4>1. Found(e) = {file[s[1]]}
        BY <3>3 DEF Found
      <4>2. r = s[2]
        BY <1>3, <3>1, <4>1
      <4> QED  BY <1>2, <1>4, <3>1, <4>2, AddHas
    <3>4. CASE e # <<s[1], "file">> /\ <<s[1], "file">> \in todo[c]
      BY <1>4, <3>1, <3>4
    <3> QED  BY <3>1, <3>2, <3>3, <3>4
  <2>2. \A d \in Clients \ {c} : \A s : Has(d, s)' <=> Has(d, s)
    BY <1>4 DEF Has
  <2> QED  BY <1>4, <2>1, <2>2 DEF RInv, DueInv
<1>6. EndInv'
  BY <1>4 DEF RInv, EndInv
<1>7. \A d \in Clients : pc[d] \in {"read", "failed"} /\ crossed[d] => crossed'[d]
  BY <1>4 DEF Observe, Reading
<1>8. TodoInv' /\ FailuresExplained'
  BY <1>4, <1>7 DEF RInv, TodoInv, FailuresExplained
<1> QED  BY <1>5, <1>6, <1>8 DEF RInv

LEMMA RReadFails ==
  ASSUME TInv, SInv, RInv, NEW c \in Clients, ReadFails(c)
  PROVE  RInv'
<1>1. /\ pc[c] = "read" /\ pc' = [pc EXCEPT ![c] = "failed"] /\ pc'[c] = "failed"
      /\ \A d \in Clients \ {c} : pc'[d] = pc[d]
      /\ UNCHANGED <<file, scan, todo, got, due, saved, wrecked>> /\ Observe
  BY DEF ReadFails, disk, Goto, TInv, TypeOK
<1>2. \A d \in Clients : pc[d] \in {"read", "failed"} /\ crossed[d] => crossed'[d]
  BY <1>1 DEF Observe, Reading
<1>3. crossed'[c] \/ scan[c][1] \in wrecked
  <2>1. PICK e \in todo[c] : Found(e) \cap {Torn, Missing} # {}
    BY DEF ReadFails
  <2>2. /\ e \in Paths \X {"file", "temp"} /\ e[1][1] = scan[c][1]
        /\ e[2] = "file" => file[e[1]] # Missing
        /\ e[2] = "temp" => crossed[c] \/ scan[c][1] \in wrecked
    <3>1. e \in Paths \X {"file", "temp"}
      BY <2>1 DEF TInv, TypeOK
    <3>2. /\ e[1][1] = scan[c][1]
          /\ e[2] = "file" => file[e[1]] # Missing
          /\ e[2] = "temp" => crossed[c] \/ scan[c][1] \in wrecked
      BY <1>1, <2>1 DEF RInv, TodoInv
    <3> QED  BY <3>1, <3>2
  <2>3. CASE e[2] = "file"
    <3>1. file[e[1]] = Torn
      BY <2>1, <2>2, <2>3 DEF Found
    <3> QED  BY <2>2, <3>1 DEF SInv, TracesKnown
  <2>4. CASE e[2] = "temp"
    BY <1>1, <1>2, <2>2, <2>4
  <2> QED  BY <2>2, <2>3, <2>4
<1>4. DueInv'
  BY <1>1 DEF RInv, DueInv, Has
<1>5. EndInv' /\ TodoInv'
  BY <1>1, <1>2 DEF RInv, EndInv, TodoInv
<1>6. FailuresExplained'
  BY <1>1, <1>2, <1>3 DEF RInv, FailuresExplained
<1> QED  BY <1>4, <1>5, <1>6 DEF RInv

LEMMA RAnswer ==
  ASSUME TInv, RInv, NEW c \in Clients, Answer(c)
  PROVE  RInv'
<1>1. /\ pc[c] = "read" /\ todo[c] = {} /\ pc'[c] \in {"judge", "answered"}
      /\ \A d \in Clients \ {c} : pc'[d] = pc[d]
      /\ UNCHANGED <<file, scan, todo, got, due, saved, wrecked>> /\ Observe
  BY DEF Answer, disk, Goto, TInv, TypeOK
<1>2. \A d \in Clients : pc'[d] \in {"read", "failed"} /\ crossed[d] => crossed'[d]
  BY <1>1 DEF Observe, Reading
<1>3. DueInv'
  BY <1>1 DEF RInv, DueInv, Has
<1>4. EndInv' /\ TodoInv' /\ FailuresExplained'
  BY <1>1, <1>2 DEF RInv, EndInv, TodoInv, FailuresExplained
<1> QED  BY <1>3, <1>4 DEF RInv

LEMMA RStep ==
  ASSUME TInv, SInv, RInv, [Next]_vars
  PROVE  RInv'
<1>1. ASSUME NEW c \in Clients, Call(c)  PROVE RInv'
  <2>1. ASSUME NEW p \in Paths, NEW b \in Records, Record(c, p, b)  PROVE RInv'
    BY <2>1, RCreate DEF Record
  <2>2. ASSUME NEW clock \in Times, NEW stamp \in Times, Migrate(c, clock, stamp)  PROVE RInv'
    BY <2>2, RCreate, MigrationFits DEF Migrate
  <2> QED  BY <1>1, <2>1, <2>2, ROthers DEF Call
<1>2. ASSUME NEW c \in Clients, SaveNext(c)  PROVE RInv'
  <2>1. PICK s \in work[c] : Create(c, s[1], s[2])
    BY <1>2 DEF SaveNext
  <2>2. s[1] \in Paths /\ s[2] \in Records
    BY DEF TInv, TypeOK
  <2> QED  BY <1>2, <2>1, <2>2, RCreate DEF SaveNext
<1>3. ASSUME NEW c \in Clients, Step(c) \/ Scribble(c) \/ Die(c)  PROVE RInv'
  BY <1>2, <1>3, RSaves, RListed, RRead, RReadFails, RAnswer, ROthers DEF Step
<1>4. ASSUME NEW o \in WorkItems, Revise(o)  PROVE RInv'
  <2>1. UNCHANGED <<file, pc, scan, todo, got, saved, due, wrecked>> /\ Observe
    BY <1>4 DEF Revise, SaveObject, SaveVersion, progress
  <2> QED  BY <2>1, RSame DEF RInv, DueInv
<1>5. CASE UNCHANGED vars
  BY <1>5 DEF vars, disk, progress, observers, RInv, DueInv, EndInv, TodoInv, FailuresExplained, Has
<1> QED  BY <1>1, <1>3, <1>4, <1>5 DEF Next

THEOREM Invariance == Spec => [](TInv /\ SInv /\ RInv)
<1>1. Init => TInv /\ SInv /\ RInv
  BY TInit, SInit, RInit
<1>2. TInv /\ SInv /\ RInv /\ [Next]_vars => (TInv /\ SInv /\ RInv)'
  BY TStep, SStep, RStep
<1> QED  BY <1>1, <1>2, PTL DEF Spec

(* AnswersComplete: no history that is answered lacks a record that was    *)
(* saved, undisturbed, before its directory was listed.                    *)
THEOREM Complete == Spec => []AnswersComplete
<1>1. RInv => AnswersComplete
  BY DEF RInv, DueInv, EndInv, AnswersComplete, Has
<1> QED  BY <1>1, Invariance, PTL

(* FailuresExplained: a scan fails only because of a save.                 *)
THEOREM Explained == Spec => []FailuresExplained
<1>1. RInv => FailuresExplained
  BY DEF RInv
<1> QED  BY <1>1, Invariance, PTL
=============================================================================
