------------------------------ MODULE GateProofs ------------------------------
(***************************************************************************)
(* Proofs about the maturity gate of Histories: which imports it refuses,  *)
(* for any number of calls, clients, versions and records.                 *)
(***************************************************************************)
EXTENDS HistoriesProofs

-----------------------------------------------------------------------------
(* What may be read at a path never grows but by a save that begins there. *)

Starts(p) == \E c \in Clients : ~Saving(c) /\ Saving(c)' /\ item'[c][1] = p

Settled(p) == /\ Content(p)' \subseteq Content(p) \cup {Missing, Torn}
              /\ Savers(p)' \subseteq Savers(p)
              /\ Used(p) => Used(p)'

(* A saver whose temporary file a rival has renamed finds the rival's file.*)
TakenThere == \A c \in Clients : Saving(c) /\ Torn \in met[c] => file[item[c][1]] # Missing

LEMMA ContentSame ==
  ASSUME UNCHANGED <<file, left, item, met>>, NEW p
  PROVE  Content(p)' = Content(p) /\ Savers(p)' = Savers(p) /\ (Used(p)' <=> Used(p))
  BY DEF Content, Savers, Saving, Used

LEMMA CreateContent ==
  ASSUME TInv, NEW c \in Clients, NEW q \in Paths, NEW b \in Records,
         Create(c, q, b), pc[c] # "save", UNCHANGED <<file, met>>
  PROVE  /\ Starts(q) /\ Used(q)' /\ left'[q] = Missing
         /\ Content(q)' \subseteq Content(q) \cup {Missing, b}
         /\ \A p \in Paths \ {q} : /\ Content(p)' = Content(p) /\ Savers(p)' = Savers(p)
                                   /\ Used(p)' <=> Used(p)
         /\ \A d \in Clients : Saving(d)' => (Saving(d) /\ item'[d] = item[d]) \/ met'[d] = {}
         /\ \A p : Starts(p) => p = q
<1>1. /\ item'[c] = <<q, b>> /\ item[c] = Missing /\ met[c] = {} /\ <<q, b>> # Missing
      /\ \A d \in Clients \ {c} : item'[d] = item[d]
  BY MissingIsNone DEF Create, TInv, Saves, TypeOK
<1>2. /\ left'[q] = Missing
      /\ \A p \in Paths \ {q} : left'[p] = left[p]
  BY DEF Create, TInv, TypeOK
<1>3. Savers(q)' = Savers(q) \cup {c}
  BY <1>1 DEF Savers, Saving
<1>4. \A p \in Paths \ {q} : Savers(p)' = Savers(p)
  BY <1>1 DEF Savers, Saving
<1>5. Starts(q) /\ Used(q)'
  BY <1>1, <1>3 DEF Starts, Saving, Used
<1>6. Content(q)' \subseteq Content(q) \cup {Missing, b}
  <2>1. \A d \in Savers(q) : item'[d] = item[d] /\ met'[d] = met[d]
    BY <1>1 DEF Savers, Saving
  <2> QED  BY <1>1, <1>2, <1>3, <2>1 DEF Content
<1>7. \A p \in Paths \ {q} : Content(p)' = Content(p) /\ (Used(p)' <=> Used(p))
  <2> SUFFICES ASSUME NEW p \in Paths \ {q}
               PROVE  Content(p)' = Content(p) /\ (Used(p)' <=> Used(p))
    OBVIOUS
  <2>1. \A d \in Savers(p) : item'[d] = item[d] /\ met'[d] = met[d]
    BY <1>1 DEF Savers, Saving
  <2> QED  BY <1>2, <1>4, <2>1 DEF Content, Used
<1>8. \A d \in Clients : Saving(d)' => (Saving(d) /\ item'[d] = item[d]) \/ met'[d] = {}
  BY <1>1 DEF Saving
<1>9. \A p : Starts(p) => p = q
  BY <1>1 DEF Starts, Saving
<1> QED  BY <1>2, <1>4, <1>5, <1>6, <1>7, <1>8, <1>9

(* A save ends.                                                            *)
LEMMA EndContent ==
  ASSUME TInv, TakenThere, NEW c \in Clients, pc[c] = "save",
         NEW rest, rest \subseteq Content(item[c][1]) \cup {Torn}, Meet(c, rest),
         item' = [item EXCEPT ![c] = Missing],
         \A p \in Paths : p # item[c][1] => file'[p] = file[p] /\ left'[p] = left[p],
         file'[item[c][1]] \in Content(item[c][1]) \cup {Missing, Torn},
         left'[item[c][1]] \in Content(item[c][1]) \cup {Missing, Torn},
         file'[item[c][1]] # Missing \/ left'[item[c][1]] # Missing,
         file[item[c][1]] # Missing \/ Torn \in rest => file'[item[c][1]] # Missing
  PROVE  TakenThere' /\ \A p \in Paths : Settled(p)
<1> PICK q \in Paths : q = item[c][1]
  BY SavingIs DEF TInv, TypeOK
<1>1. /\ Saving(c) /\ q \in Paths /\ c \in Savers(q)
      /\ item'[c] = Missing /\ \A d \in Clients \ {c} : item'[d] = item[d]
  BY SavingIs DEF Savers, TInv, TypeOK
<1>2. ASSUME NEW p  PROVE Savers(p)' = Savers(p) \ {c}
  BY <1>1 DEF Savers, Saving
<1>3. \A d \in Clients \ {c} : met'[d] = IF d \in Savers(q) THEN met[d] \cup rest ELSE met[d]
  BY <1>1 DEF Meet, Rivals
<1>4. ASSUME NEW p \in Paths, p # q  PROVE Settled(p)
  <2>1. Savers(p)' = Savers(p) /\ c \notin Savers(p) /\ Savers(p) \cap Savers(q) = {}
    BY <1>2, <1>4 DEF Savers
  <2>2. \A d \in Savers(p) : item'[d] = item[d] /\ met'[d] = met[d]
    BY <1>1, <1>3, <2>1 DEF Savers
  <2>3. Content(p)' = Content(p)
    BY <1>4, <2>1, <2>2 DEF Content
  <2> QED  BY <1>4, <2>1, <2>3 DEF Settled, Used
<1>5. Settled(q)
  <2>1. Savers(q) \subseteq Clients /\ Savers(q)' = Savers(q) \ {c}
    BY <1>2 DEF Savers
  <2>2. \A d \in Savers(q)' : /\ d \in Savers(q) /\ item'[d] = item[d]
                              /\ met'[d] \subseteq met[d] \cup rest
    BY <1>1, <1>3, <2>1
  <2>3. \A d \in Savers(q) : {item[d][2]} \cup met[d] \subseteq Content(q)
    BY DEF Content
  <2>4. \A d \in Savers(q)' : {item'[d][2]} \cup met'[d] \subseteq Content(q) \cup {Torn}
    BY <2>2, <2>3
  <2>5. Content(q)' = {file'[q], left'[q]} \cup UNION {{item'[d][2]} \cup met'[d] : d \in Savers(q)'}
    BY DEF Content
  <2>6. Content(q)' \subseteq Content(q) \cup {Missing, Torn}
    BY <2>4, <2>5
  <2> QED  BY <2>1, <2>6 DEF Settled, Used
<1>6. TakenThere'
  <2> SUFFICES ASSUME NEW d \in Clients, Saving(d)', Torn \in met'[d]
               PROVE  file'[item'[d][1]] # Missing
    BY DEF TakenThere
  <2>1. d # c /\ item'[d] = item[d] /\ Saving(d) /\ item[d][1] \in Paths
    BY <1>1, SavingIs DEF Saving
  <2>2. CASE d \in Savers(q)
    <3>1. item[d][1] = q /\ (Torn \in met[d] \/ Torn \in rest)
      BY <1>3, <2>1, <2>2 DEF Savers
    <3> QED  BY <2>1, <3>1 DEF TakenThere
  <2>3. CASE d \notin Savers(q)
    <3>1. item[d][1] # q /\ met'[d] = met[d]
      BY <1>3, <2>1, <2>3 DEF Savers
    <3> QED  BY <2>1, <3>1 DEF TakenThere
  <2> QED  BY <2>2, <2>3
<1> QED  BY <1>4, <1>5, <1>6

LEMMA EndSteps ==
  ASSUME TInv, TakenThere, NEW c \in Clients, Publish(c) \/ Lose(c) \/ Die(c)
  PROVE  TakenThere' /\ \A p \in Paths : Settled(p)
<1> DEFINE q == item[c][1]
<1>1. /\ pc[c] = "save" /\ item' = [item EXCEPT ![c] = Missing]
      /\ Saving(c) /\ q \in Paths /\ c \in Savers(q)
  BY SavingIs DEF Publish, Lose, Die, AfterSave, Savers
<1>2. /\ {file[q], left[q], item[c][2]} \subseteq Content(q) /\ met[c] \subseteq Content(q)
      /\ item[c][2] \in Records
  BY <1>1, LandedIs DEF Content
<1>3. Landed(c) \subseteq Content(q) \cup {Torn} /\ Missing \notin Landed(c)
  <2>1. {item[d][2] : d \in Rivals(c)} \subseteq Content(q)
    BY <1>1 DEF Rivals, Content
  <2>2. Landed(c) \subseteq Content(q) \cup {Torn}
    BY <1>2, <2>1 DEF Landed, Published
  <2>3. Missing \notin Landed(c)
    BY <1>1, LandedIs, MissingIsNone
  <2> QED  BY <2>2, <2>3
<1>4. CASE Publish(c)
  <2>1. PICK x \in Landed(c) : file' = [file EXCEPT ![q] = x]
    BY <1>4 DEF Publish
  <2>2. /\ file'[q] = x /\ left'[q] = Missing
        /\ \A p \in Paths : p # q => file'[p] = file[p] /\ left'[p] = left[p]
    BY <1>1, <1>4, <2>1 DEF Publish, TInv, TypeOK
  <2>3. Meet(c, {Torn})
    BY <1>4 DEF Publish
  <2>4. file'[q] \in Content(q) \cup {Missing, Torn} /\ file'[q] # Missing
    BY <1>3, <2>2
  <2> QED  BY <1>1, <2>2, <2>3, <2>4, EndContent
<1>5. CASE Lose(c)
  <2>1. file' = file /\ left' = left /\ Meet(c, {}) /\ Torn \in met[c]
    BY <1>5 DEF Lose, disk, Taken
  <2>2. file[q] # Missing
    BY <1>1, <2>1 DEF TakenThere
  <2> QED  BY <1>1, <1>2, <2>1, <2>2, EndContent
<1>6. CASE Die(c)
  <2>1. CASE /\ \E x \in {Torn, item[c][2]} \cup (IF Overlapped(c) THEN {left[q]} ELSE {}) :
                  /\ x # Missing \/ Taken(met[c])
                  /\ left' = [left EXCEPT ![q] = x]
             /\ \E x \in {file[q]} \cup (IF Taken(met[c]) THEN {Torn} ELSE {}) :
                  file' = [file EXCEPT ![q] = x]
             /\ Meet(c, {item[c][2]})
    <3>1. PICK x \in {Torn, item[c][2], left[q]} :
            (x # Missing \/ Torn \in met[c]) /\ left' = [left EXCEPT ![q] = x]
      BY <2>1 DEF Taken
    <3>2. PICK y \in {file[q], Torn} : file' = [file EXCEPT ![q] = y]
      BY <2>1
    <3>3. /\ file'[q] = y /\ left'[q] = x
          /\ \A p \in Paths : p # q => file'[p] = file[p] /\ left'[p] = left[p]
      BY <1>1, <3>1, <3>2 DEF TInv, TypeOK
    <3>4. file[q] # Missing => file'[q] # Missing
      BY <3>3, MissingIsNone
    <3>5. file'[q] # Missing \/ left'[q] # Missing
      BY <1>1, <3>1, <3>3, <3>4 DEF TakenThere
    <3>6. Torn \notin {item[c][2]}
      BY <1>2, MissingIsNone
    <3>7. /\ file'[q] \in Content(q) \cup {Missing, Torn}
          /\ left'[q] \in Content(q) \cup {Missing, Torn}
      BY <1>2, <3>3
    <3> QED  BY <1>1, <1>2, <2>1, <3>3, <3>4, <3>5, <3>6, <3>7, EndContent
  <2>2. CASE /\ \E x \in Landed(c) : file' = [file EXCEPT ![q] = x]
             /\ left' = [left EXCEPT ![q] = Missing]
             /\ Meet(c, {Torn})
    <3>1. PICK x \in Landed(c) : file' = [file EXCEPT ![q] = x]
      BY <2>2
    <3>2. /\ file'[q] = x /\ left'[q] = Missing
          /\ \A p \in Paths : p # q => file'[p] = file[p] /\ left'[p] = left[p]
      BY <1>1, <2>2, <3>1 DEF TInv, TypeOK
    <3>3. file'[q] \in Content(q) \cup {Missing, Torn} /\ file'[q] # Missing
      BY <1>3, <3>2
    <3> QED  BY <1>1, <2>2, <3>2, <3>3, EndContent
  <2> QED  BY <1>6, <2>1, <2>2 DEF Die
<1> QED  BY <1>4, <1>5, <1>6

LEMMA ScribbleStep ==
  ASSUME TInv, TakenThere, NEW c \in Clients, Scribble(c)
  PROVE  TakenThere' /\ \A p \in Paths : Settled(p)
<1> PICK q \in Paths : q = item[c][1]
  BY SavingIs DEF Scribble
<1>1. /\ c \in Savers(q) /\ item[c][2] \in Records
      /\ UNCHANGED <<left, item, met>>
  BY SavingIs, LandedIs DEF Scribble, progress, Savers
<1>2. PICK x \in {item[c][2], Torn} : file' = [file EXCEPT ![q] = x]
  BY DEF Scribble
<1>3. /\ file'[q] = x /\ x # Missing /\ x \in Content(q) \cup {Torn}
      /\ \A p \in Paths : p # q => file'[p] = file[p]
  BY <1>1, <1>2, MissingIsNone DEF TInv, TypeOK, Content
<1>4. ASSUME NEW p \in Paths  PROVE Settled(p)
  <2>1. Savers(p)' = Savers(p)
    BY <1>1 DEF Savers, Saving
  <2>2. Content(p)' \subseteq Content(p) \cup {Missing, Torn}
    BY <1>1, <1>3, <2>1 DEF Content
  <2> QED  BY <1>1, <1>3, <2>1, <2>2 DEF Settled, Used
<1>5. TakenThere'
  <2> SUFFICES ASSUME NEW d \in Clients, Saving(d)', Torn \in met'[d]
               PROVE  file'[item'[d][1]] # Missing
    BY DEF TakenThere
  <2>1. Saving(d) /\ item[d][1] \in Paths /\ file[item[d][1]] # Missing
    BY <1>1, SavingIs DEF TakenThere, Saving
  <2> QED  BY <1>1, <1>3, <2>1
<1> QED  BY <1>4, <1>5

-----------------------------------------------------------------------------
(* Where the standing is kept are transitions, and calls are in order.     *)

ContentFits == \A p \in StandingPaths : Content(p) \subseteq Transitions \cup {Missing, Torn}
WorkFits == \A c \in Clients : \A s \in work[c] : Fits(s[1], s[2])
CallsFit == \A c \in Clients :
              /\ pc[c] \in {"idle", "save", "next"} => ~flawed[c]
              /\ pc[c] \in {"next", "gate", "judge", "passed", "refused"} => kind[c] = "import"
BInv == TakenThere /\ ContentFits /\ WorkFits /\ CallsFit

LEMMA BInit == Init => BInv
<1> SUFFICES ASSUME Init  PROVE BInv
  OBVIOUS
<1>1. \A c \in Clients : ~Saving(c)
  BY DEF Init, Saving
<1>2. \A p \in Paths : Savers(p) = {} /\ Content(p) = {Missing}
  BY <1>1 DEF Init, Savers, Content
<1>3. TakenThere
  BY <1>1 DEF TakenThere
<1>4. ContentFits
  BY <1>2 DEF ContentFits, StandingPaths
<1>5. WorkFits /\ CallsFit
  BY DEF Init, WorkFits, CallsFit
<1> QED  BY <1>3, <1>4, <1>5 DEF BInv

(* What every step leaves true of a path.                                  *)
PathStep(p) == /\ Starts(p) => left'[p] = Missing
               /\ ~Starts(p) => Settled(p)
PathsStep == /\ \A p \in Paths : PathStep(p)
             /\ TakenThere' /\ ContentFits'

LEMMA CreatePaths ==
  ASSUME TInv, BInv, NEW c \in Clients, NEW q \in Paths, NEW b \in Records, Fits(q, b),
         Create(c, q, b), pc[c] # "save", UNCHANGED <<file, met>>
  PROVE  PathsStep
<1>1. ASSUME NEW p \in Paths  PROVE PathStep(p)
  <2>1. CASE p = q
    BY <2>1, CreateContent DEF PathStep
  <2>2. CASE p # q
    <3>1. ~Starts(p)
      BY <2>2, CreateContent
    <3>2. Content(p)' = Content(p) /\ Savers(p)' = Savers(p) /\ (Used(p)' <=> Used(p))
      BY <2>2, CreateContent
    <3> QED  BY <3>1, <3>2 DEF PathStep, Settled
  <2> QED  BY <2>1, <2>2
<1>2. TakenThere'
  BY CreateContent DEF BInv, TakenThere
<1>3. ContentFits'
  <2> SUFFICES ASSUME NEW p \in StandingPaths
               PROVE  Content(p)' \subseteq Transitions \cup {Missing, Torn}
    BY DEF ContentFits, StandingPaths
  <2>1. p \in Paths /\ p[1] = "standing" /\ Content(p) \subseteq Transitions \cup {Missing, Torn}
    BY DEF StandingPaths, BInv, ContentFits
  <2>2. CASE p = q
    <3>1. b \in Transitions
      BY <2>1, <2>2 DEF Fits
    <3> QED  BY <2>1, <2>2, <3>1, CreateContent
  <2>3. CASE p # q
    BY <2>1, <2>3, CreateContent
  <2> QED  BY <2>2, <2>3
<1> QED  BY <1>1, <1>2, <1>3 DEF PathsStep

LEMMA SettledPaths ==
  ASSUME BInv, TakenThere', \A p \in Paths : Settled(p), \A p \in Paths : ~Starts(p)
  PROVE  PathsStep
  BY DEF PathsStep, PathStep, BInv, ContentFits, Settled, StandingPaths

LEMMA SamePaths ==
  ASSUME BInv, UNCHANGED <<file, left, item, met>>
  PROVE  PathsStep
<1>1. \A p \in Paths : Settled(p)
  BY ContentSame DEF Settled
<1>2. TakenThere'
  BY DEF BInv, TakenThere, Saving
<1>3. \A p \in Paths : ~Starts(p)
  BY DEF Starts, Saving
<1> QED  BY <1>1, <1>2, <1>3, SettledPaths

LEMMA PathsKept ==
  ASSUME TInv, BInv, [Next]_vars
  PROVE  PathsStep
<1>1. ASSUME NEW c \in Clients, Call(c)  PROVE PathsStep
  <2>1. ASSUME NEW p \in Paths, NEW b \in Records, Record(c, p, b)  PROVE PathsStep
    <3>1. Fits(p, b) /\ Create(c, p, b) /\ pc[c] # "save" /\ UNCHANGED <<file, met>>
      BY <2>1 DEF Record, Begin
    <3> QED  BY <3>1, CreatePaths
  <2>2. ASSUME NEW clock \in Times, NEW stamp \in Times, Migrate(c, clock, stamp)  PROVE PathsStep
    <3>1. /\ Create(c, <<"migrations", Second(clock)>>, [time |-> stamp])
          /\ pc[c] # "save" /\ UNCHANGED <<file, met>>
      BY <2>2 DEF Migrate, Begin
    <3>2. Fits(<<"migrations", Second(clock)>>, [time |-> stamp])
      BY DEF Fits, Marks
    <3> QED  BY <3>1, <3>2, MigrationFits, CreatePaths
  <2>3. ASSUME NEW a \in Archives, Import(c, a)  PROVE PathsStep
    BY <2>3, SamePaths DEF Import, disk
  <2>4. ASSUME NEW d \in Dirs, NEW o \in WorkItems \cup {Missing}, Scan(c, d, o)  PROVE PathsStep
    BY <2>4, SamePaths DEF Scan, disk
  <2> QED  BY <1>1, <2>1, <2>2, <2>3, <2>4 DEF Call
<1>2. ASSUME NEW c \in Clients, SaveNext(c)  PROVE PathsStep
  <2>1. PICK s \in work[c] : Create(c, s[1], s[2])
    BY <1>2 DEF SaveNext
  <2>2. s[1] \in Paths /\ s[2] \in Records /\ Fits(s[1], s[2])
    BY DEF TInv, TypeOK, BInv, WorkFits
  <2>3. pc[c] # "save" /\ UNCHANGED <<file, met>>
    BY <1>2 DEF SaveNext
  <2> QED  BY <2>1, <2>2, <2>3, CreatePaths
<1>3. ASSUME NEW c \in Clients, Publish(c) \/ Lose(c) \/ Die(c)  PROVE PathsStep
  <2>1. \A p \in Paths : ~Starts(p)
    <3>1. item' = [item EXCEPT ![c] = Missing]
      BY <1>3 DEF Publish, Lose, Die, AfterSave
    <3>2. \A d \in Clients : item'[d] = item[d] \/ item'[d] = Missing
      BY <3>1 DEF TInv, TypeOK
    <3> QED  BY <3>2 DEF Starts, Saving
  <2>2. TakenThere' /\ \A p \in Paths : Settled(p)
    BY <1>3, EndSteps DEF BInv
  <2> QED  BY <2>1, <2>2, SettledPaths
<1>4. ASSUME NEW c \in Clients, Scribble(c)  PROVE PathsStep
  <2>1. \A p \in Paths : ~Starts(p)
    BY <1>4 DEF Scribble, progress, Starts, Saving
  <2>2. TakenThere' /\ \A p \in Paths : Settled(p)
    BY <1>4, ScribbleStep DEF BInv
  <2> QED  BY <2>1, <2>2, SettledPaths
<1>5. ASSUME NEW c \in Clients,
             \/ List(c) \/ Read(c) \/ ReadFails(c) \/ Answer(c)
             \/ BeginGate(c) \/ NextItem(c) \/ Judge(c) \/ Verdict(c) \/ Abort(c) \/ Return(c)
      PROVE  PathsStep
  BY <1>5, SamePaths DEF List, Read, ReadFails, Answer, BeginGate, NextItem, Judge, Verdict,
     Abort, Return, disk
<1>6. ASSUME NEW o \in WorkItems, Revise(o)  PROVE PathsStep
  BY <1>6, SamePaths DEF Revise, SaveObject, SaveVersion, progress
<1>7. CASE UNCHANGED vars
  BY <1>7, SamePaths DEF vars, disk, progress
<1> QED  BY <1>1, <1>2, <1>3, <1>4, <1>5, <1>6, <1>7 DEF Next, Step

LEMMA ArchivesFit == \A a \in Archives : \A s \in a : Fits(s[1], s[2])
  BY ArchiveAssumption

LEMMA WorkKept ==
  ASSUME TInv, BInv, [Next]_vars
  PROVE  WorkFits'
<1>1. ASSUME NEW c \in Clients, NEW a \in Archives, Import(c, a)  PROVE WorkFits'
  <2>1. work' = [work EXCEPT ![c] = a]
    BY <1>1 DEF Import
  <2> QED  BY <2>1, ArchivesFit DEF BInv, WorkFits, TInv, TypeOK
<1>2. ASSUME \A d \in Clients : work'[d] \subseteq work[d]  PROVE WorkFits'
  BY <1>2 DEF BInv, WorkFits
<1>3. ASSUME NEW c \in Clients, Call(c) \/ Scribble(c)
      PROVE  work' = work \/ \E a \in Archives : Import(c, a)
  BY <1>3 DEF Call, Record, Migrate, Scan, Scribble, progress
<1>4. ASSUME NEW c \in Clients, Publish(c) \/ Lose(c) \/ Die(c) \/ SaveNext(c)
      PROVE  \A d \in Clients : work'[d] \subseteq work[d]
  BY <1>4 DEF Publish, Lose, Die, SaveNext, AfterSave, TInv, TypeOK
<1>5. ASSUME NEW c \in Clients,
             \/ List(c) \/ Read(c) \/ ReadFails(c) \/ Answer(c)
             \/ BeginGate(c) \/ NextItem(c) \/ Judge(c) \/ Verdict(c) \/ Abort(c) \/ Return(c)
      PROVE  work' = work
  BY <1>5 DEF List, Read, ReadFails, Answer, BeginGate, NextItem, Judge, Verdict, Abort, Return
<1>6. ASSUME NEW o \in WorkItems, Revise(o)  PROVE work' = work
  BY <1>6 DEF Revise, SaveObject, SaveVersion, progress
<1>7. CASE UNCHANGED vars
  BY <1>2, <1>7 DEF vars, progress
<1> QED  BY <1>1, <1>2, <1>3, <1>4, <1>5, <1>6, <1>7 DEF Next, Step

LEMMA CallsKept ==
  ASSUME TInv, BInv, [Next]_vars
  PROVE  CallsFit'
<1> USE DEF BInv, CallsFit, Goto, TInv, TypeOK
<1>1. ASSUME NEW c \in Clients, Call(c)  PROVE CallsFit'
  <2>1. PICK k \in {"record", "import", "scan"}, l \in {"save", "next", "list"} :
          /\ pc[c] = "idle" /\ kind' = [kind EXCEPT ![c] = k] /\ pc' = [pc EXCEPT ![c] = l]
          /\ flawed' = flawed /\ (l = "next" => k = "import")
    BY <1>1 DEF Call, Record, Migrate, Import, Scan, Begin
  <2> QED  BY <2>1
<1>2. ASSUME NEW c \in Clients, Publish(c) \/ Lose(c) \/ Die(c)  PROVE CallsFit'
  <2>1. CASE kind[c] = "import"
    BY <1>2, <2>1 DEF Publish, Lose, Die, AfterSave
  <2>2. CASE kind[c] # "import"
    BY <1>2, <2>2 DEF Publish, Lose, Die, AfterSave
  <2> QED  BY <2>1, <2>2
<1>3. ASSUME NEW c \in Clients, SaveNext(c) \/ List(c) \/ Read(c) \/ ReadFails(c)
      PROVE  CallsFit'
  BY <1>3 DEF SaveNext, List, Read, ReadFails
<1>4. ASSUME NEW c \in Clients, Answer(c)  PROVE CallsFit'
  BY <1>4 DEF Answer
<1>5. ASSUME NEW c \in Clients, BeginGate(c) \/ NextItem(c) \/ Judge(c) \/ Verdict(c) \/ Abort(c) \/ Return(c)
      PROVE  CallsFit'
  BY <1>5 DEF BeginGate, NextItem, Judge, Verdict, Abort, Return
<1>6. ASSUME UNCHANGED <<pc, kind, flawed>>  PROVE CallsFit'
  BY <1>6
<1>7. ASSUME NEW c \in Clients, Scribble(c)  PROVE CallsFit'
  BY <1>6, <1>7 DEF Scribble, progress
<1>8. ASSUME NEW o \in WorkItems, Revise(o)  PROVE CallsFit'
  BY <1>6, <1>8 DEF Revise, SaveObject, SaveVersion, progress
<1>9. CASE UNCHANGED vars
  BY <1>6, <1>9 DEF vars, progress
<1> QED  BY <1>1, <1>2, <1>3, <1>4, <1>5, <1>7, <1>8, <1>9 DEF Next, Step

LEMMA BStep ==
  ASSUME TInv, BInv, [Next]_vars
  PROVE  BInv'
<1>1. TakenThere' /\ ContentFits'
  BY PathsKept DEF PathsStep
<1> QED  BY <1>1, WorkKept, CallsKept DEF BInv

-----------------------------------------------------------------------------
(* The steps of a call in the gate.                                        *)

Frame(c) == /\ pc'[c] = pc[c] /\ kind'[c] = kind[c] /\ items'[c] = items[c]
            /\ scan'[c] = scan[c] /\ todo'[c] = todo[c] /\ got'[c] = got[c]
            /\ flawed'[c] = flawed[c]
GateAct(c) == NextItem(c) \/ List(c) \/ Read(c) \/ Answer(c) \/ Judge(c) \/ Verdict(c)

LEMMA GateSteps ==
  ASSUME TInv, Next, NEW c \in Clients, Gating(c)'
  PROVE  \/ Frame(c) /\ Gating(c)
         \/ BeginGate(c) /\ ~Gating(c)
         \/ GateAct(c) /\ Gating(c)
<1> USE DEF TInv, TypeOK, Goto
<1>1. ASSUME NEW d \in Clients, d # c, Call(d) \/ Step(d) \/ Scribble(d) \/ Die(d)
      PROVE  Frame(c)
  <2>1. CASE Call(d)
    BY <1>1, <2>1 DEF Call, Record, Migrate, Import, Scan, Begin, Frame
  <2>2. CASE Publish(d) \/ Lose(d) \/ Die(d) \/ SaveNext(d)
    BY <1>1, <2>2 DEF Publish, Lose, Die, SaveNext, AfterSave, Frame
  <2>3. CASE List(d) \/ Read(d) \/ ReadFails(d) \/ Answer(d)
    BY <1>1, <2>3 DEF List, Read, ReadFails, Answer, Frame
  <2>4. CASE BeginGate(d) \/ NextItem(d) \/ Judge(d) \/ Verdict(d) \/ Abort(d) \/ Return(d)
    BY <1>1, <2>4 DEF BeginGate, NextItem, Judge, Verdict, Abort, Return, Frame
  <2>5. CASE Scribble(d)
    BY <2>5 DEF Scribble, progress, Frame
  <2> QED  BY <1>1, <2>1, <2>2, <2>3, <2>4, <2>5 DEF Step
<1>2. ASSUME Call(c)  PROVE FALSE
  BY <1>2 DEF Call, Record, Migrate, Import, Scan, Begin, Gating
<1>3. ASSUME Publish(c) \/ Lose(c) \/ Die(c) \/ SaveNext(c) \/ ReadFails(c)
             \/ Abort(c) \/ Return(c)
      PROVE FALSE
  BY <1>3 DEF Publish, Lose, Die, SaveNext, ReadFails, Abort, Return, AfterSave, Gating
<1>4. ASSUME Scribble(c)  PROVE Frame(c)
  BY <1>4 DEF Scribble, progress, Frame
<1>5. ASSUME GateAct(c)  PROVE Gating(c)
  BY <1>5 DEF GateAct, NextItem, List, Read, Answer, Judge, Verdict, Gating
<1>6. ASSUME NEW o \in WorkItems, Revise(o)  PROVE Frame(c)
  BY <1>6 DEF Revise, SaveObject, SaveVersion, progress, Frame
<1>7. ASSUME Frame(c)  PROVE Gating(c)
  BY <1>7 DEF Frame, Gating
<1>8. ASSUME BeginGate(c)  PROVE ~Gating(c)
  BY <1>8 DEF BeginGate, Gating
<1> QED  BY <1>1, <1>2, <1>3, <1>4, <1>5, <1>6, <1>7, <1>8 DEF Next, Step, GateAct

-----------------------------------------------------------------------------
(* What the gate has read of the item it is at.                            *)

AtItem(c) == pc[c] \in {"list", "read", "judge"}
HasRead(c) == pc[c] \in {"read", "judge"}

OneEach(o, S) == /\ \A r \in S : r \in Transitions /\ r.object = o
                 /\ \A r, t \in S : r.dimension = t.dimension => r = t

GateTyped == \A c \in Clients : Gating(c) =>
               /\ AtItem(c) => /\ scan[c][1] = "standing" /\ scan[c][2] \in WorkItems
                               /\ scan[c][3] \in Versions
               /\ HasRead(c) => OneEach(scan[c][2], got[c])
               /\ pc[c] = "passed" => items[c] = {} /\ ~flawed[c]
               /\ pc[c] = "refused" => flawed[c]

(* A transition will certainly be read, or is answered by one no older.    *)
Awaited(c, s) == \E e \in todo[c] : Found(e) = {s}
Answered(c, s) == \E r \in got[c] : r.dimension = "status" /\ r.time >= s.time
Follows(c, o, C, P) == /\ StatusOf(o, got[c]) \subseteq P
                       /\ \A s \in C : Awaited(c, s) \/ Answered(c, s)

(* As long as nothing moves, the gate finds what anybody would.            *)
FairInv == \A c \in Clients : Gating(c) /\ ~moved[c] =>
             /\ flawed[c] => MayOffend # {}
             /\ AtItem(c) => scan[c][3] = head[scan[c][2]]
             /\ HasRead(c) => Follows(c, scan[c][2], Certain(scan[c][2]), Possible(scan[c][2]))

(* Whatever the gate will have read of an item, it will find it to offend: *)
(* the transitions C were there when the directory was listed, P are all   *)
(* it may find.                                                            *)
Convicts(c, o) ==
  \E C, P \in SUBSET Transitions :
    /\ C # {} /\ C \subseteq StatusOf(o, C)
    /\ \A r \in P : (\A s \in C : s.time <= r.time) => Unmet(r)
    /\ Follows(c, o, C, P)
    /\ \A e \in todo[c] : Used(e[1]) /\ StatusOf(o, Content(e[1])) \subseteq P

(* The version the gate will read was the item's latest during the gate.   *)
NamedInv == \A c \in Clients : Gating(c) /\ AtItem(c) => <<scan[c][2], scan[c][3]>> \in latest[c]

CatchInv == \A c \in Clients : Gating(c) => \A o \in offending[c] :
              /\ o \in Offenders(c)
              /\ \/ o \in items[c] \/ flawed[c]
                 \/ AtItem(c) /\ scan[c][2] = o /\ (HasRead(c) => Convicts(c, o))

LEMMA Observed == Next => Observe
<1>1. ASSUME NEW c \in Clients, Call(c)  PROVE Observe
  BY <1>1 DEF Call, Record, Migrate, Import, Scan
<1>2. ASSUME NEW c \in Clients, Step(c)  PROVE Observe
  BY <1>2 DEF Step, Publish, Lose, SaveNext, List, Read, ReadFails, Answer, BeginGate, NextItem,
     Judge, Verdict, Abort, Return
<1>3. ASSUME NEW c \in Clients, Scribble(c) \/ Die(c)  PROVE Observe
  BY <1>3 DEF Scribble, Die
<1>4. ASSUME NEW o \in WorkItems, Revise(o)  PROVE Observe
  BY <1>4 DEF Revise, SaveObject, SaveVersion
<1> QED  BY <1>1, <1>2, <1>3, <1>4 DEF Next

(* What is read of the standing, and where.                                *)
LEMMA FoundFits ==
  ASSUME TInv, BInv, RInv, NEW c \in Clients, pc[c] = "read", scan[c][1] = "standing",
         NEW e \in todo[c]
  PROVE  /\ e \in Paths \X {"file", "temp"} /\ e[1] \in StandingPaths
         /\ Found(e) \subseteq Content(e[1]) \cup {Torn}
         /\ Found(e) \subseteq Transitions \cup {Missing, Torn}
<1>1. e \in Paths \X {"file", "temp"}
  BY DEF TInv, TypeOK
<1>2. e[1] \in StandingPaths
  BY <1>1 DEF StandingPaths, RInv, TodoInv
<1>3. Found(e) \subseteq Content(e[1]) \cup {Torn}
  BY DEF Found, Content
<1> QED  BY <1>1, <1>2, <1>3 DEF BInv, ContentFits

LEMMA AddOne ==
  ASSUME NEW o, NEW target, target[1] = "standing", target[2] = o, NEW S, OneEach(o, S),
         NEW r \in Transitions
  PROVE  /\ OneEach(o, Add(target, S, r))
         /\ StatusOf(o, Add(target, S, r)) \subseteq StatusOf(o, S) \cup StatusOf(o, {r})
<1> DEFINE rivals == {s \in S : s.dimension = r.dimension}
<1>1. CASE Add(target, S, r) = S
  BY <1>1
<1>2. CASE r.object = o /\ Add(target, S, r) = (S \ rivals) \cup {r}
  <2>1. OneEach(o, (S \ rivals) \cup {r})
    BY <1>2 DEF OneEach
  <2>2. StatusOf(o, (S \ rivals) \cup {r}) \subseteq StatusOf(o, S) \cup StatusOf(o, {r})
    BY DEF StatusOf
  <2> QED  BY <1>2, <2>1, <2>2
<1> QED  BY <1>1, <1>2 DEF Add, Keep

LEMMA GateTypedInit == Init => GateTyped
  BY DEF Init, GateTyped, Gating

LEMMA GateTypedStep ==
  ASSUME TInv, BInv, RInv, GateTyped, Next
  PROVE  GateTyped'
<1> SUFFICES ASSUME NEW c \in Clients, Gating(c)'
             PROVE  /\ AtItem(c)' => /\ scan'[c][1] = "standing" /\ scan'[c][2] \in WorkItems
                                     /\ scan'[c][3] \in Versions
                    /\ HasRead(c)' => OneEach(scan'[c][2], got'[c])
                    /\ pc'[c] = "passed" => items'[c] = {} /\ ~flawed'[c]
                    /\ pc'[c] = "refused" => flawed'[c]
  BY DEF GateTyped
<1> USE DEF AtItem, HasRead
<1>1. CASE Frame(c) /\ Gating(c)
  BY <1>1 DEF GateTyped, Frame
<1>2. CASE BeginGate(c)
  BY <1>2 DEF BeginGate, Goto, TInv, TypeOK
<1>3. CASE NextItem(c)
  <2>1. PICK o \in WorkItems : /\ head[o] \in Versions
                               /\ scan' = [scan EXCEPT ![c] = <<"standing", o, head[o]>>]
    BY <1>3 DEF NextItem, TInv, TypeOK
  <2> QED  BY <1>3, <2>1 DEF NextItem, Goto, TInv, TypeOK
<1>4. CASE List(c) /\ Gating(c)
  BY <1>4 DEF GateTyped, List, Goto, TInv, TypeOK, OneEach
<1>5. CASE Read(c) /\ Gating(c)
  <2>1. PICK e \in todo[c] : \E r \in Found(e) \ {Torn, Missing} :
                              got' = [got EXCEPT ![c] = Add(scan[c], @, r)]
    BY <1>5 DEF Read
  <2>2. PICK r \in Found(e) \ {Torn, Missing} : got' = [got EXCEPT ![c] = Add(scan[c], @, r)]
    BY <2>1
  <2>3. /\ pc[c] = "read" /\ pc'[c] = "read" /\ scan'[c] = scan[c]
        /\ got'[c] = Add(scan[c], got[c], r)
    BY <1>5, <2>2 DEF Read, TInv, TypeOK
  <2>4. /\ scan[c][1] = "standing" /\ scan[c][2] \in WorkItems
        /\ scan[c][3] \in Versions /\ OneEach(scan[c][2], got[c])
    BY <1>5, <2>3 DEF GateTyped
  <2>5. r \in Transitions
    BY <2>1, <2>2, <2>3, <2>4, FoundFits
  <2>6. OneEach(scan[c][2], Add(scan[c], got[c], r))
    BY <2>4, <2>5, AddOne
  <2> QED  BY <2>3, <2>4, <2>6
<1>6. CASE Answer(c) /\ Gating(c)
  BY <1>6 DEF GateTyped, Answer, Goto, Gating, TInv, TypeOK
<1>7. CASE Judge(c)
  BY <1>7 DEF Judge, Goto, TInv, TypeOK
<1>8. CASE Verdict(c)
  BY <1>8 DEF Verdict, Goto, TInv, TypeOK
<1> QED  BY <1>1, <1>2, <1>3, <1>4, <1>5, <1>6, <1>7, <1>8, GateSteps DEF GateAct

(* A transition that must be found is listed.                              *)
LEMMA CertainListed ==
  ASSUME NEW o, NEW s \in Certain(o)
  PROVE  \E e \in Listed("standing") : Found(e) = {s}
<1>1. s \in Transitions /\ s # Missing
  BY MissingIsNone DEF Certain, StatusOf, Records
<1>2. CASE \E p \in StandingPaths : file[p] = s
  <2>1. PICK p \in StandingPaths : file[p] = s
    BY <1>2
  <2>2. <<p, "file">> \in Listed("standing") /\ Found(<<p, "file">>) = {s}
    BY <1>1, <2>1 DEF Listed, Found, StandingPaths
  <2> QED  BY <2>2
<1>3. CASE \E p \in StandingPaths : left[p] = s /\ Savers(p) = {}
  <2>1. PICK p \in StandingPaths : left[p] = s /\ Savers(p) = {}
    BY <1>3
  <2>2. <<p, "temp">> \in Listed("standing") /\ Found(<<p, "temp">>) = {s}
    BY <1>1, <2>1 DEF Listed, Found, StandingPaths
  <2> QED  BY <2>2
<1> QED  BY <1>2, <1>3 DEF Certain, StatusOf

LEMMA CertainIs ==
  ASSUME NEW o
  PROVE  /\ Certain(o) \subseteq Transitions /\ Certain(o) \subseteq StatusOf(o, Certain(o))
         /\ Certain(o) \subseteq Possible(o) /\ Possible(o) \subseteq Transitions
         /\ \A p \in StandingPaths : StatusOf(o, Content(p)) \subseteq Possible(o)
<1>1. \A p \in StandingPaths : StatusOf(o, Content(p)) \subseteq Possible(o)
  BY DEF Possible, StatusOf
<1>2. \A p \in StandingPaths : file[p] \in Content(p) /\ left[p] \in Content(p)
  BY DEF Content
<1>3. Certain(o) \subseteq Possible(o)
  BY <1>2 DEF Certain, Possible, StatusOf
<1> QED  BY <1>1, <1>3 DEF Certain, Possible, StatusOf

(* The directory has been listed.                                          *)
LEMMA ListFollows ==
  ASSUME NEW c \in Clients, NEW o, NEW C, NEW P, C = Certain(o),
         todo'[c] = Listed("standing"), got'[c] = {}, UNCHANGED <<file, left, item>>
  PROVE  Follows(c, o, C, P)'
<1>1. \A e : Found(e)' = Found(e)
  BY DEF Found, Savers, Saving
<1>2. \A s \in C : Awaited(c, s)'
  BY <1>1, CertainListed DEF Awaited
<1>3. StatusOf(o, got'[c]) = {}
  BY DEF StatusOf
<1> QED  BY <1>2, <1>3 DEF Follows

(* A file has been read.                                                   *)
LEMMA ReadFollows ==
  ASSUME TInv, NEW c \in Clients, NEW o, NEW C, NEW P, scan[c][1] = "standing", scan[c][2] = o,
         C \subseteq Transitions, C \subseteq StatusOf(o, C), OneEach(o, got[c]),
         Follows(c, o, C, P),
         NEW e \in todo[c], NEW r \in Transitions, r \in Found(e), StatusOf(o, {r}) \subseteq P,
         todo'[c] = todo[c] \ {e}, got'[c] = Add(scan[c], got[c], r),
         UNCHANGED <<file, left, item, scan>>
  PROVE  Follows(c, o, C, P)'
<1>1. StatusOf(o, got'[c]) \subseteq P
  BY AddOne DEF Follows
<1>2. got[c] \in SUBSET Records /\ e[1] \in Paths /\ Transitions \subseteq Records
  BY DEF TInv, TypeOK, Records
<1>3. ASSUME NEW s \in C  PROVE Awaited(c, s)' \/ Answered(c, s)'
  <2> DEFINE t == <<e[1], s>>
  <2>1. s \in Transitions /\ s.object = o /\ s.dimension = "status" /\ t \in Paths \X Records
    BY <1>2 DEF StatusOf
  <2>2. Answered(c, s) <=> Has(c, t)
    BY <2>1 DEF Answered, Has
  <2>3. Has(c, t)' => Answered(c, s)'
    BY <2>1 DEF Answered, Has
  <2>4. CASE Answered(c, s)
    <3>1. Has(c, t)'
      BY <1>2, <2>1, <2>2, <2>4, AddKeeps
    <3> QED  BY <2>3, <3>1
  <2>5. CASE Found(e) = {s}
    <3>1. r = t[2]
      BY <2>5
    <3>2. Has(c, t)'
      BY <1>2, <2>1, <3>1, AddHas
    <3> QED  BY <2>3, <3>2
  <2>6. CASE \E f \in todo[c] \ {e} : Found(f) = {s}
    <3>1. \A f : Found(f)' = Found(f)
      BY DEF Found, Savers, Saving
    <3> QED  BY <2>6, <3>1 DEF Awaited
  <2> QED  BY <2>4, <2>5, <2>6 DEF Follows, Awaited
<1> QED  BY <1>1, <1>3 DEF Follows

-----------------------------------------------------------------------------
(* GateFair.                                                               *)

(* What is on the disk stays, and no standing is being saved.              *)
LEMMA Unmoved ==
  ASSUME PathsStep, disk' = disk, ~SavedIn("standing")
  PROVE  /\ head' = head
         /\ \A o : Certain(o)' \subseteq Certain(o) /\ Possible(o) \subseteq Possible(o)'
         /\ MayOffend # {} => MayOffend' # {}
         /\ \A e \in StandingPaths \X {"file", "temp"}, s \in Transitions :
              Found(e) = {s} => Found(e)' = {s}
<1>1. \A p \in StandingPaths : p \in Paths /\ Savers(p) = {}
  BY DEF StandingPaths, Savers, SavedIn
<1>2. file' = file /\ left' = left /\ head' = head /\ version' = version
  BY DEF disk, objects
<1>3. ASSUME NEW o
      PROVE  Certain(o)' \subseteq Certain(o) /\ Possible(o) \subseteq Possible(o)'
  <2>1. Certain(o)' \subseteq Certain(o)
    BY <1>1, <1>2 DEF Certain, StatusOf, StandingPaths
  <2>2. \A p \in StandingPaths : Content(p) \subseteq Content(p)'
    BY <1>1, <1>2 DEF Content
  <2>3. Possible(o) \subseteq Possible(o)'
    BY <2>2 DEF Possible, StatusOf, StandingPaths
  <2> QED  BY <2>1, <2>3
<1>4. MayOffend \subseteq MayOffend'
  BY <1>2, <1>3 DEF MayOffend, Standing, Accepted
<1>5. ASSUME NEW e \in StandingPaths \X {"file", "temp"}, NEW s \in Transitions, Found(e) = {s}
      PROVE  Found(e)' = {s}
  <2>1. CASE e[2] = "file"
    BY <1>2, <1>5, <2>1 DEF Found
  <2>2. CASE e[2] = "temp"
    <3>1. left[e[1]] = s /\ s # Missing /\ e[1] \in Paths /\ Savers(e[1]) = {}
      BY <1>1, <1>5, <2>2, MissingIsNone DEF Found, Records
    <3>2. ~Starts(e[1])
      BY <1>2, <3>1 DEF PathsStep, PathStep
    <3>3. Savers(e[1])' = {}
      BY <3>1, <3>2 DEF PathsStep, PathStep, Settled
    <3> QED  BY <1>2, <2>2, <3>1, <3>3 DEF Found
  <2> QED  BY <1>5, <2>1, <2>2
<1> QED  BY <1>2, <1>3, <1>4, <1>5

LEMMA FollowsGrows ==
  ASSUME NEW c \in Clients, NEW o, NEW C, NEW P, C \subseteq Transitions, Follows(c, o, C, P),
         todo'[c] = todo[c], got'[c] = got[c], todo[c] \subseteq StandingPaths \X {"file", "temp"},
         \A e \in todo[c], s \in C : Found(e) = {s} => Found(e)' = {s}
  PROVE  Follows(c, o, C, P)'
<1>1. \A s \in C : Awaited(c, s) => Awaited(c, s)'
  BY DEF Awaited
<1>2. \A s \in C : Answered(c, s) => Answered(c, s)'
  BY DEF Answered
<1> QED  BY <1>1, <1>2 DEF Follows

(* The files that are still to be read.                                    *)
LEMMA TodoStanding ==
  ASSUME TInv, RInv, GateTyped, NEW c \in Clients, Gating(c), HasRead(c)
  PROVE  /\ todo[c] \subseteq StandingPaths \X {"file", "temp"}
         /\ pc[c] = "judge" => todo[c] = {}
<1>1. scan[c][1] = "standing"
  BY DEF GateTyped, AtItem, HasRead
<1>2. CASE pc[c] = "read"
  <2>1. \A e \in todo[c] : e \in Paths \X {"file", "temp"} /\ e[1][1] = "standing"
    BY <1>1, <1>2 DEF TInv, TypeOK, RInv, TodoInv
  <2> QED  BY <1>2, <2>1 DEF StandingPaths
<1>3. CASE pc[c] = "judge"
  BY <1>3 DEF RInv, EndInv
<1> QED  BY <1>2, <1>3 DEF HasRead

(* When all is read, the answer is the latest of what was certain.         *)
LEMMA LatestRead ==
  ASSUME NEW c \in Clients, NEW o, NEW C, NEW P, Follows(c, o, C, P), todo[c] = {},
         OneEach(o, got[c]), NEW r \in got[c], r.dimension = "status"
  PROVE  r \in P /\ \A s \in C : s.time <= r.time
<1>1. r \in P
  BY DEF Follows, StatusOf, OneEach
<1>2. ASSUME NEW s \in C  PROVE s.time <= r.time
  <2>1. PICK t \in got[c] : t.dimension = "status" /\ t.time >= s.time
    BY DEF Follows, Awaited, Answered
  <2>2. t = r
    BY <2>1 DEF OneEach
  <2> QED  BY <2>1, <2>2
<1> QED  BY <1>1, <1>2

LEMMA JudgedFairly ==
  ASSUME TInv, RInv, GateTyped, NEW c \in Clients, Gating(c), pc[c] = "judge", Violates(c),
         scan[c][3] = head[scan[c][2]],
         Follows(c, scan[c][2], Certain(scan[c][2]), Possible(scan[c][2]))
  PROVE  MayOffend # {}
<1> PICK o \in WorkItems : o = scan[c][2]
  BY DEF GateTyped, AtItem
<1>1. ~Accepted(o, head[o])
  BY DEF Violates, Signal, Accepted
<1>2. PICK r \in got[c] : r.dimension = "status" /\ Unmet(r)
  BY DEF Violates
<1>3. todo[c] = {} /\ OneEach(o, got[c])
  BY TodoStanding DEF GateTyped, HasRead
<1>4. r \in Possible(o) /\ \A s \in Certain(o) : s.time <= r.time
  BY <1>2, <1>3, LatestRead
<1>5. o \in MayOffend
  BY <1>1, <1>2, <1>4 DEF MayOffend, Standing
<1> QED  BY <1>5

LEMMA FairInit == Init => FairInv
  BY DEF Init, FairInv, Gating

LEMMA FairStep ==
  ASSUME TInv, BInv, RInv, GateTyped, FairInv, Next
  PROVE  FairInv'
<1> SUFFICES ASSUME NEW c \in Clients, Gating(c)', ~moved'[c]
             PROVE  /\ flawed'[c] => MayOffend' # {}
                    /\ AtItem(c)' => scan'[c][3] = head'[scan'[c][2]]
                    /\ HasRead(c)' => Follows(c, scan[c][2], Certain(scan[c][2]), Possible(scan[c][2]))'
  BY DEF FairInv
<1>0. PathsStep
  BY PathsKept
<1>1. CASE BeginGate(c)
  <2>1. pc[c] = "next" /\ flawed'[c] = flawed[c] /\ pc'[c] = "gate"
    BY <1>1 DEF BeginGate, Goto, TInv, TypeOK
  <2>2. ~flawed'[c] /\ ~HasRead(c)' /\ ~AtItem(c)'
    BY <2>1 DEF BInv, CallsFit, HasRead, AtItem
  <2> QED  BY <2>2
<1>2. CASE Gating(c) /\ (Frame(c) \/ GateAct(c))
  <2>1. ~moved[c] /\ disk' = disk /\ ~SavedIn("standing")
    BY <1>2, Observed DEF Observe
  <2>2. /\ flawed[c] => MayOffend # {}
        /\ MayOffend # {} => MayOffend' # {}
    BY <1>0, <1>2, <2>1, Unmoved DEF FairInv
  <2>13. head' = head /\ (AtItem(c) => scan[c][3] = head[scan[c][2]])
    BY <1>0, <1>2, <2>1, Unmoved DEF FairInv
  <2> PICK o : o = scan[c][2]
    OBVIOUS
  <2> PICK C : C = Certain(o)
    OBVIOUS
  <2> PICK P : P = Possible(o)
    OBVIOUS
  <2>3. Certain(o)' \subseteq C /\ P \subseteq Possible(o)'
    BY <1>0, <2>1, Unmoved
  <2>4. HasRead(c) => Follows(c, o, C, P)
    BY <1>2, <2>1 DEF FairInv
  <2>5. ASSUME scan'[c] = scan[c], Follows(c, o, C, P)'
        PROVE  Follows(c, scan[c][2], Certain(scan[c][2]), Possible(scan[c][2]))'
    BY <2>3, <2>5 DEF Follows
  <2>6. ASSUME HasRead(c), todo'[c] = todo[c], got'[c] = got[c]
        PROVE  Follows(c, o, C, P)'
    <3>1. todo[c] \subseteq StandingPaths \X {"file", "temp"} /\ C \subseteq Transitions
      BY <1>2, <2>6, TodoStanding, CertainIs
    <3>2. \A e \in todo[c], s \in C : Found(e) = {s} => Found(e)' = {s}
      BY <1>0, <2>1, <3>1, Unmoved
    <3> QED  BY <2>4, <2>6, <3>1, <3>2, FollowsGrows
  <2>7. CASE Frame(c)
    <3>1. flawed'[c] = flawed[c] /\ (HasRead(c)' <=> HasRead(c)) /\ scan'[c] = scan[c]
          /\ todo'[c] = todo[c] /\ got'[c] = got[c] /\ (AtItem(c)' <=> AtItem(c))
      BY <2>7 DEF Frame, HasRead, AtItem
    <3> QED  BY <2>2, <2>13, <2>5, <2>6, <3>1
  <2>8. CASE NextItem(c)
    <3>1. PICK q \in items[c] : scan' = [scan EXCEPT ![c] = <<"standing", q, head[q]>>]
      BY <2>8 DEF NextItem
    <3>2. flawed'[c] = flawed[c] /\ ~HasRead(c)' /\ scan'[c] = <<"standing", q, head[q]>>
      BY <2>8, <3>1 DEF NextItem, Goto, HasRead, TInv, TypeOK
    <3> QED  BY <2>2, <2>13, <3>2
  <2>14. CASE Verdict(c)
    <3>1. flawed'[c] = flawed[c] /\ ~HasRead(c)' /\ ~AtItem(c)'
      BY <2>14 DEF Verdict, Goto, HasRead, AtItem, TInv, TypeOK
    <3> QED  BY <2>2, <3>1
  <2>9. CASE List(c)
    <3>1. /\ flawed'[c] = flawed[c] /\ scan'[c] = scan[c] /\ UNCHANGED <<file, left, item>>
          /\ todo'[c] = Listed(scan[c][1]) /\ got'[c] = {}
      BY <2>9 DEF List, disk, TInv, TypeOK
    <3>2. scan[c][1] = "standing"
      BY <1>2, <2>9 DEF List, GateTyped, AtItem
    <3>3. Follows(c, o, C, P)'
      BY <3>1, <3>2, ListFollows
    <3> QED  BY <2>2, <2>13, <2>9, <2>5, <3>1, <3>3 DEF List, AtItem
  <2>10. CASE Read(c)
    <3>1. PICK e \in todo[c] :
            /\ todo' = [todo EXCEPT ![c] = @ \ {e}]
            /\ \E r \in Found(e) \ {Torn, Missing} : got' = [got EXCEPT ![c] = Add(scan[c], @, r)]
      BY <2>10 DEF Read
    <3>2. PICK r \in Found(e) \ {Torn, Missing} : got' = [got EXCEPT ![c] = Add(scan[c], @, r)]
      BY <3>1
    <3>3. /\ flawed'[c] = flawed[c] /\ UNCHANGED <<file, left, item, scan>> /\ pc[c] = "read"
          /\ todo'[c] = todo[c] \ {e} /\ got'[c] = Add(scan[c], got[c], r)
      BY <2>10, <3>1, <3>2 DEF Read, disk, TInv, TypeOK
    <3>4. HasRead(c) /\ scan[c][1] = "standing" /\ OneEach(o, got[c])
      BY <1>2, <3>3 DEF GateTyped, AtItem, HasRead
    <3>5. /\ e[1] \in StandingPaths /\ Found(e) \subseteq Content(e[1]) \cup {Torn}
          /\ Found(e) \subseteq Transitions \cup {Missing, Torn}
      BY <3>1, <3>3, <3>4, FoundFits
    <3>6. r \in Transitions /\ r \in Content(e[1])
      BY <3>2, <3>5
    <3>7. StatusOf(o, {r}) \subseteq P
      BY <3>5, <3>6, CertainIs DEF StatusOf
    <3>8. C \subseteq Transitions /\ C \subseteq StatusOf(o, C)
      BY CertainIs
    <3>9. Follows(c, o, C, P)'
      BY <2>4, <3>1, <3>2, <3>3, <3>4, <3>6, <3>7, <3>8, ReadFollows
    <3> QED  BY <2>2, <2>13, <2>5, <3>3, <3>9 DEF AtItem
  <2>11. CASE Answer(c)
    <3>1. /\ flawed'[c] = flawed[c] /\ scan'[c] = scan[c] /\ HasRead(c)
          /\ todo'[c] = todo[c] /\ got'[c] = got[c]
      BY <2>11 DEF Answer, HasRead
    <3> QED  BY <2>2, <2>13, <2>5, <2>6, <3>1 DEF AtItem, HasRead
  <2>12. CASE Judge(c)
    <3>1. pc[c] = "judge" /\ flawed'[c] = (flawed[c] \/ Violates(c)) /\ pc'[c] = "gate"
      BY <2>12 DEF Judge, Goto, TInv, TypeOK
    <3>2. Violates(c) => MayOffend # {}
      BY <1>2, <2>13, <2>4, <3>1, JudgedFairly DEF HasRead, AtItem
    <3> QED  BY <2>2, <3>1, <3>2 DEF HasRead, AtItem
  <2> QED  BY <1>2, <2>7, <2>8, <2>14, <2>9, <2>10, <2>11, <2>12 DEF GateAct
<1> QED  BY <1>1, <1>2, GateSteps

-----------------------------------------------------------------------------
(* GateCatches.                                                            *)

(* Unless an id is used again, what waits to be read stays, and no more    *)
(* can be read where something is.                                         *)
LEMMA NotReused ==
  ASSUME TInv, PathsStep, ~Reused, NEW e \in StandingPaths \X {"file", "temp"}
  PROVE  /\ \A s \in Transitions : Found(e) = {s} => Found(e)' = {s}
         /\ Used(e[1]) => /\ Used(e[1])'
                          /\ \A o : StatusOf(o, Content(e[1])') \subseteq StatusOf(o, Content(e[1]))
<1> PICK p \in Paths : p = e[1] /\ p[1] = "standing"
  BY DEF StandingPaths
<1>1. Used(p) => ~Starts(p)
  BY DEF Reused, Starts
<1>2. /\ file[p] # Missing => file'[p] = file[p]
      /\ left[p] # Missing => left'[p] = left[p]
  BY DEF Reused
<1>3. Used(p) => Settled(p)
  BY <1>1 DEF PathsStep, PathStep
<1>4. ASSUME NEW s \in Transitions, Found(e) = {s}  PROVE Found(e)' = {s}
  <2>1. s # Missing /\ s # Torn
    BY MissingIsNone DEF Records
  <2>2. CASE e[2] = "file"
    BY <1>2, <1>4, <2>1, <2>2 DEF Found
  <2>3. CASE e[2] = "temp"
    <3>1. left[p] = s /\ Savers(p) = {}
      BY <1>4, <2>1, <2>3 DEF Found
    <3>2. Savers(p)' = {} /\ left'[p] = s
      BY <1>2, <1>3, <2>1, <3>1 DEF Used, Settled
    <3> QED  BY <2>3, <3>2 DEF Found
  <2> QED  BY <2>2, <2>3
<1>5. ASSUME Used(p), NEW o
      PROVE  StatusOf(o, Content(p)') \subseteq StatusOf(o, Content(p))
  <2>1. Content(p)' \subseteq Content(p) \cup {Missing, Torn}
    BY <1>3, <1>5 DEF Settled
  <2>2. Missing \notin Transitions /\ Torn \notin Transitions
    BY MissingIsNone DEF Records
  <2> QED  BY <2>1, <2>2 DEF StatusOf
<1> QED  BY <1>3, <1>4, <1>5 DEF Settled

LEMMA NamedInit == Init => NamedInv
  BY DEF Init, NamedInv, Gating

LEMMA NamedStep ==
  ASSUME TInv, NamedInv, Next
  PROVE  NamedInv'
<1> SUFFICES ASSUME NEW c \in Clients, Gating(c)', AtItem(c)'
             PROVE  <<scan'[c][2], scan'[c][3]>> \in latest'[c]
  BY DEF NamedInv
<1> USE DEF TInv, TypeOK, Goto, AtItem
<1>1. latest'[c] = latest[c] \cup {<<o, head'[o]>> : o \in WorkItems}
  BY Observed DEF Observe
<1>2. CASE Gating(c) /\ AtItem(c) /\ scan'[c] = scan[c]
  BY <1>1, <1>2 DEF NamedInv
<1>3. CASE NextItem(c)
  <2>1. PICK o \in WorkItems : scan' = [scan EXCEPT ![c] = <<"standing", o, head[o]>>]
    BY <1>3 DEF NextItem
  <2>2. scan'[c][2] = o /\ scan'[c][3] = head'[o]
    BY <1>3, <2>1 DEF NextItem, disk, objects
  <2> QED  BY <1>1, <2>2
<1>4. CASE Frame(c) /\ Gating(c)
  BY <1>2, <1>4 DEF Frame
<1>5. CASE (List(c) \/ Read(c) \/ Answer(c)) /\ Gating(c)
  BY <1>2, <1>5 DEF List, Read, Answer
<1>6. CASE BeginGate(c) \/ Judge(c) \/ Verdict(c)
  BY <1>6 DEF BeginGate, Judge, Verdict
<1> QED  BY <1>3, <1>4, <1>5, <1>6, GateSteps DEF GateAct

LEMMA CatchInit == Init => CatchInv
  BY DEF Init, CatchInv, Gating

LEMMA ConvictsKept ==
  ASSUME TInv, RInv, GateTyped, PathsStep, ~Reused, NEW c \in Clients, NEW o, Gating(c), HasRead(c),
         Convicts(c, o), todo'[c] = todo[c], got'[c] = got[c]
  PROVE  Convicts(c, o)'
<1>1. PICK C, P \in SUBSET Transitions :
        /\ C # {} /\ C \subseteq StatusOf(o, C)
        /\ \A r \in P : (\A s \in C : s.time <= r.time) => Unmet(r)
        /\ Follows(c, o, C, P)
        /\ \A e \in todo[c] : Used(e[1]) /\ StatusOf(o, Content(e[1])) \subseteq P
  BY DEF Convicts
<1>2. todo[c] \subseteq StandingPaths \X {"file", "temp"}
  BY TodoStanding
<1>3. \A e \in todo[c], s \in C : Found(e) = {s} => Found(e)' = {s}
  BY <1>2, NotReused
<1>4. Follows(c, o, C, P)'
  BY <1>1, <1>2, <1>3, FollowsGrows
<1>5. \A e \in todo'[c] : Used(e[1])' /\ StatusOf(o, Content(e[1])') \subseteq P
  BY <1>1, <1>2, NotReused
<1> QED  BY <1>1, <1>4, <1>5 DEF Convicts

LEMMA ConvictsListed ==
  ASSUME TInv, NEW c \in Clients, NEW o, o \in Offenders(c), List(c), scan[c][1] = "standing"
  PROVE  Convicts(c, o)'
<1> PICK C : C = Certain(o)
  OBVIOUS
<1> PICK P : P = Possible(o)
  OBVIOUS
<1>1. C \in SUBSET Transitions /\ P \in SUBSET Transitions /\ C \subseteq StatusOf(o, C)
  BY CertainIs
<1>2. C # {} /\ \A r \in P : (\A s \in C : s.time <= r.time) => Unmet(r)
  BY DEF Offenders, Standing
<1>3. /\ todo'[c] = Listed("standing") /\ got'[c] = {} /\ UNCHANGED <<file, left, item, met>>
  BY DEF List, disk, TInv, TypeOK
<1>4. Follows(c, o, C, P)'
  BY <1>3, ListFollows
<1>5. ASSUME NEW e \in Listed("standing")
      PROVE  Used(e[1])' /\ StatusOf(o, Content(e[1])') \subseteq P
  <2>1. Used(e[1]) /\ e[1] \in StandingPaths
    BY DEF Listed, Used, StandingPaths
  <2>2. Content(e[1])' = Content(e[1]) /\ Used(e[1])'
    BY <1>3, <2>1, ContentSame
  <2> QED  BY <2>1, <2>2, CertainIs
<1> QED  BY <1>1, <1>2, <1>3, <1>4, <1>5 DEF Convicts

LEMMA ConvictsRead ==
  ASSUME TInv, BInv, RInv, GateTyped, NEW c \in Clients, Gating(c), NEW o, scan[c][2] = o,
         Convicts(c, o), Read(c)
  PROVE  Convicts(c, o)'
<1>1. PICK C, P \in SUBSET Transitions :
        /\ C # {} /\ C \subseteq StatusOf(o, C)
        /\ \A r \in P : (\A s \in C : s.time <= r.time) => Unmet(r)
        /\ Follows(c, o, C, P)
        /\ \A e \in todo[c] : Used(e[1]) /\ StatusOf(o, Content(e[1])) \subseteq P
  BY DEF Convicts
<1>2. PICK e \in todo[c] :
        /\ todo' = [todo EXCEPT ![c] = @ \ {e}]
        /\ \E r \in Found(e) \ {Torn, Missing} : got' = [got EXCEPT ![c] = Add(scan[c], @, r)]
  BY DEF Read
<1>3. PICK r \in Found(e) \ {Torn, Missing} : got' = [got EXCEPT ![c] = Add(scan[c], @, r)]
  BY <1>2
<1>4. /\ UNCHANGED <<file, left, item, met, scan>> /\ pc[c] = "read"
      /\ todo'[c] = todo[c] \ {e} /\ got'[c] = Add(scan[c], got[c], r)
  BY <1>2, <1>3 DEF Read, disk, TInv, TypeOK
<1>5. scan[c][1] = "standing" /\ OneEach(o, got[c])
  BY <1>4 DEF GateTyped, AtItem, HasRead
<1>6. /\ Found(e) \subseteq Content(e[1]) \cup {Torn}
      /\ Found(e) \subseteq Transitions \cup {Missing, Torn}
  BY <1>2, <1>4, <1>5, FoundFits
<1>7. r \in Transitions /\ r \in Content(e[1])
  BY <1>3, <1>6
<1>8. StatusOf(o, {r}) \subseteq P
  BY <1>1, <1>2, <1>7 DEF StatusOf
<1>9. Follows(c, o, C, P)'
  BY <1>1, <1>2, <1>3, <1>4, <1>5, <1>7, <1>8, ReadFollows
<1>10. \A f \in todo'[c] : Used(f[1])' /\ StatusOf(o, Content(f[1])') \subseteq P
  BY <1>1, <1>4, ContentSame
<1> QED  BY <1>1, <1>9, <1>10 DEF Convicts

LEMMA Judged ==
  ASSUME TInv, RInv, GateTyped, NEW c \in Clients, Gating(c), pc[c] = "judge", NEW o, scan[c][2] = o,
         Convicts(c, o), o \in Offenders(c), <<o, scan[c][3]>> \in latest[c]
  PROVE  Violates(c)
<1>1. PICK C, P \in SUBSET Transitions :
        /\ C # {} /\ C \subseteq StatusOf(o, C)
        /\ \A r \in P : (\A s \in C : s.time <= r.time) => Unmet(r)
        /\ Follows(c, o, C, P)
        /\ \A e \in todo[c] : Used(e[1]) /\ StatusOf(o, Content(e[1])) \subseteq P
  BY DEF Convicts
<1>2. todo[c] = {} /\ OneEach(o, got[c])
  BY TodoStanding DEF GateTyped, HasRead
<1>3. PICK r \in got[c] : r.dimension = "status"
  BY <1>1, <1>2 DEF Follows, Awaited, Answered
<1>4. r \in P /\ \A s \in C : s.time <= r.time
  BY <1>1, <1>2, <1>3, LatestRead
<1>5. Unmet(r) /\ ~Accepted(o, scan[c][3]) /\ scan[c][3] \in Versions
  BY <1>1, <1>4 DEF Offenders, GateTyped, AtItem
<1> QED  BY <1>3, <1>5 DEF Violates, Signal, Accepted

LEMMA CatchStep ==
  ASSUME TInv, BInv, RInv, GateTyped, NamedInv, CatchInv, Next
  PROVE  CatchInv'
<1> SUFFICES ASSUME NEW c \in Clients, Gating(c)', NEW o \in offending'[c]
             PROVE  /\ o \in Offenders(c)'
                    /\ \/ o \in items'[c] \/ flawed'[c]
                       \/ AtItem(c)' /\ scan'[c][2] = o /\ (HasRead(c)' => Convicts(c, o)')
  BY DEF CatchInv
<1>0. PathsStep /\ Observe
  BY PathsKept, Observed
<1>1. CASE BeginGate(c) /\ ~Gating(c)
  <2>1. o \in Offenders(c)'
    BY <1>0, <1>1 DEF Observe
  <2>2. items'[c] = WorkItems
    BY <1>1 DEF BeginGate, TInv, TypeOK
  <2> QED  BY <2>1, <2>2 DEF Offenders
<1>2. CASE Gating(c) /\ (Frame(c) \/ GateAct(c))
  <2>1. ~Reused /\ o \in offending[c] /\ o \in Offenders(c)'
    BY <1>0, <1>2 DEF Observe
  <2>2. /\ o \in Offenders(c)
        /\ \/ o \in items[c] \/ flawed[c]
           \/ AtItem(c) /\ scan[c][2] = o /\ (HasRead(c) => Convicts(c, o))
    BY <1>2, <2>1 DEF CatchInv
  <2>3. CASE Frame(c)
    <3>1. /\ flawed'[c] = flawed[c] /\ items'[c] = items[c] /\ scan'[c] = scan[c]
          /\ (HasRead(c)' <=> HasRead(c)) /\ (AtItem(c)' <=> AtItem(c))
          /\ todo'[c] = todo[c] /\ got'[c] = got[c]
      BY <2>3 DEF Frame, HasRead, AtItem
    <3>2. HasRead(c) /\ Convicts(c, o) => Convicts(c, o)'
      BY <1>0, <1>2, <2>1, <3>1, ConvictsKept
    <3> QED  BY <2>1, <2>2, <3>1, <3>2
  <2>4. CASE NextItem(c)
    <3>1. PICK q \in items[c] : /\ items' = [items EXCEPT ![c] = @ \ {q}]
                                /\ scan' = [scan EXCEPT ![c] = <<"standing", q, head[q]>>]
      BY <2>4 DEF NextItem
    <3>2. /\ items'[c] = items[c] \ {q} /\ scan'[c][2] = q /\ flawed'[c] = flawed[c]
          /\ pc[c] = "gate" /\ pc'[c] = "list"
      BY <2>4, <3>1 DEF NextItem, Goto, TInv, TypeOK
    <3> QED  BY <2>1, <2>2, <3>2 DEF AtItem, HasRead
  <2>5. CASE List(c)
    <3>1. /\ items'[c] = items[c] /\ scan'[c] = scan[c] /\ flawed'[c] = flawed[c]
          /\ pc[c] = "list" /\ pc'[c] = "read"
      BY <2>5 DEF List, Goto, TInv, TypeOK
    <3>2. scan[c][1] = "standing"
      BY <1>2, <3>1 DEF GateTyped, AtItem
    <3>3. Convicts(c, o)'
      BY <2>2, <2>5, <3>2, ConvictsListed
    <3> QED  BY <2>1, <2>2, <3>1, <3>3 DEF AtItem
  <2>6. CASE Read(c)
    <3>1. /\ items'[c] = items[c] /\ scan'[c] = scan[c] /\ flawed'[c] = flawed[c]
          /\ pc[c] = "read" /\ pc'[c] = "read"
      BY <2>6 DEF Read
    <3>2. scan[c][2] = o /\ Convicts(c, o) => Convicts(c, o)'
      BY <1>2, <2>6, ConvictsRead
    <3> QED  BY <2>1, <2>2, <3>1, <3>2 DEF AtItem, HasRead
  <2>7. CASE Answer(c)
    <3>1. /\ items'[c] = items[c] /\ scan'[c] = scan[c] /\ flawed'[c] = flawed[c]
          /\ pc[c] = "read" /\ pc'[c] = "judge" /\ todo'[c] = todo[c] /\ got'[c] = got[c]
      BY <1>2, <2>7 DEF Answer, Goto, Gating, TInv, TypeOK
    <3>2. Convicts(c, o) => Convicts(c, o)'
      BY <1>0, <1>2, <2>1, <3>1, ConvictsKept DEF HasRead
    <3> QED  BY <2>1, <2>2, <3>1, <3>2 DEF AtItem, HasRead
  <2>8. CASE Judge(c)
    <3>1. /\ items'[c] = items[c] /\ pc[c] = "judge" /\ flawed'[c] = (flawed[c] \/ Violates(c))
      BY <2>8 DEF Judge, TInv, TypeOK
    <3>2. scan[c][2] = o /\ Convicts(c, o) => Violates(c)
      BY <1>2, <2>2, <3>1, Judged DEF NamedInv, AtItem
    <3> QED  BY <2>1, <2>2, <3>1, <3>2 DEF AtItem, HasRead
  <2>9. CASE Verdict(c)
    <3>1. pc[c] = "gate" /\ items[c] = {} /\ flawed'[c] = flawed[c]
      BY <2>9 DEF Verdict
    <3> QED  BY <2>1, <2>2, <3>1 DEF AtItem
  <2> QED  BY <1>2, <2>3, <2>4, <2>5, <2>6, <2>7, <2>8, <2>9 DEF GateAct
<1> QED  BY <1>1, <1>2, GateSteps

-----------------------------------------------------------------------------

GInv == GateTyped /\ FairInv /\ NamedInv /\ CatchInv

LEMMA GateIdle ==
  ASSUME GInv, UNCHANGED vars
  PROVE  GInv'
<1> USE DEF vars, disk, objects, progress, observers
<1>1. \A c : /\ (Gating(c)' <=> Gating(c)) /\ (AtItem(c)' <=> AtItem(c))
             /\ (HasRead(c)' <=> HasRead(c))
  BY DEF Gating, AtItem, HasRead
<1>2. /\ \A p : Savers(p)' = Savers(p) /\ Content(p)' = Content(p) /\ (Used(p)' <=> Used(p))
      /\ \A e : Found(e)' = Found(e)
  BY ContentSame DEF Found, Savers, Saving
<1>3. \A o : Certain(o)' = Certain(o) /\ Possible(o)' = Possible(o)
  BY <1>2 DEF Certain, Possible
<1>4. MayOffend' = MayOffend /\ \A c : Offenders(c)' = Offenders(c)
  BY <1>3 DEF MayOffend, Offenders, Standing, Accepted
<1>5. \A c, o, C, P : Follows(c, o, C, P)' <=> Follows(c, o, C, P)
  BY <1>2 DEF Follows, Awaited, Answered
<1>6. \A c, o : Convicts(c, o)' <=> Convicts(c, o)
  BY <1>2, <1>5 DEF Convicts
<1>7. GateTyped'
  BY <1>1 DEF GInv, GateTyped
<1>8. FairInv'
  <2> SUFFICES ASSUME NEW c \in Clients, Gating(c)', ~moved'[c]
               PROVE  /\ flawed'[c] => MayOffend' # {}
                      /\ AtItem(c)' => scan'[c][3] = head'[scan'[c][2]]
                      /\ HasRead(c)' => Follows(c, scan[c][2], Certain(scan[c][2]), Possible(scan[c][2]))'
    BY DEF FairInv
  <2> PICK o : o = scan[c][2]
    OBVIOUS
  <2> PICK C : C = Certain(o)
    OBVIOUS
  <2> PICK P : P = Possible(o)
    OBVIOUS
  <2>1. /\ flawed[c] => MayOffend # {}
        /\ AtItem(c) => scan[c][3] = head[scan[c][2]]
        /\ HasRead(c) => Follows(c, o, C, P)
    BY <1>1 DEF GInv, FairInv
  <2>2. HasRead(c)' => Follows(c, o, C, P)'
    BY <1>1, <1>5, <2>1
  <2>3. Certain(o)' = C /\ Possible(o)' = P /\ scan'[c] = scan[c]
    BY <1>3
  <2> QED  BY <1>1, <1>4, <2>1, <2>2, <2>3 DEF Follows
<1>9. CatchInv'
  BY <1>1, <1>4, <1>6 DEF GInv, CatchInv
<1>10. NamedInv'
  BY <1>1 DEF GInv, NamedInv
<1> QED  BY <1>7, <1>8, <1>9, <1>10 DEF GInv

THEOREM GateInvariance == Spec => [](BInv /\ GInv)
<1>1. Init => BInv /\ GInv
  BY BInit, GateTypedInit, FairInit, NamedInit, CatchInit DEF GInv
<1>2. TInv /\ RInv /\ BInv /\ GInv /\ [Next]_vars => (BInv /\ GInv)'
  BY BStep, GateTypedStep, FairStep, NamedStep, CatchStep, GateIdle DEF GInv
<1> QED  BY <1>1, <1>2, Invariance, PTL DEF Spec

(* verify_maturity_gate lets no import pass over a work item that was      *)
(* completed without an override all the time it ran, if none of the       *)
(* versions that were its latest meanwhile was accepted from then on,      *)
(* whatever order the transitions are read in, whatever is saved and       *)
(* whichever version is deposited or updated, unless an id of a transition *)
(* is used again meanwhile.                                                *)
THEOREM Catches == Spec => []GateCatches
<1>1. BInv /\ GInv => GateCatches
  <2> SUFFICES ASSUME BInv, GInv, NEW c \in Clients, pc[c] = "passed"
               PROVE  offending[c] = {}
    BY DEF GateCatches
  <2>1. Gating(c)
    BY DEF BInv, CallsFit, Gating
  <2>2. items[c] = {} /\ ~flawed[c]
    BY <2>1 DEF GInv, GateTyped
  <2> QED  BY <2>1, <2>2 DEF GInv, CatchInv, AtItem
<1> QED  BY <1>1, GateInvariance, PTL

(* verify_maturity_gate refuses no import unless some work item may be read*)
(* as completed, its latest version unaccepted and without an override, or *)
(* the standings, the latest versions or the signals changed while it ran. *)
THEOREM Fair == Spec => []GateFair
<1>1. BInv /\ GInv => GateFair
  <2> SUFFICES ASSUME BInv, GInv, NEW c \in Clients, pc[c] = "refused", ~moved[c]
               PROVE  MayOffend # {}
    BY DEF GateFair
  <2>1. Gating(c)
    BY DEF BInv, CallsFit, Gating
  <2>2. flawed[c]
    BY <2>1 DEF GInv, GateTyped
  <2> QED  BY <2>1, <2>2 DEF GInv, FairInv
<1> QED  BY <1>1, GateInvariance, PTL
=============================================================================
