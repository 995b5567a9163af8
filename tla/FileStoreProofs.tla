--------------------------- MODULE FileStoreProofs ---------------------------
(***************************************************************************)
(* Proofs about FileStore for any clients, ids and records, any number of  *)
(* calls and failures, and whatever other saves overlap.                   *)
(***************************************************************************)
EXTENDS FileStore, TLAPS

(***************************************************************************)
(* Types.                                                                  *)
(***************************************************************************)
LEMMA CallKinds ==
  ASSUME NEW x \in Calls
  PROVE  /\ x.kind # "import" => x.path \in Paths /\ x.body \in Bodies
         /\ x # NoCall
         /\ x.kind = "deposit" => x \in DepositCalls
         /\ x.kind = "relate" => x \in RelateCalls
         /\ x.kind = "revise" => x \in ReviseCalls
         /\ x.kind = "record" => x \in RecordCalls
         /\ x.kind = "import" => x \in ImportCalls
         /\ x.kind \in {"deposit", "relate", "revise", "record", "import"}
  BY DEF Calls, DepositCalls, RelateCalls, ReviseCalls, RecordCalls, ImportCalls, NoCall, Paths, Bodies

(* What an active call saves, and where.                                   *)
LEMMA SavingType ==
  ASSUME TypeOK, NEW c \in Clients, pc[c] \in Saving
  PROVE  /\ call[c] \in Calls
         /\ Target(c) \in Paths
         /\ Content(c) \in ObjectRecords \cup Bodies
         /\ Content(c) \in Contents \ {Missing}
         /\ Content(c) # Torn
<1>1. call[c] \in Calls
  BY DEF TypeOK, Saving
<1>2. Target(c) \in Paths /\ Content(c) \in ObjectRecords \cup Bodies
  <2>1. CASE pc[c] = "saveObject"
    BY <2>1, <1>1 DEF TypeOK, Target, Content, DepositCalls, ObjectRecords, Paths
  <2>2. CASE pc[c] = "save"
    BY <2>2, <1>1, CallKinds DEF TypeOK, Target, Content
  <2>3. CASE pc[c] = "importSave"
    <3>1. call[c] \in ImportCalls /\ call[c].path \in Paths /\ call[c].body # Nothing
      BY <2>3 DEF TypeOK, Importing
    <3>2. QED
      BY <2>3, <3>1 DEF Target, Content, ImportCalls
  <2>4. QED
    BY <2>1, <2>2, <2>3 DEF Saving
<1>3. QED
  BY <1>1, <1>2, SentinelAssumption DEF Contents

LEMMA LandedType ==
  ASSUME TypeOK, NEW c \in Clients, pc[c] \in Saving
  PROVE  Landed(c) \subseteq Contents \ {Missing}
<1>1. Content(c) \in Contents \ {Missing}
  BY SavingType
<1>2. \A d \in Rivals(c) : Content(d) \in Contents \ {Missing}
  BY SavingType DEF Rivals
<1>3. met[c] \subseteq Contents \ {Missing}
  BY DEF TypeOK
<1>4. Torn \in Contents \ {Missing}
  BY SentinelAssumption DEF Contents
<1>5. QED
  BY <1>1, <1>2, <1>3, <1>4 DEF Landed, Published

LEMMA MeetType ==
  ASSUME TypeOK, NEW c \in Clients, NEW left, Meet(c, left),
         left \subseteq Contents \ {Missing} \/ Rivals(c) = {}
  PROVE  met' \in [Clients -> SUBSET (Contents \ {Missing})]
  BY DEF Meet, TypeOK

Places == {"idle", "mkdir", "check"} \cup Before \cup Auditing \cup Importing \cup Saving

(* What a call is, at each place of its code.                              *)
CallAt(x, place) ==
  /\ place \in Before \cup {"mkdir", "saveObject"} => x \in DepositCalls
  /\ place = "check" => x \in ReviseCalls
  /\ place \in Importing => x \in ImportCalls
  /\ place = "importSave" => x.path \in imported /\ x.body # Nothing
  /\ place = "save" => x.kind # "import"

(* TypeOK in two parts: the calls, and everything they work on.            *)
CallsTyped ==
  /\ pc \in [Clients -> Places]
  /\ call \in [Clients -> Calls \cup {NoCall}]
  /\ \A c \in Clients :
       /\ (pc[c] = "idle") <=> (call[c] = NoCall)
       /\ CallAt(call[c], pc[c])

RestTyped ==
  /\ file \in [Paths -> Contents]
  /\ dirs \subseteq Objects
  /\ todo \in [Clients -> SUBSET (Paths \cup Entries)]
  /\ bad \in [Clients -> BOOLEAN]
  /\ met \in [Clients -> SUBSET (Contents \ {Missing})]
  /\ calls \in 0..MaxCalls
  /\ failures \in 0..MaxFailures
  /\ minted \subseteq Objects \cup Versions \cup Relations
  /\ prior \in [Clients -> SUBSET (Objects \X Versions)]
  /\ acked \subseteq Objects \X Versions
  /\ overtaken \subseteq Objects \X Versions
  /\ createdAs \in [Objects -> SUBSET Classes]
  /\ misread \subseteq Objects
  /\ imported \subseteq suspect /\ suspect \subseteq Paths

LEMMA TypeParts == ASSUME TypeOK PROVE CallsTyped /\ RestTyped
  BY DEF TypeOK, CallsTyped, CallAt, Places, RestTyped

LEMMA TypeJoin == ASSUME CallsTyped', RestTyped' PROVE TypeOK'
  BY DEF TypeOK, CallsTyped, CallAt, Places, RestTyped

LEMMA LeaveType ==
  ASSUME TypeOK, NEW c \in Clients, Leave(c), imported' = imported
  PROVE  /\ CallsTyped'
         /\ todo' \in [Clients -> SUBSET (Paths \cup Entries)]
         /\ bad' \in [Clients -> BOOLEAN]
         /\ prior' \in [Clients -> SUBSET (Objects \X Versions)]
<1>1. \A d \in Clients : d # c => pc'[d] = pc[d] /\ call'[d] = call[d]
  BY DEF Leave, Goto, TypeOK
<1>2. pc'[c] = "idle" /\ call'[c] = NoCall
  BY DEF Leave, Goto, TypeOK
<1>3. QED
  BY <1>1, <1>2 DEF Leave, Goto, TypeOK, CallsTyped, CallAt, Places, Before, Importing, Saving

(* A call moves to another place in its code.                              *)
LEMMA MoveType ==
  ASSUME TypeOK, NEW c \in Clients,
         pc' = [pc EXCEPT ![c] = pc'[c]],
         pc'[c] \in Places \ {"idle"},
         \A d \in Clients \ {c} : call'[d] = call[d],
         call' \in [Clients -> Calls \cup {NoCall}],
         call'[c] \in Calls,
         CallAt(call[c], pc[c])',
         imported \subseteq imported'
  PROVE  CallsTyped'
<1>1. call'[c] # NoCall
  BY CallKinds
<1>2. \A d \in Clients : d # c => pc'[d] = pc[d] /\ call'[d] = call[d]
  BY DEF TypeOK
<1>3. pc' \in [Clients -> Places]
  BY DEF TypeOK, Places
<1>4. \A d \in Clients : d # c => CallAt(call[d], pc[d])'
  BY <1>2 DEF TypeOK, CallAt
<1>5. QED
  BY <1>1, <1>2, <1>3, <1>4 DEF TypeOK, CallsTyped

(* ... with the same call.                                                 *)
LEMMA StayType ==
  ASSUME TypeOK, NEW c \in Clients, call' = call, call[c] \in Calls,
         pc' = [pc EXCEPT ![c] = pc'[c]],
         pc'[c] \in Places \ {"idle"},
         pc'[c] \in Before \cup {"mkdir", "saveObject"} => call[c] \in DepositCalls,
         pc'[c] = "check" => call[c] \in ReviseCalls,
         pc'[c] \in Importing => pc'[c] = "import" /\ call[c] \in ImportCalls,
         pc'[c] = "save" => call[c].kind # "import",
         imported' = imported
  PROVE  CallsTyped'
<1>1. \A d \in Clients : d # c => pc'[d] = pc[d]
  BY DEF TypeOK
<1>2. pc' \in [Clients -> Places]
  BY DEF TypeOK, Places
<1>3. call[c] # NoCall
  BY CallKinds
<1>4. QED
  BY <1>1, <1>2, <1>3 DEF TypeOK, CallsTyped, CallAt, Importing

LEMMA BeginAuditType ==
  ASSUME TypeOK, NEW c \in Clients, BeginAudit(c)
  PROVE  todo' \in [Clients -> SUBSET (Paths \cup Entries)] /\ bad' \in [Clients -> BOOLEAN]
  BY DEF BeginAudit, TypeOK, Paths

LEMMA TypeInit == Init => TypeOK
  BY BoundAssumption DEF Init, TypeOK, Contents, Before, Importing, Saving

(* What every call begins with.                                            *)
LEMMA BeginType ==
  ASSUME TypeOK, NEW c \in Clients,
         NEW kind, NEW object, NEW class, NEW path, NEW body,
         Begin(c, kind, object, class, path, body),
         [kind |-> kind, object |-> object, class |-> class, path |-> path, body |-> body] \in Calls,
         pc' = [pc EXCEPT ![c] = pc'[c]],
         \/ pc'[c] = "auditObjects"
         \/ pc'[c] = "lookup" /\ kind = "deposit"
         \/ pc'[c] = "import" /\ kind = "import"
  PROVE  /\ CallsTyped'
         /\ UNCHANGED <<file, dirs, met, failures, acked, overtaken, misread, imported, suspect>>
         /\ calls' \in 0..MaxCalls
         /\ prior' \in [Clients -> SUBSET (Objects \X Versions)]
<1> DEFINE x == [kind |-> kind, object |-> object, class |-> class, path |-> path, body |-> body]
<1>1. call' = [call EXCEPT ![c] = x]
  BY DEF Begin
<1>2. call'[c] = x /\ x.kind = kind
  BY <1>1 DEF TypeOK
<1>3. CallAt(call[c], pc[c])' /\ pc'[c] \in Places \ {"idle"}
  BY <1>2, CallKinds DEF CallAt, Places, Before, Importing, Auditing
<1>4. CallsTyped'
  <2>1. \A d \in Clients \ {c} : call'[d] = call[d]
    BY <1>1 DEF TypeOK
  <2>2. call' \in [Clients -> Calls \cup {NoCall}] /\ call'[c] \in Calls
    BY <1>1, <1>2 DEF TypeOK
  <2>3. QED
    BY <1>3, <2>1, <2>2, MoveType DEF Begin
<1>5. QED
  BY <1>4, BoundAssumption DEF Begin, TypeOK, disk

LEMMA CallTypeStep ==
  ASSUME TypeOK, NEW c \in Clients, Call(c)
  PROVE  TypeOK'
<1>1. ASSUME NEW o \in Objects, NEW k \in Classes, NEW v \in Versions, NEW b \in Payloads,
             DepositTo(c, o, k, v, b) \/ DepositNew(c, o, k, v, b)
      PROVE  TypeOK'
  <2>1. [kind |-> "deposit", object |-> o, class |-> k, path |-> v, body |-> b] \in Calls
    BY DEF DepositCalls, Calls
  <2>2. Begin(c, "deposit", o, k, v, b)
    BY <1>1 DEF DepositTo, DepositNew
  <2>3. /\ minted' \subseteq Objects \cup Versions \cup Relations
        /\ createdAs' \in [Objects -> SUBSET Classes]
    BY <1>1 DEF DepositTo, DepositNew, TypeOK
  <2>4. todo' \in [Clients -> SUBSET (Paths \cup Entries)] /\ bad' \in [Clients -> BOOLEAN]
    BY <1>1, BeginAuditType DEF DepositTo, DepositNew, TypeOK
  <2>5. pc' = [pc EXCEPT ![c] = pc'[c]] /\ pc'[c] \in {"lookup", "auditObjects"}
    BY <1>1 DEF DepositTo, DepositNew, BeginAudit, Goto, TypeOK
  <2>6. CallsTyped' /\ RestTyped'
    BY <2>1, <2>2, <2>3, <2>4, <2>5, BeginType, TypeParts DEF RestTyped
  <2>7. QED
    BY <2>6, TypeJoin
<1>2. ASSUME BeginAudit(c), createdAs' = createdAs,
             minted' \subseteq Objects \cup Versions \cup Relations,
             NEW kind, NEW path, NEW body,
             Begin(c, kind, Nothing, Nothing, path, body),
             [kind |-> kind, object |-> Nothing, class |-> Nothing,
              path |-> path, body |-> body] \in Calls
      PROVE  TypeOK'
  <2>1. pc' = [pc EXCEPT ![c] = pc'[c]] /\ pc'[c] = "auditObjects"
    BY <1>2 DEF BeginAudit, Goto, TypeOK
  <2>2. todo' \in [Clients -> SUBSET (Paths \cup Entries)] /\ bad' \in [Clients -> BOOLEAN]
    BY <1>2, BeginAuditType
  <2>3. CallsTyped' /\ RestTyped'
    BY <1>2, <2>1, <2>2, BeginType, TypeParts DEF RestTyped
  <2>4. QED
    BY <2>3, TypeJoin
<1>3. ASSUME NEW r \in Relations, NEW body \in RelationRecords, Relate(c, r, body)
      PROVE  TypeOK'
  <2>1. [kind |-> "relate", object |-> Nothing, class |-> Nothing,
         path |-> r, body |-> body] \in Calls
    BY DEF RelateCalls, Calls
  <2>2. /\ Begin(c, "relate", Nothing, Nothing, r, body) /\ BeginAudit(c) /\ createdAs' = createdAs
        /\ minted' \subseteq Objects \cup Versions \cup Relations
    BY <1>3 DEF Relate, TypeOK
  <2>3. QED
    BY <1>2, <2>1, <2>2
<1>4. ASSUME NEW v \in Versions, NEW b \in Payloads, Revise(c, v, b)
      PROVE  TypeOK'
  <2>1. [kind |-> "revise", object |-> Nothing, class |-> Nothing,
         path |-> v, body |-> b] \in Calls
    BY DEF ReviseCalls, Calls
  <2>2. /\ Begin(c, "revise", Nothing, Nothing, v, b) /\ BeginAudit(c) /\ createdAs' = createdAs
        /\ minted' \subseteq Objects \cup Versions \cup Relations
    BY <1>4 DEF Revise, TypeOK
  <2>3. QED
    BY <1>2, <2>1, <2>2
<1>5. ASSUME NEW p \in Plain, NEW b \in Payloads, Record(c, p, b)
      PROVE  TypeOK'
  <2>1. [kind |-> "record", object |-> Nothing, class |-> Nothing,
         path |-> p, body |-> b] \in Calls
    BY DEF RecordCalls, Calls
  <2>2. /\ Begin(c, "record", Nothing, Nothing, p, b) /\ BeginAudit(c) /\ createdAs' = createdAs
        /\ minted' \subseteq Objects \cup Versions \cup Relations
    BY <1>5 DEF Record, TypeOK
  <2>3. QED
    BY <1>2, <2>1, <2>2
<1>6. ASSUME NEW archive \in SUBSET Entries, Import(c, archive)
      PROVE  TypeOK'
  <2>1. [kind |-> "import", object |-> Nothing, class |-> Nothing,
         path |-> Nothing, body |-> Nothing] \in Calls
    BY DEF ImportCalls, Calls
  <2>2. minted' \subseteq Objects \cup Versions \cup Relations
    <3>1. \A e \in archive : e[1] \in Paths
      BY DEF Entries, Paths
    <3>2. \A e \in archive \cap (Objects \X ObjectRecords) : e[2].latest \in Versions
      BY DEF ObjectRecords
    <3>3. QED
      BY <1>6, <3>1, <3>2 DEF Import, TypeOK, Paths
  <2>3. todo' \in [Clients -> SUBSET (Paths \cup Entries)]
    BY <1>6 DEF Import, TypeOK
  <2>4. /\ Begin(c, "import", Nothing, Nothing, Nothing, Nothing)
        /\ bad' = bad /\ createdAs' = createdAs
        /\ pc' = [pc EXCEPT ![c] = pc'[c]] /\ pc'[c] = "import"
    BY <1>6 DEF Import, Goto, TypeOK
  <2>5. CallsTyped' /\ RestTyped'
    BY <2>1, <2>2, <2>3, <2>4, BeginType, TypeParts DEF RestTyped
  <2>6. QED
    BY <2>5, TypeJoin
<1>7. QED
  <2>1. CASE \E entry \in [1..MaxImported -> Entries] : Import(c, {entry[i] : i \in 1..MaxImported})
    <3>1. PICK entry \in [1..MaxImported -> Entries] : Import(c, {entry[i] : i \in 1..MaxImported})
      BY <2>1
    <3>2. {entry[i] : i \in 1..MaxImported} \in SUBSET Entries
      OBVIOUS
    <3>3. QED
      BY <1>6, <3>1, <3>2
  <2>2. QED
    BY <1>1, <1>3, <1>4, <1>5, <2>1 DEF Call

(* A record that a save lands is in place, and nothing else has changed.   *)
LEMMA FileType ==
  ASSUME TypeOK, NEW c \in Clients, pc[c] \in Saving,
         NEW x \in {file[Target(c)], Content(c), Torn} \cup Landed(c),
         file' = [file EXCEPT ![Target(c)] = x]
  PROVE  /\ file' \in [Paths -> Contents]
         /\ file'[Target(c)] = x
         /\ x \in Contents
         /\ \A p \in Paths : p # Target(c) => file'[p] = file[p]
  BY SavingType, LandedType DEF TypeOK, Contents

LEMMA WreckType ==
  ASSUME TypeOK, NEW c \in Clients, pc[c] \in Saving
  PROVE  Touched(c) \subseteq Paths /\ Wreck(c) \subseteq Paths
  BY SavingType, CallKinds DEF Touched, Wreck, DepositCalls, Paths

LEMMA StepTypeStep ==
  ASSUME TypeOK, NEW c \in Clients, Step(c)
  PROVE  TypeOK'
<1>1. ASSUME CallsTyped', UNCHANGED <<disk, met, calls, minted, prior, acked, overtaken, imported, suspect>>,
             failures' \in 0..MaxFailures, misread' \subseteq Objects,
             todo' \in [Clients -> SUBSET (Paths \cup Entries)], bad' \in [Clients -> BOOLEAN],
             createdAs' \in [Objects -> SUBSET Classes]
      PROVE  TypeOK'
  <2>1. RestTyped'
    BY <1>1, TypeParts DEF RestTyped, disk
  <2>2. QED
    BY <1>1, <2>1, TypeJoin
<1>2. ASSUME Leave(c), UNCHANGED <<disk, calls, failures, history>>,
             suspect \subseteq suspect', suspect' \subseteq Paths, met' \in [Clients -> SUBSET (Contents \ {Missing})]
      PROVE  TypeOK'
  <2>1. CallsTyped' /\ RestTyped'
    BY <1>2, LeaveType, TypeParts DEF RestTyped, disk, history
  <2>2. QED
    BY <2>1, TypeJoin
<1>3. CASE LookupNew(c)
  <2>1. call[c] \in DepositCalls /\ call[c] \in Calls
    BY <1>3 DEF LookupNew, TypeOK, Before, Calls
  <2>2. createdAs' \in [Objects -> SUBSET Classes]
    BY <1>3, <2>1 DEF LookupNew, TypeOK, DepositCalls
  <2>3. BeginAudit(c) /\ call' = call
    BY <1>3 DEF LookupNew
  <2>4. pc' = [pc EXCEPT ![c] = pc'[c]] /\ pc'[c] = "auditObjects"
    BY <2>3 DEF BeginAudit, Goto, TypeOK
  <2>5. CallsTyped'
    BY <1>3, <2>1, <2>3, <2>4, StayType DEF LookupNew, Auditing, Before, Importing, Places
  <2>6. QED
    BY <1>1, <1>3, <2>2, <2>3, <2>5, BeginAuditType DEF LookupNew, disk, TypeOK
<1>4. CASE LookupFound(c)
  <2>1. call[c] \in DepositCalls /\ call[c] \in Calls
    BY <1>4 DEF LookupFound, TypeOK, Before, Calls
  <2>2. pc' = [pc EXCEPT ![c] = pc'[c]] /\ pc'[c] = "reread" /\ call' = call
    BY <1>4 DEF LookupFound, Goto, TypeOK
  <2>3. CallsTyped'
    BY <1>4, <2>1, <2>2, StayType DEF LookupFound, observers, history, Before, Importing, Places
  <2>4. QED
    BY <1>1, <1>4, <2>3 DEF LookupFound, disk, observers, history, TypeOK
<1>5. CASE Reread(c)
  <2>1. call[c] \in DepositCalls /\ file[call[c].object] \in ObjectRecords
    BY <1>5 DEF Reread, TypeOK, Before
  <2>2. call' = [call EXCEPT ![c] = [call[c] EXCEPT !.class = file[call[c].object].class]]
    BY <1>5 DEF Reread
  <2>3. call'[c] = [call[c] EXCEPT !.class = file[call[c].object].class]
    BY <2>2 DEF TypeOK
  <2>4. call'[c] \in DepositCalls /\ call'[c] \in Calls
    BY <2>1, <2>3 DEF DepositCalls, ObjectRecords, Calls
  <2>5. pc' = [pc EXCEPT ![c] = pc'[c]] /\ pc'[c] = "auditObjects" /\ BeginAudit(c)
    BY <1>5 DEF Reread, BeginAudit, Goto, TypeOK
  <2>6. /\ call' \in [Clients -> Calls \cup {NoCall}]
        /\ \A d \in Clients \ {c} : call'[d] = call[d]
    BY <2>2, <2>3, <2>4 DEF TypeOK
  <2>7. CallsTyped'
    <3>1. CallAt(call[c], pc[c])' /\ pc'[c] \in Places \ {"idle"}
      BY <2>4, <2>5 DEF CallAt, Places, Auditing, Before, Importing
    <3>2. QED
      BY <1>5, <2>4, <2>5, <2>6, <3>1, MoveType DEF Reread, observers, history
  <2>8. QED
    BY <1>1, <1>5, <2>5, <2>7, BeginAuditType DEF Reread, disk, observers, history, TypeOK
<1>6. CASE RereadFails(c)
  BY <1>2, <1>6 DEF RereadFails, history, TypeOK
<1>7. CASE AuditOne(c)
  <2>1. todo' \in [Clients -> SUBSET (Paths \cup Entries)] /\ bad' \in [Clients -> BOOLEAN]
    BY <1>7 DEF AuditOne, TypeOK
  <2>2. CallsTyped'
    BY <1>7, TypeParts DEF AuditOne, CallsTyped, CallAt, observers, history
  <2>3. QED
    BY <1>1, <1>7, <2>1, <2>2 DEF AuditOne, disk, observers, history, TypeOK
<1>8. CASE NextPhase(c)
  <2>1. PICK phase \in {"auditRelations", "auditRecords"} :
          Goto(c, phase) /\ todo' = [todo EXCEPT ![c] = Listing(phase)]
    BY <1>8 DEF NextPhase
  <2>2. Listing(phase) \subseteq Paths
    BY <2>1, PathAssumption DEF Listing, Paths
  <2>3. call[c] \in Calls /\ call' = call /\ pc'[c] = phase /\ pc' = [pc EXCEPT ![c] = pc'[c]]
    BY <1>8, <2>1 DEF NextPhase, Goto, TypeOK
  <2>4. CallsTyped'
    BY <1>8, <2>1, <2>3, StayType DEF NextPhase, observers, history, Auditing, Before, Importing, Places
  <2>5. todo' \in [Clients -> SUBSET (Paths \cup Entries)]
    BY <2>1, <2>2 DEF TypeOK
  <2>6. QED
    BY <1>1, <1>8, <2>4, <2>5 DEF NextPhase, disk, observers, history, TypeOK
<1>9. CASE Reject(c)
  BY <1>2, <1>9 DEF Reject, history, TypeOK
<1>10. CASE Sanctioned(c)
  <2>1. call[c] \in Calls /\ call' = call
    BY <1>10 DEF Sanctioned, TypeOK
  <2>2. PICK label \in {"mkdir", "check", "save"} :
          /\ Goto(c, label)
          /\ label = "mkdir" => call[c].kind = "deposit"
          /\ label = "check" => call[c].kind = "revise"
          /\ label = "save" => call[c].kind # "import"
    BY <1>10, <2>1, CallKinds DEF Sanctioned
  <2>3. pc'[c] = label /\ pc' = [pc EXCEPT ![c] = pc'[c]]
    BY <2>2 DEF Goto, TypeOK
  <2>4. CallsTyped'
    BY <1>10, <2>1, <2>2, <2>3, CallKinds, StayType
    DEF Sanctioned, observers, history, Saving, Before, Importing, Places
  <2>5. QED
    BY <1>1, <1>10, <2>4 DEF Sanctioned, disk, observers, history, TypeOK
<1>11. CASE MakeDir(c)
  <2>1. call[c] \in DepositCalls /\ call[c] \in Calls /\ call' = call
    BY <1>11 DEF MakeDir, TypeOK, Calls
  <2>2. pc' = [pc EXCEPT ![c] = pc'[c]] /\ pc'[c] = "saveObject"
    BY <1>11 DEF MakeDir, Goto, TypeOK
  <2>3. dirs' \subseteq Objects
    BY <1>11, <2>1 DEF MakeDir, TypeOK, DepositCalls
  <2>4. CallsTyped'
    BY <1>11, <2>1, <2>2, StayType DEF MakeDir, observers, history, Saving, Before, Importing, Places
  <2>5. RestTyped'
    BY <1>11, <2>3, <2>4, TypeParts DEF MakeDir, RestTyped, observers, history
  <2>6. QED
    BY <2>4, <2>5, TypeJoin
<1>12. CASE CheckFound(c)
  <2>1. /\ call[c] \in Calls /\ call' = call
        /\ pc' = [pc EXCEPT ![c] = pc'[c]] /\ pc'[c] = "save" /\ call[c].kind # "import"
    BY <1>12 DEF CheckFound, Goto, TypeOK, ReviseCalls
  <2>2. CallsTyped'
    BY <1>12, <2>1, StayType DEF CheckFound, observers, history, Saving, Before, Importing, Places
  <2>3. QED
    BY <1>1, <1>12, <2>2 DEF CheckFound, disk, observers, history, TypeOK
<1>13. CASE VersionNotFound(c)
  BY <1>2, <1>13 DEF VersionNotFound, history, TypeOK
<1>14. CASE SaveObject(c)
  <2>1. /\ pc[c] \in Saving /\ call[c] \in Calls /\ call' = call
        /\ pc' = [pc EXCEPT ![c] = pc'[c]] /\ pc'[c] = "save" /\ call[c].kind # "import"
    BY <1>14, SavingType DEF SaveObject, Goto, TypeOK, Saving, DepositCalls
  <2>2. file' \in [Paths -> Contents]
    BY <1>14, <2>1, FileType DEF SaveObject
  <2>3. met' \in [Clients -> SUBSET (Contents \ {Missing})]
    BY <1>14, MeetType, SentinelAssumption DEF SaveObject, Contents
  <2>4. suspect \subseteq suspect' /\ suspect' \subseteq Paths
    BY <1>14, <2>1, WreckType DEF SaveObject, TypeOK
  <2>5. CallsTyped'
    BY <1>14, <2>1, StayType DEF SaveObject, history, Before, Importing, Saving, Places
  <2>6. RestTyped'
    BY <1>14, <2>2, <2>3, <2>4, <2>5, TypeParts DEF SaveObject, RestTyped, history
  <2>7. QED
    BY <2>5, <2>6, TypeJoin
<1>15. CASE SaveAndReturn(c)
  <2>1. pc[c] \in Saving /\ call[c] \in Calls /\ Leave(c)
    BY <1>15, SavingType DEF SaveAndReturn, Saving
  <2>2. file' \in [Paths -> Contents]
    BY <1>15, <2>1, FileType DEF SaveAndReturn
  <2>3. suspect \subseteq suspect' /\ suspect' \subseteq Paths
    BY <1>15, <2>1, WreckType DEF SaveAndReturn, TypeOK
  <2>4. acked' \subseteq Objects \X Versions /\ overtaken' \subseteq Objects \X Versions
    <3>1. CASE call[c].kind = "deposit"
      <4>1. call[c].object \in Objects /\ call[c].path \in Versions
        BY <2>1, <3>1, CallKinds DEF DepositCalls
      <4>2. QED
        BY <1>15, <3>1, <4>1 DEF SaveAndReturn, TypeOK
    <3>2. CASE call[c].kind # "deposit"
      BY <1>15, <3>2 DEF SaveAndReturn, TypeOK
    <3>3. QED
      BY <3>1, <3>2
  <2>5. met' \in [Clients -> SUBSET (Contents \ {Missing})]
    BY <1>15, MeetType, SentinelAssumption DEF SaveAndReturn, Contents
  <2>6. CallsTyped' /\ RestTyped'
    BY <1>15, <2>1, <2>2, <2>3, <2>4, <2>5, LeaveType, TypeParts DEF SaveAndReturn, RestTyped
  <2>7. QED
    BY <2>6, TypeJoin
<1>16. CASE SaveLosesRace(c)
  <2>1. suspect \subseteq suspect' /\ suspect' \subseteq Paths
    BY <1>16, WreckType DEF SaveLosesRace, TypeOK
  <2>2. met' \in [Clients -> SUBSET (Contents \ {Missing})]
    BY <1>16, MeetType DEF SaveLosesRace
  <2>3. QED
    BY <1>2, <1>16, <2>1, <2>2 DEF SaveLosesRace
<1>17. CASE LookupUnread(c)
  <2>1. call[c] \in DepositCalls /\ call[c] \in Calls
    BY <1>17 DEF LookupUnread, TypeOK, Before, Calls
  <2>2. misread' \subseteq Objects
    BY <1>17, <2>1 DEF LookupUnread, TypeOK, DepositCalls
  <2>3. BeginAudit(c) /\ call' = call
    BY <1>17 DEF LookupUnread
  <2>4. pc' = [pc EXCEPT ![c] = pc'[c]] /\ pc'[c] = "auditObjects"
    BY <2>3 DEF BeginAudit, Goto, TypeOK
  <2>5. CallsTyped'
    BY <1>17, <2>1, <2>3, <2>4, StayType DEF LookupUnread, Auditing, Before, Importing, Places
  <2>6. failures' \in 0..MaxFailures
    BY <1>17, BoundAssumption DEF LookupUnread, TypeOK
  <2>7. QED
    BY <1>1, <1>17, <2>2, <2>3, <2>5, <2>6, BeginAuditType DEF LookupUnread, disk, TypeOK
<1>18. ASSUME NEW e \in Entries, ImportNext(c, e[1], e[2])
       PROVE  TypeOK'
  <2>1. PICK p, x : e = <<p, x>> /\ p \in Paths /\ x \in ObjectRecords \cup Bodies
                    /\ (p \in Objects => x \in ObjectRecords)
    BY PathAssumption DEF Entries, Paths, Bodies
  <2>2. ImportNext(c, p, x)
    BY <1>18, <2>1
  <2>3. call[c] \in ImportCalls
    BY <2>2 DEF ImportNext, TypeOK, Importing
  <2>4. call' = [call EXCEPT ![c] = [call[c] EXCEPT !.path = p, !.body = x]]
    BY <2>2 DEF ImportNext
  <2>5. call'[c] = [call[c] EXCEPT !.path = p, !.body = x]
    BY <2>4 DEF TypeOK
  <2>6. call'[c] \in ImportCalls /\ call'[c] \in Calls /\ call'[c].path = p /\ call'[c].body = x
    BY <2>1, <2>3, <2>5 DEF ImportCalls, Calls
  <2>7. /\ call' \in [Clients -> Calls \cup {NoCall}]
        /\ \A d \in Clients \ {c} : call'[d] = call[d]
    BY <2>4, <2>5, <2>6 DEF TypeOK
  <2>8. pc' = [pc EXCEPT ![c] = pc'[c]] /\ pc'[c] = "importSave"
    BY <2>2 DEF ImportNext, Goto, TypeOK
  <2>9. x # Nothing /\ imported' = imported \cup {p}
    BY <2>1, <2>2, SentinelAssumption DEF ImportNext
  <2>10. CallAt(call[c], pc[c])'
    BY <2>6, <2>8, <2>9 DEF CallAt, Before, Importing
  <2>11. CallsTyped'
    BY <2>6, <2>7, <2>8, <2>9, <2>10, MoveType DEF Places, Importing
  <2>12. createdAs' \in [Objects -> SUBSET Classes]
    <3>1. CASE p \in Objects
      BY <2>1, <2>2, <3>1 DEF ImportNext, TypeOK, ObjectRecords
    <3>2. CASE p \notin Objects
      BY <2>2, <3>2 DEF ImportNext, TypeOK
    <3>3. QED
      BY <3>1, <3>2
  <2>13. RestTyped'
    BY <2>1, <2>2, <2>12, TypeParts DEF ImportNext, RestTyped
  <2>14. QED
    BY <2>11, <2>13, TypeJoin
<1>19. CASE ImportSave(c)
  <2>1. /\ pc[c] \in Saving /\ call[c] \in Calls /\ call' = call /\ call[c] \in ImportCalls
        /\ pc' = [pc EXCEPT ![c] = pc'[c]] /\ pc'[c] = "import"
    BY <1>19, SavingType DEF ImportSave, Goto, TypeOK, Saving, Importing
  <2>2. file' \in [Paths -> Contents]
    BY <1>19, <2>1, FileType DEF ImportSave
  <2>3. met' \in [Clients -> SUBSET (Contents \ {Missing})]
    BY <1>19, MeetType, SentinelAssumption DEF ImportSave, Contents
  <2>4. suspect \subseteq suspect' /\ suspect' \subseteq Paths
    BY <1>19, <2>1, WreckType DEF ImportSave, TypeOK
  <2>5. CallsTyped'
    BY <1>19, <2>1, StayType DEF ImportSave, history, Before, Importing, Saving, Places
  <2>6. RestTyped'
    BY <1>19, <2>2, <2>3, <2>4, <2>5, TypeParts DEF ImportSave, RestTyped, history
  <2>7. QED
    BY <2>5, <2>6, TypeJoin
<1>20. CASE ImportAudit(c)
  <2>1. call[c] \in Calls /\ call' = call /\ BeginAudit(c)
    BY <1>20 DEF ImportAudit, TypeOK
  <2>2. pc' = [pc EXCEPT ![c] = pc'[c]] /\ pc'[c] = "auditObjects"
    BY <2>1 DEF BeginAudit, Goto, TypeOK
  <2>3. CallsTyped'
    BY <1>20, <2>1, <2>2, StayType DEF ImportAudit, observers, history, Auditing, Before, Importing, Places
  <2>4. QED
    BY <1>1, <1>20, <2>1, <2>3, BeginAuditType DEF ImportAudit, disk, observers, history, TypeOK
<1>21. CASE ImportReturns(c)
  BY <1>2, <1>21 DEF ImportReturns, history, TypeOK
<1>22. QED
  BY <1>3, <1>4, <1>5, <1>6, <1>7, <1>8, <1>9, <1>10, <1>11, <1>12, <1>13, <1>14, <1>15, <1>16, <1>17,
     <1>18, <1>19, <1>20, <1>21
  DEF Step

LEMMA FaultTypeStep ==
  ASSUME TypeOK, NEW c \in Clients, Scribble(c) \/ Fail(c) \/ FailSaving(c)
  PROVE  TypeOK'
<1>1. CASE Scribble(c)
  <2>1. file' \in [Paths -> Contents]
    BY <1>1, FileType DEF Scribble
  <2>2. suspect \subseteq suspect' /\ suspect' \subseteq Paths
    BY <1>1, WreckType DEF Scribble, TypeOK
  <2>3. CallsTyped' /\ RestTyped'
    BY <1>1, <2>1, <2>2, TypeParts DEF Scribble, history, CallsTyped, CallAt, RestTyped
  <2>4. QED
    BY <2>3, TypeJoin
<1>2. CASE Fail(c)
  <2>1. dirs' \subseteq Objects /\ suspect \subseteq suspect' /\ suspect' \subseteq Paths
    BY <1>2 DEF Fail, TypeOK, DepositCalls, Paths
  <2>2. failures' \in 0..MaxFailures
    BY <1>2, BoundAssumption DEF Fail, TypeOK
  <2>3. Leave(c) /\ UNCHANGED <<file, met, calls, history>>
    BY <1>2 DEF Fail
  <2>4. CallsTyped' /\ RestTyped'
    BY <2>1, <2>2, <2>3, LeaveType, TypeParts DEF RestTyped, history
  <2>5. QED
    BY <2>4, TypeJoin
<1>3. CASE FailSaving(c)
  <2>1. pc[c] \in Saving /\ {Content(c)} \subseteq Contents \ {Missing}
        /\ {Torn} \subseteq Contents \ {Missing}
    BY <1>3, SavingType, SentinelAssumption DEF FailSaving, Contents
  <2>2. PICK x \in {file[Target(c)], Torn} \cup Landed(c) : file' = [file EXCEPT ![Target(c)] = x]
    BY <1>3 DEF FailSaving
  <2>3. file' \in [Paths -> Contents]
    BY <2>1, <2>2, FileType
  <2>4. suspect \subseteq suspect' /\ suspect' \subseteq Paths
    BY <1>3, <2>1, WreckType DEF FailSaving, TypeOK
  <2>5. met' \in [Clients -> SUBSET (Contents \ {Missing})]
    BY <1>3, <2>1, MeetType DEF FailSaving
  <2>6. failures' \in 0..MaxFailures
    BY <1>3, BoundAssumption DEF FailSaving, TypeOK
  <2>7. Leave(c) /\ UNCHANGED <<dirs, calls, history>>
    BY <1>3 DEF FailSaving
  <2>8. CallsTyped' /\ RestTyped'
    BY <2>3, <2>4, <2>5, <2>6, <2>7, LeaveType, TypeParts DEF RestTyped, history
  <2>9. QED
    BY <2>8, TypeJoin
<1>4. QED
  BY <1>1, <1>2, <1>3

LEMMA TypeStep == ASSUME TypeOK, [Next]_vars PROVE TypeOK'
<1>1. CASE UNCHANGED vars
  BY <1>1 DEF vars, TypeOK
<1>2. CASE Next
  BY <1>2, CallTypeStep, StepTypeStep, FaultTypeStep DEF Next
<1>3. QED
  BY <1>1, <1>2

(* Every variable keeps its type: in particular a call that reaches a save *)
(* has decided what to save, and where.                                    *)
THEOREM TypeCorrect == Spec => []TypeOK
<1>1. TypeOK /\ [Next]_vars => TypeOK'
  BY TypeStep
<1>2. QED
  BY TypeInit, <1>1, PTL DEF Spec

(***************************************************************************)
(* What a step of one client leaves of the others.                         *)
(***************************************************************************)
Acts(c) == Call(c) \/ Step(c) \/ Scribble(c) \/ Fail(c) \/ FailSaving(c)

LEMMA OthersKeep ==
  ASSUME TypeOK, NEW c \in Clients, Acts(c), NEW d \in Clients, d # c
  PROVE  UNCHANGED <<pc[d], call[d], prior[d]>>
<1>1. ASSUME Leave(c) PROVE UNCHANGED <<pc[d], call[d], prior[d]>>
  BY <1>1 DEF Leave, Goto, TypeOK
<1>2. ASSUME NEW label, Goto(c, label), UNCHANGED <<call, prior>>
      PROVE  UNCHANGED <<pc[d], call[d], prior[d]>>
  BY <1>2 DEF Goto, TypeOK
<1>3. CASE Call(c)
  BY <1>3 DEF Call, DepositTo, DepositNew, Relate, Revise, Record, Import, Begin, BeginAudit, Goto, TypeOK
<1>4. CASE \/ LookupNew(c) \/ LookupUnread(c) \/ LookupFound(c) \/ NextPhase(c) \/ Sanctioned(c)
           \/ MakeDir(c) \/ CheckFound(c) \/ SaveObject(c) \/ ImportSave(c) \/ ImportAudit(c)
  BY <1>2, <1>4 DEF LookupNew, LookupUnread, LookupFound, NextPhase, Sanctioned, MakeDir, CheckFound,
     SaveObject, ImportSave, ImportAudit, BeginAudit, observers
<1>5. CASE \/ RereadFails(c) \/ Reject(c) \/ VersionNotFound(c) \/ SaveAndReturn(c) \/ SaveLosesRace(c)
           \/ ImportReturns(c) \/ Fail(c) \/ FailSaving(c)
  BY <1>1, <1>5 DEF RereadFails, Reject, VersionNotFound, SaveAndReturn, SaveLosesRace, ImportReturns,
     Fail, FailSaving
<1>6. CASE Reread(c)
  BY <1>6 DEF Reread, BeginAudit, Goto, observers, TypeOK
<1>7. CASE AuditOne(c) \/ Scribble(c)
  BY <1>7 DEF AuditOne, Scribble, observers
<1>8. ASSUME NEW e \in Entries, ImportNext(c, e[1], e[2]) PROVE UNCHANGED <<pc[d], call[d], prior[d]>>
  BY <1>8 DEF ImportNext, Goto, TypeOK
<1>9. QED
  BY <1>3, <1>4, <1>5, <1>6, <1>7, <1>8 DEF Acts, Step

(***************************************************************************)
(* FailClosed.  A fault p that every gated call is still to meet stays one *)
(* that every gated call is to meet, unless an import changes it: an audit *)
(* cannot drop p from what it has listed without recording a violation,    *)
(* nor list a kind of record without it.                                   *)
(***************************************************************************)
LEMMA MeetsPlace ==
  ASSUME TypeOK, NEW c \in Clients, NEW p, Meets(c, p)
  PROVE  \/ pc[c] \in {"idle"} \cup Before \cup Auditing
         \/ pc[c] \in Importing /\ call[c].kind = "import"
<1>1. CASE call[c].kind = "import"
  <2>1. call[c] \notin DepositCalls \cup ReviseCalls
    BY <1>1 DEF DepositCalls, ReviseCalls
  <2>2. QED
    BY <1>1, <2>1 DEF TypeOK, Before, Auditing, Importing, Saving
<1>2. CASE call[c].kind # "import"
  BY <1>2 DEF Meets
<1>3. QED
  BY <1>1, <1>2

LEMMA FaultListed ==
  ASSUME TypeOK, NEW p \in Faults
  PROVE  /\ Faulty(p)
         /\ p \in Objects => p \in Listing("auditObjects")
         /\ p \in Relations => p \in Listing("auditRelations")
         /\ p \in Plain => p \in Listing("auditRecords")
         /\ p \in Objects \cup Relations \cup Plain
  BY PathAssumption DEF Faults, Faulty, Listing, TypeOK, Paths

LEMMA MeetsStep ==
  ASSUME TypeOK, NEW p \in Faults, NEW c \in Clients, Meets(c, p), Call(c) \/ Step(c) \/ Fail(c),
         ~ImportWrites(c)
  PROVE  Meets(c, p)' /\ UNCHANGED disk /\ \A d \in Clients \ {c} : UNCHANGED <<pc[d], todo[d], bad[d]>>
<1> DEFINE Others == \A d \in Clients \ {c} : UNCHANGED <<pc[d], todo[d], bad[d]>>
<1>0. \/ pc[c] \in {"idle"} \cup Before \cup Auditing
      \/ pc[c] \in Importing /\ Fail(c)
  <2>1. Call(c) => pc[c] = "idle"
    BY DEF Call, DepositTo, DepositNew, Relate, Revise, Record, Import, Begin
  <2>2. QED
    BY <2>1, MeetsPlace DEF ImportWrites, Importing
<1>1. ASSUME BeginAudit(c) PROVE Meets(c, p)' /\ Others
  <2>1. p \in Objects => p \in dirs
    BY FaultListed DEF Listing
  <2>2. pc'[c] = "auditObjects" /\ todo'[c] = dirs
    BY <1>1 DEF BeginAudit, Goto, TypeOK
  <2>3. QED
    BY <1>1, <2>1, <2>2 DEF BeginAudit, Goto, TypeOK, Meets, Auditing
<1>2. ASSUME Leave(c) PROVE Meets(c, p)' /\ Others
  BY <1>2 DEF Leave, Goto, TypeOK, Meets
<1>3. ASSUME NEW label \in Before, Goto(c, label), UNCHANGED <<todo, bad>>
      PROVE  Meets(c, p)' /\ Others
  BY <1>3 DEF Goto, TypeOK, Meets
<1>4. CASE Call(c)
  <2>1. UNCHANGED disk
    BY <1>4 DEF Call, DepositTo, DepositNew, Relate, Revise, Record, Import, Begin
  <2>2. CASE BeginAudit(c) \/ (Goto(c, "lookup") /\ UNCHANGED <<todo, bad>>)
    BY <1>1, <1>3, <2>1, <2>2 DEF Before
  <2>3. ASSUME NEW archive, Import(c, archive) PROVE Meets(c, p)' /\ Others
    <3>1. call'[c].kind = "import"
      BY <2>3 DEF Import, Begin, TypeOK
    <3>2. Others
      BY <2>3 DEF Import, Goto, TypeOK
    <3>3. QED
      BY <3>1, <3>2 DEF Meets
  <2>4. QED
    BY <1>4, <2>1, <2>2, <2>3 DEF Call, DepositTo, DepositNew, Relate, Revise, Record
<1>5. CASE Fail(c)
  BY <1>0, <1>2, <1>5 DEF Fail, Before, Auditing, Importing, disk
<1>6. CASE LookupNew(c) \/ LookupUnread(c)
  BY <1>1, <1>6 DEF LookupNew, LookupUnread
<1>7. CASE LookupFound(c)
  BY <1>3, <1>7 DEF LookupFound, Before
<1>8. CASE Reread(c)
  BY <1>1, <1>8 DEF Reread
<1>9. CASE RereadFails(c)
  BY <1>2, <1>9 DEF RereadFails
<1>10. CASE AuditOne(c)
  <2>1. PICK q \in todo[c] : /\ todo' = [todo EXCEPT ![c] = @ \ {q}]
                             /\ bad' = [bad EXCEPT ![c] = @ \/ Faulty(q)]
    BY <1>10 DEF AuditOne
  <2>2. todo'[c] = todo[c] \ {q} /\ (bad'[c] <=> (bad[c] \/ Faulty(q)))
    BY <2>1 DEF TypeOK
  <2>3. pc' = pc /\ call' = call /\ UNCHANGED disk /\ Others
    BY <1>10, <2>1 DEF AuditOne, TypeOK
  <2>4. Meets(c, p)'
    <3>1. Faulty(p) /\ pc[c] \in Auditing
      BY <1>10, FaultListed DEF AuditOne
    <3>2. CASE bad'[c]
      BY <2>3, <3>1, <3>2 DEF Meets
    <3>3. CASE ~bad'[c]
      <4>1. p # q /\ ~bad[c]
        BY <2>2, <3>1, <3>3
      <4>2. QED
        BY <2>2, <2>3, <3>1, <4>1 DEF Meets, Auditing, Before
    <3>4. QED
      BY <3>2, <3>3
  <2>5. QED
    BY <2>3, <2>4
<1>11. CASE NextPhase(c)
  <2>1. UNCHANGED <<bad, disk, call>> /\ todo[c] = {}
    BY <1>11 DEF NextPhase
  <2>2. ASSUME pc[c] = "auditObjects", NEW phase, phase = "auditRelations",
               Goto(c, phase), todo' = [todo EXCEPT ![c] = Listing(phase)]
        PROVE  Meets(c, p)' /\ Others
    <3>1. pc'[c] = "auditRelations" /\ todo'[c] = Listing("auditRelations") /\ bad'[c] = bad[c]
      BY <2>1, <2>2 DEF Goto, TypeOK
    <3>2. bad[c] \/ p \notin Objects \/ call[c].kind = "import"
      BY <2>1, <2>2 DEF Meets, Before, Auditing
    <3>3. bad[c] \/ p \in Plain \/ p \in Listing("auditRelations") \/ call[c].kind = "import"
      BY <3>2, FaultListed
    <3>4. QED
      BY <2>1, <2>2, <3>1, <3>3 DEF Meets, Auditing, Goto, TypeOK
  <2>3. ASSUME pc[c] = "auditRelations", NEW phase, phase = "auditRecords",
               Goto(c, phase), todo' = [todo EXCEPT ![c] = Listing(phase)]
        PROVE  Meets(c, p)' /\ Others
    <3>1. pc'[c] = "auditRecords" /\ todo'[c] = Listing("auditRecords") /\ bad'[c] = bad[c]
      BY <2>1, <2>3 DEF Goto, TypeOK
    <3>2. bad[c] \/ p \in Plain \/ call[c].kind = "import"
      BY <2>1, <2>3 DEF Meets, Before, Auditing
    <3>3. bad[c] \/ p \in Listing("auditRecords") \/ call[c].kind = "import"
      BY <3>2, FaultListed
    <3>4. QED
      BY <2>1, <2>3, <3>1, <3>3 DEF Meets, Auditing, Goto, TypeOK
  <2>4. QED
    BY <1>11, <2>1, <2>2, <2>3 DEF NextPhase
<1>12. CASE Reject(c)
  BY <1>2, <1>12 DEF Reject
<1>13. CASE Sanctioned(c)
  BY <1>13 DEF Sanctioned, Meets, Before, Auditing
<1>14. CASE MakeDir(c) \/ CheckFound(c) \/ VersionNotFound(c) \/ SaveObject(c)
            \/ SaveAndReturn(c) \/ SaveLosesRace(c)
  BY <1>0, <1>14 DEF MakeDir, CheckFound, VersionNotFound, SaveObject, SaveAndReturn,
     SaveLosesRace, Fail, Importing, Saving, Before, Auditing
<1>15. (\A e \in Entries : ~ImportNext(c, e[1], e[2])) /\ ~ImportSave(c) /\ ~ImportAudit(c)
  BY DEF ImportWrites, Importing, ImportNext, ImportSave, ImportAudit, Step
<1>16. CASE ImportReturns(c)
  BY <1>2, <1>16 DEF ImportReturns
<1>17. QED
  BY <1>4, <1>5, <1>6, <1>7, <1>8, <1>9, <1>10, <1>11, <1>12, <1>13, <1>14, <1>15, <1>16 DEF Step

LEMMA WedgedStep ==
  ASSUME TypeOK, [Next]_vars, Wedged, \A c \in Clients : ~ImportWrites(c)
  PROVE  Wedged' /\ disk' = disk
<1>1. PICK p \in Faults : \A c \in Clients : Meets(c, p)
  BY DEF Wedged
<1>2. ASSUME disk' = disk, \A c \in Clients : Meets(c, p)'
      PROVE  Wedged' /\ disk' = disk
  <2>1. Faults' = Faults
    BY <1>2 DEF disk, Faults, ObjectFault, RelationFault, RecordFault, Exists
  <2>2. QED
    BY <1>1, <1>2, <2>1 DEF Wedged
<1>3. CASE UNCHANGED vars
  BY <1>1, <1>2, <1>3 DEF vars, disk, Meets
<1>4. ASSUME NEW c \in Clients, Call(c) \/ Step(c) \/ Fail(c) PROVE Wedged' /\ disk' = disk
  <2>1. /\ Meets(c, p)' /\ UNCHANGED disk
        /\ \A d \in Clients \ {c} : UNCHANGED <<pc[d], todo[d], bad[d]>>
    BY <1>1, <1>4, MeetsStep
  <2>2. \A d \in Clients \ {c} : Meets(d, p)'
    BY <1>1, <1>4, <2>1, OthersKeep DEF Acts, Meets
  <2>3. QED
    BY <1>2, <2>1, <2>2
<1>5. ASSUME NEW c \in Clients, Scribble(c) \/ FailSaving(c) PROVE FALSE
  <2>1. pc[c] \in {"idle"} \cup Before \cup Auditing \cup Importing
    BY <1>1, MeetsPlace
  <2>2. QED
    BY <1>5, <2>1 DEF Scribble, FailSaving, ImportWrites, Saving, Before, Auditing
<1>6. QED
  BY <1>3, <1>4, <1>5 DEF Next

(* The gate fails closed for good: a fault that has outlived the writers   *)
(* past it stops every later write of a gated call, in every workspace and *)
(* for any number of clients; what changes a file from then on is an       *)
(* import.                                                                 *)
THEOREM GateFailsClosed == Spec => FailClosed
<1>1. TypeOK /\ [Next]_vars => [Wedged => \/ Wedged' /\ disk' = disk
                                         \/ \E c \in Clients : ImportWrites(c)]_vars
  BY WedgedStep
<1>2. QED
  BY TypeCorrect, <1>1, PTL DEF Spec, FailClosed

(***************************************************************************)
(* What the steps do to the files.                                         *)
(***************************************************************************)
LEMMA LandedAlone ==
  ASSUME NEW c \in Clients
  PROVE  /\ ~Overlapped(c) => Landed(c) = {Content(c)}
         /\ Content(c) \in Landed(c)
         /\ Taken(met[c]) => Overlapped(c) /\ Torn \in Landed(c)
  BY DEF Overlapped, Landed, Published, Taken

Writing(c) == SaveObject(c) \/ SaveAndReturn(c) \/ ImportSave(c) \/ Scribble(c) \/ FailSaving(c)

(* A writing step puts at its target what the save may land, or leaves it  *)
(* alone, and owns up to it.                                               *)
LEMMA WritingStep ==
  ASSUME TypeOK, NEW c \in Clients, Writing(c)
  PROVE  /\ pc[c] \in Saving
         /\ \E x \in {file[Target(c)]} \cup Landed(c) : file' = [file EXCEPT ![Target(c)] = x]
         /\ UNCHANGED <<dirs, createdAs, misread, imported, minted>>
         /\ suspect \cup Touched(c) \subseteq suspect'
         /\ FailSaving(c) => Wreck(c) \subseteq suspect'
         /\ Scribble(c) => Overlapped(c)
<1>1. CASE SaveObject(c)
  BY <1>1, LandedAlone DEF SaveObject, history, Saving, Scribble, FailSaving
<1>2. CASE SaveAndReturn(c)
  BY <1>2 DEF SaveAndReturn, Saving, Leave, Goto, FailSaving, Scribble, TypeOK
<1>3. CASE Scribble(c)
  BY <1>3, LandedAlone DEF Scribble, history, FailSaving, Leave, Goto, TypeOK
<1>4. CASE FailSaving(c)
  <2>1. Touched(c) \subseteq Wreck(c)
    BY DEF Wreck
  <2>2. \E x \in {file[Target(c)]} \cup Landed(c) : file' = [file EXCEPT ![Target(c)] = x]
    BY <1>4, LandedAlone DEF FailSaving
  <2>3. ~Scribble(c)
    BY <1>4 DEF FailSaving, Leave, Goto, Scribble, TypeOK, Saving
  <2>4. QED
    BY <1>4, <2>1, <2>2, <2>3 DEF FailSaving, history
<1>5. CASE ImportSave(c)
  <2>1. ~Scribble(c) /\ ~FailSaving(c)
    BY <1>5 DEF ImportSave, Scribble, FailSaving, Leave, Goto, TypeOK
  <2>2. QED
    BY <1>5, <2>1 DEF ImportSave, history, Saving
<1>6. QED
  BY <1>1, <1>2, <1>3, <1>4, <1>5 DEF Writing

LEMMA WrittenFiles ==
  ASSUME TypeOK, NEW c \in Clients, Writing(c)
  PROVE  /\ \A p \in Paths \ {Target(c)} : file'[p] = file[p]
         /\ file'[Target(c)] \in {file[Target(c)]} \cup Landed(c)
         /\ \A p \in Paths : Exists(p) => Exists(p)'
<1>1. PICK x \in {file[Target(c)]} \cup Landed(c) : file' = [file EXCEPT ![Target(c)] = x]
  BY WritingStep
<1>2. Target(c) \in Paths /\ Landed(c) \subseteq Contents \ {Missing}
  BY WritingStep, SavingType, LandedType
<1>3. file'[Target(c)] = x /\ \A p \in Paths \ {Target(c)} : file'[p] = file[p]
  BY <1>1, <1>2 DEF TypeOK
<1>4. QED
  BY <1>1, <1>2, <1>3 DEF Exists

(* Every other step leaves all files alone.                                *)
LEMMA QuietStep ==
  ASSUME NEW c \in Clients, Call(c) \/ Step(c) \/ Fail(c), ~Writing(c)
  PROVE  file' = file
<1>1. CASE Call(c)
  BY <1>1 DEF Call, disk, DepositTo, DepositNew, Relate, Revise, Record, Import, Begin
<1>2. CASE Step(c)
  BY <1>2 DEF Step, Writing, disk, LookupNew, LookupUnread, LookupFound, Reread, RereadFails, AuditOne,
     NextPhase, Reject, Sanctioned, MakeDir, CheckFound, VersionNotFound, SaveLosesRace, ImportNext,
     ImportAudit, ImportReturns
<1>3. CASE Fail(c)
  BY <1>3 DEF Fail
<1>4. QED
  BY <1>1, <1>2, <1>3

LEMMA QuietFiles ==
  ASSUME [Next]_vars, \A c \in Clients : ~Writing(c)
  PROVE  file' = file
  BY QuietStep DEF Next, Writing, vars

(* A record, once there, is never removed.                                 *)
LEMMA ExistsStays ==
  ASSUME TypeOK, [Next]_vars, NEW p \in Paths, Exists(p)
  PROVE  Exists(p)'
  BY QuietFiles, WrittenFiles DEF Exists

(***************************************************************************)
(* FaultsAccounted.  The invariant says of each object directory which     *)
(* deposit still owes it a record: none, one that is to save the version   *)
(* the record names, or one that is to save the object record itself.      *)
(***************************************************************************)
Depositing(c, o, place) ==
  pc[c] = place /\ call[c].kind = "deposit" /\ call[c].object = o

ObjectWhole(o) == /\ file[o] \in ObjectRecords
                  /\ \/ Exists(file[o].latest)
                     \/ \E c \in Clients : Depositing(c, o, "save") /\ call[c].path = file[o].latest

ObjectPending(o) == /\ file[o] = Missing
                    /\ \E c \in Clients : Depositing(c, o, "saveObject")

ObjectsAccounted == \A o \in dirs : o \in suspect \/ ObjectWhole(o) \/ ObjectPending(o)

RelationsAccounted == \A r \in Relations : Exists(r) /\ RelationFault(r) => r \in suspect

RecordsAccounted == \A p \in Audited : Exists(p) /\ RecordFault(p) => p \in suspect

DirsFirst ==
  /\ \A o \in Objects \ dirs : file[o] = Missing
  /\ \A c \in Clients : pc[c] = "saveObject" => call[c].object \in dirs
  /\ \A c \in Clients : pc[c] = "importSave" /\ call[c].path \in Objects => call[c].path \in dirs

FaultInv == ObjectsAccounted /\ RelationsAccounted /\ RecordsAccounted /\ DirsFirst

LEMMA FaultInvSuffices == ASSUME TypeOK, FaultInv PROVE FaultsAccounted
<1> SUFFICES ASSUME NEW p \in Faults
             PROVE  p \in suspect \/ (p \in Objects /\ InFlight(p))
  BY DEF FaultsAccounted
<1>1. CASE p \in dirs /\ ObjectFault(p)
  BY <1>1 DEF FaultInv, ObjectsAccounted, ObjectWhole, ObjectPending, ObjectFault, Depositing,
     InFlight, Saving, TypeOK
<1>2. CASE p \in Relations /\ Exists(p) /\ RelationFault(p)
  BY <1>2 DEF FaultInv, RelationsAccounted
<1>3. CASE p \in Audited /\ Exists(p) /\ RecordFault(p)
  BY <1>3 DEF FaultInv, RecordsAccounted
<1>4. QED
  BY <1>1, <1>2, <1>3 DEF Faults

(* Steps that write no file and abandon no save: the debts stand.          *)
LEMMA FaultQuiet ==
  ASSUME TypeOK, FaultInv, file' = file, suspect \subseteq suspect',
         \A o \in dirs' \ dirs : o \in suspect' \/ ObjectPending(o)',
         dirs \subseteq dirs', dirs' \subseteq Objects,
         \A c \in Clients : pc[c] \in Saving => pc'[c] = pc[c] /\ call'[c] = call[c],
         \A c \in Clients : pc'[c] = "saveObject" => call'[c].object \in dirs',
         \A c \in Clients : pc'[c] = "importSave" /\ call'[c].path \in Objects => call'[c].path \in dirs'
  PROVE  FaultInv'
<1>1. \A p : Exists(p)' <=> Exists(p)
  BY DEF Exists
<1>2. ASSUME NEW o \in dirs' PROVE o \in suspect' \/ ObjectWhole(o)' \/ ObjectPending(o)'
  <2>1. CASE o \in dirs /\ ObjectWhole(o)
    BY <1>1, <2>1 DEF ObjectWhole, Depositing, Saving
  <2>2. CASE o \in dirs /\ ObjectPending(o)
    BY <2>2 DEF ObjectPending, Depositing, Saving
  <2>3. QED
    BY <2>1, <2>2 DEF FaultInv, ObjectsAccounted
<1>3. RelationsAccounted' /\ RecordsAccounted'
  BY <1>1 DEF FaultInv, RelationsAccounted, RecordsAccounted, RelationFault, RecordFault
<1>4. DirsFirst'
  BY DEF FaultInv, DirsFirst
<1>5. QED
  BY <1>2, <1>3, <1>4 DEF FaultInv, ObjectsAccounted

LEMMA ImportTarget ==
  ASSUME TypeOK, NEW c \in Clients, pc[c] = "importSave"
  PROVE  /\ Target(c) = call[c].path /\ Target(c) \in imported /\ Target(c) \in suspect
         /\ call[c].kind = "import"
  BY DEF TypeOK, Target, Importing, ImportCalls

(* A relation or a plain record is written whole, or is owned up to.       *)
LEMMA FaultWriting ==
  ASSUME TypeOK, FaultInv, NEW c \in Clients, Writing(c)
  PROVE  RelationsAccounted' /\ RecordsAccounted'
<1>1. /\ \A p \in Paths \ {Target(c)} : file'[p] = file[p]
      /\ file'[Target(c)] \in {file[Target(c)]} \cup Landed(c)
      /\ \A p \in Paths : Exists(p) => Exists(p)'
  BY WrittenFiles
<1>2. pc[c] \in Saving /\ suspect \cup Touched(c) \subseteq suspect'
  BY WritingStep
<1>3. call[c] \in Calls
  BY <1>2, SavingType
<1>4. Overlapped(c) => Target(c) \in suspect'
  BY <1>2 DEF Touched
<1>5. ~Overlapped(c) => file'[Target(c)] \in {file[Target(c)], Content(c)}
  BY <1>1, LandedAlone
<1>6. Relations \subseteq Paths /\ Audited \subseteq Plain /\ Plain \subseteq Paths /\ Objects \subseteq Paths
  BY PathAssumption DEF Paths
<1>7. RelationsAccounted'
  <2> SUFFICES ASSUME NEW r \in Relations, Exists(r)', RelationFault(r)', r \notin suspect'
               PROVE  FALSE
    BY DEF RelationsAccounted
  <2>1. ASSUME file'[r] = file[r] PROVE FALSE
    <3>1. Exists(r) /\ r \notin suspect
      BY <1>2, <2>1 DEF Exists
    <3>2. ~RelationFault(r)
      BY <3>1 DEF FaultInv, RelationsAccounted
    <3>3. QED
      BY <1>1, <1>6, <2>1, <3>2 DEF RelationFault, RelationRecords
  <2>2. Target(c) = r /\ ~Overlapped(c) /\ file'[r] = Content(c)
    BY <1>1, <1>4, <1>5, <1>6, <2>1
  <2>3. pc[c] = "save" /\ call[c].path = r /\ Content(c) = call[c].body
    BY <1>2, <2>2, ImportTarget, PathAssumption DEF Target, Content, Saving, TypeOK, DepositCalls
  <2>4. call[c] \in RelateCalls
    BY <1>3, <2>3, PathAssumption DEF TypeOK, Calls, DepositCalls, ReviseCalls, RecordCalls, ImportCalls
  <2>5. ~Dangling(c)
    BY <1>2, <2>2 DEF Touched
  <2>6. QED
    BY <1>1, <1>6, <2>2, <2>3, <2>4, <2>5 DEF Dangling, RelateCalls, RelationFault, RelationRecords
<1>8. RecordsAccounted'
  <2> SUFFICES ASSUME NEW p \in Audited, Exists(p)', RecordFault(p)', p \notin suspect'
               PROVE  FALSE
    BY DEF RecordsAccounted
  <2>1. ASSUME file'[p] = file[p] PROVE FALSE
    BY <1>2, <2>1 DEF Exists, FaultInv, RecordsAccounted, RecordFault
  <2>2. Target(c) = p /\ ~Overlapped(c) /\ file'[p] = Content(c)
    BY <1>1, <1>4, <1>5, <1>6, <2>1
  <2>3. pc[c] = "save" /\ call[c].path = p /\ Content(c) = call[c].body
    BY <1>2, <2>2, ImportTarget, PathAssumption DEF Target, Content, Saving, TypeOK, DepositCalls
  <2>4. call[c] \in RecordCalls
    BY <1>3, <2>3, PathAssumption DEF TypeOK, Calls, DepositCalls, ReviseCalls, RelateCalls, ImportCalls
  <2>5. QED
    BY <2>2, <2>3, <2>4 DEF RecordCalls, RecordFault
<1>9. QED
  BY <1>7, <1>8

LEMMA OthersStay ==
  ASSUME TypeOK, NEW c \in Clients, Writing(c) \/ SaveLosesRace(c), NEW d \in Clients \ {c}
  PROVE  pc'[d] = pc[d] /\ call'[d] = call[d]
  BY OthersKeep DEF Acts, Step, Writing

LEMMA ObjectTarget ==
  ASSUME TypeOK, NEW c \in Clients, pc[c] \in Saving, Target(c) \in Objects
  PROVE  \/ /\ pc[c] = "saveObject" /\ call[c] \in DepositCalls /\ call[c].object = Target(c)
            /\ call[c].kind = "deposit"
         \/ /\ pc[c] = "importSave" /\ call[c].kind = "import" /\ call[c].path = Target(c)
            /\ Target(c) \in imported /\ Target(c) \in suspect
<1>1. CASE pc[c] = "saveObject"
  BY <1>1 DEF TypeOK, Target, DepositCalls
<1>2. CASE pc[c] = "importSave"
  BY <1>2, ImportTarget
<1>3. CASE pc[c] = "save"
  <2>1. call[c] \in Calls /\ call[c].kind # "import" /\ call[c].path \in Objects
    BY <1>3, SavingType DEF TypeOK, Target
  <2>2. QED
    BY <2>1, PathAssumption DEF Calls, DepositCalls, RelateCalls, ReviseCalls, RecordCalls, ImportCalls
<1>4. QED
  BY <1>1, <1>2, <1>3 DEF Saving

(* An object's directory is accounted for after a save of one of its       *)
(* records, and of any other.                                              *)
LEMMA FaultObjects ==
  ASSUME TypeOK, FaultInv, NEW c \in Clients, Writing(c)
  PROVE  ObjectsAccounted' /\ DirsFirst'
<1>1. /\ \A p \in Paths \ {Target(c)} : file'[p] = file[p]
      /\ \A p \in Paths : Exists(p) => Exists(p)'
  BY WrittenFiles
<1>2. /\ pc[c] \in Saving /\ suspect \cup Touched(c) \subseteq suspect'
      /\ FailSaving(c) => Wreck(c) \subseteq suspect'
      /\ Scribble(c) => Overlapped(c)
      /\ dirs' = dirs
  BY WritingStep
<1>3. Objects \subseteq Paths /\ Versions \subseteq Paths /\ dirs \subseteq Objects
  BY DEF Paths, TypeOK
<1>4. pc'[c] \notin {"saveObject", "importSave"} \/ (pc'[c] = pc[c] /\ call'[c] = call[c])
  BY DEF Writing, SaveObject, SaveAndReturn, ImportSave, Scribble, FailSaving, Leave, Goto, TypeOK
<1>5. DirsFirst'
  <2>1. ASSUME NEW o \in Objects \ dirs PROVE file'[o] = Missing
    <3>1. Target(c) # o
      BY <1>2, ObjectTarget DEF FaultInv, DirsFirst
    <3>2. QED
      BY <1>1, <1>3, <3>1 DEF FaultInv, DirsFirst
  <2>2. ASSUME NEW d \in Clients, pc'[d] = "saveObject" PROVE call'[d].object \in dirs
    BY <1>4, <2>2, OthersStay DEF FaultInv, DirsFirst
  <2>3. ASSUME NEW d \in Clients, pc'[d] = "importSave", call'[d].path \in Objects
        PROVE  call'[d].path \in dirs
    BY <1>4, <2>3, OthersStay DEF FaultInv, DirsFirst
  <2>4. QED
    BY <1>2, <2>1, <2>2, <2>3 DEF DirsFirst
<1>6. ASSUME NEW o \in dirs, o \notin suspect' PROVE ObjectWhole(o)' \/ ObjectPending(o)'
  <2>1. CASE Target(c) = o
    <3>1. pc[c] = "saveObject" /\ call[c] \in DepositCalls /\ call[c].object = o /\ call[c].kind = "deposit"
      BY <1>2, <1>3, <1>6, <2>1, ObjectTarget
    <3>2. ~Overlapped(c) /\ ~FailSaving(c)
      BY <1>2, <1>6, <2>1, <3>1 DEF Touched, Wreck
    <3>3. SaveObject(c)
      BY <1>2, <3>1, <3>2 DEF Writing, SaveAndReturn, ImportSave
    <3>4. PICK x \in Landed(c) : file' = [file EXCEPT ![o] = x]
      BY <2>1, <3>3 DEF SaveObject
    <3>5. file'[o] = Content(c)
      BY <1>3, <3>2, <3>4, LandedAlone DEF TypeOK
    <3>6. file'[o] \in ObjectRecords /\ file'[o].latest = call[c].path
      BY <3>1, <3>5 DEF Content, ObjectRecords, DepositCalls
    <3>7. pc'[c] = "save" /\ call' = call
      BY <3>3 DEF SaveObject, Goto, TypeOK
    <3>8. QED
      BY <3>1, <3>6, <3>7 DEF ObjectWhole, Depositing
  <2>2. CASE Target(c) # o
    <3>1. file'[o] = file[o]
      BY <1>1, <1>3, <2>2
    <3>2. CASE ObjectPending(o)
      <4>1. PICK d \in Clients : Depositing(d, o, "saveObject")
        BY <3>2 DEF ObjectPending
      <4>2. d # c
        BY <2>2, <4>1 DEF Depositing, Target
      <4>3. Depositing(d, o, "saveObject")'
        BY <4>1, <4>2, OthersStay DEF Depositing
      <4>4. QED
        BY <3>1, <3>2, <4>3 DEF ObjectPending
    <3>3. CASE ObjectWhole(o)
      <4>1. file[o].latest \in Versions
        BY <3>3 DEF ObjectWhole, ObjectRecords
      <4>2. CASE Exists(file[o].latest)
        BY <1>1, <1>3, <3>1, <3>3, <4>1, <4>2 DEF ObjectWhole, Exists
      <4>3. ASSUME NEW d \in Clients, Depositing(d, o, "save"), call[d].path = file[o].latest
            PROVE  ObjectWhole(o)'
        <5>1. CASE d # c
          <6>1. Depositing(d, o, "save")' /\ call'[d].path = file'[o].latest
            BY <3>1, <4>3, <5>1, OthersStay DEF Depositing
          <6>2. QED
            BY <3>1, <3>3, <6>1 DEF ObjectWhole
        <5>2. CASE d = c /\ Scribble(c)
          <6>1. Depositing(d, o, "save")' /\ call'[d].path = file'[o].latest
            BY <3>1, <4>3, <5>2 DEF Scribble, Depositing
          <6>2. QED
            BY <3>1, <3>3, <6>1 DEF ObjectWhole
        <5>3. CASE d = c /\ SaveAndReturn(c)
          <6>1. Target(c) = file[o].latest
            BY <4>3, <5>3 DEF Target, Depositing
          <6>2. PICK x \in Landed(c) : file' = [file EXCEPT ![file[o].latest] = x]
            BY <5>3, <6>1 DEF SaveAndReturn
          <6>3. file'[file[o].latest] = x /\ x # Missing
            BY <1>2, <1>3, <4>1, <6>2, LandedType DEF TypeOK
          <6>4. QED
            BY <3>1, <3>3, <6>3 DEF ObjectWhole, Exists
        <5>4. CASE d = c /\ (SaveObject(c) \/ FailSaving(c))
          BY <1>2, <1>6, <4>3, <5>4 DEF SaveObject, Wreck, Depositing
        <5>5. CASE d = c /\ ImportSave(c)
          BY <4>3, <5>5 DEF ImportSave, Depositing
        <5>6. QED
          BY <5>1, <5>2, <5>3, <5>4, <5>5 DEF Writing
      <4>4. QED
        BY <3>3, <4>2, <4>3 DEF ObjectWhole
    <3>4. QED
      BY <1>2, <1>6, <3>2, <3>3 DEF FaultInv, ObjectsAccounted
  <2>3. QED
    BY <2>1, <2>2
<1>7. QED
  BY <1>2, <1>5, <1>6 DEF ObjectsAccounted

(* A save that loses its race writes nothing, and owns up to its object.   *)
LEMMA FaultLost ==
  ASSUME TypeOK, FaultInv, NEW c \in Clients, SaveLosesRace(c)
  PROVE  FaultInv'
<1>1. UNCHANGED <<file, dirs>> /\ suspect' = suspect \cup Wreck(c) /\ pc'[c] = "idle"
  BY DEF SaveLosesRace, disk, Leave, Goto, TypeOK
<1>2. \A p : Exists(p)' <=> Exists(p)
  BY <1>1 DEF Exists
<1>3. ASSUME NEW o \in dirs, o \notin suspect' PROVE ObjectWhole(o)' \/ ObjectPending(o)'
  <2>1. \A d \in Clients : (Depositing(d, o, "save") \/ Depositing(d, o, "saveObject")) => d # c
    BY <1>1, <1>3 DEF Depositing, Wreck
  <2>2. ObjectWhole(o) \/ ObjectPending(o)
    BY <1>1, <1>3 DEF FaultInv, ObjectsAccounted
  <2>3. \A d \in Clients \ {c} : pc'[d] = pc[d] /\ call'[d] = call[d]
    BY OthersStay
  <2>4. CASE ObjectWhole(o)
    BY <1>1, <1>2, <2>1, <2>3, <2>4 DEF ObjectWhole, Depositing
  <2>5. CASE ObjectPending(o)
    BY <1>1, <2>1, <2>3, <2>5 DEF ObjectPending, Depositing
  <2>6. QED
    BY <2>2, <2>4, <2>5
<1>4. RelationsAccounted' /\ RecordsAccounted'
  BY <1>1, <1>2 DEF FaultInv, RelationsAccounted, RecordsAccounted, RelationFault, RecordFault
<1>5. DirsFirst'
  BY <1>1, OthersStay DEF FaultInv, DirsFirst
<1>6. QED
  BY <1>1, <1>3, <1>4, <1>5 DEF FaultInv, ObjectsAccounted

(* A step that saves nothing and makes no directory, except on its way out.*)
LEMMA FaultPassing ==
  ASSUME TypeOK, FaultInv, NEW c \in Clients, Call(c) \/ Step(c) \/ Fail(c),
         ~Writing(c), ~SaveLosesRace(c), ~MakeDir(c), \A e \in Entries : ~ImportNext(c, e[1], e[2])
  PROVE  FaultInv'
<1>1. file' = file
  BY QuietStep
<1>2. pc[c] \notin Saving /\ pc'[c] \notin {"saveObject", "importSave"}
  <2>1. CASE Call(c)
    BY <2>1 DEF Call, DepositTo, DepositNew, Relate, Revise, Record, Import, Begin, BeginAudit, Goto,
       TypeOK, Saving
  <2>2. CASE LookupNew(c) \/ LookupUnread(c) \/ LookupFound(c) \/ Reread(c) \/ RereadFails(c)
             \/ ImportAudit(c)
    BY <2>2 DEF LookupNew, LookupUnread, LookupFound, Reread, RereadFails, ImportAudit, BeginAudit, Leave,
       Goto, TypeOK, Saving
  <2>3. CASE AuditOne(c) \/ NextPhase(c) \/ Reject(c) \/ ImportReturns(c)
    BY <2>3 DEF AuditOne, NextPhase, Reject, ImportReturns, Leave, Goto, TypeOK, Saving, Auditing
  <2>4. CASE Sanctioned(c)
    <3>1. PICK label \in {"mkdir", "check", "save"} : Goto(c, label)
      BY <2>4 DEF Sanctioned
    <3>2. QED
      BY <2>4, <3>1 DEF Sanctioned, Goto, TypeOK, Saving
  <2>5. CASE CheckFound(c) \/ VersionNotFound(c) \/ Fail(c)
    BY <2>5 DEF CheckFound, VersionNotFound, Fail, Leave, Goto, TypeOK, Saving
  <2>6. QED
    BY <2>1, <2>2, <2>3, <2>4, <2>5 DEF Step, Writing
<1>3. \A d \in Clients \ {c} : pc'[d] = pc[d] /\ call'[d] = call[d]
  BY OthersKeep DEF Acts
<1>4. CASE Fail(c)
  <2>1. /\ suspect \subseteq suspect' /\ dirs \subseteq dirs' /\ dirs' \subseteq Objects
        /\ \A o \in dirs' \ dirs : o \in suspect'
    BY <1>4 DEF Fail, TypeOK, DepositCalls
  <2>2. QED
    BY <1>1, <1>2, <1>3, <2>1, FaultQuiet DEF FaultInv, DirsFirst, TypeOK
<1>5. CASE ~Fail(c)
  <2>1. dirs' = dirs /\ suspect' = suspect
    <3>1. CASE Call(c)
      BY <3>1 DEF Call, disk, DepositTo, DepositNew, Relate, Revise, Record, Import, Begin
    <3>2. CASE Step(c)
      BY <3>2 DEF Writing, Step, disk, observers, LookupNew, LookupUnread, LookupFound, Reread,
         RereadFails, AuditOne, NextPhase, Reject, Sanctioned, CheckFound, VersionNotFound,
         ImportAudit, ImportReturns
    <3>3. QED
      BY <1>5, <3>1, <3>2
  <2>2. QED
    BY <1>1, <1>2, <1>3, <2>1, FaultQuiet DEF FaultInv, DirsFirst, TypeOK
<1>6. QED
  BY <1>4, <1>5

(* An import that comes to an object makes its directory, and owns up to   *)
(* it at once.                                                             *)
LEMMA FaultNext ==
  ASSUME TypeOK, FaultInv, NEW c \in Clients, NEW p, NEW x, ImportNext(c, p, x)
  PROVE  FaultInv'
<1>1. /\ file' = file /\ pc[c] = "import" /\ pc'[c] = "importSave" /\ call'[c].path = p
      /\ dirs' = dirs \cup ({p} \cap Objects) /\ suspect' = suspect \cup {p}
  BY CallKinds DEF ImportNext, Goto, TypeOK, Importing, ImportCalls
<1>2. \A d \in Clients \ {c} : pc'[d] = pc[d] /\ call'[d] = call[d]
  BY DEF ImportNext, Goto, TypeOK
<1>3. dirs' \subseteq Objects
  BY <1>1 DEF TypeOK
<1>4. QED
  BY <1>1, <1>2, <1>3, FaultQuiet DEF FaultInv, DirsFirst, Saving

(* A new directory is owed a record by the deposit that made it.           *)
LEMMA FaultMakeDir ==
  ASSUME TypeOK, FaultInv, NEW c \in Clients, MakeDir(c)
  PROVE  FaultInv'
<1>1. /\ pc[c] = "mkdir" /\ dirs' = dirs \cup {call[c].object} /\ pc'[c] = "saveObject"
      /\ UNCHANGED <<file, call, suspect>>
      /\ \A d \in Clients \ {c} : pc'[d] = pc[d]
  BY DEF MakeDir, Goto, TypeOK, observers, history
<1>2. call[c].object \in Objects /\ call[c].kind = "deposit"
  BY <1>1 DEF TypeOK, DepositCalls
<1>3. \A o \in dirs' \ dirs : ObjectPending(o)'
  BY <1>1, <1>2 DEF FaultInv, DirsFirst, ObjectPending, Depositing
<1>4. QED
  BY <1>1, <1>2, <1>3, FaultQuiet DEF FaultInv, DirsFirst, TypeOK, Saving

LEMMA FaultStep == ASSUME TypeOK, FaultInv, [Next]_vars PROVE FaultInv'
<1>1. CASE UNCHANGED vars
  BY <1>1, FaultQuiet DEF vars, FaultInv, DirsFirst, TypeOK
<1>2. ASSUME NEW c \in Clients, Writing(c) PROVE FaultInv'
  BY <1>2, FaultWriting, FaultObjects DEF FaultInv
<1>3. ASSUME NEW c \in Clients, Call(c) \/ Step(c) \/ Fail(c), ~Writing(c) PROVE FaultInv'
  BY <1>3, FaultLost, FaultMakeDir, FaultNext, FaultPassing
<1>4. QED
  BY <1>1, <1>2, <1>3 DEF Next, Writing

LEMMA FaultInit == Init => FaultInv
  BY PathAssumption DEF Init, FaultInv, ObjectsAccounted, RelationsAccounted, RecordsAccounted,
     DirsFirst, Exists, Paths

(* A deposit saves the object record before the version it names, and no   *)
(* step repairs another's work; still every fault an audit would find is   *)
(* the work of a deposit that is still running, or was touched by a        *)
(* failure, by overlapping saves, or by a relation to nowhere.             *)
THEOREM EveryFaultAccounted == Spec => []FaultsAccounted
<1>1. Init => FaultInv
  BY FaultInit
<1>2. TypeOK /\ FaultInv /\ [Next]_vars => FaultInv'
  BY FaultStep
<1>3. TypeOK /\ FaultInv => FaultsAccounted
  BY FaultInvSuffices
<1>4. QED
  BY TypeCorrect, <1>1, <1>2, <1>3, PTL DEF Spec
=============================================================================
