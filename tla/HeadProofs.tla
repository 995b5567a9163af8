------------------------------ MODULE HeadProofs -----------------------------
(***************************************************************************)
(* What the record of an object may become, when deposits to it overlap:   *)
(* proofs of ClassFromCreator and HeadNotOvertaken of FileStore.           *)
(***************************************************************************)
EXTENDS FileStoreProofs

Deposits(c) == call[c].kind = "deposit"

(* Only a save under way has met others.                                   *)
NoneMet == \A c \in Clients : pc[c] \notin Saving => met[c] = {}

(***************************************************************************)
(* Classes.  Whatever may yet become the record of an object has a class   *)
(* that some deposit created it with, or that an import brought, unless a  *)
(* deposit could not read the record that was there.                       *)
(***************************************************************************)
Decided == Auditing \cup {"mkdir"} \cup Saving

ClassDecided ==
  /\ \A c \in Clients : Deposits(c) /\ pc[c] \in Decided /\ call[c].object \notin misread =>
                         call[c].class \in createdAs[call[c].object]
  /\ \A c \in Clients : pc[c] = "importSave" /\ call[c].path \in Objects =>
                         call[c].body.class \in createdAs[call[c].path]

ClassMet == \A c \in Clients : pc[c] \in Saving /\ Target(c) \in Objects \ misread =>
              \A x \in met[c] \cap ObjectRecords : x.class \in createdAs[Target(c)]

ClassInv == NoneMet /\ ClassDecided /\ ClassMet /\ ClassFromCreator

(***************************************************************************)
(* Heads.  The version of a deposit under way is its own and has not been  *)
(* acknowledged; one that a failed deposit left to a rival never will be.  *)
(***************************************************************************)
Unacked(v) == v \in minted /\ \A o \in Objects : <<o, v>> \notin acked

Abandoned(v) == Unacked(v) /\ \A d \in Clients : Deposits(d) => call[d].path # v

OwnVersions == \A c \in Clients : Deposits(c) =>
                 /\ Unacked(call[c].path)
                 /\ \A d \in Clients \ {c} : Deposits(d) => call[d].path # call[c].path

AckedMinted == /\ \A a \in acked : a[2] \in minted
               /\ overtaken \subseteq acked
               /\ \A c \in Clients : prior[c] \subseteq acked

HeadsMet == \A c \in Clients : pc[c] = "saveObject" /\ call[c].object \notin imported =>
              \A x \in met[c] \cap ObjectRecords : Abandoned(x.latest)

(* A deposit that has saved its object record finds there, until it        *)
(* returns, a head that was not acknowledged when it began, or an imported *)
(* one.                                                                    *)
HeadsSaved == \A c \in Clients :
                /\ Deposits(c) /\ pc[c] = "save" /\ call[c].object \notin imported
                /\ file[call[c].object] \in ObjectRecords
                => <<call[c].object, file[call[c].object].latest>> \notin prior[c]

HeadInv == NoneMet /\ OwnVersions /\ AckedMinted /\ HeadsMet /\ HeadsSaved /\ HeadNotOvertaken

(***************************************************************************)
(* What a step leaves of the saves under way, and of the client's own call.*)
(***************************************************************************)
LEMMA EndsOrNot ==
  ASSUME NEW c \in Clients, Acts(c)
  PROVE  \/ UNCHANGED met
         \/ (SaveObject(c) \/ SaveAndReturn(c) \/ ImportSave(c)) /\ Meet(c, {Torn})
         \/ SaveLosesRace(c) /\ Meet(c, {})
         \/ FailSaving(c) /\ (Meet(c, {Content(c)}) \/ Meet(c, {Torn}))
<1>1. CASE Call(c)
  BY <1>1 DEF Call, DepositTo, DepositNew, Relate, Revise, Record, Import, Begin
<1>2. CASE Step(c)
  BY <1>2 DEF Step, LookupNew, LookupUnread, LookupFound, Reread, RereadFails, AuditOne, NextPhase,
     Reject, Sanctioned, MakeDir, CheckFound, VersionNotFound, SaveObject, SaveAndReturn,
     SaveLosesRace, ImportNext, ImportSave, ImportAudit, ImportReturns
<1>3. CASE Scribble(c) \/ Fail(c) \/ FailSaving(c)
  BY <1>3 DEF Scribble, Fail, FailSaving
<1>4. QED
  BY <1>1, <1>2, <1>3 DEF Acts

(* What a save has met grows only by what a rival of the same target left. *)
LEMMA OthersMeet ==
  ASSUME TypeOK, NEW c \in Clients, Acts(c), NEW d \in Clients, d # c
  PROVE  \/ met'[d] \subseteq met[d] \cup {Torn}
         \/ /\ met'[d] \subseteq met[d] \cup {Content(c)}
            /\ FailSaving(c) /\ d \in Rivals(c)
  BY EndsOrNot DEF Meet, TypeOK

LEMMA OwnMet ==
  ASSUME TypeOK, NoneMet, NEW c \in Clients, Acts(c), met'[c] # {}
  PROVE  Scribble(c) /\ pc'[c] = pc[c] /\ call'[c] = call[c] /\ met'[c] = met[c]
<1>1. met' = met
  BY EndsOrNot DEF Meet
<1>2. pc[c] \in Saving
  BY <1>1 DEF NoneMet
<1>3. ~Call(c) /\ ~Fail(c)
  BY <1>2 DEF Call, DepositTo, DepositNew, Relate, Revise, Record, Import, Begin, Fail, Saving
<1>4. ASSUME NEW left, Meet(c, left) PROVE FALSE
  BY <1>4 DEF Meet
<1>5. ~Step(c)
  BY <1>2, <1>4 DEF Step, LookupNew, LookupUnread, LookupFound, Reread, RereadFails, AuditOne,
     NextPhase, Reject, Sanctioned, MakeDir, CheckFound, VersionNotFound, SaveObject, SaveAndReturn,
     SaveLosesRace, ImportNext, ImportSave, ImportAudit, ImportReturns, Saving, Auditing
<1>6. Scribble(c)
  BY <1>3, <1>4, <1>5 DEF Acts, FailSaving
<1>7. QED
  BY <1>6 DEF Scribble

LEMMA NoneMetStep == ASSUME TypeOK, NoneMet, [Next]_vars PROVE NoneMet'
<1>1. CASE UNCHANGED vars
  BY <1>1 DEF vars, NoneMet
<1>2. ASSUME NEW c \in Clients, Acts(c) PROVE NoneMet'
  <2> SUFFICES ASSUME NEW d \in Clients, met'[d] # {} PROVE pc'[d] \in Saving
    BY DEF NoneMet
  <2>1. CASE d = c
    BY <1>2, <2>1, OwnMet DEF Scribble
  <2>2. CASE d # c
    <3>1. pc'[d] = pc[d]
      BY <1>2, <2>2, OthersKeep
    <3>2. met[d] # {} \/ d \in Rivals(c)
      BY <1>2, <2>2, EndsOrNot DEF Meet, TypeOK
    <3>3. QED
      BY <3>1, <3>2 DEF NoneMet, Rivals
  <2>3. QED
    BY <2>1, <2>2
<1>3. QED
  BY <1>1, <1>2 DEF Next, Acts

LEMMA Kinds ==
  ASSUME TypeOK, NEW c \in Clients
  PROVE  /\ Deposits(c) => pc[c] # "idle" /\ call[c] \in DepositCalls
         /\ pc[c] \in Before \cup {"mkdir", "saveObject"} => Deposits(c)
         /\ pc[c] \in Importing => ~Deposits(c)
         /\ pc[c] \in Saving /\ Target(c) \in Objects =>
              \/ Deposits(c) /\ pc[c] = "saveObject" /\ call[c].object = Target(c)
              \/ /\ ~Deposits(c) /\ pc[c] = "importSave" /\ call[c].path = Target(c)
                 /\ Target(c) \in imported
<1>1. pc[c] \in Importing => ~Deposits(c)
  BY DEF TypeOK, Deposits, ImportCalls
<1>2. Deposits(c) => pc[c] # "idle" /\ call[c] \in DepositCalls
  BY CallKinds DEF TypeOK, Deposits, NoCall
<1>3. pc[c] \in Before \cup {"mkdir", "saveObject"} => Deposits(c)
  BY DEF TypeOK, Deposits, DepositCalls
<1>4. QED
  BY <1>1, <1>2, <1>3, ObjectTarget DEF Deposits

(* What becomes of the call of the client that steps: it ends, begins, is  *)
(* decided, or goes on as it is.                                           *)
LEMMA CallStep ==
  ASSUME TypeOK, NEW c \in Clients, Acts(c)
  PROVE  \/ pc'[c] = "idle"
         \/ Call(c)
         \/ LookupNew(c) \/ LookupUnread(c) \/ Reread(c)
         \/ \E e \in Entries : ImportNext(c, e[1], e[2])
         \/ /\ call'[c] = call[c] /\ prior'[c] = prior[c] /\ pc[c] # "idle"
            /\ Deposits(c) /\ pc'[c] \in Decided => pc[c] \in Decided
            /\ pc'[c] = "saveObject" => MakeDir(c) \/ Scribble(c)
            /\ pc'[c] = "importSave" => Scribble(c)
            /\ Deposits(c) /\ pc'[c] = "save" => SaveObject(c) \/ (Scribble(c) /\ pc[c] = "save")
<1>1. ASSUME Leave(c) PROVE pc'[c] = "idle"
  BY <1>1 DEF Leave, Goto, TypeOK
<1>2. CASE LookupFound(c)
  BY <1>2 DEF LookupFound, Goto, TypeOK, Decided, Auditing, Saving, observers, history
<1>3. CASE AuditOne(c) \/ NextPhase(c)
  BY <1>3 DEF AuditOne, NextPhase, Goto, TypeOK, Decided, Auditing, Saving, observers, history
<1>4. CASE Sanctioned(c)
  <2>1. pc'[c] \in {"mkdir", "check", "save"} /\ (Deposits(c) => pc'[c] = "mkdir")
    BY <1>4 DEF Sanctioned, Goto, TypeOK, Deposits
  <2>2. QED
    BY <1>4, <2>1 DEF Sanctioned, Decided, Auditing, observers, history
<1>5. CASE MakeDir(c)
  BY <1>5 DEF MakeDir, Goto, TypeOK, Decided, Auditing, Saving, observers, history
<1>6. CASE CheckFound(c)
  <2>1. ~Deposits(c)
    BY <1>6 DEF CheckFound, TypeOK, ReviseCalls, Deposits
  <2>2. pc'[c] = "save" /\ call'[c] = call[c] /\ prior'[c] = prior[c] /\ pc[c] = "check"
    BY <1>6 DEF CheckFound, Goto, TypeOK, observers, history
  <2>3. QED
    BY <2>1, <2>2
<1>7. CASE SaveObject(c)
  BY <1>7 DEF SaveObject, Goto, TypeOK, Decided, Saving
<1>8. CASE Scribble(c)
  BY <1>8 DEF Scribble, Decided, Saving
<1>9. CASE RereadFails(c) \/ Reject(c) \/ VersionNotFound(c) \/ SaveAndReturn(c) \/ SaveLosesRace(c)
           \/ ImportReturns(c) \/ Fail(c) \/ FailSaving(c)
  BY <1>1, <1>9 DEF RereadFails, Reject, VersionNotFound, SaveAndReturn, SaveLosesRace, ImportReturns,
     Fail, FailSaving
<1>10. CASE ImportSave(c) \/ ImportAudit(c)
  <2>1. ~Deposits(c)
    BY <1>10, Kinds DEF ImportSave, ImportAudit, Importing
  <2>2. /\ call'[c] = call[c] /\ prior'[c] = prior[c] /\ pc[c] # "idle"
        /\ pc'[c] \in {"import", "auditObjects"}
    BY <1>10 DEF ImportSave, ImportAudit, BeginAudit, Goto, TypeOK, observers, history
  <2>3. QED
    BY <2>1, <2>2
<1>11. QED
  BY <1>2, <1>3, <1>4, <1>5, <1>6, <1>7, <1>8, <1>9, <1>10 DEF Acts, Step

(***************************************************************************)
(* ClassFromCreator.                                                       *)
(***************************************************************************)
LEMMA CreatedGrows ==
  ASSUME TypeOK, NEW c \in Clients, Acts(c)
  PROVE  /\ \A o \in Objects : createdAs[o] \subseteq createdAs'[o]
         /\ misread \subseteq misread' /\ imported \subseteq imported'
<1>1. CASE Call(c)
  BY <1>1 DEF Call, DepositTo, DepositNew, Relate, Revise, Record, Import, Begin, TypeOK
<1>2. CASE LookupNew(c) \/ LookupUnread(c)
  BY <1>2 DEF LookupNew, LookupUnread, TypeOK
<1>3. ASSUME NEW e \in Entries, ImportNext(c, e[1], e[2])
      PROVE  /\ \A o \in Objects : createdAs[o] \subseteq createdAs'[o]
             /\ misread \subseteq misread' /\ imported \subseteq imported'
  BY <1>3 DEF ImportNext, TypeOK
<1>4. CASE Step(c) /\ ~LookupNew(c) /\ ~LookupUnread(c) /\ \A e \in Entries : ~ImportNext(c, e[1], e[2])
  BY <1>4 DEF Step, LookupFound, Reread, RereadFails, AuditOne, NextPhase, Reject,
     Sanctioned, MakeDir, CheckFound, VersionNotFound, SaveObject, SaveAndReturn, SaveLosesRace,
     ImportSave, ImportAudit, ImportReturns, observers, history
<1>5. CASE Scribble(c) \/ Fail(c) \/ FailSaving(c)
  BY <1>5 DEF Scribble, Fail, FailSaving, history
<1>6. QED
  BY <1>1, <1>2, <1>3, <1>4, <1>5 DEF Acts

LEMMA BeginCall ==
  ASSUME TypeOK, NEW c \in Clients,
         NEW kind, NEW object, NEW class, NEW path, NEW body,
         Begin(c, kind, object, class, path, body)
  PROVE  /\ call'[c].kind = kind /\ call'[c].object = object /\ call'[c].class = class
         /\ call'[c].path = path
<1>1. call'[c] = [kind |-> kind, object |-> object, class |-> class, path |-> path, body |-> body]
  BY DEF Begin, TypeOK
<1>2. QED
  BY <1>1

LEMMA ClassDecidedStep ==
  ASSUME TypeOK, TypeOK', ClassInv, NEW c \in Clients, Acts(c), NEW d \in Clients,
         Deposits(d)', pc'[d] \in Decided, call'[d].object \notin misread'
  PROVE  call'[d].class \in createdAs'[call'[d].object]
<1>1. (\A o \in Objects : createdAs[o] \subseteq createdAs'[o]) /\ misread \subseteq misread'
  BY CreatedGrows
<1>2. ASSUME call'[d] = call[d], pc[d] \in Decided
      PROVE  call'[d].class \in createdAs'[call'[d].object]
  <2>1. Deposits(d) /\ call[d].object \in Objects /\ call[d].object \notin misread
    BY <1>1, <1>2, Kinds DEF Deposits, DepositCalls
  <2>2. QED
    BY <1>1, <1>2, <2>1 DEF ClassInv, ClassDecided
<1>3. CASE d # c
  BY <1>2, <1>3, OthersKeep
<1>4. CASE d = c
  <2>1. pc'[c] # "idle"
    BY <1>4, Kinds DEF Decided, Auditing, Saving
  <2>2. CASE Call(c)
    <3>1. PICK o \in Objects, k \in Classes, v \in Versions, b \in Payloads : DepositNew(c, o, k, v, b)
      <4>1. ASSUME NEW o \in Objects, NEW k \in Classes, NEW v \in Versions, NEW b \in Payloads,
                   DepositTo(c, o, k, v, b)
            PROVE  FALSE
        BY <1>4, <4>1 DEF DepositTo, Goto, TypeOK, Decided, Auditing, Saving
      <4>2. ASSUME NEW path, NEW body, NEW kind, kind # "deposit",
                   Begin(c, kind, Nothing, Nothing, path, body)
            PROVE  FALSE
        <5>1. call'[c].kind = kind
          BY <4>2, BeginCall
        <5>2. QED
          BY <1>4, <4>2, <5>1 DEF Deposits
      <4>3. QED
        BY <2>2, <4>1, <4>2 DEF Call, Relate, Revise, Record, Import
    <3>2. Begin(c, "deposit", o, k, v, b) /\ createdAs' = [createdAs EXCEPT ![o] = @ \cup {k}]
      BY <3>1 DEF DepositNew
    <3>3. call'[c].object = o /\ call'[c].class = k
      BY <3>2, BeginCall
    <3>4. QED
      BY <1>4, <3>2, <3>3 DEF TypeOK
  <2>3. CASE LookupNew(c)
    <3>1. call[c] \in DepositCalls /\ call' = call
      BY <2>3 DEF LookupNew, TypeOK, Before
    <3>2. QED
      BY <1>4, <2>3, <3>1 DEF LookupNew, TypeOK, DepositCalls
  <2>4. CASE Reread(c)
    <3>1. /\ call[c] \in DepositCalls /\ file[call[c].object] \in ObjectRecords
          /\ createdAs' = createdAs /\ misread' = misread
      BY <2>4 DEF Reread, TypeOK, Before, observers, history
    <3>2. call'[c] = [call[c] EXCEPT !.class = file[call[c].object].class]
      BY <2>4 DEF Reread, TypeOK
    <3>3. call'[c].object = call[c].object /\ call'[c].class = file[call[c].object].class
      BY <3>1, <3>2 DEF DepositCalls
    <3>4. QED
      BY <1>4, <3>1, <3>3 DEF ClassInv, ClassFromCreator, DepositCalls
  <2>7. CASE LookupUnread(c)
    <3>1. misread' = misread \cup {call[c].object} /\ call' = call
      BY <2>7 DEF LookupUnread
    <3>2. QED
      BY <1>4, <3>1
  <2>8. ASSUME NEW e \in Entries, ImportNext(c, e[1], e[2]) PROVE FALSE
    <3>1. pc'[c] \in Importing
      BY <2>8 DEF ImportNext, Goto, TypeOK, Importing
    <3>2. call'[c] \in ImportCalls
      BY <3>1 DEF TypeOK
    <3>3. QED
      BY <1>4, <3>2 DEF Deposits, ImportCalls
  <2>5. CASE call'[c] = call[c] /\ (Deposits(c) /\ pc'[c] \in Decided => pc[c] \in Decided)
    BY <1>2, <1>4, <2>5 DEF Deposits
  <2>6. QED
    BY <2>1, <2>2, <2>3, <2>4, <2>5, <2>7, <2>8, CallStep
<1>5. QED
  BY <1>3, <1>4

LEMMA ClassImportStep ==
  ASSUME TypeOK, TypeOK', ClassInv, NEW c \in Clients, Acts(c), NEW d \in Clients,
         pc'[d] = "importSave", call'[d].path \in Objects
  PROVE  call'[d].body.class \in createdAs'[call'[d].path]
<1>1. CASE call'[d] = call[d] /\ pc[d] = "importSave"
  BY <1>1, CreatedGrows DEF ClassInv, ClassDecided
<1>2. ASSUME NEW e \in Entries, ImportNext(c, e[1], e[2]), d = c
      PROVE  call'[d].body.class \in createdAs'[call'[d].path]
  <2>1. PICK p, x : e = <<p, x>> /\ (p \in Objects => x \in ObjectRecords)
    BY PathAssumption DEF Entries
  <2>2. ImportNext(c, p, x)
    BY <1>2, <2>1
  <2>3. call'[c] = [call[c] EXCEPT !.path = p, !.body = x] /\ call[c] \in ImportCalls
    BY <2>2 DEF ImportNext, TypeOK, Importing
  <2>4. call'[c].path = p /\ call'[c].body = x
    BY <2>3 DEF ImportCalls
  <2>5. QED
    BY <1>2, <2>2, <2>4 DEF ImportNext, TypeOK
<1>3. QED
  <2>1. CASE d # c
    BY <1>1, <2>1, OthersKeep
  <2>2. CASE d = c
    <3>1. ~Call(c) /\ ~LookupNew(c) /\ ~LookupUnread(c) /\ ~Reread(c)
      BY <2>2 DEF Call, DepositTo, DepositNew, Relate, Revise, Record, Import, LookupNew, LookupUnread,
         Reread, BeginAudit, Goto, TypeOK
    <3>2. (\E e \in Entries : ImportNext(c, e[1], e[2])) \/ (call'[c] = call[c] /\ Scribble(c))
      BY <2>2, <3>1, CallStep
    <3>3. QED
      BY <1>1, <1>2, <2>2, <3>2 DEF Scribble
  <2>3. QED
    BY <2>1, <2>2

(* What a save of the object record may leave there.                       *)
LEMMA LandedClass ==
  ASSUME TypeOK, ClassInv, NEW c \in Clients, pc[c] \in Saving, Target(c) \in Objects \ misread,
         NEW x \in Landed(c) \cap ObjectRecords
  PROVE  x.class \in createdAs[Target(c)]
<1>1. ASSUME NEW d \in {c} \cup Rivals(c), x = Content(d)
      PROVE  x.class \in createdAs[Target(c)]
  <2>1. Target(d) = Target(c) /\ pc[d] \in Saving /\ d \in Clients
    BY DEF Rivals
  <2>2. CASE pc[d] = "saveObject" /\ Deposits(d) /\ call[d].object = Target(c)
    <3>1. x.class = call[d].class
      BY <1>1, <2>2 DEF Content
    <3>2. QED
      BY <2>1, <2>2, <3>1 DEF ClassInv, ClassDecided, Decided, Saving
  <2>3. CASE pc[d] = "importSave" /\ call[d].path = Target(c)
    BY <1>1, <2>1, <2>3 DEF Content, ClassInv, ClassDecided
  <2>4. QED
    BY <2>1, <2>2, <2>3, Kinds
<1>2. x # Torn
  BY SentinelAssumption
<1>3. CASE x \in met[c]
  BY <1>3 DEF ClassInv, ClassMet
<1>4. QED
  BY <1>1, <1>2, <1>3 DEF Landed, Published

LEMMA ClassMetStep ==
  ASSUME TypeOK, ClassInv, NEW c \in Clients, Acts(c)
  PROVE  ClassMet'
<1> SUFFICES ASSUME NEW d \in Clients, pc'[d] \in Saving, Target(d)' \in Objects \ misread',
                    NEW x \in met'[d] \cap ObjectRecords
             PROVE  x.class \in createdAs'[Target(d)']
  BY DEF ClassMet
<1>1. (\A o \in Objects : createdAs[o] \subseteq createdAs'[o]) /\ misread \subseteq misread'
  BY CreatedGrows
<1>2. call'[d] = call[d] /\ pc'[d] = pc[d]
  BY OwnMet, OthersKeep DEF ClassInv
<1>3. Target(d)' = Target(d) /\ pc[d] \in Saving /\ Target(d) \in Objects \ misread
  BY <1>1, <1>2 DEF Target
<1>4. CASE x \in met[d]
  BY <1>1, <1>3, <1>4 DEF ClassInv, ClassMet
<1>5. CASE x \notin met[d]
  <2>1. d # c /\ d \in Rivals(c) /\ x = Content(c)
    BY <1>5, OwnMet, OthersMeet, SentinelAssumption DEF ClassInv
  <2>2. c \in Rivals(d)
    BY <2>1 DEF Rivals
  <2>3. x \in Landed(d)
    BY <2>1, <2>2 DEF Landed, Published
  <2>4. QED
    BY <1>1, <1>3, <2>3, LandedClass
<1>6. QED
  BY <1>4, <1>5

(* The record of an object changes only in a save of that record.          *)
LEMMA HeadWritten ==
  ASSUME TypeOK, NEW c \in Clients, Acts(c), NEW o \in Objects, file'[o] # file[o]
  PROVE  /\ Writing(c) /\ pc[c] \in Saving /\ Target(c) = o /\ file'[o] \in Landed(c)
         /\ o \notin imported => pc[c] = "saveObject" /\ Deposits(c) /\ call[c].object = o
<1>1. Writing(c)
  BY QuietStep DEF Acts, Writing
<1>2. pc[c] \in Saving /\ o \in Paths
  BY <1>1, WritingStep DEF Paths
<1>3. Target(c) = o /\ file'[o] \in Landed(c)
  BY <1>1, <1>2, WrittenFiles
<1>4. QED
  BY <1>1, <1>2, <1>3, Kinds

LEMMA ClassStep == ASSUME TypeOK, TypeOK', ClassInv, [Next]_vars PROVE ClassInv'
<1>1. CASE UNCHANGED vars
  BY <1>1 DEF vars, ClassInv, NoneMet, ClassDecided, ClassMet, ClassFromCreator, Deposits, Target
<1>2. ASSUME NEW c \in Clients, Acts(c) PROVE ClassInv'
  <2>1. (\A o \in Objects : createdAs[o] \subseteq createdAs'[o]) /\ misread \subseteq misread'
    BY <1>2, CreatedGrows
  <2>2. ASSUME NEW o \in Objects \ misread', file'[o] \in ObjectRecords
        PROVE  file'[o].class \in createdAs'[o]
    BY <1>2, <2>1, <2>2, HeadWritten, LandedClass DEF ClassInv, ClassFromCreator
  <2>3. ClassDecided'
    BY <1>2, ClassDecidedStep, ClassImportStep DEF ClassDecided
  <2>4. QED
    BY <1>2, <2>2, <2>3, NoneMetStep, ClassMetStep DEF ClassInv, ClassFromCreator, Acts, Next
<1>3. QED
  BY <1>1, <1>2 DEF Next, Acts

LEMMA ClassInit == Init => ClassInv
  BY SentinelAssumption DEF Init, ClassInv, NoneMet, ClassDecided, ClassMet, ClassFromCreator,
     Deposits, NoCall, Paths

(* The class of an object was given by a deposit that found no record      *)
(* under its id or by an import, however calls overlap and wherever they   *)
(* fail, unless the look-up of some deposit could not read the record      *)
(* (deposit_object, sanctioned.rs:42-91).                                  *)
THEOREM ClassKept == Spec => []ClassFromCreator
<1>1. TypeOK /\ TypeOK' /\ ClassInv /\ [Next]_vars => ClassInv'
  BY ClassStep
<1>2. ClassInv => ClassFromCreator
  BY DEF ClassInv
<1>3. QED
  BY TypeCorrect, ClassInit, <1>1, <1>2, PTL DEF Spec

(***************************************************************************)
(* HeadNotOvertaken.                                                       *)
(***************************************************************************)
LEMMA BeginIds ==
  ASSUME TypeOK, NEW c \in Clients, Call(c)
  PROVE  /\ prior'[c] = acked
         /\ call'[c].kind = "deposit" => /\ call'[c].path \in minted' \ minted
                                         /\ pc'[c] # "save"
<1>1. ASSUME NEW o \in Objects, NEW k \in Classes, NEW v \in Versions, NEW b \in Payloads,
             DepositTo(c, o, k, v, b) \/ DepositNew(c, o, k, v, b)
      PROVE  prior'[c] = acked /\ call'[c].path \in minted' \ minted /\ pc'[c] # "save"
  <2>1. Begin(c, "deposit", o, k, v, b)
    BY <1>1 DEF DepositTo, DepositNew
  <2>2. call'[c].path = v /\ prior'[c] = acked
    BY <2>1, BeginCall DEF Begin, TypeOK
  <2>3. v \in minted' \ minted /\ pc'[c] # "save"
    BY <1>1 DEF DepositTo, DepositNew, BeginAudit, Goto, TypeOK
  <2>4. QED
    BY <2>2, <2>3
<1>2. ASSUME NEW kind, kind # "deposit", NEW path, NEW body,
             Begin(c, kind, Nothing, Nothing, path, body)
      PROVE  prior'[c] = acked /\ call'[c].kind # "deposit"
  BY <1>2, BeginCall DEF Begin, TypeOK
<1>3. QED
  BY <1>1, <1>2 DEF Call, Relate, Revise, Record, Import

(* A deposit under way after a step was under way, or has just begun.      *)
LEMMA DepositStep ==
  ASSUME TypeOK, TypeOK', NEW c \in Clients, Acts(c), NEW d \in Clients, Deposits(d)'
  PROVE  \/ /\ Deposits(d) /\ call'[d].path = call[d].path /\ call'[d].object = call[d].object
            /\ prior'[d] = prior[d]
            /\ d = c => ~SaveAndReturn(c)
            /\ pc'[d] = "save" => pc[d] = "save" \/ (d = c /\ SaveObject(c))
         \/ /\ d = c /\ prior'[d] = acked /\ call'[d].path \in minted' \ minted
            /\ ~SaveAndReturn(c) /\ pc'[d] # "save"
<1>1. CASE d # c
  BY <1>1, OthersKeep DEF Deposits
<1>2. CASE d = c
  <2>1. pc'[c] # "idle" /\ ~SaveAndReturn(c)
    <3>1. pc'[c] # "idle"
      BY <1>2, Kinds, TypeOK' DEF Deposits, TypeOK, NoCall
    <3>2. QED
      BY <3>1 DEF SaveAndReturn, Leave, Goto, TypeOK
  <2>2. CASE Call(c)
    BY <1>2, <2>1, <2>2, BeginIds DEF Deposits
  <2>3. CASE LookupNew(c) \/ LookupUnread(c)
    BY <1>2, <2>1, <2>3 DEF LookupNew, LookupUnread, BeginAudit, Goto, TypeOK, Deposits
  <2>4. CASE Reread(c)
    <3>1. call[c] \in DepositCalls /\ prior' = prior /\ pc'[c] = "auditObjects"
      BY <2>4 DEF Reread, TypeOK, Before, observers, history, BeginAudit, Goto
    <3>2. call'[c] = [call[c] EXCEPT !.class = file[call[c].object].class]
      BY <2>4 DEF Reread, TypeOK
    <3>3. call'[c].object = call[c].object /\ call'[c].path = call[c].path /\ Deposits(c)
      BY <3>1, <3>2 DEF DepositCalls, Deposits
    <3>4. QED
      BY <1>2, <2>1, <3>1, <3>3
  <2>5. CASE /\ call'[c] = call[c] /\ prior'[c] = prior[c]
             /\ Deposits(c) /\ pc'[c] = "save" => SaveObject(c) \/ (Scribble(c) /\ pc[c] = "save")
    BY <1>2, <2>1, <2>5 DEF Deposits
  <2>6. ASSUME NEW e \in Entries, ImportNext(c, e[1], e[2]) PROVE FALSE
    <3>1. pc'[c] \in Importing
      BY <2>6 DEF ImportNext, Goto, TypeOK, Importing
    <3>2. call'[c] \in ImportCalls
      BY <3>1 DEF TypeOK
    <3>3. QED
      BY <1>2, <3>2 DEF Deposits, ImportCalls
  <2>7. QED
    BY <2>1, <2>2, <2>3, <2>4, <2>5, <2>6, CallStep
<1>3. QED
  BY <1>1, <1>2

(* Only the return of a deposit acknowledges one.                          *)
LEMMA AckStep ==
  ASSUME NEW c \in Clients, Acts(c)
  PROVE  /\ minted \subseteq minted'
         /\ \/ UNCHANGED <<acked, overtaken>>
            \/ /\ SaveAndReturn(c) /\ Deposits(c)
               /\ acked' = acked \cup {<<call[c].object, call[c].path>>}
               /\ overtaken' = overtaken \cup {a \in prior[c] : a[1] = call[c].object}
<1>1. CASE Call(c)
  BY <1>1 DEF Call, DepositTo, DepositNew, Relate, Revise, Record, Import, Begin
<1>2. CASE SaveAndReturn(c)
  BY <1>2 DEF SaveAndReturn, Deposits
<1>3. CASE Step(c) /\ ~SaveAndReturn(c)
  BY <1>3 DEF Step, LookupNew, LookupUnread, LookupFound, Reread, RereadFails, AuditOne, NextPhase,
     Reject, Sanctioned, MakeDir, CheckFound, VersionNotFound, SaveObject, SaveLosesRace,
     ImportNext, ImportSave, ImportAudit, ImportReturns, observers, history
<1>4. CASE Scribble(c) \/ Fail(c) \/ FailSaving(c)
  BY <1>4 DEF Scribble, Fail, FailSaving, history
<1>5. QED
  BY <1>1, <1>2, <1>3, <1>4 DEF Acts

LEMMA UnackedStep ==
  ASSUME NEW c \in Clients, Acts(c), NEW v, Unacked(v), Deposits(c) /\ SaveAndReturn(c) => call[c].path # v
  PROVE  Unacked(v)'
  BY AckStep DEF Unacked

LEMMA AbandonedStep ==
  ASSUME TypeOK, TypeOK', NEW c \in Clients, Acts(c), NEW v, Abandoned(v)
  PROVE  Abandoned(v)'
<1>1. Unacked(v)'
  BY UnackedStep DEF Abandoned
<1>2. v \in minted
  BY DEF Abandoned, Unacked
<1>3. QED
  BY <1>1, <1>2, DepositStep DEF Abandoned

LEMMA OwnVersionsStep ==
  ASSUME TypeOK, TypeOK', OwnVersions, AckedMinted, NEW c \in Clients, Acts(c)
  PROVE  OwnVersions'
<1>1. \A d \in Clients : Deposits(d) => call[d].path \in minted
  BY DEF OwnVersions, Unacked
<1>2. ASSUME NEW d \in Clients, Deposits(d)' PROVE Unacked(call[d].path)'
  <2>1. CASE Deposits(d) /\ call'[d].path = call[d].path /\ (d = c => ~SaveAndReturn(c))
    <3>1. PICK v : v = call[d].path
      OBVIOUS
    <3>2. Unacked(v) /\ (Deposits(c) /\ SaveAndReturn(c) => call[c].path # v)
      BY <2>1, <3>1 DEF OwnVersions
    <3>3. Unacked(v)' /\ call'[d].path = v
      BY <2>1, <3>1, <3>2, UnackedStep
    <3>4. QED
      BY <3>3 DEF Unacked
  <2>2. CASE d = c /\ call'[d].path \in minted' \ minted /\ ~SaveAndReturn(c)
    <3>1. acked' = acked
      BY <2>2, AckStep
    <3>2. QED
      BY <2>2, <3>1 DEF AckedMinted, Unacked
  <2>3. QED
    BY <1>2, <2>1, <2>2, DepositStep
<1>3. ASSUME NEW d \in Clients, Deposits(d)', NEW e \in Clients \ {d}, Deposits(e)'
      PROVE  call'[d].path # call'[e].path
  <2>1. \/ Deposits(d) /\ call'[d].path = call[d].path
        \/ d = c /\ call'[d].path \notin minted
    BY <1>3, DepositStep
  <2>2. \/ Deposits(e) /\ call'[e].path = call[e].path
        \/ e = c /\ call'[e].path \notin minted
    BY <1>3, DepositStep
  <2>3. QED
    BY <1>1, <1>3, <2>1, <2>2 DEF OwnVersions
<1>4. QED
  BY <1>2, <1>3 DEF OwnVersions

LEMMA AckedMintedStep ==
  ASSUME TypeOK, TypeOK', OwnVersions, AckedMinted, NEW c \in Clients, Acts(c)
  PROVE  AckedMinted'
<1>1. acked \subseteq acked' /\ \A a \in acked' : a[2] \in minted'
  BY AckStep DEF AckedMinted, OwnVersions, Unacked
<1>2. overtaken' \subseteq acked'
  BY <1>1, AckStep DEF AckedMinted
<1>3. ASSUME NEW d \in Clients PROVE prior'[d] \subseteq acked'
  <2>1. CASE d # c
    BY <1>1, <2>1, OthersKeep DEF AckedMinted
  <2>2. CASE d = c
    <3>1. ASSUME pc'[c] = "idle" PROVE prior'[c] \in {{}, prior[c]}
      <4>1. Leave(c) \/ prior' = prior
        <5>1. ~Call(c)
          BY <3>1 DEF Call, DepositTo, DepositNew, Relate, Revise, Record, Import, BeginAudit, Goto, TypeOK
        <5>2. CASE Step(c)
          BY <5>2 DEF Step, LookupNew, LookupUnread, LookupFound, Reread, RereadFails, AuditOne, NextPhase,
             Reject, Sanctioned, MakeDir, CheckFound, VersionNotFound, SaveObject, SaveAndReturn,
             SaveLosesRace, ImportNext, ImportSave, ImportAudit, ImportReturns, observers
        <5>3. CASE Scribble(c) \/ Fail(c) \/ FailSaving(c)
          BY <5>3 DEF Scribble, Fail, FailSaving
        <5>4. QED
          BY <5>1, <5>2, <5>3 DEF Acts
      <4>2. QED
        BY <4>1 DEF Leave, TypeOK
    <3>2. Call(c) \/ prior'[c] \in {{}, prior[c]}
      BY <3>1, CallStep DEF LookupNew, LookupUnread, ImportNext, Reread, observers, history
    <3>3. QED
      BY <1>1, <2>2, <3>2, BeginIds DEF AckedMinted
  <2>3. QED
    BY <2>1, <2>2
<1>4. QED
  BY <1>1, <1>2, <1>3 DEF AckedMinted

(* What a save of the object record may leave there was not acknowledged.  *)
LEMMA LandedHead ==
  ASSUME TypeOK, HeadInv, NEW c \in Clients, pc[c] = "saveObject", call[c].object \notin imported,
         NEW x \in Landed(c) \cap ObjectRecords
  PROVE  Unacked(x.latest)
<1>1. ASSUME NEW d \in Clients, pc[d] = "saveObject", x = Content(d) PROVE Unacked(x.latest)
  BY <1>1, Kinds DEF Content, HeadInv, OwnVersions
<1>2. ASSUME NEW d \in Rivals(c) PROVE d \in Clients /\ pc[d] = "saveObject"
  <2>1. Target(d) = Target(c) /\ pc[d] \in Saving /\ d \in Clients
    BY DEF Rivals
  <2>2. Target(c) = call[c].object /\ Target(c) \in Objects
    BY Kinds DEF Target, DepositCalls
  <2>3. QED
    BY <2>1, <2>2, Kinds
<1>3. x # Torn
  BY SentinelAssumption
<1>4. CASE x \in met[c]
  BY <1>4 DEF HeadInv, HeadsMet, Abandoned
<1>5. CASE \E d \in {c} \cup Rivals(c) : x = Content(d)
  BY <1>1, <1>2, <1>5
<1>6. QED
  BY <1>3, <1>4, <1>5 DEF Landed, Published

LEMMA HeadsMetStep ==
  ASSUME TypeOK, TypeOK', HeadInv, NEW c \in Clients, Acts(c)
  PROVE  HeadsMet'
<1> SUFFICES ASSUME NEW d \in Clients, pc'[d] = "saveObject", call'[d].object \notin imported',
                    NEW x \in met'[d] \cap ObjectRecords
             PROVE  Abandoned(x.latest)'
  BY DEF HeadsMet
<1>1. call'[d] = call[d] /\ pc[d] = "saveObject" /\ call[d].object \notin imported
  BY OwnMet, OthersKeep, CreatedGrows DEF HeadInv
<1>2. CASE x \in met[d]
  BY <1>1, <1>2, AbandonedStep DEF HeadInv, HeadsMet
<1>3. CASE x \notin met[d]
  <2>1. d # c /\ d \in Rivals(c) /\ x = Content(c) /\ FailSaving(c)
    BY <1>3, OwnMet, OthersMeet, SentinelAssumption DEF HeadInv
  <2>2. Target(d) = Target(c) /\ pc[c] \in Saving
    BY <2>1 DEF Rivals
  <2>3. Target(d) \in Objects \ imported
    BY <1>1, Kinds DEF Target, DepositCalls
  <2>4. pc[c] = "saveObject" /\ Deposits(c) /\ x.latest = call[c].path
    BY <2>1, <2>2, <2>3, Kinds DEF Content
  <2>5. Unacked(call[c].path)
    BY <2>4 DEF HeadInv, OwnVersions
  <2>6. UNCHANGED <<acked, minted>> /\ ~Deposits(c)' /\ ~Call(c)
    BY <2>1, <2>4 DEF FailSaving, Leave, Goto, TypeOK, Deposits, NoCall, Call, DepositTo, DepositNew,
       Relate, Revise, Record, Import, Begin, history, Saving
  <2>7. ASSUME NEW e \in Clients, Deposits(e)' PROVE call'[e].path # call[c].path
    <3>1. e # c
      BY <2>6, <2>7
    <3>2. call'[e] = call[e]
      BY <3>1, OthersKeep
    <3>3. QED
      BY <2>4, <2>7, <3>1, <3>2 DEF HeadInv, OwnVersions, Deposits
  <2>8. QED
    BY <2>4, <2>5, <2>6, <2>7 DEF Abandoned, Unacked
<1>4. QED
  BY <1>2, <1>3

LEMMA HeadsSavedStep ==
  ASSUME TypeOK, TypeOK', HeadInv, NEW c \in Clients, Acts(c)
  PROVE  HeadsSaved'
<1> SUFFICES ASSUME NEW d \in Clients, Deposits(d)', pc'[d] = "save",
                    file'[call'[d].object] \in ObjectRecords, call'[d].object \notin imported'
             PROVE  <<call'[d].object, file'[call'[d].object].latest>> \notin prior'[d]
  BY DEF HeadsSaved
<1> DEFINE o == call[d].object
<1>1. /\ Deposits(d) /\ call'[d].object = o /\ prior'[d] = prior[d]
      /\ pc[d] = "save" \/ (d = c /\ SaveObject(c))
  BY DepositStep
<1>2. o \in Objects /\ o \notin imported /\ prior[d] \subseteq acked
  BY <1>1, Kinds, CreatedGrows DEF DepositCalls, HeadInv, AckedMinted
<1>3. ASSUME pc[c] = "saveObject", call[c].object = o, file'[o] \in Landed(c)
      PROVE  <<o, file'[o].latest>> \notin prior[d]
  BY <1>1, <1>2, <1>3, LandedHead DEF Unacked
<1>4. CASE file'[o] # file[o]
  BY <1>1, <1>2, <1>3, <1>4, HeadWritten
<1>5. CASE file'[o] = file[o] /\ pc[d] = "save"
  BY <1>1, <1>2, <1>5 DEF HeadInv, HeadsSaved
<1>6. CASE d = c /\ SaveObject(c)
  <2>1. pc[c] = "saveObject" /\ Target(c) = o /\ call[c].object = o
    BY <1>6 DEF SaveObject, Target
  <2>2. PICK x \in Landed(c) : file' = [file EXCEPT ![o] = x]
    BY <1>6, <2>1 DEF SaveObject
  <2>3. file'[o] = x
    BY <1>2, <2>2 DEF TypeOK, Paths
  <2>4. QED
    BY <1>1, <1>3, <2>1, <2>3
<1>7. QED
  BY <1>1, <1>4, <1>5, <1>6

LEMMA HeadStays ==
  ASSUME TypeOK, HeadInv, NEW c \in Clients, Acts(c)
  PROVE  HeadNotOvertaken'
<1> SUFFICES ASSUME NEW o \in Objects \ imported', file'[o] \in ObjectRecords, <<o, file'[o].latest>> \in overtaken'
             PROVE  FALSE
  BY DEF HeadNotOvertaken
<1>0. o \notin imported
  BY CreatedGrows
<1>1. CASE file'[o] # file[o]
  <2>1. pc[c] = "saveObject" /\ call[c].object = o /\ file'[o] \in Landed(c)
    BY <1>0, <1>1, HeadWritten
  <2>2. Unacked(file'[o].latest)
    BY <1>0, <2>1, LandedHead
  <2>3. overtaken' = overtaken
    BY <2>1, AckStep DEF SaveAndReturn
  <2>4. QED
    BY <2>2, <2>3 DEF Unacked, HeadInv, AckedMinted
<1>2. CASE file'[o] = file[o]
  <2>1. <<o, file[o].latest>> \notin overtaken
    BY <1>0, <1>2 DEF HeadInv, HeadNotOvertaken
  <2>2. SaveAndReturn(c) /\ Deposits(c) /\ <<o, file[o].latest>> \in prior[c] /\ o = call[c].object
    BY <1>2, <2>1, AckStep
  <2>3. QED
    BY <1>0, <1>2, <2>2 DEF SaveAndReturn, HeadInv, HeadsSaved
<1>3. QED
  BY <1>1, <1>2

LEMMA HeadStep == ASSUME TypeOK, TypeOK', HeadInv, [Next]_vars PROVE HeadInv'
<1>1. CASE UNCHANGED vars
  BY <1>1 DEF vars, HeadInv, NoneMet, OwnVersions, AckedMinted, HeadsMet, HeadsSaved, HeadNotOvertaken,
     Deposits, Unacked, Abandoned
<1>2. ASSUME NEW c \in Clients, Acts(c) PROVE HeadInv'
  <2>1. NoneMet'
    BY <1>2, NoneMetStep DEF HeadInv
  <2>2. OwnVersions' /\ AckedMinted'
    BY <1>2, OwnVersionsStep, AckedMintedStep DEF HeadInv
  <2>3. QED
    BY <1>2, <2>1, <2>2, HeadsMetStep, HeadsSavedStep, HeadStays DEF HeadInv
<1>3. QED
  BY <1>1, <1>2 DEF Next, Acts

LEMMA HeadInit == Init => HeadInv
  BY SentinelAssumption DEF Init, HeadInv, NoneMet, OwnVersions, AckedMinted, HeadsMet, HeadsSaved,
     HeadNotOvertaken, Deposits, NoCall, Paths

(* deposit_object replaces the object record without comparing it to what  *)
(* it read (sanctioned.rs:77): still, unless an import wrote the record,   *)
(* the head of an object never goes back to a version acknowledged before  *)
(* the begin of a deposit that has been acknowledged in turn.              *)
THEOREM HeadAdvances == Spec => []HeadNotOvertaken
<1>1. TypeOK /\ TypeOK' /\ HeadInv /\ [Next]_vars => HeadInv'
  BY HeadStep
<1>2. HeadInv => HeadNotOvertaken
  BY DEF HeadInv
<1>3. QED
  BY TypeCorrect, HeadInit, <1>1, <1>2, PTL DEF Spec
=============================================================================
