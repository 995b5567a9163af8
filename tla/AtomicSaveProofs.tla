-------------------------- MODULE AtomicSaveProofs --------------------------
(***************************************************************************)
(* Proofs about AtomicSave for any savers, records and inodes, and for any *)
(* number of calls and kills: the module is type correct; when saves of    *)
(* the path are serialised, the target is always whole and the save        *)
(* implements AtomicRecord, power losses included; when nothing serialises *)
(* them and the power holds, they implement RacySave, and some saver wins. *)
(***************************************************************************)
EXTENDS AtomicSave, TLAPS

LEMMA TypeInit == Init => TypeOK
  BY BoundAssumption DEF Init, TypeOK, Entries, Contents

LEMMA TypeStep == ASSUME TypeOK, [Next]_vars PROVE TypeOK'
<1> USE DEF TypeOK
<1>1. ASSUME NEW s \in Savers, NEW v \in Values, Begin(s, v) PROVE TypeOK'
  BY <1>1, BoundAssumption DEF Begin, Idle
<1>2. ASSUME NEW s \in Savers, Create(s) PROVE TypeOK'
  BY <1>2 DEF Create, Entries, Contents
<1>3. ASSUME NEW s \in Savers, WriteAll(s) PROVE TypeOK'
  <2>1. PICK c \in Overwrite(data[fd[s]], val[s]) : data' = [data EXCEPT ![fd[s]] = c]
    BY <1>3 DEF WriteAll
  <2>2. c \in Contents \/ c = None
    BY <2>1 DEF Overwrite, Contents
  <2>3. data' \in [Inodes -> Contents]
    BY <2>1, <2>2 DEF Contents
  <2>4. QED
    BY <1>3, <2>3 DEF WriteAll
<1>4. ASSUME NEW s \in Savers, SyncAll(s) PROVE TypeOK'
  <2>1. disk' \in [Inodes -> Contents]
    <3>1. CASE fd[s] \in Inodes
      <4>1. data[fd[s]] \in Contents
        BY <3>1
      <4>2. QED
        BY <4>1, <1>4 DEF SyncAll
    <3>2. CASE fd[s] \notin Inodes
      BY <1>4, <3>2 DEF SyncAll
    <3>3. QED
      BY <3>1, <3>2
  <2>2. QED
    BY <1>4, <2>1 DEF SyncAll, Entries
<1>5. ASSUME NEW s \in Savers, Rename(s) PROVE TypeOK'
  BY <1>5 DEF Rename, Meet, Saving, Entries
<1>6. ASSUME NEW s \in Savers, RenameFails(s) PROVE TypeOK'
  BY <1>6 DEF RenameFails, Leave, Meet, Saving, Entries
<1>7. ASSUME NEW s \in Savers, ReturnOk(s) PROVE TypeOK'
  BY <1>7 DEF ReturnOk, Leave, Entries
<1>8. ASSUME NEW s \in Savers, WriteFails(s) PROVE TypeOK'
  <2>1. met' \in [Savers -> SUBSET (Values \cup {Torn})]
    BY <1>8, val[s] \in Values DEF WriteFails, Meet
  <2>2. data' \in [Inodes -> Contents]
    BY <1>8 DEF WriteFails, Contents
  <2>3. failures' \in 0..MaxFailures
    BY <1>8, BoundAssumption DEF WriteFails
  <2>4. QED
    BY <1>8, <2>1, <2>2, <2>3 DEF WriteFails, Leave, Entries
<1>9. ASSUME NEW s \in Savers, Kill(s) PROVE TypeOK'
  BY <1>9, BoundAssumption DEF Kill, Leave, Meet, Saving, Entries
<1>10. ASSUME NEW i \in Inodes, NEW c \in Contents, FlushData(i, c) PROVE TypeOK'
  BY <1>10 DEF FlushData
<1>11. CASE FlushDir
  BY <1>11 DEF FlushDir
<1>12. CASE PowerLoss
  BY <1>12, BoundAssumption DEF PowerLoss, Entries
<1>13. CASE UNCHANGED vars
  BY <1>13 DEF vars
<1>14. QED
  BY <1>1, <1>2, <1>3, <1>4, <1>5, <1>6, <1>7, <1>8, <1>9, <1>10, <1>11, <1>12, <1>13
  DEF Next, SaveStep

(* Every variable keeps its type, whether or not savers are serialised.    *)
THEOREM TypeCorrect == Spec => []TypeOK
<1>1. TypeOK /\ [Next]_vars => TypeOK'
  BY TypeStep
<1>2. QED
  BY TypeInit, <1>1, PTL DEF Spec

-----------------------------------------------------------------------------
(***************************************************************************)
(* Serialised savers.  The inductive invariant: at most one saver is       *)
(* active; what the target names, now and on the medium, is a whole record *)
(* that has reached the medium; the temporary file is never one of the two *)
(* targets; and the active saver's handle is the temporary file, holding   *)
(* what its place in save says.                                            *)
(***************************************************************************)
OneSaver == \A s, t \in Savers : pc[s] # "idle" /\ pc[t] # "idle" => s = t

Solid(i) == i # NoInode => data[i] \in Values /\ disk[i] = data[i]

TargetsSolid == Solid(dir.tgt) /\ Solid(durDir.tgt)

TempApart == /\ dir.tmp # NoInode => dir.tmp # dir.tgt /\ dir.tmp # durDir.tgt
             /\ durDir.tmp # NoInode => durDir.tmp # durDir.tgt

Progress(s) ==
  /\ pc[s] \in {"write", "sync"} => fd[s] = dir.tmp
  /\ pc[s] \in {"write", "sync", "rename"} => dir.tmp # NoInode
  /\ pc[s] = "write" => data[dir.tmp] = None
  /\ pc[s] \in {"sync", "rename"} => data[dir.tmp] = val[s]
  /\ pc[s] = "rename" => disk[dir.tmp] = val[s]

SerialInv == TypeOK /\ OneSaver /\ TargetsSolid /\ TempApart /\ \A s \in Savers : Progress(s)

LEMMA InitSerial == Init => SerialInv
  BY TypeInit DEF Init, SerialInv, OneSaver, TargetsSolid, Solid, TempApart, Progress

LEMMA NextSerial == ASSUME Serialized PROVE SerialInv /\ [Next]_vars => SerialInv'
<1> SUFFICES ASSUME Serialized, SerialInv, [Next]_vars PROVE SerialInv'
  OBVIOUS
<1>0. TypeOK /\ TypeOK'
  BY TypeStep DEF SerialInv
<1> USE <1>0, SentinelAssumption DEF SerialInv, OneSaver, TempApart
<1>1. ASSUME NEW s \in Savers, NEW v \in Values, Begin(s, v) PROVE SerialInv'
  BY <1>1 DEF Begin, Idle, TargetsSolid, Solid, Progress, TypeOK
<1>2. ASSUME NEW s \in Savers, Create(s) PROVE SerialInv'
  <2>1. PICK i \in Inodes :
          /\ IF dir.tmp = NoInode THEN i \notin Referenced ELSE i = dir.tmp
          /\ fd' = [fd EXCEPT ![s] = i]
          /\ dir' = [dir EXCEPT !.tmp = i]
          /\ data' = [data EXCEPT ![i] = None]
          /\ disk' = IF dir.tmp = NoInode THEN [disk EXCEPT ![i] = None] ELSE disk
    BY <1>2 DEF Create
  <2>2. i # dir.tgt /\ i # durDir.tgt
    BY <2>1 DEF Referenced
  <2>3. dir'.tmp = i /\ dir'.tgt = dir.tgt /\ durDir' = durDir
    BY <1>2, <2>1 DEF Create, TypeOK
  <2>4. TargetsSolid'
    BY <2>1, <2>2, <2>3 DEF TargetsSolid, Solid, TypeOK, Entries
  <2>5. data'[i] = None /\ fd'[s] = i /\ pc' = [pc EXCEPT ![s] = "write"]
    BY <1>2, <2>1 DEF Create, TypeOK
  <2>6. ASSUME NEW t \in Savers PROVE Progress(t)'
    BY <1>2, <2>1, <2>3, <2>5 DEF Progress, TypeOK, Create
  <2>7. QED
    BY <1>2, <2>2, <2>3, <2>4, <2>5, <2>6 DEF Create, TypeOK
<1>3. ASSUME NEW s \in Savers, WriteAll(s) PROVE SerialInv'
  <2>1. /\ pc[s] = "write" /\ fd[s] = dir.tmp /\ dir.tmp \in Inodes
        /\ data[dir.tmp] = None /\ val[s] \in Values
    BY <1>3 DEF WriteAll, Progress, TypeOK, Entries
  <2>2. data' = [data EXCEPT ![dir.tmp] = val[s]]
    BY <1>3, <2>1 DEF WriteAll, Overwrite
  <2>3. TargetsSolid'
    BY <1>3, <2>1, <2>2 DEF WriteAll, TargetsSolid, Solid, TypeOK, Entries
  <2>4. ASSUME NEW t \in Savers PROVE Progress(t)'
    BY <1>3, <2>1, <2>2 DEF WriteAll, Progress, TypeOK
  <2>5. QED
    BY <1>3, <2>3, <2>4 DEF WriteAll, TypeOK
<1>4. ASSUME NEW s \in Savers, SyncAll(s) PROVE SerialInv'
  <2>1. pc[s] = "sync" /\ fd[s] = dir.tmp /\ dir.tmp \in Inodes /\ data[dir.tmp] = val[s]
    BY <1>4 DEF SyncAll, Progress, TypeOK, Entries
  <2>2. disk' = [disk EXCEPT ![dir.tmp] = val[s]]
    BY <1>4, <2>1 DEF SyncAll
  <2>3. TargetsSolid'
    BY <1>4, <2>1, <2>2 DEF SyncAll, TargetsSolid, Solid, TypeOK, Entries
  <2>4. ASSUME NEW t \in Savers PROVE Progress(t)'
    BY <1>4, <2>1, <2>2 DEF SyncAll, Progress, TypeOK
  <2>5. QED
    BY <1>4, <2>3, <2>4 DEF SyncAll, TypeOK
<1>5. ASSUME NEW s \in Savers, Rename(s) PROVE SerialInv'
  <2>1. /\ dir.tmp \in Inodes /\ val[s] \in Values
        /\ data[dir.tmp] = val[s] /\ disk[dir.tmp] = val[s]
    BY <1>5 DEF Rename, Progress, TypeOK, Entries
  <2>2. dir'.tmp = NoInode /\ dir'.tgt = dir.tmp
    BY <1>5 DEF Rename
  <2>3. UNCHANGED <<durDir, data, disk, val, fd>> /\ pc' = [pc EXCEPT ![s] = "return"]
    BY <1>5 DEF Rename
  <2>4. TargetsSolid'
    BY <2>1, <2>2, <2>3 DEF TargetsSolid, Solid
  <2>5. ASSUME NEW t \in Savers PROVE Progress(t)'
    BY <1>5, <2>2, <2>3 DEF Progress, TypeOK, Rename
  <2>6. QED
    BY <1>5, <2>2, <2>3, <2>4, <2>5 DEF Rename, TypeOK
<1>6. ASSUME NEW s \in Savers,
             UNCHANGED <<dir, durDir, data, disk>>, Leave(s)
      PROVE  SerialInv'
  BY <1>6 DEF Leave, TargetsSolid, Solid, Progress, TypeOK
<1>7. ASSUME NEW s \in Savers, WriteFails(s) PROVE SerialInv'
  <2>1. pc[s] = "write" /\ fd[s] = dir.tmp /\ dir.tmp \in Inodes
    BY <1>7 DEF WriteFails, Progress, TypeOK, Entries
  <2>2. TargetsSolid'
    BY <1>7, <2>1 DEF WriteFails, TargetsSolid, Solid, TypeOK, Entries
  <2>3. ASSUME NEW t \in Savers PROVE pc'[t] = "idle"
    BY <1>7 DEF WriteFails, Leave, TypeOK
  <2>4. QED
    BY <1>7, <2>2, <2>3 DEF WriteFails, Progress
<1>8. ASSUME NEW i \in Inodes, NEW c \in Contents, FlushData(i, c) PROVE SerialInv'
  <2>1. i # dir.tgt /\ i # durDir.tgt
    BY <1>8 DEF FlushData, TargetsSolid, Solid, Entries
  <2>2. TargetsSolid'
    BY <1>8, <2>1 DEF FlushData, TargetsSolid, Solid, TypeOK, Entries
  <2>3. ASSUME NEW t \in Savers PROVE Progress(t)'
    BY <1>8 DEF FlushData, Progress, TypeOK
  <2>4. QED
    BY <1>8, <2>2, <2>3 DEF FlushData
<1>9. CASE FlushDir
  BY <1>9 DEF FlushDir, TargetsSolid, Solid, Progress
<1>10. CASE PowerLoss
  <2>1. \A t \in Savers : pc'[t] = "idle"
    BY <1>10 DEF PowerLoss
  <2>2. TargetsSolid'
    BY <1>10 DEF PowerLoss, TargetsSolid, Solid
  <2>3. QED
    BY <1>10, <2>1, <2>2 DEF PowerLoss, Progress
<1>11. CASE UNCHANGED vars
  BY <1>11 DEF vars, TargetsSolid, Solid, Progress
<1>12. QED
  BY <1>1, <1>2, <1>3, <1>4, <1>5, <1>6, <1>7, <1>8, <1>9, <1>10, <1>11
  DEF Next, SaveStep, RenameFails, ReturnOk, Kill

(* TargetWhole, for serialised savers: no kill, failed write or power loss *)
(* leaves torn bytes where a reader looks.                                 *)
THEOREM SerialTargetWhole == ASSUME Serialized PROVE Spec => []TargetWhole
<1>1. SerialInv => TargetWhole
  BY SentinelAssumption DEF SerialInv, TargetsSolid, Solid, TargetWhole, Current, OnMedium, Read
<1>2. QED
  BY InitSerial, NextSerial, <1>1, PTL DEF Spec

-----------------------------------------------------------------------------
(* What one step does to what readers find, now and after a power loss.    *)
Reads == <<Current, OnMedium>>

Renamed == \E s \in Savers : /\ Rename(s) /\ val[s] \in Values
                             /\ Current' = val[s] /\ OnMedium' = OnMedium

Hardened == FlushDir /\ Current' = Current /\ OnMedium' = Current

Reverted == PowerLoss /\ Current' = OnMedium /\ OnMedium' = OnMedium

LEMMA ReadStep ==
  ASSUME Serialized, SerialInv, [Next]_vars
  PROVE  UNCHANGED Reads \/ Renamed \/ Hardened \/ Reverted
<1> USE SentinelAssumption DEF SerialInv, TypeOK, TempApart, Reads, Current, OnMedium, Read
<1>1. ASSUME NEW s \in Savers, Create(s) PROVE UNCHANGED Reads
  <2>1. PICK i \in Inodes :
          /\ IF dir.tmp = NoInode THEN i \notin Referenced ELSE i = dir.tmp
          /\ dir' = [dir EXCEPT !.tmp = i]
          /\ data' = [data EXCEPT ![i] = None]
          /\ disk' = IF dir.tmp = NoInode THEN [disk EXCEPT ![i] = None] ELSE disk
    BY <1>1 DEF Create
  <2>2. i # dir.tgt /\ i # durDir.tgt
    BY <2>1 DEF Referenced
  <2>3. dir'.tgt = dir.tgt /\ durDir' = durDir
    BY <1>1, <2>1 DEF Create
  <2>4. QED
    BY <2>1, <2>2, <2>3 DEF Entries
<1>2. ASSUME NEW s \in Savers, pc[s] = "write",
             \E c : data' = [data EXCEPT ![fd[s]] = c],
             UNCHANGED <<dir, durDir, disk>>
      PROVE  UNCHANGED Reads
  <2>1. fd[s] # dir.tgt \/ dir.tgt = NoInode
    BY <1>2 DEF Progress
  <2>2. data'[dir.tgt] = data[dir.tgt] \/ dir.tgt = NoInode
    BY <1>2, <2>1 DEF Entries
  <2>3. QED
    BY <1>2, <2>2
<1>3. ASSUME NEW s \in Savers, WriteAll(s) PROVE UNCHANGED Reads
  <2>1. pc[s] = "write" /\ UNCHANGED <<dir, durDir, disk>>
    BY <1>3 DEF WriteAll
  <2>2. \E c : data' = [data EXCEPT ![fd[s]] = c]
    BY <1>3 DEF WriteAll
  <2>3. QED
    BY <1>2, <2>1, <2>2
<1>4. ASSUME NEW s \in Savers, SyncAll(s) PROVE UNCHANGED Reads
  <2>1. fd[s] # durDir.tgt \/ durDir.tgt = NoInode
    BY <1>4 DEF SyncAll, Progress
  <2>2. QED
    BY <1>4, <2>1 DEF SyncAll, Entries
<1>5. ASSUME NEW s \in Savers, Rename(s) PROVE Renamed
  <2>1. val[s] \in Values /\ data[dir.tmp] = val[s] /\ dir.tmp # NoInode
    BY <1>5 DEF Rename, Progress
  <2>2. dir'.tgt = dir.tmp /\ UNCHANGED <<durDir, data, disk>>
    BY <1>5 DEF Rename
  <2>3. Current' = val[s] /\ OnMedium' = OnMedium
    BY <2>1, <2>2
  <2>4. QED
    BY <1>5, <2>1, <2>3 DEF Renamed
<1>6. ASSUME NEW s \in Savers, WriteFails(s) PROVE UNCHANGED Reads
  <2>1. pc[s] = "write" /\ UNCHANGED <<dir, durDir, disk>>
    BY <1>6 DEF WriteFails
  <2>2. \E c : data' = [data EXCEPT ![fd[s]] = c]
    BY <1>6 DEF WriteFails
  <2>3. QED
    BY <1>2, <2>1, <2>2
<1>7. ASSUME NEW i \in Inodes, NEW c \in Contents, FlushData(i, c) PROVE UNCHANGED Reads
  <2>1. i # durDir.tgt
    BY <1>7 DEF FlushData, TargetsSolid, Solid, Entries
  <2>2. QED
    BY <1>7, <2>1 DEF FlushData, Entries
<1>8. CASE FlushDir
  BY <1>8 DEF FlushDir, Hardened, TargetsSolid, Solid
<1>9. CASE PowerLoss
  BY <1>9 DEF PowerLoss, Reverted
<1>10. ASSUME UNCHANGED <<dir, durDir, data, disk>> PROVE UNCHANGED Reads
  BY <1>10
<1>11. QED
  BY <1>1, <1>3, <1>4, <1>5, <1>6, <1>7, <1>8, <1>9, <1>10
  DEF Next, SaveStep, Begin, RenameFails, ReturnOk, Kill, vars

(* Serialised saves implement the atomic record: a step of save or of the  *)
(* file system is a Write, a Harden, a PowerLoss or invisible to readers.  *)
THEOREM SerialImplementsAtomicRecord == ASSUME Serialized PROVE Spec => AtomicRecordSpec
<1>1. Init => Atomic!Init
  BY DEF Init, Atomic!Init, Current, OnMedium, Read
<1>2. SerialInv /\ [Next]_vars => [Atomic!Next]_(Atomic!avars)
  BY ReadStep DEF Reads, Renamed, Hardened, Reverted,
     Atomic!Next, Atomic!avars, Atomic!Write, Atomic!Harden, Atomic!PowerLoss
<1>3. QED
  BY <1>1, <1>2, InitSerial, NextSerial, PTL DEF Spec, AtomicRecordSpec, Atomic!Spec

-----------------------------------------------------------------------------
(* What an acknowledgement is worth while the power holds.                 *)
AckInv ==
  /\ SerialInv
  /\ \A s \in Savers : pc[s] # "idle" => val[s] \in since
  /\ losses = 0 => \A s \in Savers : pc[s] = "return" => Current = val[s]
  /\ AckedReadable

(* AckedReadable, for serialised savers: a save that returned Ok is        *)
(* readable until another save begun after it is.                          *)
THEOREM SerialAckedReadable == ASSUME Serialized PROVE Spec => []AckedReadable
<1>1. Init => AckInv
  BY InitSerial DEF Init, AckInv, AckedReadable
<1>2. AckInv /\ [Next]_vars => AckInv'
  <2> SUFFICES ASSUME AckInv, [Next]_vars PROVE AckInv'
    OBVIOUS
  <2>0. SerialInv' /\ (UNCHANGED Reads \/ Renamed \/ Hardened \/ Reverted)
    BY NextSerial, ReadStep DEF AckInv
  <2> USE <2>0, BoundAssumption DEF AckInv, AckedReadable, SerialInv, OneSaver, TypeOK
  <2>1. ASSUME NEW s \in Savers, NEW v \in Values, Begin(s, v) PROVE AckInv'
    <3>1. Current' = Current
      BY <2>1 DEF Begin, Current, Read
    <3>2. QED
      BY <2>1, <3>1 DEF Begin
  <2>2. ASSUME NEW s \in Savers, Rename(s) PROVE AckInv'
    <3>1. Current' = val[s]
      <4>1. data[dir.tmp] = val[s] /\ dir.tmp # NoInode /\ val[s] \in Values
        BY <2>2 DEF Rename, Progress
      <4>2. QED
        BY <2>2, <4>1 DEF Rename, Current, Read
    <3>2. QED
      BY <2>2, <3>1 DEF Rename
  <2>3. ASSUME NEW s \in Savers, ReturnOk(s) PROVE AckInv'
    <3>1. Current' = Current
      BY <2>3 DEF ReturnOk, Current, Read
    <3>2. \A t \in Savers : pc'[t] = "idle"
      BY <2>3 DEF ReturnOk, Leave
    <3>3. losses' = 0 => Current' \in {acked'} \cup since'
      BY <2>3, <3>1 DEF ReturnOk
    <3>4. QED
      BY <3>2, <3>3
  <2>4. CASE PowerLoss
    BY <2>4 DEF PowerLoss
  <2>5. ASSUME UNCHANGED <<acked, since, losses>>, Current' = Current,
               \A t \in Savers : pc'[t] # "idle" => /\ pc[t] # "idle" /\ val'[t] = val[t]
                                                    /\ pc'[t] = "return" => pc[t] = "return"
        PROVE  AckInv'
    BY <2>5
  <2>6. ASSUME NEW s \in Savers, Create(s) \/ WriteAll(s) \/ SyncAll(s) PROVE AckInv'
    <3>1. Current' = Current
      BY <2>6 DEF Reads, Renamed, Hardened, Reverted, Create, WriteAll, SyncAll,
         Rename, FlushDir, PowerLoss
    <3>2. QED
      BY <2>5, <2>6, <3>1 DEF Create, WriteAll, SyncAll
  <2>7. ASSUME NEW s \in Savers, RenameFails(s) \/ WriteFails(s) \/ Kill(s) PROVE AckInv'
    <3>1. UNCHANGED <<acked, since, losses>> /\ Leave(s)
      BY <2>7 DEF RenameFails, WriteFails, Kill
    <3>2. \A t \in Savers : pc'[t] # "idle" => pc'[t] = pc[t] /\ val'[t] = val[t]
      BY <3>1 DEF Leave
    <3>3. Current' = Current
      BY <2>7, <3>2 DEF Reads, Renamed, Hardened, Reverted, Rename, FlushDir, PowerLoss,
         RenameFails, WriteFails, Kill
    <3>4. QED
      BY <2>5, <3>1, <3>2, <3>3
  <2>8. CASE (\E i \in Inodes, c \in Contents : FlushData(i, c)) \/ FlushDir \/ UNCHANGED vars
    <3>1. UNCHANGED <<pc, val, acked, since, losses, dir, data>>
      BY <2>8 DEF FlushData, FlushDir, vars
    <3>2. Current' = Current
      BY <3>1 DEF Current, Read
    <3>3. QED
      BY <2>5, <3>1, <3>2
  <2>9. QED
    BY <2>1, <2>2, <2>3, <2>4, <2>6, <2>7, <2>8 DEF Next, SaveStep
<1>3. AckInv => AckedReadable
  BY DEF AckInv
<1>4. QED
  BY <1>1, <1>2, <1>3, PTL DEF Spec

-----------------------------------------------------------------------------
(***************************************************************************)
(* Savers that nothing serialises, as long as the power holds.             *)
(***************************************************************************)
Others(s) == {t \in Savers \ {s} : Saving(t)}
Met(s) == met[s] # {} \/ Others(s) # {}
Past(s) == pc[s] \in {"write", "sync", "rename"}

(* Only a saver under way has met others, and the temporary file is not    *)
(* the target.                                                             *)
RaceApart == /\ \A s \in Savers : ~Saving(s) => met[s] = {}
             /\ dir.tmp # NoInode => dir.tmp # dir.tgt

(* A saver whose file no rival has renamed holds the temporary file.       *)
RaceHolds == \A s \in Savers :
               /\ Past(s) /\ Torn \notin met[s] => dir.tmp # NoInode
               /\ pc[s] \in {"write", "sync"} =>
                    fd[s] \in Inodes /\ (Torn \notin met[s] => fd[s] = dir.tmp)

(* What the temporary file holds, each saver can account for: with nobody  *)
(* else about it is what it has written.                                   *)
ContentAt(s) ==
  /\ data[dir.tmp] \in Values =>
       data[dir.tmp] \in {val[s]} \cup met[s] \cup {val[t] : t \in Others(s)}
  /\ ~Met(s) => data[dir.tmp] = IF pc[s] = "write" THEN None ELSE val[s]
RaceContent == \A s \in Savers : Past(s) /\ dir.tmp # NoInode => ContentAt(s)

(* Whoever renamed the temporary file is told Ok, if it does not die.      *)
Won == acked # None \/ \E s \in Savers : pc[s] = "return"
RaceWon == failures = 0 =>
             /\ Won => dir.tgt # NoInode
             /\ \A s \in Savers : Torn \in met[s] => Won
             /\ saves > 0 /\ ~Won => \E s \in Savers : Saving(s)

RaceState == RaceApart /\ RaceHolds /\ RaceContent /\ RaceWon
RaceInv == losses = 0 => RaceState

LEMMA RaceInit == Init => RaceInv
<1> SUFFICES ASSUME Init  PROVE RaceState
  BY DEF RaceInv
<1>1. RaceApart /\ RaceHolds /\ RaceContent
  BY DEF Init, RaceApart, RaceHolds, RaceContent, Past
<1>2. RaceWon
  BY DEF Init, RaceWon, Won
<1> QED  BY <1>1, <1>2 DEF RaceState

LEMMA ContentKept ==
  ASSUME NEW t \in Savers, ContentAt(t), val'[t] = val[t], met[t] \subseteq met'[t],
         (pc'[t] = "write" <=> pc[t] = "write") \/ Met(t)',
         dir'.tmp = dir.tmp, data'[dir.tmp] = data[dir.tmp],
         \A u \in Others(t) : (u \in Others(t)' /\ val'[u] = val[u]) \/ val[u] \in met'[t]
  PROVE  ContentAt(t)'
<1>1. ~Met(t)' => ~Met(t)
  BY DEF Met
<1>2. {val[u] : u \in Others(t)} \subseteq {val'[u] : u \in Others(t)'} \cup met'[t]
  OBVIOUS
<1> QED  BY <1>1, <1>2 DEF ContentAt

(* The saves that s leaves behind when it ends.                            *)
LEMMA MeetIs ==
  ASSUME TypeOK, NEW s \in Savers, NEW left, Meet(s, left)
  PROVE  /\ met'[s] = {}
         /\ \A t \in Savers \ {s} :
              met'[t] = IF Saving(s) /\ Saving(t) THEN met[t] \cup left ELSE met[t]
  BY DEF Meet

LEMMA RaceBegin ==
  ASSUME TypeOK, RaceState, NEW s \in Savers, NEW v \in Values, Begin(s, v)
  PROVE  RaceState'
<1>1. /\ pc[s] = "idle" /\ pc'[s] = "create" /\ val'[s] = v
      /\ \A t \in Savers \ {s} : pc'[t] = pc[t] /\ val'[t] = val[t]
      /\ UNCHANGED <<fd, dir, data, met, acked, failures>>
  BY DEF Begin, Idle, TypeOK
<1>2. RaceApart' /\ RaceHolds'
  BY <1>1 DEF RaceState, RaceApart, RaceHolds, Past, Saving
<1>3. RaceContent'
  <2> SUFFICES ASSUME NEW t \in Savers, Past(t)', dir'.tmp # NoInode  PROVE ContentAt(t)'
    BY DEF RaceContent
  <2>1. t # s /\ Past(t) /\ pc'[t] = pc[t] /\ val'[t] = val[t]
    BY <1>1 DEF Past
  <2>2. \A u \in Others(t) : u \in Others(t)' /\ val'[u] = val[u]
    BY <1>1 DEF Others, Saving
  <2> QED  BY <1>1, <2>1, <2>2, ContentKept DEF RaceState, RaceContent
<1>4. RaceWon'
  BY <1>1 DEF RaceState, RaceWon, Won, Saving
<1> QED  BY <1>2, <1>3, <1>4 DEF RaceState

LEMMA RaceCreate ==
  ASSUME TypeOK, RaceState, NEW s \in Savers, Create(s)
  PROVE  RaceState'
<1>1. PICK i \in Inodes :
        /\ IF dir.tmp = NoInode THEN i \notin Referenced ELSE i = dir.tmp
        /\ fd' = [fd EXCEPT ![s] = i]
        /\ dir' = [dir EXCEPT !.tmp = i]
        /\ data' = [data EXCEPT ![i] = None]
  BY DEF Create
<1>2. /\ pc[s] = "create" /\ pc'[s] = "write" /\ fd'[s] = i
      /\ dir'.tmp = i /\ dir'.tgt = dir.tgt /\ data'[i] = None
      /\ \A t \in Savers \ {s} : pc'[t] = pc[t] /\ fd'[t] = fd[t]
      /\ UNCHANGED <<val, met, acked, saves, failures>>
  BY <1>1 DEF Create, TypeOK
<1>3. i # NoInode /\ i # dir.tgt
  BY <1>1, SentinelAssumption DEF Referenced, RaceState, RaceApart
<1>4. RaceApart'
  BY <1>2, <1>3 DEF RaceState, RaceApart, Saving
<1>5. RaceHolds'
  <2> SUFFICES ASSUME NEW t \in Savers
               PROVE  /\ Past(t)' /\ Torn \notin met'[t] => dir'.tmp # NoInode
                      /\ pc'[t] \in {"write", "sync"} =>
                           fd'[t] \in Inodes /\ (Torn \notin met'[t] => fd'[t] = dir'.tmp)
    BY DEF RaceHolds
  <2>1. CASE t = s
    BY <1>2, <1>3, <2>1
  <2>2. CASE t # s
    BY <1>1, <1>2, <1>3, <2>2 DEF RaceState, RaceHolds, Past
  <2> QED  BY <2>1, <2>2
<1>6. RaceContent'
  <2> SUFFICES ASSUME NEW t \in Savers, Past(t)'  PROVE ContentAt(t)'
    BY DEF RaceContent
  <2>1. data'[dir'.tmp] = None /\ None \notin Values
    BY <1>2, SentinelAssumption
  <2>2. CASE t = s
    BY <1>2, <2>1, <2>2 DEF ContentAt
  <2>3. CASE t # s
    <3>1. s \in Others(t)'
      BY <1>2, <2>3 DEF Others, Saving
    <3>2. Met(t)'
      BY <3>1 DEF Met
    <3> QED  BY <2>1, <3>2 DEF ContentAt
  <2> QED  BY <2>2, <2>3
<1>7. RaceWon'
  BY <1>2 DEF RaceState, RaceWon, Won, Saving
<1> QED  BY <1>4, <1>5, <1>6, <1>7 DEF RaceState

LEMMA RaceWrite ==
  ASSUME TypeOK, RaceState, NEW s \in Savers, WriteAll(s)
  PROVE  RaceState'
<1>1. PICK b \in Overwrite(data[fd[s]], val[s]) : data' = [data EXCEPT ![fd[s]] = b]
  BY DEF WriteAll
<1>2. /\ pc[s] = "write" /\ pc'[s] = "sync"
      /\ \A t \in Savers \ {s} : pc'[t] = pc[t]
      /\ UNCHANGED <<val, fd, dir, met, acked, saves, failures>>
  BY DEF WriteAll, TypeOK
<1>3. fd[s] \in Inodes /\ (Torn \notin met[s] => fd[s] = dir.tmp)
  BY <1>2 DEF RaceState, RaceHolds
<1>4. /\ data'[fd[s]] = b /\ b \in {val[s], Torn} /\ Torn \notin Values
      /\ \A i \in Inodes : i # fd[s] => data'[i] = data[i]
  BY <1>1, <1>3, SentinelAssumption DEF TypeOK, Overwrite
<1>5. RaceApart' /\ RaceHolds'
  BY <1>2 DEF RaceState, RaceApart, RaceHolds, Past, Saving
<1>6. RaceContent'
  <2> SUFFICES ASSUME NEW t \in Savers, Past(t)', dir'.tmp # NoInode  PROVE ContentAt(t)'
    BY DEF RaceContent
  <2>1. Past(t) /\ Past(s) /\ ContentAt(t)
    BY <1>2 DEF Past, RaceState, RaceContent
  <2>2. Others(t)' = Others(t) /\ dir.tmp \in Inodes /\ dir'.tmp = dir.tmp
    BY <1>2 DEF Others, Saving, TypeOK, Entries
  <2>3. CASE fd[s] = dir.tmp /\ t = s
    <3>1. ~Met(s) => b = val[s]
      <4>1. ~Met(s) => data[fd[s]] = None
        BY <1>2, <2>1, <2>3 DEF ContentAt
      <4> QED  BY <1>1, <4>1, SentinelAssumption DEF Overwrite
    <3>2. Met(s)' <=> Met(s)
      BY <1>2, <2>2, <2>3 DEF Met
    <3>3. data'[dir'.tmp] = b /\ val'[t] = val[t] /\ pc'[t] # "write"
      BY <1>2, <1>4, <2>2, <2>3
    <3> QED  BY <1>4, <2>3, <3>1, <3>2, <3>3 DEF ContentAt
  <2>4. CASE fd[s] = dir.tmp /\ t # s
    <3>1. s \in Others(t)' /\ val'[s] = val[s]
      BY <1>2, <2>4 DEF Others, Saving
    <3>2. data'[dir'.tmp] = b /\ Met(t)'
      BY <1>2, <1>4, <2>4, <3>1 DEF Met
    <3> QED  BY <1>4, <3>1, <3>2 DEF ContentAt
  <2>5. CASE fd[s] # dir.tmp
    <3>1. t = s => Met(t)'
      BY <1>2, <1>3, <2>5 DEF Met
    <3> QED  BY <1>2, <1>4, <2>1, <2>2, <2>5, <3>1, ContentKept
  <2> QED  BY <2>3, <2>4, <2>5
<1>7. RaceWon'
  BY <1>2 DEF RaceState, RaceWon, Won, Saving
<1> QED  BY <1>5, <1>6, <1>7 DEF RaceState

LEMMA RaceSync ==
  ASSUME TypeOK, RaceState, NEW s \in Savers, SyncAll(s)
  PROVE  RaceState'
<1>1. /\ pc[s] = "sync" /\ pc'[s] = "rename"
      /\ \A t \in Savers \ {s} : pc'[t] = pc[t] /\ fd'[t] = fd[t]
      /\ UNCHANGED <<val, dir, data, met, acked, saves, failures>>
  BY DEF SyncAll, TypeOK
<1>2. RaceApart' /\ RaceHolds'
  BY <1>1 DEF RaceState, RaceApart, RaceHolds, Past, Saving
<1>3. RaceContent'
  <2> SUFFICES ASSUME NEW t \in Savers, Past(t)', dir'.tmp # NoInode  PROVE ContentAt(t)'
    BY DEF RaceContent
  <2>1. ContentAt(t) /\ Others(t)' = Others(t)
    BY <1>1 DEF Past, RaceState, RaceContent, Others, Saving
  <2> QED  BY <1>1, <2>1, ContentKept
<1>4. RaceWon'
  BY <1>1 DEF RaceState, RaceWon, Won, Saving
<1> QED  BY <1>2, <1>3, <1>4 DEF RaceState

LEMMA RaceRename ==
  ASSUME TypeOK, RaceState, NEW s \in Savers, Rename(s)
  PROVE  RaceState'
<1>1. /\ pc[s] = "rename" /\ pc'[s] = "return" /\ dir.tmp # NoInode
      /\ dir'.tmp = NoInode /\ dir'.tgt = dir.tmp /\ Meet(s, {Torn})
      /\ \A t \in Savers \ {s} : pc'[t] = pc[t]
      /\ UNCHANGED <<val, fd, data, acked, saves, failures>>
  BY DEF Rename, TypeOK
<1>2. /\ met'[s] = {}
      /\ \A t \in Savers \ {s} : met'[t] = IF Saving(t) THEN met[t] \cup {Torn} ELSE met[t]
  BY <1>1, MeetIs DEF Saving
<1>3. RaceApart'
  BY <1>1, <1>2 DEF RaceState, RaceApart, Saving
<1>4. RaceHolds'
  BY <1>1, <1>2 DEF RaceState, RaceHolds, Past, Saving
<1>5. RaceContent'
  BY <1>1 DEF RaceContent
<1>6. RaceWon'
  BY <1>1 DEF RaceWon, Won
<1> QED  BY <1>3, <1>4, <1>5, <1>6 DEF RaceState

LEMMA RaceRenameFails ==
  ASSUME TypeOK, RaceState, NEW s \in Savers, RenameFails(s)
  PROVE  RaceState' /\ Torn \in met[s]
<1>1. /\ pc[s] = "rename" /\ pc'[s] = "idle" /\ dir.tmp = NoInode /\ Meet(s, {})
      /\ \A t \in Savers \ {s} : pc'[t] = pc[t] /\ val'[t] = val[t] /\ fd'[t] = fd[t]
      /\ UNCHANGED <<dir, data, acked, saves, failures>>
  BY DEF RenameFails, Leave, TypeOK
<1>2. met'[s] = {} /\ \A t \in Savers \ {s} : met'[t] = met[t]
  BY <1>1, MeetIs
<1>3. RaceApart'
  BY <1>1, <1>2 DEF RaceState, RaceApart, Saving
<1>4. RaceHolds'
  BY <1>1, <1>2 DEF RaceState, RaceHolds, Past
<1>5. RaceContent'
  BY <1>1 DEF RaceContent
<1>6. Torn \in met[s]
  BY <1>1 DEF RaceState, RaceHolds, Past
<1>7. RaceWon'
  BY <1>1, <1>2, <1>6 DEF RaceState, RaceWon, Won
<1> QED  BY <1>3, <1>4, <1>5, <1>6, <1>7 DEF RaceState

LEMMA RaceReturn ==
  ASSUME TypeOK, RaceState, NEW s \in Savers, ReturnOk(s)
  PROVE  RaceState'
<1>1. /\ pc[s] = "return" /\ pc'[s] = "idle" /\ acked' = val[s] /\ val[s] \in Values
      /\ \A t \in Savers \ {s} : pc'[t] = pc[t] /\ val'[t] = val[t] /\ fd'[t] = fd[t]
      /\ UNCHANGED <<met, dir, data, saves, failures>>
  BY DEF ReturnOk, Leave, TypeOK
<1>2. RaceApart' /\ RaceHolds'
  BY <1>1 DEF RaceState, RaceApart, RaceHolds, Past, Saving
<1>3. RaceContent'
  <2> SUFFICES ASSUME NEW t \in Savers, Past(t)', dir'.tmp # NoInode  PROVE ContentAt(t)'
    BY DEF RaceContent
  <2>1. t # s /\ Past(t) /\ pc'[t] = pc[t] /\ val'[t] = val[t]
    BY <1>1 DEF Past
  <2>2. \A u \in Others(t) : u \in Others(t)' /\ val'[u] = val[u]
    BY <1>1 DEF Others, Saving
  <2> QED  BY <1>1, <2>1, <2>2, ContentKept DEF RaceState, RaceContent
<1>4. acked' # None
  BY <1>1, SentinelAssumption
<1>5. RaceWon'
  BY <1>1, <1>4 DEF RaceState, RaceWon, Won
<1> QED  BY <1>2, <1>3, <1>5 DEF RaceState

(* A write error or the end of the process.                                *)
LEMMA RaceDies ==
  ASSUME TypeOK, RaceState, NEW s \in Savers, WriteFails(s) \/ Kill(s)
  PROVE  RaceState'
<1>1. /\ pc[s] # "idle" /\ pc'[s] = "idle" /\ Meet(s, {val[s]}) /\ val[s] \in Values
      /\ \A t \in Savers \ {s} : pc'[t] = pc[t] /\ val'[t] = val[t] /\ fd'[t] = fd[t]
      /\ UNCHANGED <<dir, acked, saves>> /\ failures' = failures + 1
  BY DEF WriteFails, Kill, Leave, Idle, TypeOK
<1>2. met'[s] = {} /\ \A t \in Savers \ {s} :
        met'[t] = IF Saving(s) /\ Saving(t) THEN met[t] \cup {val[s]} ELSE met[t]
  BY <1>1, MeetIs
<1>3. RaceApart'
  BY <1>1, <1>2 DEF RaceState, RaceApart, Saving
<1>4. RaceHolds'
  BY <1>1, <1>2 DEF RaceState, RaceHolds, Past
<1>5. RaceContent'
  <2> SUFFICES ASSUME NEW t \in Savers, Past(t)', dir'.tmp # NoInode  PROVE ContentAt(t)'
    BY DEF RaceContent
  <2>1. /\ t # s /\ Past(t) /\ pc'[t] = pc[t] /\ val'[t] = val[t] /\ dir'.tmp = dir.tmp
        /\ met[t] \subseteq met'[t] /\ ContentAt(t)
    BY <1>1, <1>2 DEF Past, RaceState, RaceContent
  <2>2. Saving(s) => val[s] \in met'[t]
    BY <1>2, <2>1 DEF Past, Saving
  <2>3. \A u \in Others(t) : (u \in Others(t)' /\ val'[u] = val[u]) \/ val[u] \in met'[t]
    BY <1>1, <2>2 DEF Others, Saving
  <2>4. CASE data'[dir.tmp] = data[dir.tmp]
    BY <2>1, <2>3, <2>4, ContentKept
  <2>5. CASE data'[dir.tmp] # data[dir.tmp]
    <3>1. Saving(s) /\ data'[dir.tmp] = Torn
      BY <2>5 DEF WriteFails, Kill, Saving, TypeOK, Entries
    <3>2. Met(t)' /\ data'[dir.tmp] \notin Values
      BY <2>2, <3>1, SentinelAssumption DEF Met
    <3> QED  BY <1>1, <3>2 DEF ContentAt
  <2> QED  BY <2>4, <2>5
<1>6. RaceWon'
  <2>1. failures' # 0
    BY <1>1 DEF TypeOK
  <2> QED  BY <2>1 DEF RaceWon
<1> QED  BY <1>3, <1>4, <1>5, <1>6 DEF RaceState

LEMMA RaceSame ==
  ASSUME RaceState, UNCHANGED <<pc, val, fd, dir, data, met, acked, saves, failures>>
  PROVE  RaceState'
<1>1. \A t : Others(t)' = Others(t)
  BY DEF Others, Saving
<1>2. RaceApart' /\ RaceHolds'
  BY DEF RaceState, RaceApart, RaceHolds, Past, Saving
<1>3. RaceContent'
  BY <1>1 DEF RaceState, RaceContent, ContentAt, Met, Past
<1>4. RaceWon'
  BY DEF RaceState, RaceWon, Won, Saving
<1> QED  BY <1>2, <1>3, <1>4 DEF RaceState

LEMMA RaceStep ==
  ASSUME TypeOK, RaceInv, [Next]_vars
  PROVE  RaceInv'
<1> SUFFICES ASSUME losses' = 0  PROVE RaceState'
  BY DEF RaceInv
<1>1. ~PowerLoss
  BY DEF PowerLoss, TypeOK
<1>2. losses' = losses
  BY <1>1 DEF Next, Begin, SaveStep, Create, WriteAll, SyncAll, Rename, RenameFails, ReturnOk,
     WriteFails, Kill, FlushData, FlushDir, vars
<1>3. RaceState
  BY <1>2 DEF RaceInv
<1>4. CASE (\E i \in Inodes, c \in Contents : FlushData(i, c)) \/ FlushDir \/ UNCHANGED vars
  BY <1>3, <1>4, RaceSame DEF FlushData, FlushDir, vars
<1> QED  BY <1>1, <1>3, <1>4, RaceBegin, RaceCreate, RaceWrite, RaceSync, RaceRename,
            RaceRenameFails, RaceReturn, RaceDies DEF Next, SaveStep

THEOREM RaceInvariance == Spec => []RaceInv
<1>1. TypeOK /\ RaceInv /\ [Next]_vars => RaceInv'
  BY RaceStep
<1> QED  BY <1>1, RaceInit, TypeCorrect, PTL DEF Spec

(* RaceHasWinner: savers of one path that race without dying and while the *)
(* power holds cannot all fail, or leave no target.                        *)
THEOREM RaceWinner == Spec => []RaceHasWinner
<1>1. TypeOK /\ RaceInv => RaceHasWinner
  <2> SUFFICES ASSUME TypeOK, RaceInv, saves > 0, failures = 0, losses = 0,
                      \A s \in Savers : Idle(s)
               PROVE  acked # None /\ dir.tgt # NoInode
    BY DEF RaceHasWinner
  <2>1. \A s \in Savers : pc[s] = "idle" /\ ~Saving(s)
    BY DEF Idle, Saving
  <2> QED  BY <2>1 DEF RaceInv, RaceState, RaceWon, Won
<1> QED  BY <1>1, RaceInvariance, TypeCorrect, PTL

-----------------------------------------------------------------------------
(* Each step of save is one of RacySave, or changes nothing in it.         *)

LEMMA RacyRivals ==
  ASSUME TypeOK, NEW s \in Savers
  PROVE  /\ Racy!Rivals(s) = Others(s)
         /\ {[t \in Savers |-> IF Saving(t) THEN val[t] ELSE None][u] : u \in Others(s)}
              = {val[u] : u \in Others(s)}
<1>1. \A t \in Savers : Saving(t) => val[t] # None
  BY SentinelAssumption DEF Saving, TypeOK
<1> QED  BY <1>1 DEF Racy!Rivals, Others

LEMMA RacyEnd ==
  ASSUME TypeOK, NEW s \in Savers, Saving(s), NEW left, Meet(s, left), pc'[s] \in {"idle", "return"},
         \A t \in Savers \ {s} : pc'[t] = pc[t] /\ val'[t] = val[t]
  PROVE  Racy!End(s, left)
<1>1. ~Saving(s)' /\ \A t \in Savers \ {s} : Saving(t)' <=> Saving(t)
  BY DEF Saving
<1>2. [t \in Savers |-> IF Saving(t) THEN val[t] ELSE None]'
        = [[t \in Savers |-> IF Saving(t) THEN val[t] ELSE None] EXCEPT ![s] = None]
  BY <1>1
<1>3. met' = [t \in Savers |-> IF t = s THEN {}
                               ELSE IF t \in Others(s) THEN met[t] \cup left ELSE met[t]]
  BY DEF Meet, Others
<1> QED  BY <1>2, <1>3, RacyRivals DEF Racy!End

LEMMA RacySame ==
  ASSUME Current' = Current, met' = met, \A t \in Savers : Saving(t)' <=> Saving(t),
         \A t \in Savers : Saving(t) => val'[t] = val[t]
  PROVE  UNCHANGED Racy!rvars
  BY DEF Racy!rvars

LEMMA RacyBegins ==
  ASSUME TypeOK, NEW s \in Savers, NEW v \in Values, Begin(s, v)
  PROVE  Racy!Begin(s, v)
<1>1. /\ ~Saving(s) /\ Saving(s)' /\ val'[s] = v /\ met' = met
      /\ \A t \in Savers \ {s} : val'[t] = val[t] /\ (Saving(t)' <=> Saving(t))
  BY DEF Begin, Idle, Saving, TypeOK
<1>2. Current' = Current
  BY DEF Begin, Current, Read
<1>3. [t \in Savers |-> IF Saving(t) THEN val[t] ELSE None]'
        = [[t \in Savers |-> IF Saving(t) THEN val[t] ELSE None] EXCEPT ![s] = v]
  BY <1>1
<1> QED  BY <1>1, <1>2, <1>3 DEF Racy!Begin

LEMMA RacyCreates ==
  ASSUME TypeOK, RaceState, NEW s \in Savers, Create(s) \/ SyncAll(s)
  PROVE  UNCHANGED Racy!rvars
<1>1. /\ val' = val /\ met' = met
      /\ \A t \in Savers : Saving(t)' <=> Saving(t)
  BY DEF Create, SyncAll, Saving, TypeOK
<1>2. Current' = Current
  <2>1. CASE SyncAll(s)
    BY <2>1 DEF SyncAll, Current, Read
  <2>2. CASE Create(s)
    <3>1. PICK i \in Inodes :
            /\ IF dir.tmp = NoInode THEN i \notin Referenced ELSE i = dir.tmp
            /\ dir' = [dir EXCEPT !.tmp = i]
            /\ data' = [data EXCEPT ![i] = None]
      BY <2>2 DEF Create
    <3>2. i # dir.tgt /\ dir'.tgt = dir.tgt
      BY <3>1 DEF Referenced, RaceState, RaceApart, TypeOK
    <3> QED  BY <3>1, <3>2 DEF Current, Read, TypeOK, Entries
  <2> QED  BY <2>1, <2>2
<1> QED  BY <1>1, <1>2, RacySame

LEMMA RacyWrites ==
  ASSUME TypeOK, RaceState, NEW s \in Savers, WriteAll(s)
  PROVE  UNCHANGED Racy!rvars \/ Racy!Scribble(s)
<1>1. PICK b \in Overwrite(data[fd[s]], val[s]) : data' = [data EXCEPT ![fd[s]] = b]
  BY DEF WriteAll
<1>2. /\ pc[s] = "write" /\ Saving(s) /\ UNCHANGED <<val, dir, met>>
      /\ \A t \in Savers : Saving(t)' <=> Saving(t)
  BY DEF WriteAll, Saving, TypeOK
<1>3. /\ fd[s] \in Inodes /\ fd[s] # NoInode /\ b \in {val[s], Torn} /\ val[s] \in Values
      /\ fd[s] = dir.tgt => Torn \in met[s]
  BY <1>1, <1>2, SentinelAssumption DEF RaceState, RaceHolds, RaceApart, Overwrite, TypeOK
<1>4. CASE fd[s] = dir.tgt
  <2>1. Current' \in {val[s], Torn}
    BY <1>1, <1>2, <1>3, <1>4 DEF Current, Read, TypeOK
  <2>2. [t \in Savers |-> IF Saving(t) THEN val[t] ELSE None]'
          = [t \in Savers |-> IF Saving(t) THEN val[t] ELSE None]
    BY <1>2
  <2>3. [t \in Savers |-> IF Saving(t) THEN val[t] ELSE None][s] = val[s] /\ val[s] # None
    BY <1>2, <1>3, SentinelAssumption
  <2> QED  BY <1>2, <1>3, <1>4, <2>1, <2>2, <2>3 DEF Racy!Scribble, Racy!Taken
<1>5. CASE fd[s] # dir.tgt
  <2>1. Current' = Current
    BY <1>1, <1>2, <1>5 DEF Current, Read, TypeOK, Entries
  <2> QED  BY <1>2, <2>1, RacySame
<1> QED  BY <1>4, <1>5

LEMMA RacyRenames ==
  ASSUME TypeOK, RaceState, NEW s \in Savers, Rename(s)
  PROVE  Racy!Publish(s)
<1>1. /\ pc[s] = "rename" /\ pc'[s] = "return" /\ dir.tmp # NoInode /\ Meet(s, {Torn})
      /\ dir'.tgt = dir.tmp /\ UNCHANGED <<val, data>> /\ val[s] \in Values
      /\ \A t \in Savers \ {s} : pc'[t] = pc[t]
  BY DEF Rename, TypeOK
<1>2. Saving(s) /\ ContentAt(s) /\ Racy!End(s, {Torn})
  BY <1>1, RacyEnd DEF Saving, RaceState, RaceContent, Past
<1>3. Current' = IF data[dir.tmp] \in Values THEN data[dir.tmp] ELSE Torn
  BY <1>1 DEF Current, Read
<1>4. Current' \in Racy!Published(val[s], met[s], {val[t] : t \in Others(s)})
  <2>1. CASE ~Met(s)
    BY <1>1, <1>2, <1>3, <2>1 DEF ContentAt, Racy!Published
  <2>2. CASE Met(s)
    <3>1. Torn \in Racy!Published(val[s], met[s], {val[t] : t \in Others(s)})
      BY <2>2 DEF Met, Racy!Published
    <3>2. data[dir.tmp] \in Values =>
            data[dir.tmp] \in Racy!Published(val[s], met[s], {val[t] : t \in Others(s)})
      BY <1>2 DEF ContentAt, Racy!Published
    <3> QED  BY <1>3, <3>1, <3>2
  <2> QED  BY <2>1, <2>2
<1>5. [t \in Savers |-> IF Saving(t) THEN val[t] ELSE None][s] = val[s] /\ val[s] # None
  BY <1>1, <1>2, SentinelAssumption
<1> QED  BY <1>2, <1>4, <1>5, RacyRivals DEF Racy!Publish

LEMMA RacyLoses ==
  ASSUME TypeOK, RaceState, NEW s \in Savers, RenameFails(s)
  PROVE  Racy!Lose(s)
<1>1. /\ pc[s] = "rename" /\ pc'[s] = "idle" /\ Meet(s, {}) /\ val[s] \in Values /\ Saving(s)
      /\ UNCHANGED <<dir, data>> /\ Torn \in met[s]
      /\ \A t \in Savers \ {s} : pc'[t] = pc[t] /\ val'[t] = val[t]
  BY RaceRenameFails DEF RenameFails, Leave, Saving, TypeOK
<1>2. Current' = Current /\ Racy!End(s, {})
  BY <1>1, RacyEnd DEF Current, Read
<1>3. [t \in Savers |-> IF Saving(t) THEN val[t] ELSE None][s] = val[s] /\ val[s] # None
  BY <1>1, SentinelAssumption
<1> QED  BY <1>1, <1>2, <1>3 DEF Racy!Lose, Racy!Taken

LEMMA RacyDies ==
  ASSUME TypeOK, RaceState, NEW s \in Savers, WriteFails(s) \/ Kill(s)
  PROVE  UNCHANGED Racy!rvars \/ Racy!Die(s)
<1>1. /\ pc[s] # "idle" /\ pc'[s] = "idle" /\ Meet(s, {val[s]}) /\ val[s] \in Values /\ dir' = dir
      /\ \A t \in Savers \ {s} : pc'[t] = pc[t] /\ val'[t] = val[t]
  BY DEF WriteFails, Kill, Leave, Idle, TypeOK
<1>2. CASE ~Saving(s)
  <2>1. Kill(s) /\ data' = data
    BY <1>2 DEF WriteFails, Kill, Saving
  <2>2. met' = met
    <3>1. met'[s] = met[s] /\ \A t \in Savers \ {s} : met'[t] = met[t]
      BY <1>1, <1>2, MeetIs DEF RaceState, RaceApart
    <3>2. met' = [t \in Savers |-> met'[t]] /\ met = [t \in Savers |-> met[t]]
      BY <1>1 DEF TypeOK, Meet
    <3> QED  BY <3>1, <3>2
  <2>3. Current' = Current /\ \A t \in Savers : Saving(t)' <=> Saving(t)
    BY <1>1, <1>2, <2>1 DEF Current, Read, Saving
  <2> QED  BY <1>1, <1>2, <2>2, <2>3, RacySame
<1>3. CASE Saving(s)
  <2>0. PICK left : left = {val[s]}
    OBVIOUS
  <2>1. Racy!End(s, left)
    BY <2>0, <1>1, <1>3, RacyEnd
  <2>2. [t \in Savers |-> IF Saving(t) THEN val[t] ELSE None][s] = val[s] /\ val[s] # None
    BY <1>1, <1>3, SentinelAssumption
  <2>3. Current' = Current \/ (Current' = Torn /\ Torn \in met[s])
    <3>1. CASE Kill(s)
      BY <3>1 DEF Kill, Current, Read
    <3>2. CASE WriteFails(s)
      <4>1. /\ pc[s] = "write" /\ data' = [data EXCEPT ![fd[s]] = Torn] /\ fd[s] \in Inodes
            /\ fd[s] = dir.tgt => Torn \in met[s]
        BY <3>2, SentinelAssumption DEF WriteFails, RaceState, RaceHolds, RaceApart
      <4> QED  BY <1>1, <4>1, SentinelAssumption DEF Current, Read, TypeOK, Entries
    <3> QED  BY <3>1, <3>2
  <2> QED
    <3>1. {[t \in Savers |-> IF Saving(t) THEN val[t] ELSE None][s]} = left
      BY <2>0, <2>2
    <3>2. Racy!End(s, {[t \in Savers |-> IF Saving(t) THEN val[t] ELSE None][s]})
      BY <2>1, <3>1 DEF Racy!End
    <3>3. Current' \in {Current} \cup (IF Racy!Taken(met[s]) THEN {Torn} ELSE {})
      BY <2>3 DEF Racy!Taken
    <3> QED  BY <2>2, <3>2, <3>3 DEF Racy!Die, Racy!End
<1> QED  BY <1>2, <1>3

(* RacySaveSpec: while the power holds, what savers of one path that       *)
(* nothing serialises do to its readers, to their own records and to each  *)
(* other is what RacySave allows, and so what FileStore and Histories      *)
(* assume of a save (file_store.rs:115).                                   *)
THEOREM RaceImplementsRacySave == ASSUME MaxPowerLosses = 0 PROVE Spec => RacySaveSpec
<1>1. Init => Racy!Init
  BY DEF Init, Racy!Init, Current, Read, Saving
<1>2. TypeOK /\ RaceInv /\ [Next]_vars => [Racy!Next]_(Racy!rvars)
  <2> SUFFICES ASSUME TypeOK, RaceInv, [Next]_vars  PROVE [Racy!Next]_(Racy!rvars)
    OBVIOUS
  <2>1. RaceState /\ ~PowerLoss
    BY DEF TypeOK, RaceInv, PowerLoss
  <2>2. ASSUME NEW s \in Savers, ReturnOk(s)  PROVE UNCHANGED Racy!rvars
    <3>1. /\ Current' = Current /\ met' = met /\ \A t \in Savers : Saving(t)' <=> Saving(t)
          /\ \A t \in Savers : Saving(t) => val'[t] = val[t]
      BY <2>2 DEF ReturnOk, Leave, Current, Read, Saving, TypeOK
    <3> QED  BY <3>1, RacySame
  <2>3. CASE (\E i \in Inodes, c \in Contents : FlushData(i, c)) \/ FlushDir \/ UNCHANGED vars
    <3>1. Current' = Current /\ met' = met /\ val' = val /\ pc' = pc
      BY <2>3 DEF FlushData, FlushDir, vars, Current, Read
    <3> QED  BY <3>1, RacySame DEF Saving
  <2>4. ASSUME NEW s \in Savers, NEW v \in Values, Begin(s, v)  PROVE Racy!Next
    BY <2>4, RacyBegins DEF Racy!Next
  <2>5. ASSUME NEW s \in Savers, SaveStep(s) \/ WriteFails(s) \/ Kill(s)
        PROVE  Racy!Next \/ UNCHANGED Racy!rvars
    BY <2>1, <2>2, <2>5, RacyCreates, RacyWrites, RacyRenames, RacyLoses, RacyDies
    DEF SaveStep, Racy!Next
  <2> QED  BY <2>1, <2>3, <2>4, <2>5 DEF Next
<1> QED  BY <1>1, <1>2, RaceInvariance, TypeCorrect, PTL DEF Spec, RacySaveSpec, Racy!Spec
=============================================================================
