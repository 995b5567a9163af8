-------------------------- MODULE SqliteIndexProofs --------------------------
(***************************************************************************)
(* Proofs about SqliteIndex for any handles, records, rebuilds and         *)
(* failures.                                                               *)
(***************************************************************************)
EXTENDS SqliteIndex, TLAPS

(***************************************************************************)
(* The tables.                                                             *)
(***************************************************************************)
LEMMA FilledTables ==
  /\ \A i \in 1..5 : Filled[i] \subseteq Copied
  /\ \A k \in Copied : \E i \in 1..5 : k \in Filled[i]
<1>1. \A i \in 1..5 : Filled[i] \subseteq Copied
  <2> TAKE i \in 1..5
  <2>1. i = 1 \/ i = 2 \/ i = 3 \/ i = 4 \/ i = 5
    OBVIOUS
  <2>2. QED
    BY <2>1 DEF Filled, Copied
<1>2. Filled[1] = Objects /\ Filled[2] = Relations /\ Filled[3] = Runs
      /\ Filled[4] = Packets /\ Filled[5] = Reviews
  BY DEF Filled
<1>3. QED
  BY <1>1, <1>2 DEF Copied

LEMMA EmptiedTables ==
  /\ Emptied[1] = Filled[1]
  /\ Emptied[3] = Filled[2]
  /\ Emptied[4] = Filled[3]
  /\ Emptied[5] = Filled[4]
  /\ Emptied[7] = Filled[5]
  BY DEF Emptied, Filled

LEMMA TablesDisjoint ==
  \A i, j \in 1..5 : i # j => Filled[i] \cap Filled[j] = {}
<1> DEFINE place == [i \in 1..5 |-> CASE i = 1 -> 1 [] i = 2 -> 3 [] i = 3 -> 4
                                      [] i = 4 -> 5 [] i = 5 -> 7]
<1>1. \A i \in 1..5 : place[i] \in 1..7 /\ Filled[i] = Emptied[place[i]]
  <2> TAKE i \in 1..5
  <2>1. i = 1 \/ i = 2 \/ i = 3 \/ i = 4 \/ i = 5
    OBVIOUS
  <2>2. QED
    BY <2>1, EmptiedTables
<1>2. \A i, j \in 1..5 : i # j => place[i] # place[j]
  <2> TAKE i, j \in 1..5
  <2>1. i = 1 \/ i = 2 \/ i = 3 \/ i = 4 \/ i = 5
    OBVIOUS
  <2>2. j = 1 \/ j = 2 \/ j = 3 \/ j = 4 \/ j = 5
    OBVIOUS
  <2>3. QED
    BY <2>1, <2>2
<1> HIDE DEF place
<1>3. QED
  BY <1>1, <1>2, TableAssumption

(***************************************************************************)
(* Types.                                                                  *)
(***************************************************************************)
LEMMA ReturnTypes ==
  ASSUME TypeOK, NEW h \in Handles, Return(h)
  PROVE  /\ pc' \in [Handles -> {"idle", "delete", "list", "fill"}]
         /\ table' \in [Handles -> 1..7]
         /\ \A g \in Handles : pc'[g] \in {"list", "fill"} => table'[g] \in 1..5
         /\ todo' \in [Handles -> SUBSET Copied]
         /\ held' \in [Handles -> (Copied \X (1..MaxWrites)) \cup {Missing}]
         /\ \A g \in Handles : pc'[g] # "fill" => held'[g] = Missing /\ todo'[g] = {}
  BY DEF TypeOK, Return

LEMMA TypesKept ==
  ASSUME TypeOK, [Next]_vars
  PROVE  TypeOK'
<1> USE BoundAssumption
<1>1. ASSUME NEW k \in Keys, Save(k)
      PROVE  TypeOK'
  <2>1. writes' \in 1..MaxWrites
    BY <1>1 DEF Save, TypeOK
  <2>2. pending' \subseteq Upserted \X (1..MaxWrites)
    BY <1>1, <2>1 DEF Save, TypeOK
  <2>3. store' \in [Keys -> 1..MaxWrites \cup {Missing, Unreadable}]
    BY <1>1, <2>1 DEF Save, TypeOK
  <2>4. QED
    BY <1>1, <2>1, <2>2, <2>3 DEF Save, TypeOK, progress, observers
<1>2. ASSUME NEW k \in Copied, Break(k)
      PROVE  TypeOK'
  <2>1. store' \in [Keys -> 1..MaxWrites \cup {Missing, Unreadable}]
    BY <1>2 DEF Break, TypeOK, Keys
  <2>2. QED
    BY <1>2, <2>1 DEF Break, TypeOK, progress, observers
<1>3. ASSUME NEW h \in Handles, NEW k \in Upserted, NEW r \in 1..MaxWrites, Upsert(h, k, r)
      PROVE  TypeOK'
  <2>1. late' \subseteq Keys
    BY <1>3 DEF Upsert, TypeOK, Upserted, Copied, Keys
  <2>2. row' \in [Keys -> 1..MaxWrites \cup {Missing}]
    BY <1>3 DEF Upsert, TypeOK, Upserted, Copied, Keys
  <2>3. QED
    BY <1>3, <2>1, <2>2 DEF Upsert, TypeOK, progress
<1>4. ASSUME NEW h \in Handles, Begin(h)
      PROVE  TypeOK'
  BY <1>4 DEF Begin, TypeOK, Busy
<1>5. ASSUME NEW h \in Handles, Delete(h)
      PROVE  TypeOK'
  <2>1. row' \in [Keys -> 1..MaxWrites \cup {Missing}] /\ late' \subseteq Keys
    BY <1>5 DEF Delete, TypeOK
  <2>2. CASE table[h] < 7
    BY <1>5, <2>1, <2>2 DEF Delete, TypeOK
  <2>3. CASE ~(table[h] < 7)
    BY <1>5, <2>1, <2>3 DEF Delete, TypeOK
  <2>4. QED
    BY <2>2, <2>3
<1>6. ASSUME NEW h \in Handles, List(h)
      PROVE  TypeOK'
  <2>1. todo'[h] \subseteq Copied
    BY <1>6, FilledTables DEF List, TypeOK
  <2>2. QED
    BY <1>6, <2>1 DEF List, TypeOK, observers
<1>7. ASSUME NEW h \in Handles, Read(h)
      PROVE  TypeOK'
  <2>1. PICK k \in todo[h] : /\ store[k] \in Nat
                             /\ held' = [held EXCEPT ![h] = <<k, store[k]>>]
                             /\ todo' = [todo EXCEPT ![h] = @ \ {k}]
    BY <1>7 DEF Read
  <2>2. k \in Copied /\ k \in Keys
    BY <2>1 DEF TypeOK, Keys
  <2>3. <<k, store[k]>> \in Copied \X (1..MaxWrites)
    BY <2>1, <2>2, SentinelAssumption DEF TypeOK
  <2>4. QED
    BY <1>7, <2>1, <2>3 DEF Read, TypeOK, observers
<1>8. ASSUME NEW h \in Handles, Insert(h)
      PROVE  TypeOK'
  <2>1. held[h] \in Copied \X (1..MaxWrites)
    BY <1>8 DEF Insert, TypeOK
  <2>2. held[h][2] \in 1..MaxWrites
    BY <2>1
  <2>3. row' \in [Keys -> 1..MaxWrites \cup {Missing}]
    BY <1>8, <2>2 DEF Insert, TypeOK
  <2>4. QED
    BY <1>8, <2>3 DEF Insert, TypeOK, observers
<1>9. ASSUME NEW h \in Handles, NextTable(h)
      PROVE  TypeOK'
  BY <1>9 DEF NextTable, TypeOK, observers
<1>10. ASSUME NEW h \in Handles, Done(h)
       PROVE  TypeOK'
  BY <1>10, ReturnTypes DEF Done, TypeOK
<1>11. ASSUME NEW h \in Handles, ReadFails(h)
       PROVE  TypeOK'
  BY <1>11, ReturnTypes DEF ReadFails, TypeOK, observers
<1>12. ASSUME NEW h \in Handles, InsertFails(h)
       PROVE  TypeOK'
  BY <1>12, ReturnTypes DEF InsertFails, TypeOK, observers
<1>13. ASSUME NEW h \in Handles, Fail(h)
       PROVE  TypeOK'
  BY <1>13, ReturnTypes DEF Fail, TypeOK, observers
<1>14. CASE UNCHANGED vars
  BY <1>14 DEF vars, TypeOK, progress, observers
<1>15. QED
  BY <1>1, <1>2, <1>3, <1>4, <1>5, <1>6, <1>7, <1>8, <1>9, <1>10, <1>11, <1>12, <1>13, <1>14
     DEF Next, Step

(* Every variable of the index keeps its type; in particular a rebuild     *)
(* that has returned, with Ok or Err, holds no record and lists none.      *)
THEOREM TypeCorrect == Spec => []TypeOK
<1>1. Init => TypeOK
  BY BoundAssumption DEF Init, TypeOK
<1>2. QED
  BY <1>1, TypesKept, PTL DEF Spec

(***************************************************************************)
(* A rebuild that returned Ok and met no other.                            *)
(***************************************************************************)

(* h is in a rebuild, and no other has run at the same time.               *)
Sole(h) == pc[h] # "idle" /\ "rebuild" \notin rivals[h]

(* The rebuild of h has nothing more to do for k.                          *)
Settled(h, k) ==
  \E i \in 1..5 :
    /\ k \in Filled[i]
    /\ \/ i < table[h]
       \/ i = table[h] /\ pc[h] = "fill" /\ k \notin todo[h]
          /\ (held[h] = Missing \/ held[h][1] # k)

Restored(k) == row[k] = store[k] \/ k \in late

SoleFills(h) ==
  /\ Busy = {h}
  /\ held[h] # Missing /\ store[held[h][1]] \in 1..start[h] =>
       held[h][2] = store[held[h][1]]
  /\ pc[h] # "delete" =>
       \A k \in Copied : store[k] \in 1..start[h] /\ Settled(h, k) => Restored(k)

RebuildInv ==
  /\ TypeOK
  /\ built <= writes
  /\ \A h \in Handles : start[h] <= writes
  /\ built > 0 => Busy = {}
  /\ \A h \in Handles : Sole(h) => SoleFills(h)
  /\ RebuildRestores

LEMMA RebuildInvInit == Init => RebuildInv
  BY BoundAssumption DEF Init, RebuildInv, TypeOK, RebuildRestores, Sole, Busy

(* What happens to the store does not change what a rebuild has still to   *)
(* do, and makes no record older.                                          *)
LEMMA StoreKeepsRebuild ==
  ASSUME RebuildInv, TypeOK',
         UNCHANGED <<row, progress, start, rivals, built, late>>,
         writes' >= writes,
         NEW x \in Keys, NEW r, r \notin 1..writes,
         store' = [store EXCEPT ![x] = r]
  PROVE  RebuildInv'
<1> USE DEF progress
<1>1. \A k \in Keys, n \in 0..writes : store'[k] \in 1..n => k # x /\ store[k] \in 1..n
                                                          /\ store'[k] = store[k]
  BY DEF RebuildInv, TypeOK
<1>2. built \in 0..writes /\ \A h \in Handles : start[h] \in 0..writes
  BY DEF RebuildInv, TypeOK
<1>3. \A k \in Copied : k \in Keys
  BY DEF Keys
<1>4. RebuildRestores'
  BY <1>1, <1>2, <1>3 DEF RebuildInv, RebuildRestores, Answer
<1>5. \A h \in Handles : Sole(h)' => SoleFills(h)'
  <2> SUFFICES ASSUME NEW h \in Handles, Sole(h)' PROVE SoleFills(h)'
    OBVIOUS
  <2>1. Sole(h) /\ SoleFills(h)
    BY DEF Sole, RebuildInv
  <2>2. Busy' = {h}
    BY <2>1 DEF SoleFills, Busy
  <2>3. ASSUME held'[h] # Missing, store'[held'[h][1]] \in 1..start'[h]
        PROVE  held'[h][2] = store'[held'[h][1]]
    <3>1. held[h] \in Copied \X (1..MaxWrites)
      BY <2>3 DEF RebuildInv, TypeOK
    <3>2. held[h][1] \in Keys
      BY <3>1, <1>3
    <3>3. QED
      BY <2>1, <2>3, <3>2, <1>1, <1>2 DEF SoleFills
  <2>4. ASSUME pc'[h] # "delete", NEW k \in Copied, store'[k] \in 1..start'[h], Settled(h, k)'
        PROVE  Restored(k)'
    <3>1. Settled(h, k)
      BY <2>4 DEF Settled
    <3>2. QED
      BY <2>1, <2>4, <3>1, <1>1, <1>2, <1>3 DEF SoleFills, Restored
  <2>5. QED
    BY <2>2, <2>3, <2>4 DEF SoleFills
<1>6. QED
  BY <1>4, <1>5 DEF RebuildInv, TypeOK, Busy

(* A step of a rebuild that has a rival, or one that ends a rebuild        *)
(* without Ok, leaves nothing to show.                                     *)
LEMMA NothingPromised ==
  ASSUME RebuildInv, TypeOK', NEW h \in Handles, pc[h] # "idle",
         ~Sole(h) \/ pc'[h] = "idle",
         built' = built, UNCHANGED <<writes, start, rivals>>,
         \A g \in Handles : g # h => pc'[g] = pc[g]
  PROVE  RebuildInv'
<1>1. \A g \in Handles : g # h => ~Sole(g)
  BY DEF RebuildInv, SoleFills, Busy, Sole
<1>2. \A g \in Handles : ~Sole(g)'
  BY <1>1 DEF Sole
<1>3. built = 0
  BY DEF RebuildInv, Busy, TypeOK
<1>4. RebuildRestores'
  BY <1>3 DEF RebuildRestores
<1>5. QED
  BY <1>2, <1>3, <1>4 DEF RebuildInv

(* A step within a rebuild that runs alone.                                *)
LEMMA SoleGoesOn ==
  ASSUME RebuildInv, TypeOK', NEW h \in Handles, Sole(h), pc'[h] # "idle",
         UNCHANGED <<writes, start, rivals, built, store>>,
         \A g \in Handles : g # h => pc'[g] = pc[g],
         held'[h] # Missing /\ store[held'[h][1]] \in 1..start[h] =>
           held'[h][2] = store[held'[h][1]],
         pc'[h] # "delete" =>
           \A k \in Copied : store[k] \in 1..start[h] /\ Settled(h, k)' => Restored(k)'
  PROVE  RebuildInv'
<1>1. Busy = {h} /\ Busy' = {h}
  BY DEF RebuildInv, SoleFills, Busy, Sole
<1>2. SoleFills(h)'
  BY <1>1 DEF SoleFills
<1>3. \A g \in Handles : Sole(g)' => g = h
  BY <1>1 DEF Sole, Busy
<1>4. built = 0
  BY <1>1 DEF RebuildInv, TypeOK
<1>5. RebuildRestores'
  BY <1>4 DEF RebuildRestores
<1>6. QED
  BY <1>2, <1>3, <1>4, <1>5 DEF RebuildInv

LEMMA RebuildInvKept ==
  ASSUME RebuildInv, [Next]_vars
  PROVE  RebuildInv'
<1>0. TypeOK /\ TypeOK'
  BY TypesKept DEF RebuildInv
<1>1. ASSUME NEW k \in Keys, Save(k)
      PROVE  RebuildInv'
  <2>1. writes' \in Nat /\ writes' \notin 1..writes /\ writes' >= writes
    BY <1>0, <1>1 DEF Save, TypeOK
  <2>2. store' = [store EXCEPT ![k] = writes']
    BY <1>1 DEF Save
  <2>3. UNCHANGED <<row, progress, start, rivals, built, late>>
    BY <1>1 DEF Save, observers
  <2>4. QED
    BY <1>0, <2>1, <2>2, <2>3, StoreKeepsRebuild
<1>2. ASSUME NEW k \in Copied, Break(k)
      PROVE  RebuildInv'
  <2>1. k \in Keys /\ Unreadable \notin 1..writes
    BY <1>0, SentinelAssumption DEF Keys, TypeOK
  <2>2. store' = [store EXCEPT ![k] = Unreadable] /\ writes' = writes /\ writes \in Nat
    BY <1>0, <1>2 DEF Break, TypeOK
  <2>3. UNCHANGED <<row, progress, start, rivals, built, late>>
    BY <1>2 DEF Break, observers
  <2>4. writes' >= writes
    BY <2>2
  <2>5. QED
    BY <1>0, <2>1, <2>2, <2>3, <2>4, StoreKeepsRebuild
<1>3. ASSUME NEW h \in Handles, NEW k \in Upserted, NEW r \in 1..MaxWrites, Upsert(h, k, r)
      PROVE  RebuildInv'
  <2>1. k \in Keys /\ \A x \in Copied : x \in Keys
    BY DEF Upserted, Copied, Keys
  <2>2. \A x \in Copied : Restored(x) => Restored(x)'
    <3> SUFFICES ASSUME NEW x \in Copied, Restored(x) PROVE Restored(x)'
      OBVIOUS
    <3>1. CASE x = k
      <4>1. row'[x] = r /\ store'[x] = store[x]
        BY <1>0, <1>3, <2>1, <3>1 DEF Upsert, TypeOK
      <4>2. store[x] = r \/ x \in late'
        BY <1>3, <3>1 DEF Upsert
      <4>3. QED
        BY <4>1, <4>2 DEF Restored
    <3>2. CASE x # k
      <4>1. row'[x] = row[x] /\ store'[x] = store[x]
        BY <1>0, <1>3, <2>1, <3>2 DEF Upsert, TypeOK
      <4>2. x \in late => x \in late'
        BY <1>3, <3>2 DEF Upsert
      <4>3. QED
        BY <4>1, <4>2 DEF Restored
    <3>3. QED
      BY <3>1, <3>2
  <2>3. RebuildRestores'
    BY <1>3, <2>2 DEF Upsert, RebuildInv, RebuildRestores, Restored, Answer
  <2>4. ASSUME NEW g \in Handles, Sole(g)'
        PROVE  SoleFills(g)'
    <3>1. Sole(g)
      BY <1>0, <1>3, <2>4 DEF Upsert, Sole, TypeOK, progress
    <3>2. SoleFills(g)
      BY <3>1 DEF RebuildInv
    <3>3. \A x : Settled(g, x)' => Settled(g, x)
      BY <1>3 DEF Upsert, Settled, progress
    <3>4. QED
      BY <1>3, <2>2, <3>2, <3>3 DEF Upsert, SoleFills, Busy, progress
  <2>5. QED
    BY <1>0, <1>3, <2>3, <2>4 DEF Upsert, RebuildInv, Busy, progress
<1>4. ASSUME NEW h \in Handles, Begin(h)
      PROVE  RebuildInv'
  <2>1. RebuildRestores'
    BY <1>4 DEF Begin, RebuildRestores
  <2>2. ASSUME NEW g \in Handles, Sole(g)'
        PROVE  g = h /\ Busy = {}
    BY <1>0, <1>4, <2>2 DEF Begin, Sole, TypeOK, Busy
  <2>3. ASSUME NEW g \in Handles, Sole(g)'
        PROVE  SoleFills(g)'
    <3>1. g = h /\ pc'[h] = "delete" /\ held'[h] = Missing
      BY <1>0, <1>4, <2>2, <2>3 DEF Begin, TypeOK
    <3>2. Busy' = {h}
      BY <1>0, <1>4, <2>2, <2>3 DEF Begin, TypeOK, Busy
    <3>3. QED
      BY <3>1, <3>2 DEF SoleFills
  <2>4. QED
    BY <1>0, <1>4, <2>1, <2>3 DEF Begin, RebuildInv, TypeOK
<1>5. ASSUME NEW h \in Handles, Delete(h)
      PROVE  RebuildInv'
  <2>1. CASE ~Sole(h)
    BY <1>0, <1>5, <2>1, NothingPromised DEF Delete, TypeOK
  <2>2. CASE Sole(h)
    <3>1. held'[h] = Missing
      BY <1>0, <1>5 DEF Delete, TypeOK
    <3>2. pc'[h] # "idle" /\ \A g \in Handles : g # h => pc'[g] = pc[g]
      BY <1>0, <1>5 DEF Delete, TypeOK
    <3>3. ASSUME pc'[h] # "delete", NEW k \in Copied
          PROVE  ~Settled(h, k)'
      <4>1. table'[h] = 1 /\ pc'[h] = "list"
        BY <1>0, <1>5, <3>3 DEF Delete, TypeOK
      <4>2. QED
        BY <4>1 DEF Settled
    <3>4. QED
      BY <1>0, <1>5, <2>2, <3>1, <3>2, <3>3, SoleGoesOn DEF Delete
  <2>3. QED
    BY <2>1, <2>2
<1>6. ASSUME NEW h \in Handles, List(h)
      PROVE  RebuildInv'
  <2>1. CASE ~Sole(h)
    BY <1>0, <1>6, <2>1, NothingPromised DEF List, TypeOK, observers
  <2>2. CASE Sole(h)
    <3>1. held'[h] = Missing
      BY <1>0, <1>6 DEF List, TypeOK
    <3>2. pc'[h] = "fill" /\ \A g \in Handles : g # h => pc'[g] = pc[g]
      BY <1>0, <1>6 DEF List, TypeOK
    <3>3. ASSUME NEW k \in Copied, store[k] \in 1..start[h], Settled(h, k)'
          PROVE  Restored(k)'
      <4>1. k \in Filled[table[h]] => k \in todo'[h]
        BY <1>0, <1>6, <3>3, SentinelAssumption DEF List, TypeOK
      <4>2. Settled(h, k)
        BY <1>6, <3>3, <4>1 DEF List, Settled
      <4>3. QED
        BY <1>6, <2>2, <3>3, <4>2 DEF List, RebuildInv, SoleFills, Restored, observers
    <3>4. QED
      BY <1>0, <1>6, <2>2, <3>1, <3>2, <3>3, SoleGoesOn DEF List, observers
  <2>3. QED
    BY <2>1, <2>2
<1>7. ASSUME NEW h \in Handles, Read(h)
      PROVE  RebuildInv'
  <2>1. CASE ~Sole(h)
    BY <1>0, <1>7, <2>1, NothingPromised DEF Read, TypeOK, observers
  <2>2. CASE Sole(h)
    <3>1. PICK k \in todo[h] : /\ store[k] \in Nat
                               /\ held' = [held EXCEPT ![h] = <<k, store[k]>>]
                               /\ todo' = [todo EXCEPT ![h] = @ \ {k}]
      BY <1>7 DEF Read
    <3>2. held'[h] = <<k, store[k]>> /\ todo'[h] = todo[h] \ {k} /\ held'[h] # Missing
      BY <1>0, <3>1, SentinelAssumption DEF TypeOK
    <3>3. ASSUME NEW x \in Copied, store[x] \in 1..start[h], Settled(h, x)'
          PROVE  Restored(x)'
      <4>1. Settled(h, x)
        BY <1>7, <3>2, <3>3 DEF Read, Settled
      <4>2. QED
        BY <1>7, <2>2, <3>3, <4>1 DEF Read, RebuildInv, SoleFills, Restored, observers
    <3>4. QED
      BY <1>0, <1>7, <2>2, <3>2, <3>3, SoleGoesOn DEF Read, observers
  <2>3. QED
    BY <2>1, <2>2
<1>8. ASSUME NEW h \in Handles, Insert(h)
      PROVE  RebuildInv'
  <2>0. pc[h] = "fill"
    BY <1>0, <1>8 DEF Insert, TypeOK
  <2>1. CASE ~Sole(h)
    BY <1>0, <1>8, <2>0, <2>1, NothingPromised DEF Insert, TypeOK, observers
  <2>2. CASE Sole(h)
    <3>1. held'[h] = Missing
      BY <1>0, <1>8 DEF Insert, TypeOK
    <3>2. ASSUME NEW k \in Copied, store[k] \in 1..start[h], Settled(h, k)'
          PROVE  Restored(k)'
      <4>1. k \in Keys
        BY DEF Keys
      <4>2. CASE held[h][1] = k
        BY <1>0, <1>8, <2>2, <3>2, <4>1, <4>2 DEF Insert, RebuildInv, SoleFills, Restored, TypeOK
      <4>3. CASE held[h][1] # k
        <5>1. Settled(h, k)
          BY <1>8, <3>2, <4>3 DEF Insert, Settled
        <5>2. QED
          BY <1>0, <1>8, <2>0, <2>2, <3>2, <4>1, <4>3, <5>1
             DEF Insert, RebuildInv, SoleFills, Restored, TypeOK, observers
      <4>4. QED
        BY <4>2, <4>3
    <3>3. QED
      BY <1>0, <1>8, <2>0, <2>2, <3>1, <3>2, SoleGoesOn DEF Insert, observers
  <2>3. QED
    BY <2>1, <2>2
<1>9. ASSUME NEW h \in Handles, NextTable(h)
      PROVE  RebuildInv'
  <2>1. CASE ~Sole(h)
    BY <1>0, <1>9, <2>1, NothingPromised DEF NextTable, TypeOK, observers
  <2>2. CASE Sole(h)
    <3>1. pc'[h] = "list" /\ table'[h] = table[h] + 1 /\ held'[h] = Missing
      BY <1>0, <1>9 DEF NextTable, TypeOK
    <3>2. ASSUME NEW k \in Copied, store[k] \in 1..start[h], Settled(h, k)'
          PROVE  Restored(k)'
      <4>1. PICK i \in 1..5 : k \in Filled[i] /\ i < table[h] + 1
        BY <3>1, <3>2 DEF Settled
      <4>2. i < table[h] \/ i = table[h]
        BY <1>0, <4>1 DEF TypeOK
      <4>3. Settled(h, k)
        BY <1>9, <4>1, <4>2 DEF NextTable, Settled
      <4>4. QED
        BY <1>9, <2>2, <3>2, <4>3 DEF NextTable, RebuildInv, SoleFills, Restored, observers
    <3>3. QED
      BY <1>0, <1>9, <2>2, <3>1, <3>2, SoleGoesOn DEF NextTable, TypeOK, observers
  <2>3. QED
    BY <2>1, <2>2
<1>10. ASSUME NEW h \in Handles, Done(h)
       PROVE  RebuildInv'
  <2>1. pc'[h] = "idle" /\ \A g \in Handles : g # h => pc'[g] = pc[g]
    BY <1>0, <1>10 DEF Done, Return, TypeOK
  <2>2. CASE ~Sole(h)
    <3>1. built' = 0 /\ built = 0
      BY <1>0, <1>10, <2>2 DEF Done, Sole, RebuildInv, Busy, TypeOK
    <3>2. QED
      BY <1>0, <1>10, <2>1, <2>2, <3>1, NothingPromised DEF Done
  <2>3. CASE Sole(h)
    <3>1. Busy' = {} /\ \A g \in Handles : ~Sole(g)'
      BY <2>1, <2>3 DEF RebuildInv, SoleFills, Busy, Sole
    <3>2. built' = start[h] /\ UNCHANGED <<row, store, late, start, writes>>
      BY <1>10, <2>3 DEF Done, Sole
    <3>3. \A k \in Copied : Settled(h, k)
      <4> TAKE k \in Copied
      <4>1. PICK i \in 1..5 : k \in Filled[i]
        BY FilledTables
      <4>2. QED
        BY <1>10, <4>1 DEF Done, Settled
    <3>4. \A k \in Copied : store[k] \in 1..start[h] => Restored(k)
      BY <1>10, <2>3, <3>3 DEF Done, RebuildInv, SoleFills
    <3>5. RebuildRestores'
      BY <3>2, <3>4 DEF RebuildRestores, Restored, Answer
    <3>6. QED
      BY <1>0, <3>1, <3>2, <3>5 DEF RebuildInv
  <2>4. QED
    BY <2>2, <2>3
<1>11. ASSUME NEW h \in Handles, ReadFails(h)
       PROVE  RebuildInv'
  BY <1>0, <1>11, NothingPromised DEF ReadFails, Return, TypeOK, observers
<1>12. ASSUME NEW h \in Handles, InsertFails(h)
       PROVE  RebuildInv'
  BY <1>0, <1>12, NothingPromised DEF InsertFails, Return, TypeOK, observers
<1>13. ASSUME NEW h \in Handles, Fail(h)
       PROVE  RebuildInv'
  BY <1>0, <1>13, NothingPromised DEF Fail, Return, TypeOK, observers
<1>14. CASE UNCHANGED vars
  BY <1>0, <1>14 DEF vars, progress, observers, RebuildInv, RebuildRestores, Answer, Busy,
                     Sole, SoleFills, Settled, Restored
<1>15. QED
  BY <1>1, <1>2, <1>3, <1>4, <1>5, <1>6, <1>7, <1>8, <1>9, <1>10, <1>11, <1>12, <1>13, <1>14
     DEF Next, Step

(* After a rebuild that returned Ok and met no other, every record that    *)
(* the store has not replaced since it began is in the index, in that      *)
(* revision, or has been put back by a late upsert.                        *)
THEOREM SoleRebuildRestores == Spec => []RebuildRestores
<1>1. RebuildInv => RebuildRestores
  BY DEF RebuildInv
<1>2. QED
  BY <1>1, RebuildInvInit, RebuildInvKept, PTL DEF Spec

(***************************************************************************)
(* A rebuild with no rival at all.                                         *)
(***************************************************************************)

Alone(h) == pc[h] # "idle" /\ rivals[h] = {}

Empty(keys) == \A k \in keys : row[k] = Missing

(* What the rebuild of h has emptied and not refilled is still empty.      *)
Cleared(h) ==
  /\ Busy = {h}
  /\ pc[h] = "delete" => \A i \in 1..7 : i < table[h] => Empty(Emptied[i])
  /\ pc[h] = "list" => \A i \in 1..5 : i >= table[h] => Empty(Filled[i])
  /\ pc[h] = "fill" =>
       /\ \A i \in 1..5 : i > table[h] => Empty(Filled[i])
       /\ todo[h] \subseteq Filled[table[h]] /\ Empty(todo[h])
       /\ held[h] # Missing =>
            held[h][1] \in Filled[table[h]] \ todo[h] /\ row[held[h][1]] = Missing

ClashInv == TypeOK /\ \A h \in Handles : Alone(h) => Cleared(h)

(* Steps of h: those that leave nothing to show, and those within a        *)
(* rebuild that has no rival.                                              *)
LEMMA NotAlone ==
  ASSUME ClashInv, TypeOK', NEW h \in Handles, pc[h] # "idle",
         ~Alone(h) \/ pc'[h] = "idle",
         rivals' = rivals, \A g \in Handles : g # h => pc'[g] = pc[g]
  PROVE  ClashInv'
<1>1. \A g \in Handles : g # h => ~Alone(g)
  BY DEF ClashInv, Cleared, Busy, Alone
<1>2. \A g \in Handles : ~Alone(g)'
  BY <1>1 DEF Alone
<1>3. QED
  BY <1>2 DEF ClashInv

LEMMA AloneGoesOn ==
  ASSUME ClashInv, TypeOK', NEW h \in Handles, Alone(h), pc'[h] # "idle",
         rivals' = rivals, \A g \in Handles : g # h => pc'[g] = pc[g],
         Busy' = {h} => Cleared(h)'
  PROVE  ClashInv'
<1>1. Busy = {h} /\ Busy' = {h}
  BY DEF ClashInv, Cleared, Busy, Alone
<1>2. \A g \in Handles : Alone(g)' => g = h
  BY <1>1 DEF Alone, Busy
<1>3. QED
  BY <1>1, <1>2 DEF ClashInv

LEMMA ClashInvKept ==
  ASSUME ClashInv, [Next]_vars
  PROVE  ClashInv'
<1>0. TypeOK /\ TypeOK'
  BY TypesKept DEF ClashInv
<1>1. ASSUME UNCHANGED <<row, progress, rivals>>
      PROVE  ClashInv'
  BY <1>0, <1>1 DEF ClashInv, Alone, Cleared, Busy, Empty, progress
<1>2. ASSUME NEW h \in Handles, NEW k \in Upserted, NEW r \in 1..MaxWrites, Upsert(h, k, r)
      PROVE  ClashInv'
  <2>1. \A g \in Handles : ~Alone(g)'
    BY <1>0, <1>2 DEF Upsert, Alone, TypeOK, progress
  <2>2. QED
    BY <1>0, <2>1 DEF ClashInv
<1>3. ASSUME NEW h \in Handles, Begin(h)
      PROVE  ClashInv'
  <2>1. ASSUME NEW g \in Handles, Alone(g)'
        PROVE  Cleared(g)'
    <3>1. g = h /\ Busy = {}
      BY <1>0, <1>3, <2>1 DEF Begin, Alone, TypeOK, Busy
    <3>2. Busy' = {g} /\ pc'[g] = "delete" /\ table'[g] = 1
      BY <1>0, <1>3, <3>1 DEF Begin, TypeOK, Busy
    <3>3. QED
      BY <3>2 DEF Cleared
  <2>2. QED
    BY <1>0, <2>1 DEF ClashInv
<1>4. ASSUME NEW h \in Handles, Delete(h)
      PROVE  ClashInv'
  <2>1. CASE ~Alone(h)
    BY <1>0, <1>4, <2>1, NotAlone DEF Delete, TypeOK
  <2>2. CASE Alone(h)
    <3>1. \A i \in 1..7 : i <= table[h] => Empty(Emptied[i])'
      <4> SUFFICES ASSUME NEW i \in 1..7, i <= table[h], NEW k \in Emptied[i]
                   PROVE  row'[k] = Missing
        BY DEF Empty
      <4>1. i < table[h] \/ i = table[h]
        BY <1>0 DEF TypeOK
      <4>2. k \in Keys
        <5>1. i = 1 \/ i = 2 \/ i = 3 \/ i = 4 \/ i = 5 \/ i = 6 \/ i = 7
          OBVIOUS
        <5>2. QED
          BY <5>1 DEF Emptied, Keys, Copied
      <4>3. i < table[h] => row[k] = Missing
        BY <1>4, <2>2 DEF Delete, ClashInv, Cleared, Empty
      <4>4. QED
        BY <1>4, <4>1, <4>2, <4>3 DEF Delete
    <3>2. pc'[h] # "idle" /\ \A g \in Handles : g # h => pc'[g] = pc[g]
      BY <1>0, <1>4 DEF Delete, TypeOK
    <3>3. ASSUME Busy' = {h}
          PROVE  Cleared(h)'
      <4>1. CASE table[h] < 7
        <5>1. pc'[h] = "delete" /\ table'[h] = table[h] + 1
          BY <1>0, <1>4, <4>1 DEF Delete, TypeOK
        <5>2. \A i \in 1..7 : i < table[h] + 1 => i <= table[h]
          BY <1>0 DEF TypeOK
        <5>3. QED
          BY <3>1, <3>3, <5>1, <5>2 DEF Cleared
      <4>2. CASE ~(table[h] < 7)
        <5>1. pc'[h] = "list" /\ table[h] = 7
          BY <1>0, <1>4, <4>2 DEF Delete, TypeOK
        <5>2. \A i \in 1..5 : Empty(Filled[i])'
          <6> TAKE i \in 1..5
          <6>1. i = 1 \/ i = 2 \/ i = 3 \/ i = 4 \/ i = 5
            OBVIOUS
          <6>2. \E j \in 1..7 : Filled[i] = Emptied[j]
            BY <6>1, EmptiedTables
          <6>3. QED
            BY <3>1, <5>1, <6>2 DEF Empty
        <5>3. QED
          BY <3>3, <5>1, <5>2 DEF Cleared
      <4>3. QED
        BY <4>1, <4>2
    <3>4. QED
      BY <1>0, <1>4, <2>2, <3>2, <3>3, AloneGoesOn DEF Delete
  <2>3. QED
    BY <2>1, <2>2
<1>5. ASSUME NEW h \in Handles, List(h)
      PROVE  ClashInv'
  <2>1. CASE ~Alone(h)
    BY <1>0, <1>5, <2>1, NotAlone DEF List, TypeOK, observers
  <2>2. CASE Alone(h)
    <3>1. /\ pc'[h] = "fill" /\ table'[h] = table[h] /\ table[h] \in 1..5
          /\ held'[h] = Missing /\ todo'[h] \subseteq Filled[table[h]]
          /\ \A g \in Handles : g # h => pc'[g] = pc[g]
      BY <1>0, <1>5 DEF List, TypeOK
    <3>2. \A i \in 1..5 : i >= table[h] => Empty(Filled[i])'
      BY <1>5, <2>2 DEF List, ClashInv, Cleared, Empty
    <3>3. Empty(todo[h])'
      BY <3>1, <3>2 DEF Empty
    <3>4. Busy' = {h} => Cleared(h)'
      BY <3>1, <3>2, <3>3 DEF Cleared
    <3>5. QED
      BY <1>0, <1>5, <2>2, <3>1, <3>4, AloneGoesOn DEF List, observers
  <2>3. QED
    BY <2>1, <2>2
<1>6. ASSUME NEW h \in Handles, Read(h)
      PROVE  ClashInv'
  <2>1. CASE ~Alone(h)
    BY <1>0, <1>6, <2>1, NotAlone DEF Read, TypeOK, observers
  <2>2. CASE Alone(h)
    <3>1. PICK k \in todo[h] : /\ store[k] \in Nat
                               /\ held' = [held EXCEPT ![h] = <<k, store[k]>>]
                               /\ todo' = [todo EXCEPT ![h] = @ \ {k}]
      BY <1>6 DEF Read
    <3>2. held'[h] = <<k, store[k]>> /\ todo'[h] = todo[h] \ {k}
      BY <1>0, <3>1 DEF TypeOK
    <3>3. Cleared(h) /\ UNCHANGED <<row, pc, table>>
      BY <1>6, <2>2 DEF Read, ClashInv
    <3>4. Busy' = {h} => Cleared(h)'
      BY <1>6, <3>2, <3>3 DEF Read, Cleared, Empty
    <3>5. QED
      BY <1>0, <1>6, <2>2, <3>4, AloneGoesOn DEF Read, observers
  <2>3. QED
    BY <2>1, <2>2
<1>7. ASSUME NEW h \in Handles, Insert(h)
      PROVE  ClashInv'
  <2>1. pc[h] = "fill" /\ held[h][1] \in Copied
    <3>1. held[h] \in Copied \X (1..MaxWrites)
      BY <1>0, <1>7 DEF Insert, TypeOK
    <3>2. QED
      BY <1>0, <1>7, <3>1 DEF Insert, TypeOK
  <2>2. CASE ~Alone(h)
    BY <1>0, <1>7, <2>1, <2>2, NotAlone DEF Insert, TypeOK, observers
  <2>3. CASE Alone(h)
    <3>1. Cleared(h) /\ held'[h] = Missing /\ UNCHANGED <<pc, table, todo>>
      BY <1>0, <1>7, <2>3 DEF Insert, ClashInv, TypeOK
    <3>2. \A k \in Keys : k # held[h][1] => row'[k] = row[k]
      BY <1>0, <1>7 DEF Insert, TypeOK
    <3>3. table[h] \in 1..5 /\ held[h][1] \in Filled[table[h]] \ todo[h]
      BY <1>0, <1>7, <2>1, <3>1 DEF Insert, Cleared, TypeOK
    <3>4. \A i \in 1..5 : i > table[h] => Empty(Filled[i])'
      <4> SUFFICES ASSUME NEW i \in 1..5, i > table[h], NEW k \in Filled[i]
                   PROVE  row'[k] = Missing
        BY DEF Empty
      <4>1. k # held[h][1]
        BY <3>3, TablesDisjoint
      <4>2. k \in Keys
        BY FilledTables DEF Keys
      <4>3. QED
        BY <2>1, <3>1, <3>2, <4>1, <4>2 DEF Cleared, Empty
    <3>5. Empty(todo[h])'
      <4> SUFFICES ASSUME NEW k \in todo[h]
                   PROVE  row'[k] = Missing
        BY <3>1 DEF Empty
      <4>1. k \in Keys /\ k # held[h][1]
        BY <1>0, <3>3 DEF TypeOK, Keys
      <4>2. QED
        BY <2>1, <3>1, <3>2, <4>1 DEF Cleared, Empty
    <3>6. Busy' = {h} => Cleared(h)'
      BY <2>1, <3>1, <3>4, <3>5 DEF Cleared
    <3>7. QED
      BY <1>0, <1>7, <2>1, <2>3, <3>6, AloneGoesOn DEF Insert, observers
  <2>4. QED
    BY <2>2, <2>3
<1>8. ASSUME NEW h \in Handles, NextTable(h)
      PROVE  ClashInv'
  <2>1. CASE ~Alone(h)
    BY <1>0, <1>8, <2>1, NotAlone DEF NextTable, TypeOK, observers
  <2>2. CASE Alone(h)
    <3>1. /\ pc'[h] = "list" /\ table'[h] = table[h] + 1 /\ row' = row
          /\ \A g \in Handles : g # h => pc'[g] = pc[g]
      BY <1>0, <1>8 DEF NextTable, TypeOK
    <3>2. \A i \in 1..5 : i >= table[h] + 1 => i > table[h]
      BY <1>0 DEF TypeOK
    <3>3. Busy' = {h} => Cleared(h)'
      BY <1>8, <2>2, <3>1, <3>2 DEF NextTable, ClashInv, Cleared, Empty
    <3>4. QED
      BY <1>0, <1>8, <2>2, <3>1, <3>3, AloneGoesOn DEF NextTable, observers
  <2>3. QED
    BY <2>1, <2>2
<1>9. ASSUME NEW h \in Handles, Done(h)
      PROVE  ClashInv'
  BY <1>0, <1>9, NotAlone DEF Done, Return, TypeOK
<1>10. ASSUME NEW h \in Handles, ReadFails(h) \/ InsertFails(h) \/ Fail(h)
       PROVE  ClashInv'
  <2>1. pc[h] # "idle" /\ Return(h) /\ rivals' = rivals
    BY <1>0, <1>10 DEF ReadFails, InsertFails, Fail, TypeOK, observers
  <2>2. QED
    BY <1>0, <2>1, NotAlone DEF Return, TypeOK
<1>11. ASSUME NEW k \in Keys, Save(k)
       PROVE  ClashInv'
  BY <1>1, <1>11 DEF Save, observers
<1>12. ASSUME NEW k \in Copied, Break(k)
       PROVE  ClashInv'
  BY <1>1, <1>12 DEF Break, observers
<1>13. CASE UNCHANGED vars
  BY <1>1, <1>13 DEF vars, observers
<1>14. QED
  BY <1>2, <1>3, <1>4, <1>5, <1>6, <1>7, <1>8, <1>9, <1>10, <1>11, <1>12, <1>13
     DEF Next, Step

(* A rebuild finds a row in its way only if another handle has rebuilt or  *)
(* upserted since it began: whatever an earlier, failed one left behind    *)
(* does not stop it.                                                       *)
THEOREM ClashesHaveRivals == Spec => []ClashHasRival
<1>1. Init => ClashInv
  BY BoundAssumption DEF Init, ClashInv, TypeOK, Alone
<1>2. ClashInv => ClashHasRival
  BY DEF ClashInv, TypeOK, ClashHasRival, Clashes, Alone, Cleared
<1>3. QED
  BY <1>1, <1>2, ClashInvKept, PTL DEF Spec
=============================================================================
