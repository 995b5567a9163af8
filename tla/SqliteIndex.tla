---------------------------- MODULE SqliteIndex ----------------------------
(***************************************************************************)
(* The derived index (earmark-index/src/sqlite_index.rs): a database of    *)
(* copies of the store's records, refilled by rebuild_from_store and kept  *)
(* up by upserts.  Each handle (a SqliteIndex value) has a connection of   *)
(* its own behind a mutex, so the operations of one handle take turns;     *)
(* handles of several threads or processes share the database file, where  *)
(* every statement commits by itself.  The store changes at any time.      *)
(***************************************************************************)
EXTENDS Naturals

CONSTANTS Handles,
          Objects, Relations, Runs, Packets, Reviews, \* the records a rebuild copies
          Versions, Handoffs, \* and those whose tables it only empties
          Missing,    \* no record, no row
          Unreadable, \* a listed record that does not parse or is not there
          MaxWrites,  \* bound: records saved in the store
          MaxRebuilds,
          MaxFailures \* bound: failed statements, unreadable records

(* The tables in the order of the DELETEs and of the loops that refill.    *)
Emptied == <<Objects, Versions, Relations, Runs, Packets, Handoffs, Reviews>>
Filled == <<Objects, Relations, Runs, Packets, Reviews>>
Copied == Objects \cup Relations \cup Runs \cup Packets \cup Reviews
Upserted == Objects \cup Relations
Keys == Copied \cup Versions \cup Handoffs

ASSUME TableAssumption ==
  \A i, j \in 1..7 : i # j => Emptied[i] \cap Emptied[j] = {}
ASSUME SentinelAssumption == Missing # Unreadable /\ {Missing, Unreadable} \cap Nat = {}
                             /\ Missing \notin Copied \X Nat
ASSUME BoundAssumption == {MaxWrites, MaxRebuilds, MaxFailures} \subseteq Nat

VARIABLES
  store,   \* the revision of each record in the store
  row,     \* the revision in its row
  pending, \* what depositors have saved and may upsert: <<key, revision>>
  pc, table, todo, \* per handle: where its rebuild is
  held,    \* the record it has read and not yet inserted, or Missing
  writes, rebuilds, failures,
  (* Observers. *)
  start,   \* the writes before each rebuild began
  rivals,  \* what other handles have done since: "rebuild", "upsert"
  built,   \* the writes before the last rebuild that had no rival rebuild, was
           \* acknowledged and not followed by another; 0 if there is none
  late     \* the rows written by an upsert of a revision the store had replaced

progress == <<pc, table, todo, held>>
observers == <<start, rivals, built, late>>
vars == <<store, row, pending, progress, writes, rebuilds, failures, observers>>

Init ==
  /\ store = [k \in Keys |-> Missing]
  /\ row = [k \in Keys |-> Missing]
  /\ pending = {}
  /\ pc = [h \in Handles |-> "idle"]
  /\ table = [h \in Handles |-> 1]
  /\ todo = [h \in Handles |-> {}]
  /\ held = [h \in Handles |-> Missing]
  /\ writes = 0 /\ rebuilds = 0 /\ failures = 0
  /\ start = [h \in Handles |-> 0]
  /\ rivals = [h \in Handles |-> {}]
  /\ built = 0
  /\ late = {}

-----------------------------------------------------------------------------
(* The store (FileStore.tla), as the index sees it.                        *)

Save(k) ==
  /\ writes < MaxWrites
  /\ writes' = writes + 1
  /\ store' = [store EXCEPT ![k] = writes']
  /\ pending' = IF k \in Upserted THEN pending \cup {<<k, writes'>>} ELSE pending
  /\ UNCHANGED <<row, progress, rebuilds, failures, observers>>

(* A directory without its record, or a torn one.                          *)
Break(k) ==
  /\ failures < MaxFailures
  /\ failures' = failures + 1
  /\ store' = [store EXCEPT ![k] = Unreadable]
  /\ UNCHANGED <<row, pending, progress, writes, rebuilds, observers>>

-----------------------------------------------------------------------------
(* What a look-up finds, and a query over the rows; no row is an error.    *)
Answer(k) == row[k]

(* upsert_object, upsert_relation: INSERT OR REPLACE, whatever is there.   *)
Upsert(h, k, r) ==
  /\ pc[h] = "idle"
  /\ <<k, r>> \in pending
  /\ pending' = pending \ {<<k, r>>}
  /\ row' = [row EXCEPT ![k] = r]
  /\ late' = IF store[k] = r THEN late \ {k} ELSE late \cup {k}
  /\ rivals' = [g \in Handles |-> IF pc[g] = "idle" THEN {} ELSE rivals[g] \cup {"upsert"}]
  /\ UNCHANGED <<store, progress, writes, rebuilds, failures, start, built>>

-----------------------------------------------------------------------------
(* rebuild_from_store.                                                     *)

Busy == {h \in Handles : pc[h] # "idle"}

Begin(h) ==
  /\ pc[h] = "idle"
  /\ rebuilds < MaxRebuilds
  /\ rebuilds' = rebuilds + 1
  /\ pc' = [pc EXCEPT ![h] = "delete"]
  /\ table' = [table EXCEPT ![h] = 1]
  /\ start' = [start EXCEPT ![h] = writes]
  /\ rivals' = [g \in Handles |-> IF g = h THEN IF Busy = {} THEN {} ELSE {"rebuild"}
                                  ELSE IF g \in Busy THEN rivals[g] \cup {"rebuild"}
                                  ELSE {}]
  /\ built' = 0
  /\ UNCHANGED <<store, row, pending, todo, held, writes, failures, late>>

(* A mutant: the first DELETE is missing.                                  *)
DeleteButFirst(h) ==
  /\ pc[h] = "delete"
  /\ row' = [k \in Keys |-> IF table[h] > 1 /\ k \in Emptied[table[h]] THEN Missing ELSE row[k]]
  /\ late' = late \ Emptied[table[h]]
  /\ IF table[h] < 7 THEN table' = [table EXCEPT ![h] = @ + 1] /\ pc' = pc
                     ELSE table' = [table EXCEPT ![h] = 1] /\ pc' = [pc EXCEPT ![h] = "list"]
  /\ UNCHANGED <<store, pending, todo, held, writes, rebuilds, failures, start, rivals, built>>

Delete(h) ==
  /\ pc[h] = "delete"
  /\ row' = [k \in Keys |-> IF k \in Emptied[table[h]] THEN Missing ELSE row[k]]
  /\ late' = late \ Emptied[table[h]]
  /\ IF table[h] < 7 THEN table' = [table EXCEPT ![h] = @ + 1] /\ pc' = pc
                     ELSE table' = [table EXCEPT ![h] = 1] /\ pc' = [pc EXCEPT ![h] = "list"]
  /\ UNCHANGED <<store, pending, todo, held, writes, rebuilds, failures, start, rivals, built>>

List(h) ==
  /\ pc[h] = "list"
  /\ todo' = [todo EXCEPT ![h] = {k \in Filled[table[h]] : store[k] # Missing}]
  /\ pc' = [pc EXCEPT ![h] = "fill"]
  /\ UNCHANGED <<store, row, pending, table, held, writes, rebuilds, failures, observers>>

Read(h) ==
  /\ pc[h] = "fill"
  /\ held[h] = Missing
  /\ \E k \in todo[h] :
       /\ store[k] \in Nat
       /\ held' = [held EXCEPT ![h] = <<k, store[k]>>]
       /\ todo' = [todo EXCEPT ![h] = @ \ {k}]
  /\ UNCHANGED <<store, row, pending, pc, table, writes, rebuilds, failures, observers>>

(* Reviews are inserted with OR REPLACE, the others are not.               *)
Clashes(k) == row[k] # Missing /\ k \notin Reviews

Insert(h) ==
  /\ held[h] # Missing
  /\ ~Clashes(held[h][1])
  /\ row' = [row EXCEPT ![held[h][1]] = held[h][2]]
  /\ held' = [held EXCEPT ![h] = Missing]
  /\ UNCHANGED <<store, pending, pc, table, todo, writes, rebuilds, failures, observers>>

NextTable(h) ==
  /\ pc[h] = "fill"
  /\ todo[h] = {} /\ held[h] = Missing
  /\ table[h] < 5
  /\ table' = [table EXCEPT ![h] = @ + 1]
  /\ pc' = [pc EXCEPT ![h] = "list"]
  /\ UNCHANGED <<store, row, pending, todo, held, writes, rebuilds, failures, observers>>

(* A mutant: a failed rebuild keeps the record it was about to insert.     *)
ReturnHolding(h) ==
  /\ pc' = [pc EXCEPT ![h] = "idle"]
  /\ table' = [table EXCEPT ![h] = 1]
  /\ todo' = [todo EXCEPT ![h] = {}]
  /\ UNCHANGED held

Return(h) ==
  /\ pc' = [pc EXCEPT ![h] = "idle"]
  /\ table' = [table EXCEPT ![h] = 1]
  /\ todo' = [todo EXCEPT ![h] = {}]
  /\ held' = [held EXCEPT ![h] = Missing]

(* A mutant: the last loop is forgotten.                                   *)
DoneEarly(h) ==
  /\ pc[h] = "fill"
  /\ todo[h] = {} /\ held[h] = Missing
  /\ table[h] >= 4
  /\ Return(h)
  /\ built' = IF "rebuild" \in rivals[h] THEN 0 ELSE start[h]
  /\ UNCHANGED <<store, row, pending, writes, rebuilds, failures, start, rivals, late>>

Done(h) ==
  /\ pc[h] = "fill"
  /\ todo[h] = {} /\ held[h] = Missing
  /\ table[h] = 5
  /\ Return(h)
  /\ built' = IF "rebuild" \in rivals[h] THEN 0 ELSE start[h]
  /\ UNCHANGED <<store, row, pending, writes, rebuilds, failures, start, rivals, late>>

(* A record that cannot be read, or a row that is there already, ends the  *)
(* rebuild with Err and the index as it is.                                *)
ReadFails(h) ==
  /\ pc[h] = "fill"
  /\ held[h] = Missing
  /\ \E k \in todo[h] : store[k] = Unreadable
  /\ Return(h)
  /\ UNCHANGED <<store, row, pending, writes, rebuilds, failures, observers>>

InsertFails(h) ==
  /\ held[h] # Missing
  /\ Clashes(held[h][1])
  /\ Return(h)
  /\ UNCHANGED <<store, row, pending, writes, rebuilds, failures, observers>>

(* A statement fails (the database is locked, the disk is full), or the    *)
(* process dies.                                                           *)
Fail(h) ==
  /\ pc[h] # "idle"
  /\ failures < MaxFailures
  /\ failures' = failures + 1
  /\ Return(h)
  /\ UNCHANGED <<store, row, pending, writes, rebuilds, observers>>

Step(h) == \/ Delete(h) \/ List(h) \/ Read(h) \/ Insert(h) \/ NextTable(h) \/ Done(h)
           \/ ReadFails(h) \/ InsertFails(h)

Next ==
  \/ \E k \in Keys : Save(k)
  \/ \E k \in Copied : Break(k)
  \/ \E h \in Handles : \/ \E k \in Upserted, r \in 1..MaxWrites : Upsert(h, k, r)
                        \/ Begin(h) \/ Step(h) \/ Fail(h)

Spec == Init /\ [][Next]_vars

-----------------------------------------------------------------------------
(* Properties.                                                             *)

TypeOK ==
  /\ store \in [Keys -> 1..MaxWrites \cup {Missing, Unreadable}]
  /\ row \in [Keys -> 1..MaxWrites \cup {Missing}]
  /\ pending \subseteq Upserted \X (1..MaxWrites)
  /\ pc \in [Handles -> {"idle", "delete", "list", "fill"}]
  /\ table \in [Handles -> 1..7]
  /\ \A h \in Handles : pc[h] \in {"list", "fill"} => table[h] \in 1..5
  /\ todo \in [Handles -> SUBSET Copied]
  /\ held \in [Handles -> (Copied \X (1..MaxWrites)) \cup {Missing}]
  /\ \A h \in Handles : pc[h] # "fill" => held[h] = Missing /\ todo[h] = {}
  /\ writes \in 0..MaxWrites
  /\ rebuilds \in 0..MaxRebuilds
  /\ failures \in 0..MaxFailures
  /\ start \in [Handles -> 0..MaxWrites]
  /\ rivals \in [Handles -> SUBSET {"rebuild", "upsert"}]
  /\ built \in 0..MaxWrites
  /\ late \subseteq Keys

(* "If the index is damaged or deleted, the kernel can rebuild it from the *)
(* canonical store" (docs/architecture.md:30).  After a rebuild that       *)
(* returned Ok and met no other rebuild, a record that the store has not   *)
(* replaced since the rebuild began is in the index, and in that revision, *)
(* whatever the index held before, whatever was saved and upserted during  *)
(* the rebuild and since; except where a late upsert has put an older one. *)
RebuildRestores ==
  \A k \in Copied : store[k] \in 1..built => Answer(k) = store[k] \/ k \in late

(* A rebuild that meets no other rebuild and no upsert never finds a row   *)
(* in its way, after a failed one either: only another handle can make it  *)
(* fail on the uniqueness of a key.                                        *)
ClashHasRival ==
  \A h \in Handles : held[h] # Missing /\ Clashes(held[h][1]) => rivals[h] # {}

(* "1. Rebuild Objects and Versions" (sqlite_index.rs:122), "The system    *)
(* index (SQLite) must be fully reconstructible" (docs/kernel_contract.md: *)
(* 20): the same as RebuildRestores for every table of the schema.         *)
AllTablesRestored ==
  \A k \in Keys : store[k] \in 1..built => Answer(k) = store[k] \/ k \in late
=============================================================================
