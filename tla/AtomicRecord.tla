---------------------------- MODULE AtomicRecord ----------------------------
(***************************************************************************)
(* What FileStore::save promises of one record file, without the           *)
(* temporary file, the inodes and the page cache that implement it: a      *)
(* reader finds a whole record or no record, a write replaces one whole    *)
(* record by another, and a power loss takes the file back to a whole      *)
(* record it held before.                                                  *)
(***************************************************************************)
CONSTANTS Values, \* the records a caller may save
          None    \* the file does not exist

VARIABLES rec,    \* what a reader of the file finds
          stable  \* what a reader would find after a power loss

avars == <<rec, stable>>

Init == rec = None /\ stable = None

Write(v) == rec' = v /\ UNCHANGED stable

Harden == stable' = rec /\ UNCHANGED rec

PowerLoss == rec' = stable /\ UNCHANGED stable

Next == (\E v \in Values : Write(v)) \/ Harden \/ PowerLoss

Spec == Init /\ [][Next]_avars
=============================================================================
