--------------------------- MODULE MCSqliteIndex ---------------------------
(***************************************************************************)
(* Instances of SqliteIndex for TLC.                                       *)
(***************************************************************************)
EXTENDS SqliteIndex, TLC

Interchangeable == Permutations(Handles) \cup Permutations(Objects)
=============================================================================
