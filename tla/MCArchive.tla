----------------------------- MODULE MCArchive -----------------------------
(***************************************************************************)
(* Instances of Archive for TLC.                                           *)
(***************************************************************************)
EXTENDS Archive, TLC

Interchangeable == Permutations(Objects) \cup Permutations(Versions) \cup Permutations(Writers)
=============================================================================
