---------------------------- MODULE MCAtomicSave ----------------------------
(***************************************************************************)
(* Instances of AtomicSave for TLC: two records of different lengths.  A   *)
(* serialised save needs at most five inodes at a time: the target and the *)
(* temporary file as readers see them, the same two on the medium, and the *)
(* inode about to be created.                                              *)
(***************************************************************************)
EXTENDS AtomicSave, TLC

CONSTANTS short, long

MCValues == {short, long}
MCSize == (short :> 1) @@ (long :> 2)
Interchangeable == Permutations(Savers) \cup Permutations(Inodes)
=============================================================================
