---------------------------- MODULE MCFileStore ----------------------------
(***************************************************************************)
(* Instances of FileStore for TLC.  Ids, classes and payloads are opaque   *)
(* to the store, so they and the clients are interchangeable in the runs   *)
(* that check safety.                                                      *)
(***************************************************************************)
EXTENDS FileStore, TLC

Interchangeable == Permutations(Clients) \cup Permutations(Objects)
                   \cup Permutations(Versions) \cup Permutations(Classes)
                   \cup Permutations(Payloads)
=============================================================================
