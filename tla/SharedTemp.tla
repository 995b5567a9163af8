----------------------------- MODULE SharedTemp -----------------------------
(***************************************************************************)
(* What reaches a target path when saves of it overlap.  FileStore::save   *)
(* derives the temporary name from the target, so two savers of one target *)
(* truncate, write and rename one file: the rename of either may publish   *)
(* the bytes of the other, of both, or of a saver that died.               *)
(***************************************************************************)
CONSTANT Torn

(* The contents a rename may publish: the saver's own record, and, if      *)
(* saves have overlapped it, theirs: those still running (rivals) and what *)
(* those that ended have left to it (met).                                 *)
Published(own, met, rivals) ==
  {own} \cup met \cup rivals \cup (IF met \cup rivals = {} THEN {} ELSE {Torn})

(* A rival that renamed the temporary file has taken it from this saver,   *)
(* whose handle then writes into the target.                               *)
Taken(met) == Torn \in met
=============================================================================
