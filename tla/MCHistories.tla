---------------------------- MODULE MCHistories ----------------------------
(***************************************************************************)
(* An instance of Histories for TLC: one work item, completed without an   *)
(* override, reopened at the same time, or completed later with one, and a *)
(* transition of another dimension with one.  The two times are in one     *)
(* second.                                                                 *)
(***************************************************************************)
EXTENDS Histories, TLC

CONSTANT o1

At(dimension, token, admin, time) ==
  [object |-> o1, dimension |-> dimension, token |-> token, admin |-> admin, time |-> time]

MCTransitions == {At("status", "Completed", FALSE, 0), At("status", "Open", FALSE, 0),
                  At("status", "Completed", TRUE, 1), At("review", "Open", TRUE, 1)}

MCArchives ==
  {{<<<<"migrations", 0>>, [time |-> 1]>>}}
  \cup {{<<<<"standing", i>>, At("status", "Completed", FALSE, 0)>>} : i \in Ids}

Interchangeable == Permutations(Clients) \cup Permutations(Ids) \cup Permutations(Versions)
=============================================================================
