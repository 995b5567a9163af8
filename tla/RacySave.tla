------------------------------ MODULE RacySave ------------------------------
(***************************************************************************)
(* One record file under savers that nothing serialises: what FileStore    *)
(* can rely on when two calls save the same path.  AtomicSave implements   *)
(* it, and FileStore.tla uses the same operators of SharedTemp for each of *)
(* its paths.                                                              *)
(***************************************************************************)
EXTENDS SharedTemp

CONSTANTS Savers, Values, None

VARIABLES rec,    \* what a reader of the target finds
          saving, \* the record each saver is saving, or None
          met     \* what the saves that overlapped each and ended left to it

rvars == <<rec, saving, met>>

Rivals(s) == {t \in Savers \ {s} : saving[t] # None}

Init ==
  /\ rec = None
  /\ saving = [s \in Savers |-> None]
  /\ met = [s \in Savers |-> {}]

Begin(s, v) ==
  /\ saving[s] = None
  /\ saving' = [saving EXCEPT ![s] = v]
  /\ UNCHANGED <<rec, met>>

End(s, left) ==
  /\ saving' = [saving EXCEPT ![s] = None]
  /\ met' = [t \in Savers |-> IF t = s THEN {}
                              ELSE IF t \in Rivals(s) THEN met[t] \cup left
                              ELSE met[t]]

Publish(s) ==
  /\ saving[s] # None
  /\ rec' \in Published(saving[s], met[s], {saving[t] : t \in Rivals(s)})
  /\ End(s, {Torn})

Scribble(s) ==
  /\ saving[s] # None
  /\ Taken(met[s])
  /\ rec' \in {saving[s], Torn}
  /\ UNCHANGED <<saving, met>>

Lose(s) ==
  /\ saving[s] # None
  /\ Taken(met[s])
  /\ End(s, {})
  /\ UNCHANGED rec

Die(s) ==
  /\ saving[s] # None
  /\ rec' \in {rec} \cup (IF Taken(met[s]) THEN {Torn} ELSE {})
  /\ End(s, {saving[s]})

Next == \E s \in Savers : \/ \E v \in Values : Begin(s, v)
                          \/ Publish(s) \/ Scribble(s) \/ Lose(s) \/ Die(s)

Spec == Init /\ [][Next]_rvars
=============================================================================
