----------------------------- MODULE OrderedMap -----------------------------
(***************************************************************************)
(* What meta/btree.h promises: a map from keys to values that changes only *)
(* by Insert and Remove, and the number of its keys.  Saving and loading   *)
(* the tree, splits, merges and calls that fail are not visible in it.     *)
(***************************************************************************)
EXTENDS Integers

CONSTANTS Keys, Inputs, Absent

VARIABLES contents, size

mapVars == <<contents, size>>

Init ==
  /\ contents = [k \in Keys |-> Absent]
  /\ size = 0

Insert(key, val) ==
  /\ contents' = [contents EXCEPT ![key] = val]
  /\ size' = size + (IF contents[key] = Absent THEN 1 ELSE 0)

Remove(key) ==
  /\ size' = size - 1
  /\ contents[key] # Absent
  /\ contents' = [contents EXCEPT ![key] = Absent]

Next ==
  \/ \E in \in Inputs : Insert(in[1], in[2])
  \/ \E key \in Keys : Remove(key)

Spec == Init /\ [][Next]_mapVars
=============================================================================
