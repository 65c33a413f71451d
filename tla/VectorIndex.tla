----------------------------- MODULE VectorIndex ------------------------------
(***************************************************************************)
(* What index/vector_index.h promises of an index: vectors under ids, added *)
(* by Insert and taken away by Remove, and how many there are.  The graph,  *)
(* its levels, tombstones and entry point are not visible in it.            *)
(***************************************************************************)
EXTENDS Integers

CONSTANTS Ids, Vecs, Absent

VARIABLES stored, size

indexVars == <<stored, size>>

Init ==
  /\ stored = [id \in Ids |-> Absent]
  /\ size = 0

Insert(id, vec) ==
  /\ stored[id] = Absent
  /\ stored' = [stored EXCEPT ![id] = vec]
  /\ size' = size + 1

Remove(id) ==
  /\ stored[id] # Absent
  /\ stored' = [stored EXCEPT ![id] = Absent]
  /\ size' = size - 1

Next ==
  \E id \in Ids :
    \/ \E vec \in Vecs : Insert(id, vec)
    \/ Remove(id)

Spec == Init /\ [][Next]_indexVars
=============================================================================
