------------------------------ MODULE FlatIndex ------------------------------
(***************************************************************************)
(* The flat index of index/flat.cpp: a list of records that every search   *)
(* reads in full.  Each call holds mu_ for all it does, so the operations  *)
(* are operators on the list, for whoever owns it.                         *)
(***************************************************************************)
EXTENDS Nearest

CONSTANT Dist       (* dist_fn_: Vecs \X Vecs -> Nat *)

Empty == << >>

(* An id that is there already gets a second record. *)
Inserted(data, iid, vec) == Append(data, [id |-> iid, vec |-> vec])

Positions(data, iid) == {i \in DOMAIN data : data[i].id = iid}

(* The first record of the id goes; without one the list stays as it is. *)
Removed(data, iid) ==
  IF Positions(data, iid) = {} THEN data ELSE RemoveAt(data, Min(Positions(data, iid)))

Pair(rec, q) == <<Dist[<<q, rec.vec>>], rec.id>>

Search(data, q, k) ==
  LET keep(best, rec) == Kept(best, Pair(rec, q), k)
  IN  FoldLeft(keep, << >>, data)

Count(data) == Len(data)
=============================================================================
