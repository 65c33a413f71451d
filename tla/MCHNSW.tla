------------------------------- MODULE MCHNSW --------------------------------
(***************************************************************************)
(* The HNSW index beside a flat index that gets the same calls.            *)
(***************************************************************************)
EXTENDS HNSW

CONSTANTS
  MaxId,        (* the largest id                                         *)
  NoVec         (* stands for no vector in the abstract index             *)

(* The vectors are numbers on a line. *)
ASSUME MCAssumption == MaxId \in Nat /\ Vecs \subseteq Nat /\ NoVec \notin Vecs

VARIABLE flat   (* data_ of the flat index *)

MCIds == 0 .. MaxId
MCDist == [p \in Vecs \X Vecs |-> Max({p[1] - p[2], p[2] - p[1]})]

Flat == INSTANCE FlatIndex

MCInit == Init /\ flat = Flat!Empty

MCNext ==
  \/ Reload /\ UNCHANGED flat
  \/ \E iid \in Ids :
       \/ /\ \E vec \in Vecs, level \in 0 .. MaxLevel :
               /\ \/ InsertFirst(iid, vec, level)
                  \/ Insert(iid, vec, level)
                  \/ InsertUndefined(iid, vec, level)
               /\ flat' = Flat!Inserted(flat, iid, vec)
       \/ /\ RemoveNode(iid)
          /\ flat' = Flat!Removed(flat, iid)

MCSpec == MCInit /\ [][MCNext]_<<vars, flat>>

Ks == 1 .. Cardinality(Ids)

-----------------------------------------------------------------------------
(* As long as no removed id has come again, the graph is one that searches can
   walk: every link leads to another node, once per list, and to one that has
   the link's layer; no list is longer than its limit; the entry point is a node
   of the highest level (Insert, hnsw.cpp:145-183). *)
GraphStructure ==
  hazards \cap {"replaced", "undefined"} = {} =>
    /\ \A id \in DOMAIN nodes : \A l \in 0 .. Level(nodes[id]) :
         LET list == Links(nodes, id, l)
         IN  /\ IsInjective(list)
             /\ Len(list) <= MaxLinks(l)
             /\ \A nb \in ToSet(list) : nb # id /\ l <= Level(nodes[nb])
    /\ has_entry <=> DOMAIN nodes # {}
    /\ has_entry => /\ max_level = Level(nodes[entry_id])
                    /\ \A id \in DOMAIN nodes : Level(nodes[id]) <= max_level

(* What Search returns are vectors that the flat index holds, at their true
   distance, each once and in order, and no more than k: no removed node comes
   back through a list that still names it, whatever was cut (hnsw.cpp:62-88). *)
SearchReturnsLive ==
  "undefined" \notin hazards =>
    \A q \in Vecs, k \in Ks :
      LET found == Search(q, k, 0)
      IN  /\ Len(found) <= k
          /\ \A i \in DOMAIN found : \A j \in 1 .. (i - 1) : Before(found[j], found[i])
          /\ ToSet(found) \subseteq {Flat!Pair(flat[i], q) : i \in DOMAIN flat}

(* Until a node is removed or a list is cut, and with ef not below the number
   of nodes, Search answers every query as the search of all vectors does: the
   descent through the layers and the early stop lose nothing, because each
   Insert has tied its node to the rest of layer 0 (hnsw.cpp:135-148, 203-218). *)
SearchIsExact ==
  hazards = {} => \A q \in Vecs, k \in Ks : Search(q, k, 0) = Flat!Search(flat, q, k)

-----------------------------------------------------------------------------
(* The vectors that are not marked deleted, and the count. *)
Abstract == INSTANCE VectorIndex WITH
  Absent <- NoVec,
  stored <- [id \in Ids |-> IF id \in DOMAIN nodes /\ ~nodes[id].deleted
                            THEN nodes[id].vec ELSE NoVec],
  size <- count

(* Insert, Remove and Count are those of the abstract index, for ids that
   come again after they were removed too, until an Insert has counted the removed
   nodes in (hnsw.cpp:133), and again once the index was saved and loaded, which
   changes nothing else (hnsw_io.cpp:199-202); until an Insert goes out of bounds. *)
ImplementsVectorIndex ==
  /\ Abstract!Init
  /\ [][(hazards \cup hazards') \cap {"miscount", "undefined"} = {}
          => Abstract!Next \/ UNCHANGED Abstract!indexVars]_vars

(* Inserting a removed id again, as the test InsertRemoveReinsert does
   (tests/test_hnsw.cpp:172), never leads a later Insert behind the end of a
   node's lists (hnsw.cpp:147). *)
ReinsertStaysInBounds == "undefined" \notin hazards
=============================================================================
