-------------------------------- MODULE HNSW ---------------------------------
(***************************************************************************)
(* The HNSW graph of index/hnsw.cpp.  Insert, Remove and Search each hold  *)
(* mu_ for all they do, so Insert and Remove are one action each, and      *)
(* Search, which changes nothing, is an operator.  Vectors are members of  *)
(* a set with a table of distances; the random level of a new node is any  *)
(* up to MaxLevel.                                                         *)
(*                                                                         *)
(* A node is removed by marking it deleted: it keeps its links and stays   *)
(* in the lists of others.  Nodes are numbered as they come (types.h:24);  *)
(* a removed id may be inserted again, which replaces its node.            *)
(***************************************************************************)
EXTENDS Nearest

CONSTANTS
  Ids,             (* internal ids, 0 and up                              *)
  Vecs,            (* vectors, as stored and as queried                   *)
  Dist,            (* dist_fn_: Vecs \X Vecs -> Nat                       *)
  M,               (* M_; a list holds M links, on layer 0 twice as many  *)
  EfConstruction,
  EfSearch,
  MaxLevel,        (* bound of the model on the level of a node           *)
  ReinsertIds      (* bound: a run has these ids only when a removed one  *)
                   (* comes again, which happens once                     *)

ASSUME HNSWAssumption ==
  /\ 0 \in Ids /\ Ids = 0 .. (Cardinality(Ids) - 1)
  /\ Dist \in [Vecs \X Vecs -> Nat]
  /\ M \in Nat \ {0}
  /\ EfConstruction \in Nat /\ EfConstruction >= M
  /\ EfSearch \in Nat \ {0}
  /\ MaxLevel \in Nat
  /\ ReinsertIds \subseteq Ids

VARIABLES
  nodes,           (* nodes_: a function whose domain is the ids in use   *)
  entry_id, max_level, has_entry, count,
  hazards          (* what has happened that costs the search its promise *)

vars == <<nodes, entry_id, max_level, has_entry, count, hazards>>

Hazards == {"removed", "miscount", "replaced", "cut", "undefined"}

(* nbrs[l + 1] are the links on layer l; a node has level Len(nbrs) - 1. *)
Level(node) == Len(node.nbrs) - 1
NewNode(vec, level) ==
  [vec |-> vec, deleted |-> FALSE, nbrs |-> [l \in 1 .. (level + 1) |-> << >>]]

MaxLinks(layer) == IF layer = 0 THEN 2 * M ELSE M

TypeOK ==
  /\ DOMAIN nodes \subseteq Ids
  /\ \A id \in DOMAIN nodes :
       /\ nodes[id].vec \in Vecs
       /\ nodes[id].deleted \in BOOLEAN
       /\ Level(nodes[id]) \in 0 .. MaxLevel
       /\ nodes[id].nbrs \in Seq(Seq(DOMAIN nodes))
  /\ entry_id \in Ids
  /\ max_level \in 0 .. MaxLevel
  /\ has_entry \in BOOLEAN
  /\ count \in Nat
  /\ hazards \subseteq Hazards

Init ==
  /\ nodes = << >>
  /\ entry_id = 0
  /\ max_level = 0
  /\ has_entry = FALSE
  /\ count = 0
  /\ hazards = {}

-----------------------------------------------------------------------------
(* Searching graph g for vector q *)

Distance(g, q, id) == Dist[<<q, g[id].vec>>]

PairOf(g, q, id) == <<Distance(g, q, id), id>>

Links(g, id, layer) == IF layer > Level(g[id]) THEN << >> ELSE g[id].nbrs[layer + 1]

Nearer(g, q, cur, nb) ==
  IF ~g[nb].deleted /\ Distance(g, q, nb) < Distance(g, q, cur) THEN nb ELSE cur

NearestLink(g, q, cur, layer) ==
  LET nearer(best, nb) == Nearer(g, q, best, nb)
  IN  FoldLeft(nearer, cur, Links(g, cur, layer))

(* From node to node, each time to the nearest of the links that is nearer. *)
GreedySearch(g, q, entry, layer) ==
  LET from[cur \in DOMAIN g] ==
        LET best == NearestLink(g, q, cur, layer)
        IN  IF best = cur THEN cur ELSE from[best]
  IN  from[entry]

(* VisitedList has four places per node: an id beyond them is never marked. *)
Marked(g, id) == IF id < 4 * Cardinality(DOMAIN g) THEN {id} ELSE {}

NearEnough(s, x, ef) == Len(s.result) < ef \/ x[1] < Last(s.result)[1]

(* SearchLayer looks at link nb: a deleted node is neither kept nor followed. *)
LookedAtAll(g, q, ef, s, nb) ==                                       (* mutant *)
  LET x == PairOf(g, q, nb)
  IN  IF nb \in s.visited \/ ~NearEnough(s, x, ef) THEN s
      ELSE [candidates |-> InSorted(s.candidates, x),
            result |-> Kept(s.result, x, ef),
            visited |-> s.visited \cup Marked(g, nb)]

Looked(g, q, ef, s, nb) ==
  LET x == PairOf(g, q, nb)
      seen == [s EXCEPT !.visited = @ \cup Marked(g, nb)]
  IN  IF nb \in s.visited THEN s
      ELSE IF g[nb].deleted \/ ~NearEnough(s, x, ef) THEN seen
      ELSE [seen EXCEPT !.candidates = InSorted(@, x), !.result = Kept(@, x, ef)]

(* The nearest candidate is followed, until it is farther than the worst result. *)
Followed(g, q, ef, s, layer) ==
  LET look(t, nb) == Looked(g, q, ef, t, nb)
  IN  FoldLeft(look, [s EXCEPT !.candidates = Tail(@)],
               Links(g, Head(s.candidates)[2], layer))

NoneLeft(s) ==
  \/ s.candidates = << >>
  \/ s.result # << >> /\ Head(s.candidates)[1] > Last(s.result)[1]

SearchStates(g) ==
  [candidates : Seq(Nat \X DOMAIN g), result : Seq(Nat \X DOMAIN g), visited : SUBSET DOMAIN g]

(* The ef nearest nodes met from entry on a layer, nearest first. *)
SearchLayer(g, q, entry, ef, layer) ==
  LET e == <<PairOf(g, q, entry)>>
      walk[s \in SearchStates(g)] ==
        IF NoneLeft(s) THEN s.result ELSE walk[Followed(g, q, ef, s, layer)]
  IN  walk[[candidates |-> e,
            result |-> IF g[entry].deleted THEN << >> ELSE e,
            visited |-> Marked(g, entry)]]

(* The layers from "top" down to "bottom". *)
Down(top, bottom) == [i \in 1 .. (top - bottom + 1) |-> top + 1 - i]

(* From the entry point down to the layer above "layer". *)
Descend(g, q, layer) ==
  LET step(cur, l) == GreedySearch(g, q, cur, l)
  IN  FoldLeft(step, entry_id, Down(max_level, layer + 1))

Search(q, k, ef) ==
  IF ~has_entry THEN << >>
  ELSE Take(SearchLayer(nodes, q, Descend(nodes, q, 0), Max({ef, k, EfSearch}), 0), k)

-----------------------------------------------------------------------------
(* Insert *)

(* SelectNeighbors: the M nearest of what the search of the layer has found. *)
SelectNeighbors(g, pairs) ==
  LET select(ids, x) ==
        IF Len(ids) < M /\ ~g[x[2]].deleted THEN Append(ids, x[2]) ELSE ids
  IN  FoldLeft(select, << >>, pairs)

(* The links of the new node on a layer.  The search reads that layer alone, so
   the links made on the layers above do not matter to it. *)
Neighbors(g, iid, layer) ==
  LET cur == Descend(g, g[iid].vec, Level(g[iid]))
  IN  SelectNeighbors(g, SearchLayer(g, g[iid].vec, cur, EfConstruction, layer))

CutTooLate(g, nb, ids, layer) ==                                      (* mutant *)
  IF Len(ids) <= MaxLinks(layer) + 1 THEN ids ELSE Take(ids, MaxLinks(layer))

(* A list that has grown too long keeps the links to the nearest nodes. *)
Cut(g, nb, ids, layer) ==
  IF Len(ids) <= MaxLinks(layer) THEN ids
  ELSE LET pairs == [i \in DOMAIN ids |-> PairOf(g, g[nb].vec, ids[i])]
       IN  Take(IdsOf(FoldLeft(InSorted, << >>, pairs)), MaxLinks(layer))

LinkedOneWay(g, iid, nb, layer) ==                                    (* mutant *)
  [g EXCEPT ![iid].nbrs[layer + 1] = Append(@, nb)]

(* Both nodes get a link to the other; the older one's list may be cut. *)
Linked(g, iid, nb, layer) ==
  LET both == [[g EXCEPT ![iid].nbrs[layer + 1] = Append(@, nb)]
                  EXCEPT ![nb].nbrs[layer + 1] = Append(@, iid)]
  IN  [both EXCEPT ![nb].nbrs[layer + 1] = Cut(both, nb, @, layer)]

(* The graph with the new node, before and after it is linked. *)
WithNode(iid, vec, level) ==
  [id \in DOMAIN nodes \cup {iid} |-> IF id = iid THEN NewNode(vec, level) ELSE nodes[id]]

(* Graph h with the new node linked on a layer, to its neighbors in g. *)
LinkedOn(g, iid, h, layer) ==
  LET one(k, nb) == Linked(k, iid, nb, layer)
  IN  FoldLeft(one, h, Neighbors(g, iid, layer))

LinkedFrom(g, iid, top) ==
  LET layer(h, l) == LinkedOn(g, iid, h, l)
  IN  FoldLeft(layer, g, Down(top, 0))

TopLayer(level) == IF level < max_level THEN level ELSE max_level

(* No neighbor is linked on a layer that it does not have. *)
InBounds(g, iid, top) ==
  \A l \in 0 .. top : \A nb \in ToSet(Neighbors(g, iid, l)) : l <= Level(g[nb])

(* One of the new neighbors has a full list already. *)
CutsLinks(g, iid, top) ==
  \E l \in 0 .. top : \E nb \in ToSet(Neighbors(g, iid, l)) :
    Len(g[nb].nbrs[l + 1]) >= MaxLinks(l)

(* Ids come as types.h:24 numbers them, and a removed one may come again.  Insert
   itself takes any id and replaces the node of one that is in use (hnsw.cpp:132);
   no caller in the source or its tests gives it a live one twice. *)
MayInsert(iid) ==
  /\ "undefined" \notin hazards
  /\ \/ /\ iid = Cardinality(DOMAIN nodes)
        /\ "replaced" \in hazards => iid \in ReinsertIds
     \/ /\ iid \in DOMAIN nodes
        /\ nodes[iid].deleted
        /\ DOMAIN nodes \subseteq ReinsertIds
        /\ "replaced" \notin hazards

InsertFirst(iid, vec, level) ==
  /\ MayInsert(iid)
  /\ ~has_entry
  /\ nodes' = WithNode(iid, vec, level)
  /\ entry_id' = iid
  /\ max_level' = level
  /\ has_entry' = TRUE
  /\ count' = 1
  /\ UNCHANGED hazards

Insert(iid, vec, level) ==
  LET g == WithNode(iid, vec, level)
      h == LinkedFrom(g, iid, TopLayer(level))
  IN  /\ MayInsert(iid)
      /\ has_entry
      /\ InBounds(g, iid, TopLayer(level))
      /\ nodes' = h
      /\ count' = Cardinality(DOMAIN h)
      /\ entry_id' = IF level > max_level THEN iid ELSE entry_id
      /\ max_level' = IF level > max_level THEN level ELSE max_level
      /\ hazards' = hazards \cup (IF iid \in DOMAIN nodes THEN {"replaced"} ELSE {})
                            \cup (IF CutsLinks(g, iid, TopLayer(level)) THEN {"cut"} ELSE {})
                            \cup (IF \E id \in DOMAIN h : h[id].deleted
                                  THEN {"miscount"} ELSE {})
      /\ UNCHANGED has_entry

(* nodes_[nb].neighbors[lvl] is read and written behind the end of the vector:
   nothing is known of the state after that. *)
InsertUndefined(iid, vec, level) ==
  /\ MayInsert(iid)
  /\ has_entry
  /\ ~InBounds(WithNode(iid, vec, level), iid, TopLayer(level))
  /\ hazards' = hazards \cup {"undefined"}
  /\ UNCHANGED <<nodes, entry_id, max_level, has_entry, count>>

-----------------------------------------------------------------------------
RemoveAgain(iid) == iid \in DOMAIN nodes                              (* mutant *)
Removable(iid) == iid \in DOMAIN nodes /\ ~nodes[iid].deleted

RemoveNode(iid) ==
  /\ "undefined" \notin hazards
  /\ Removable(iid)
  /\ nodes' = [nodes EXCEPT ![iid].deleted = TRUE]
  /\ count' = count - 1
  /\ hazards' = hazards \cup {"removed"}
  /\ UNCHANGED <<entry_id, max_level, has_entry>>

-----------------------------------------------------------------------------
(* HNSWCheckpoint::Save, and Load into a new index with the same parameters, from
   pages that lose nothing (module HNSWCheckpoint).  Nodes, removed ones included,
   and entry point come back as they were; the count is that of the live ones. *)
Reload ==
  /\ "undefined" \notin hazards
  /\ count' = Cardinality({id \in DOMAIN nodes : ~nodes[id].deleted})
  /\ hazards' = hazards \ {"miscount"}
  /\ UNCHANGED <<nodes, entry_id, max_level, has_entry>>

Next ==
  \/ Reload
  \/ \E iid \in Ids :
       \/ \E vec \in Vecs, level \in 0 .. MaxLevel :
            \/ InsertFirst(iid, vec, level)
            \/ Insert(iid, vec, level)
            \/ InsertUndefined(iid, vec, level)
       \/ RemoveNode(iid)

Spec == Init /\ [][Next]_vars
=============================================================================
