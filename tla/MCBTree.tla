------------------------------ MODULE MCBTree -------------------------------
(* BTree on small trees, against OrderedMap. *)
EXTENDS BTree

(* Every key has a value of its own, and one key may have two. *)
OneValue == {<<k, 10 * k>> : k \in Keys}
TwoValues == OneValue \cup {<<2, 21>>}

Map == INSTANCE OrderedMap WITH
  Absent <- NotFound,
  contents <- [k \in Keys |-> Find(k)],
  size <- count

(* Until one of the hazards happens, the tree is the map of its header file: a
   split, a failed split that cost only a page, the removal of a root level, Save
   and Reopen change nothing that Find or Count shows. *)
ImplementsOrderedMap ==
  /\ Map!Init
  /\ [][hazards' = {} => [Map!Next]_(Map!mapVars)]_vars

(* RangeQuery returns the pairs that Find finds, in ascending order of the keys,
   and nothing else (btree.h:61). *)
RangeAgreesWithFind ==
  LET found == {<<k, Find(k)>> : k \in {x \in Keys : Find(x) # NotFound}}
  IN  hazards = {} =>
        \A lo, hi \in Keys :
          LET out == RangeQuery(lo, hi)
          IN  /\ \A i, j \in DOMAIN out : i < j => out[i][1] < out[j][1]
              /\ ToSet(out) = {pair \in found : lo <= pair[1] /\ pair[1] <= hi}

(* A split that fails half way (btree.cpp:215, 229, 257, 271, 276, 287, 299) loses
   no key from the chain of leaves: from any key on, a range query still returns
   every pair that Find found before. *)
FailedSplitKeepsChain ==
  [][hazards = {} /\ hazards' = {"half_split"} =>
       \A lo, k \in Keys :
         lo <= k /\ Find(k) # NotFound => <<k, Find(k)>> \in ToSet(RangeQuery(lo, k)')]_vars

(* Find never returns a value that was inserted under another key, not even after
   removals went wrong or calls failed, as long as Save and Load have been safe. *)
NoForeignValue ==
  hazards \cap {"save_full", "root_moved", "undefined"} = {} =>
    \A k \in Keys : Find(k) # NotFound => <<k, Find(k)>> \in Inputs

(* btree.h:45, "Remove a key from the tree": a removal that succeeds removes its
   key and leaves every other pair. *)
RemoveTakesOneKey ==
  [][\A key \in Keys :
       RemoveFromLeaf(key) \/ RemoveFromParent(key) \/ RemoveRootLevel(key) =>
         /\ Find(key)' = NotFound
         /\ \A k \in Keys \ {key} : Find(k)' = Find(k)]_vars

(* btree.h:69, "Persist tree metadata": saving changes no pair of the tree. *)
SaveKeepsPairs ==
  [][Save => \A k \in Keys : Find(k)' = Find(k)]_vars
=============================================================================
