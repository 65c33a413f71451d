------------------------------- MODULE BTree --------------------------------
(***************************************************************************)
(* The B+ tree of meta/btree.cpp over pages that keep what is written to   *)
(* them (PageStore).  A node is a record; a page never written is Blank.   *)
(* Indexes into the code's arrays are zero-based, sequences start at 1.    *)
(*                                                                         *)
(* An operation reads pages and then makes its changes in a fixed order.   *)
(* Each change is a call that can fail (the page cannot be read, no frame  *)
(* is free), so the changes of an operation are computed as a sequence     *)
(* ("effects") and a failing operation applies a strict prefix of it.      *)
(*                                                                         *)
(* Save puts the root id and the count into two words at the end of the    *)
(* root's page.  With the default order a node of 2*Order keys covers      *)
(* them: its last value and its next pointer are the same bytes (254 keys: *)
(* words 508 and 509 of 512).  Load looks for them in page RootPage only,  *)
(* so "tail" is these two words of that page.                              *)
(***************************************************************************)
EXTENDS Integers, FiniteSets, SequencesExt

CONSTANTS
  Order,           (* order_; a node has up to 2*Order keys               *)
  Keys,            (* the keys, a set of numbers                          *)
  Inputs,          (* the pairs <<key, value>> that callers insert        *)
  RootPage,        (* BTREE_ROOT_PAGE_ID                                  *)
  CallsFail,       (* whether calls of the page manager may fail          *)
  Saves,           (* whether the tree is saved and reopened              *)
  InsertUpTo,      (* bounds: a tree that met more hazards than these is  *)
  RemoveUpTo,      (* no longer inserted into, or removed from and saved  *)
  MaxPageId        (* bound of the model on the pages that exist          *)

ASSUME BTreeAssumption ==
  /\ Order \in Nat \ {0}
  /\ RootPage \in Nat \ {0}
  /\ MaxPageId \in Nat
  /\ InsertUpTo \in Nat
  /\ RemoveUpTo \in Nat
  /\ CallsFail \in BOOLEAN
  /\ Saves \in BOOLEAN
  /\ RootPage < MaxPageId
  /\ Keys \subseteq Nat
  /\ Inputs \subseteq Keys \X Nat

VARIABLES
  pages,           (* page id -> node                                     *)
  next_page_id,    (* the id the next new page gets                       *)
  tail,            (* the words of page RootPage that Load reads          *)
  root_page_id,
  count,
  saved,           (* Save has been called since the last change          *)
  hazards          (* what has happened that the code does not survive    *)

vars == <<pages, next_page_id, tail, root_page_id, count, saved, hazards>>

PageIds == 0 .. MaxPageId
NoNext == -1                              (* static_cast<PageID>(-1) *)
Leaf == "leaf"
Internal == "internal"
Blank == [type |-> "blank", keys |-> << >>, vals |-> << >>, next |-> 0]

Hazards == {"underflow", "half_split", "root_lost", "miscount", "save_full",
            "root_moved", "undefined"}

(* What btree.cpp:199 and 250 allow.  btree.h:19 documents order as the "maximum
   number of keys per node": a node has up to twice as many. *)
MaxKeys == 2 * Order

OverflowsLate(n) == n > MaxKeys + 1                                   (* mutant *)
Overflows(n) == n > MaxKeys

ReadNode(p) == IF p \in PageIds THEN pages[p] ELSE Blank

Node(type, keys, vals, next) ==
  [type |-> type, keys |-> keys, vals |-> vals, next |-> next]

Full(node) == Len(node.keys) = MaxKeys

(* The tail after a node is written: only a full one reaches that far. *)
TailUnder(node) == IF Full(node) THEN <<Last(node.vals), node.next>> ELSE tail

Children(node) == Append(node.vals, node.next)

(* Every page is a node with a value for each key, and no more keys than the code's
   limit, which is twice the documented one (btree.h:19). *)
TypeOK ==
  /\ \A p \in PageIds :
       /\ pages[p].type \in {Leaf, Internal, "blank"}
       /\ pages[p].keys \in Seq(Keys) /\ Len(pages[p].keys) <= MaxKeys
       /\ Len(pages[p].vals) = Len(pages[p].keys)
  /\ next_page_id \in Nat
  /\ tail \in Int \X Int
  /\ count \in Int
  /\ saved \in BOOLEAN
  /\ hazards \subseteq Hazards

Init ==
  /\ pages = [p \in PageIds |-> Blank]
  /\ next_page_id = RootPage + 1
  /\ tail = <<0, 0>>
  /\ root_page_id = RootPage
  /\ count = 0
  /\ saved = FALSE
  /\ hazards = {}

(* Nothing undefined has happened, nor more hazards than the model follows. *)
Usable(bound) == "undefined" \notin hazards /\ Cardinality(hazards) <= bound

-----------------------------------------------------------------------------
(* Searching *)

BinarySearch(keys, key) ==
  LET find[r \in (0 .. Len(keys)) \X (0 .. Len(keys))] ==
        LET mid == (r[1] + r[2]) \div 2
        IN  IF r[1] >= r[2] THEN [index |-> r[1], found |-> FALSE]
            ELSE IF keys[mid + 1] = key THEN [index |-> mid, found |-> TRUE]
            ELSE find[IF keys[mid + 1] < key THEN <<mid + 1, r[2]>> ELSE <<r[1], mid>>]
  IN  find[<<0, Len(keys)>>]

ChildIndexLeftOfEqual(node, key) == BinarySearch(node.keys, key).index  (* mutant *)

(* The child to follow for key: right of an equal separator. *)
ChildIndex(node, key) ==
  LET sr == BinarySearch(node.keys, key)
  IN  IF sr.found THEN sr.index + 1 ELSE sr.index

Child(node, key) == Children(node)[ChildIndex(node, key) + 1]

PathEntries == [page : Int, child : Nat]

(* One level down, to the child for key. *)
Deeper(d, key) ==
  LET node == ReadNode(d.page)
  IN  [path |-> Append(d.path, [page |-> d.page, child |-> ChildIndex(node, key)]),
       page |-> Child(node, key),
       left |-> d.left - 1]

(* The pages passed on the way down from the root, each with the child index
   taken, and the page where the descent stops.  A descent longer than the
   number of pages repeats itself for ever. *)
Descent(key, stop) ==
  LET ends(d) == ReadNode(d.page).type \in stop
      down[d \in [path : Seq(PathEntries), page : Int, left : 0 .. MaxPageId + 2]] ==
        IF ends(d) \/ d.left = 0 THEN [path |-> d.path, page |-> d.page, ends |-> ends(d)]
        ELSE down[Deeper(d, key)]
  IN  down[[path |-> << >>, page |-> root_page_id, left |-> MaxPageId + 2]]

(* Find, Remove and RangeQuery stop at any page that is not internal; Insert
   looks for a leaf only. *)
Lookup(key) == Descent(key, {Leaf, "blank"})

(* NoNext stands for the end of a descent without end. *)
LeafFor(key) ==
  LET down[at \in Int \X (0 .. MaxPageId + 2)] ==
        IF ReadNode(at[1]).type # Internal THEN at[1]
        ELSE IF at[2] = 0 THEN NoNext
        ELSE down[<<Child(ReadNode(at[1]), key), at[2] - 1>>]
  IN  down[<<root_page_id, MaxPageId + 2>>]

NotFound == -2

ValueIn(leaf, key) ==
  LET sr == BinarySearch(leaf.keys, key)
  IN  IF leaf.type = Leaf /\ sr.found THEN leaf.vals[sr.index + 1] ELSE NotFound

Find(key) == ValueIn(ReadNode(LeafFor(key)), key)

(* Where RangeQuery is: at key i of a leaf, with what it has put out. *)
Walks == [page : Int, i : Nat \ {0}, left : 0 .. MaxPageId + 2, out : Seq(Keys \X Int)]

(* RangeQuery walks the chain of leaves from the one for start, and stops at a key
   beyond end.  A walk over more pages than there are repeats itself for ever. *)
RangeQuery(start, end) ==
  LET walk[w \in Walks] ==
        LET node == ReadNode(w.page)
        IN  IF w.page = NoNext \/ w.left = 0 THEN w.out
            ELSE IF w.i > Len(node.keys)
            THEN walk[[page |-> node.next, i |-> 1, left |-> w.left - 1, out |-> w.out]]
            ELSE IF node.keys[w.i] > end THEN w.out
            ELSE walk[[w EXCEPT
                   !.i = @ + 1,
                   !.out = IF node.keys[w.i] < start THEN @
                           ELSE Append(@, <<node.keys[w.i], node.vals[w.i]>>)]]
      first == LeafFor(start)
  IN  IF ReadNode(first).type = Leaf
      THEN walk[[page |-> first, i |-> 1, left |-> MaxPageId + 2, out |-> << >>]]
      ELSE << >>

-----------------------------------------------------------------------------
(* Insert.  An effect writes a node to a page, which may be a new page. *)

NewPages(effects) == Cardinality({i \in DOMAIN effects : effects[i].new})

Apply(effects) ==
  /\ pages' = [p \in PageIds |->
                 LET at == {i \in DOMAIN effects : effects[i].page = p}
                 IN  IF at = {} THEN pages[p] ELSE effects[Max(at)].node]
  /\ next_page_id' = next_page_id + NewPages(effects)
  /\ tail' = IF \E i \in DOMAIN effects : effects[i].page = RootPage
             THEN TailUnder(pages'[RootPage]) ELSE tail

WriteNode(p, type, keys, vals, next) ==
  [page |-> p, node |-> Node(type, keys, vals, next), new |-> FALSE]

AllocNode(p, type, keys, vals, next) ==
  [page |-> p, node |-> Node(type, keys, vals, next), new |-> TRUE]

(* A split under way: what is to be inserted one level up, and what was done. *)
Split(effects, promote, left, right) ==
  [effects |-> effects, promote |-> promote, left |-> left, right |-> right,
   done |-> FALSE, root |-> root_page_id]

(* Mutant: the lower half keeps its old next pointer. *)
SplitLeafUnlinked(p, keys, vals) ==
  LET mid == Len(keys) \div 2
  IN  Split(<<AllocNode(next_page_id, Leaf, SubSeq(keys, mid + 1, Len(keys)),
                        SubSeq(vals, mid + 1, Len(vals)), ReadNode(p).next),
              WriteNode(p, Leaf, SubSeq(keys, 1, mid), SubSeq(vals, 1, mid),
                        ReadNode(p).next)>>,
            keys[mid + 1], p, next_page_id)

(* Leaf p with the new pair is cut in two; the upper half moves to a new page. *)
SplitLeaf(p, keys, vals) ==
  LET mid == Len(keys) \div 2
      new == next_page_id
  IN  Split(<<AllocNode(new, Leaf, SubSeq(keys, mid + 1, Len(keys)),
                        SubSeq(vals, mid + 1, Len(vals)), ReadNode(p).next),
              WriteNode(p, Leaf, SubSeq(keys, 1, mid), SubSeq(vals, 1, mid), new)>>,
            keys[mid + 1], p, new)

(* The new root over the two halves of the old one. *)
GrowRoot(s) ==
  LET new == next_page_id + NewPages(s.effects)
  IN  [s EXCEPT !.effects = Append(@, AllocNode(new, Internal, <<s.promote>>,
                                                 <<s.left>>, s.right)),
                !.root = new, !.done = TRUE]

(* One level up: the parent takes the promoted key, or is cut in two itself. *)
InsertIntoParent(entry, s, top) ==
  LET parent == ReadNode(entry.page)
      ci == entry.child
      keys == InsertAt(parent.keys, ci + 1, s.promote)
      children == InsertAt(ReplaceAt(Children(parent), ci + 1, s.left), ci + 2, s.right)
      n == Len(keys)
      smid == n \div 2
      new == next_page_id + NewPages(s.effects)
      split == Split(s.effects \o
                 <<AllocNode(new, Internal, SubSeq(keys, smid + 2, n),
                             SubSeq(children, smid + 2, n), children[n + 1]),
                   WriteNode(entry.page, Internal, SubSeq(keys, 1, smid),
                             SubSeq(children, 1, smid), children[smid + 1])>>,
                 keys[smid + 1], entry.page, new)
  IN  IF ~Overflows(n)
      THEN [s EXCEPT !.effects = Append(@, WriteNode(entry.page, Internal, keys,
                                             SubSeq(children, 1, n), children[n + 1])),
                     !.done = TRUE]
      ELSE IF top THEN GrowRoot(split) ELSE split

(* The levels above the leaf, from the bottom to the root. *)
Climb(path, split) ==
  LET up(s, i) == IF s.done THEN s ELSE InsertIntoParent(path[i], s, i = 1)
  IN  FoldLeft(up, split, Reverse([i \in DOMAIN path |-> i]))

(* Everything Insert does to the pages when no call fails. *)
InsertPlan(key, val) ==
  LET d == Descent(key, {Leaf})
      leaf == ReadNode(d.page)
      sr == BinarySearch(leaf.keys, key)
      keys == InsertAt(leaf.keys, sr.index + 1, key)
      vals == InsertAt(leaf.vals, sr.index + 1, val)
      done(effect) == [Split(<<effect>>, 0, 0, 0) EXCEPT !.done = TRUE]
  IN  IF ReadNode(root_page_id).type = "blank"
      THEN done(WriteNode(root_page_id, Leaf, <<key>>, <<val>>, NoNext))
      ELSE IF sr.found
      THEN done(WriteNode(d.page, Leaf, leaf.keys,
                          ReplaceAt(leaf.vals, sr.index + 1, val), leaf.next))
      ELSE IF ~Overflows(Len(keys))
      THEN done(WriteNode(d.page, Leaf, keys, vals, leaf.next))
      ELSE IF d.path = << >>
      THEN GrowRoot(SplitLeaf(d.page, keys, vals))
      ELSE Climb(d.path, SplitLeaf(d.page, keys, vals))

InsertEnds(key) ==
  /\ ReadNode(root_page_id).type = "blank" \/ Descent(key, {Leaf}).ends
  /\ Usable(InsertUpTo)

(* Bound of the model: the pages an operation writes are pages of the model. *)
Fits(effects) == \A i \in DOMAIN effects : effects[i].page \in PageIds

CountsEveryInsert(key) == TRUE                                        (* mutant *)

(* Whether Insert reaches ++count_: every path but the update of a value. *)
AddsKey(key) ==
  LET leaf == ReadNode(Descent(key, {Leaf}).page)
  IN  ReadNode(root_page_id).type = "blank" \/ ~BinarySearch(leaf.keys, key).found

Insert(key, val) ==
  /\ InsertEnds(key)
  /\ LET plan == InsertPlan(key, val)
     IN  /\ Fits(plan.effects)
         /\ Apply(plan.effects)
         /\ root_page_id' = plan.root
  /\ count' = count + (IF AddsKey(key) THEN 1 ELSE 0)
  /\ saved' = FALSE
  /\ UNCHANGED hazards

(* A call fails after some effects: the error is returned, the rest is missing.
   A new page nothing points to is lost space and no more; once the old leaf has
   been cut, the moved keys hang on its next pointer only. *)
InsertFails(key, val) ==
  /\ CallsFail
  /\ InsertEnds(key)
  /\ LET effects == InsertPlan(key, val).effects
     IN  /\ Fits(effects)
         /\ \E n \in 1 .. (Len(effects) - 1) :
              /\ Apply(SubSeq(effects, 1, n))
              /\ hazards' = hazards \cup (IF n = 1 THEN {} ELSE {"half_split"})
  /\ saved' = FALSE
  /\ UNCHANGED <<root_page_id, count>>

(* Insert's first GetPage of the root fails and the one in WriteLeafNode does
   not: the root becomes a leaf with one pair. *)
InsertOverRoot(key, val) ==
  /\ CallsFail
  /\ Usable(InsertUpTo)
  /\ "root_lost" \notin hazards             (* bound: it happens once *)
  /\ root_page_id \in PageIds
  /\ Apply(<<WriteNode(root_page_id, Leaf, <<key>>, <<val>>, NoNext)>>)
  /\ count' = count + 1
  /\ saved' = FALSE
  /\ hazards' = hazards \cup (IF ReadNode(root_page_id).type = "blank"
                              THEN {} ELSE {"root_lost"})
  /\ UNCHANGED root_page_id

-----------------------------------------------------------------------------
(* Remove *)

Removable(key) == Find(key) # NotFound /\ Usable(RemoveUpTo)

(* Mutant: the keys move up, the values do not. *)
RemoveKeyOnly(key) ==
  LET d == Lookup(key)
      leaf == ReadNode(d.page)
      i == BinarySearch(leaf.keys, key).index + 1
  IN  /\ Removable(key)
      /\ Len(leaf.keys) > 1 \/ d.path = << >>
      /\ Apply(<<WriteNode(d.page, Leaf, RemoveAt(leaf.keys, i),
                           Front(leaf.vals), leaf.next)>>)
      /\ count' = count - 1
      /\ saved' = FALSE
      /\ UNCHANGED <<root_page_id, hazards>>

(* The leaf keeps other keys, or is the root. *)
RemoveFromLeaf(key) ==
  LET d == Lookup(key)
      leaf == ReadNode(d.page)
      i == BinarySearch(leaf.keys, key).index + 1
  IN  /\ Removable(key)
      /\ Len(leaf.keys) > 1 \/ d.path = << >>
      /\ Apply(<<WriteNode(d.page, Leaf, RemoveAt(leaf.keys, i),
                           RemoveAt(leaf.vals, i), leaf.next)>>)
      /\ count' = count - 1
      /\ saved' = FALSE
      /\ UNCHANGED <<root_page_id, hazards>>

(* The leaf below a parent becomes empty.  The leaf's page stays as it is, key and
   all, and so does the next pointer that leads to it.  The parent loses the key
   at ci, and its last child but the rightmost: WriteInternalNode is given pvals,
   from which nothing was removed. *)
Parent(key) == Last(Lookup(key).path).page

Empties(key) ==
  /\ Removable(key)
  /\ Lookup(key).path # << >>
  /\ Len(ReadNode(Lookup(key).page).keys) = 1

RemovedIndex(parent, key) ==
  LET at == BinarySearch(parent.keys, key).index
  IN  IF at >= Len(parent.keys) THEN Len(parent.keys) - 1 ELSE at

RemoveFromParent(key) ==
  LET parent == ReadNode(Parent(key))
      n == Len(parent.keys)
  IN  /\ Empties(key)
      /\ n > 0
      /\ ~(n = 1 /\ Len(Lookup(key).path) = 1)
      /\ Apply(<<WriteNode(Parent(key), Internal,
                           RemoveAt(parent.keys, RemovedIndex(parent, key) + 1),
                           Front(parent.vals), parent.next)>>)
      /\ count' = count - 1
      /\ saved' = FALSE
      /\ hazards' = hazards \cup {"underflow"}
      /\ UNCHANGED root_page_id

(* The parent is the root and has one key: its rightmost child becomes the root,
   which is right only when the other child is the one that is empty. *)
RemoveRootLevel(key) ==
  LET parent == ReadNode(Parent(key))
  IN  /\ Empties(key)
      /\ Len(parent.keys) = 1
      /\ Len(Lookup(key).path) = 1
      /\ root_page_id' = parent.next
      /\ count' = count - 1
      /\ saved' = FALSE
      /\ hazards' = hazards \cup (IF Lookup(key).page = parent.next
                                  THEN {"underflow"} ELSE {})
      /\ UNCHANGED <<pages, next_page_id, tail>>

(* The parent has no key: ci is -1, children[-1] is written, and num_keys wraps
   round to 65535.  Nothing is known of the state after that. *)
RemoveUndefined(key) ==
  /\ Empties(key)
  /\ Len(ReadNode(Parent(key)).keys) = 0
  /\ hazards' = hazards \cup {"undefined"}
  /\ UNCHANGED <<pages, next_page_id, tail, root_page_id, count, saved>>

(* A read or the write after --count_ fails: the count is one too small. *)
RemoveFails(key) ==
  /\ CallsFail
  /\ Removable(key)
  /\ "miscount" \notin hazards              (* bound: it happens once *)
  /\ count' = count - 1
  /\ saved' = FALSE
  /\ hazards' = hazards \cup {"miscount"}
  /\ UNCHANGED <<pages, next_page_id, tail, root_page_id>>

-----------------------------------------------------------------------------
(* Save and Load *)

Save ==
  LET node == ReadNode(root_page_id)
  IN  /\ Saves
      /\ Usable(RemoveUpTo)
      /\ root_page_id \in PageIds
      /\ pages' = IF Full(node)
                  THEN [pages EXCEPT ![root_page_id].vals = Append(Front(@), root_page_id),
                                     ![root_page_id].next = count]
                  ELSE pages
      /\ tail' = IF root_page_id = RootPage THEN <<root_page_id, count>> ELSE tail
      /\ saved' = TRUE
      /\ hazards' = hazards \cup (IF Full(node) THEN {"save_full"} ELSE {})
      /\ UNCHANGED <<next_page_id, root_page_id, count>>

(* A new tree object on the same pages, as the next start makes it: root at
   RootPage, nothing counted, and then Load.  The caller has saved before. *)
Reopen ==
  LET loads == tail[1] \notin {0, NoNext}
  IN  /\ saved
      /\ Usable(RemoveUpTo)
      /\ root_page_id' = IF loads THEN tail[1] ELSE RootPage
      /\ count' = IF loads THEN tail[2] ELSE 0
      /\ hazards' = hazards \cup (IF root_page_id # RootPage THEN {"root_moved"} ELSE {})
      /\ UNCHANGED <<pages, next_page_id, tail, saved>>

Next ==
  \/ \E in \in Inputs :
       \/ Insert(in[1], in[2])
       \/ InsertFails(in[1], in[2])
       \/ InsertOverRoot(in[1], in[2])
  \/ \E key \in Keys :
       \/ RemoveFromLeaf(key)
       \/ RemoveFromParent(key)
       \/ RemoveRootLevel(key)
       \/ RemoveUndefined(key)
       \/ RemoveFails(key)
  \/ Save
  \/ Reopen

Spec == Init /\ [][Next]_vars
=============================================================================
