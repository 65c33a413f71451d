--------------------------- MODULE BTreeMapProofs ---------------------------
(***************************************************************************)
(* The proof that the B+ tree implements OrderedMap, and that RangeQuery   *)
(* agrees with Find, for every order, set of keys and number of pages,     *)
(* until one of the hazards happens.                                       *)
(*                                                                         *)
(* The invariant (Ordered) is that the pages are a search tree: there is a *)
(* picture of it, which gives each page its level and the keys that lead   *)
(* to it, every node divides its keys among its children, and every leaf   *)
(* leads to the next one (Chained).  Then Find returns what the pairs in   *)
(* the leaves say (FindShows), RangeQuery walks through all of them        *)
(* (WalkFinds), and it is left to show what an operation makes of the      *)
(* picture and of the pairs.                                               *)
(*                                                                         *)
(* An insert is followed through its effects.  While a split climbs, the   *)
(* pages are a tree but for two nodes that the level above still takes for *)
(* one (Dividing, Pending); the parent makes room for the second one, or   *)
(* is divided itself, up to a new root (Final).  The chain is whole all    *)
(* the time, so that an insert that fails on the way (Torn, Hanging)       *)
(* leaves every pair to RangeQuery.  The removals that the code survives   *)
(* take a pair from a leaf, or the root over two leaves.                   *)
(***************************************************************************)
EXTENDS BTreeProofs

-----------------------------------------------------------------------------
(* The tree that the pages form *)

(* A picture of the tree: the pages that belong to it, each with its level above
   the leaves and the keys that lead to it. *)
Pictures == [pages : SUBSET Int, level : [Int -> Nat], range : [Int -> SUBSET Keys]]

(* The part of R that child i of a node with keys ks is for. *)
Slot(R, ks, i) ==
  {x \in R : (i > 1 => ks[i - 1] <= x) /\ (i <= Len(ks) => x < ks[i])}

LeafFits(R, ks) == Increasing(ks) /\ \A i \in DOMAIN ks : ks[i] \in R

(* The children cs, at level l, divide R among them. *)
Divides(R, l, ks, cs, t, wide) ==
  /\ LeafFits(R, ks)
  /\ Len(cs) = Len(ks) + 1
  /\ \A i \in 1 .. Len(ks) + 1 :
       /\ cs[i] \in t.pages
       /\ t.level[cs[i]] = l
       /\ wide[cs[i]] = Slot(R, ks, i)
       /\ Slot(R, ks, i) # {}

NodeFits(V, root, t, wide, p) ==
  IF t.level[p] = 0
  THEN /\ V[p].type = Leaf \/ (p = root /\ V[p] = Blank)
       /\ LeafFits(t.range[p], V[p].keys)
  ELSE /\ V[p].type = Internal
       /\ Divides(t.range[p], t.level[p] - 1, V[p].keys, Children(V[p]), t, wide)

(* No key leads to two pages of a level. *)
Disjoint(t) ==
  \A p, q \in t.pages :
    p # q /\ t.level[p] = t.level[q] => t.range[p] \cap t.range[q] = {}

(* The nodes V are a search tree below root.  While a node is being divided, wide
   is what the levels above it still take for its range. *)
Tree(V, root, t, wide) ==
  /\ root \in t.pages
  /\ wide[root] = Keys
  /\ Disjoint(t)
  /\ \A p \in t.pages : NodeFits(V, root, t, wide, p)

Has(node, key, val) == \E i \in DOMAIN node.keys : node.keys[i] = key /\ node.vals[i] = val

(* The pairs in the leaves. *)
PairsIn(V, t) ==
  {pr \in AnyPair : \E p \in t.pages : t.level[p] = 0 /\ Has(V[p], pr[1], pr[2])}

View == [p \in Int |-> ReadNode(p)]

LEMMA ViewType ==
  ASSUME NEW P, Holding(P)
  PROVE  View \in [Int -> NodesOver(P)]
BY ReadNodeType DEF View

LEMMA PictureFacts ==
  ASSUME NEW t \in Pictures, NEW p \in t.pages
  PROVE  /\ p \in Int /\ t.level[p] \in Nat /\ t.range[p] \subseteq Keys
BY DEF Pictures

(* The slots of sorted keys are apart. *)
LEMMA SlotsApart ==
  ASSUME NEW R, R \subseteq Keys, NEW ks \in Seq(Keys), Increasing(ks),
         NEW i \in 1 .. Len(ks) + 1, NEW j \in 1 .. Len(ks) + 1,
         NEW x \in Slot(R, ks, i), x \in Slot(R, ks, j)
  PROVE  i = j
<1>1. /\ Len(ks) \in Nat /\ DOMAIN ks = 1 .. Len(ks) /\ x \in Int
      /\ \A n \in 1 .. Len(ks) : ks[n] \in Int
  BY LenProperties, ElementOfSeq, OrderFacts DEF Slot
<1>2. ASSUME NEW a \in 1 .. Len(ks) + 1, NEW b \in 1 .. Len(ks) + 1,
             x \in Slot(R, ks, a), x \in Slot(R, ks, b), a < b
      PROVE FALSE
  <2>1. a \in 1 .. Len(ks) /\ b - 1 \in 1 .. Len(ks) /\ (a = b - 1 \/ a < b - 1)
    BY <1>1, <1>2
  <2>2. x < ks[a] /\ ks[b - 1] <= x
    BY <1>1, <1>2, <2>1 DEF Slot
  <2>3. a < b - 1 => ks[a] < ks[b - 1]
    BY <1>1, <2>1 DEF Increasing
  <2>4. ks[a] \in Int /\ ks[b - 1] \in Int
    BY <1>1, <2>1
  <2> QED BY <1>1, <2>1, <2>2, <2>3, <2>4
<1>3. i \in Int /\ j \in Int
  BY <1>1
<1> QED
  BY <1>2, <1>3

(* The child for a key is the one whose slot the key is in. *)
LEMMA ChildSlot ==
  ASSUME NEW P, NEW node \in NodesOver(P), Increasing(node.keys), NEW key \in Keys,
         NEW R, key \in R
  PROVE  /\ ChildIndex(node, key) + 1 \in 1 .. Len(node.keys) + 1
         /\ key \in Slot(R, node.keys, ChildIndex(node, key) + 1)
<1> DEFINE ks == node.keys
           n == Len(ks)
           sr == BinarySearch(ks, key)
           ci == ChildIndex(node, key)
<1>1. ks \in Seq(Keys) /\ n \in Nat /\ DOMAIN ks = 1 .. n
  BY NodeFacts
<1>2. \A i \in 1 .. n : ks[i] \in Int
  BY <1>1, ElementOfSeq, OrderFacts
<1>3. sr \in Places(ks, key) /\ key \in Int
  BY <1>1, BinarySearchFinds, OrderFacts
<1>4. ci \in 0 .. n
  BY ChildFacts
<1>5. ci = IF sr.found THEN sr.index + 1 ELSE sr.index
  BY DEF ChildIndex
<1>6. /\ sr.index \in 0 .. n
      /\ sr.found => sr.index < n /\ ks[sr.index + 1] = key
      /\ \A i \in 1 .. sr.index : ks[i] < key
      /\ ~sr.found => \A i \in (sr.index + 1) .. n : key < ks[i]
  BY <1>3 DEF Places
<1> HIDE DEF ci, sr, n, ks
<1>7. CASE sr.found
  <2>1. ci = sr.index + 1 /\ ci \in 1 .. n /\ ks[ci] = key
    BY <1>1, <1>5, <1>6, <1>7
  <2>2. ci + 1 <= n => key < ks[ci + 1]
    <3>1. SUFFICES ASSUME ci + 1 <= n PROVE key < ks[ci + 1]
      OBVIOUS
    <3>2. ci \in DOMAIN ks /\ ci + 1 \in DOMAIN ks /\ ci < ci + 1
      BY <1>1, <2>1, <3>1
    <3> QED BY <2>1, <3>2 DEF Increasing, ks
  <2> QED BY <1>1, <1>3, <2>1, <2>2 DEF Slot, n, ks, ci
<1>8. CASE ~sr.found
  <2>1. ci = sr.index
    BY <1>5, <1>8
  <2>2. ci + 1 > 1 => ks[ci] <= key
    <3>1. SUFFICES ASSUME ci + 1 > 1 PROVE ks[ci] <= key
      OBVIOUS
    <3>2. ci \in 1 .. sr.index /\ ci \in 1 .. n
      BY <1>1, <1>4, <2>1, <3>1
    <3> QED BY <1>2, <1>3, <1>6, <3>2
  <2>3. ci + 1 <= n => key < ks[ci + 1]
    <3>1. SUFFICES ASSUME ci + 1 <= n PROVE key < ks[ci + 1]
      OBVIOUS
    <3>2. ci + 1 \in (sr.index + 1) .. n
      BY <1>1, <1>4, <2>1, <3>1
    <3> QED BY <1>6, <1>8, <3>2
  <2> QED BY <1>1, <1>4, <2>2, <2>3 DEF Slot, n, ks, ci
<1> QED
  BY <1>7, <1>8

-----------------------------------------------------------------------------
(* The descent in a tree *)

(* The pages passed on the way to key: one at each level, down to the leaves. *)
Passed(path, key, t, h) ==
  \A i \in DOMAIN path :
    /\ path[i].page \in t.pages
    /\ t.level[path[i].page] = h + 1 - i
    /\ key \in t.range[path[i].page]

(* The child for a key has the key in its range. *)
LEMMA ChildFits ==
  ASSUME Holding(AnyPair), NEW t \in Pictures, NEW wide, Tree(View, root_page_id, t, wide),
         NEW p \in t.pages, t.level[p] # 0, NEW key \in t.range[p]
  PROVE  LET c == Child(ReadNode(p), key)
         IN  c \in t.pages /\ t.level[c] = t.level[p] - 1 /\ key \in wide[c]
<1> DEFINE node == ReadNode(p)
           i == ChildIndex(node, key) + 1
<1>1. p \in Int /\ key \in Keys /\ View[p] = node /\ node \in NodesOver(AnyPair)
  BY PictureFacts, ReadNodeType DEF View
<1>2. Divides(t.range[p], t.level[p] - 1, node.keys, Children(node), t, wide)
  BY <1>1 DEF Tree, NodeFits
<1> HIDE DEF node
<1>3. i \in 1 .. Len(node.keys) + 1 /\ key \in Slot(t.range[p], node.keys, i)
  BY <1>1, <1>2, ChildSlot DEF Divides, LeafFits
<1>4. Child(node, key) = Children(node)[i]
  BY DEF Child
<1> HIDE DEF i
<1> QED
  BY <1>2, <1>3, <1>4 DEF Divides, node

LEMMA DescentInTree ==
  ASSUME Holding(AnyPair), root_page_id \in Int, NEW t \in Pictures,
         Tree(View, root_page_id, t, t.range), t.level[root_page_id] <= MaxPageId + 2,
         NEW key \in Keys, NEW stop, Leaf \in stop, Internal \notin stop,
         ReadNode(root_page_id).type = "blank" => "blank" \in stop
  PROVE  LET d == Descent(key, stop)
         IN  /\ d.ends /\ d.page \in t.pages /\ t.level[d.page] = 0 /\ key \in t.range[d.page]
             /\ Len(d.path) = t.level[root_page_id]
             /\ Passed(d.path, key, t, t.level[root_page_id])
<1> DEFINE h == t.level[root_page_id]
           N == MaxPageId + 2
           Good(d) == /\ d.page \in t.pages /\ key \in t.range[d.page]
                      /\ Len(d.path) + t.level[d.page] = h
                      /\ t.level[d.page] <= d.left
                      /\ Passed(d.path, key, t, h)
           Fine(o) == /\ o.ends /\ o.page \in t.pages /\ t.level[o.page] = 0
                      /\ key \in t.range[o.page]
                      /\ Len(o.path) = h /\ Passed(o.path, key, t, h)
<1>1. PICK f : DeepestAt(f, key, stop) /\ Descent(key, stop) = f[Start]
  BY DescentLoop
<1> DEFINE Q == {k \in 0 .. N : \A d \in Descents : d.left = k /\ Good(d) => Fine(f[d])}
<1>2. N \in Nat /\ h \in Nat /\ root_page_id \in t.pages
  BY BTreeAssumption, PictureFacts DEF Tree
<1>3. ASSUME NEW d \in Descents, Good(d)
      PROVE  /\ d.left \in Nat /\ d.page \in Int /\ t.level[d.page] \in Nat
             /\ d.path \in Seq(PathEntries) /\ Len(d.path) \in Nat
             /\ (t.level[d.page] = 0) <=> Ends(d, stop)
  <2>1. d.left \in Nat /\ d.page \in Int /\ d.path \in Seq(PathEntries)
    BY <1>2 DEF Descents
  <2>2. t.level[d.page] \in Nat /\ Len(d.path) \in Nat
    BY <1>3, <2>1, PictureFacts, LenProperties
  <2>3. NodeFits(View, root_page_id, t, t.range, d.page) /\ View[d.page] = ReadNode(d.page)
    BY <1>3, <2>1 DEF Tree, View
  <2>4. CASE t.level[d.page] = 0
    <3>1. ReadNode(d.page).type = Leaf
          \/ (d.page = root_page_id /\ ReadNode(d.page).type = "blank")
      BY <2>3, <2>4 DEF NodeFits, Blank
    <3> QED BY <2>1, <2>2, <2>4, <3>1 DEF Ends
  <2>5. CASE t.level[d.page] # 0
    <3>1. ReadNode(d.page).type = Internal
      BY <2>3, <2>5 DEF NodeFits
    <3> QED BY <2>1, <2>2, <2>5, <3>1 DEF Ends
  <2> QED BY <2>4, <2>5
<1>4. ASSUME NEW d \in Descents, Good(d), Ends(d, stop) PROVE Fine(f[d])
  <2>1. t.level[d.page] = 0 /\ Len(d.path) \in Nat
    BY <1>3, <1>4
  <2>2. f[d] = Outcome(d, stop)
    BY <1>1, <1>4 DEF DeepestAt
  <2>3. f[d].ends /\ f[d].page = d.page /\ f[d].path = d.path
    BY <1>4, <2>2 DEF Outcome
  <2>4. Len(d.path) = h
    BY <1>4, <2>1
  <2> HIDE DEF h
  <2> QED BY <1>4, <2>1, <2>3, <2>4
<1>5. ASSUME NEW d \in Descents, Good(d), ~Ends(d, stop)
      PROVE  d.left # 0 /\ Good(Deeper(d, key))
  <2> DEFINE node == ReadNode(d.page)
             e == [page |-> d.page, child |-> ChildIndex(node, key)]
             r == Append(d.path, e)
             c == Child(node, key)
  <2>1. /\ d.left \in Nat /\ t.level[d.page] \in Nat /\ t.level[d.page] # 0
        /\ d.path \in Seq(PathEntries) /\ Len(d.path) \in Nat /\ t.level[d.page] <= d.left
        /\ Len(d.path) + t.level[d.page] = h
    BY <1>3, <1>5
  <2>2. d.left # 0
    BY <2>1
  <2>3. c \in t.pages /\ t.level[c] = t.level[d.page] - 1 /\ key \in t.range[c]
    BY <1>5, <2>1, ChildFits
  <2>4. Deeper(d, key).path = r /\ Deeper(d, key).page = c /\ Deeper(d, key).left = d.left - 1
    BY DEF Deeper
  <2>5. e \in PathEntries
    <3>1. node \in NodesOver(AnyPair) /\ d.page \in Int
      BY <1>3, <1>5, ReadNodeType
    <3>2. ChildIndex(node, key) \in Nat
      BY <3>1, ChildFacts, NodeFacts
    <3> QED BY <3>1, <3>2 DEF PathEntries
  <2>6. e.page = d.page
    OBVIOUS
  <2> HIDE DEF e, c, node
  <2>7. /\ DOMAIN d.path = 1 .. Len(d.path) /\ DOMAIN r = 1 .. (Len(d.path) + 1)
        /\ Len(r) = Len(d.path) + 1
        /\ \A i \in 1 .. Len(d.path) : r[i] = d.path[i]
        /\ r[Len(d.path) + 1] = e
    BY <2>1, <2>5, AppendProperties, LenProperties
  <2> HIDE DEF r, h
  <2>8. Passed(r, key, t, h)
    <3>1. ASSUME NEW i \in DOMAIN r
          PROVE  /\ r[i].page \in t.pages
                 /\ t.level[r[i].page] = h + 1 - i
                 /\ key \in t.range[r[i].page]
      <4>1. CASE i = Len(d.path) + 1
        <5>1. r[i].page = d.page
          BY <2>6, <2>7, <4>1
        <5>2. t.level[d.page] = h + 1 - i
          BY <2>1, <4>1
        <5> QED BY <1>5, <5>1, <5>2
      <4>2. CASE i # Len(d.path) + 1
        <5>1. i \in DOMAIN d.path /\ r[i] = d.path[i]
          BY <2>1, <2>7, <4>2
        <5> QED BY <1>5, <5>1 DEF Passed
      <4> QED BY <4>1, <4>2
    <3> QED BY <3>1 DEF Passed
  <2>9. Len(r) + t.level[c] = h /\ t.level[c] <= d.left - 1
    <3> DEFINE a == t.level[c]
               b == t.level[d.page]
               n == Len(d.path)
    <3>1. a = b - 1 /\ b \in Nat /\ n \in Nat /\ n + b = h /\ b <= d.left /\ d.left \in Nat
      BY <2>1, <2>3
    <3>2. Len(r) = n + 1
      BY <2>7
    <3> HIDE DEF a, b, n
    <3>3. Len(r) + a = h /\ a <= d.left - 1
      BY <1>2, <3>1, <3>2
    <3> QED BY <3>3 DEF a
  <2> QED BY <2>2, <2>3, <2>4, <2>8, <2>9
<1> HIDE DEF Good, Fine
<1>6. 0 \in Q
  <2>1. ASSUME NEW d \in Descents, d.left = 0, Good(d) PROVE Fine(f[d])
    BY <1>4, <1>5, <2>1
  <2>2. 0 \in 0 .. N
    BY <1>2
  <2> QED BY <2>1, <2>2
<1>7. ASSUME NEW k \in 1 .. N, k - 1 \in Q PROVE k \in Q
  <2>1. ASSUME NEW d \in Descents, d.left = k, Good(d), ~Ends(d, stop) PROVE Fine(f[d])
    <3>1. d.left # 0 /\ Good(Deeper(d, key))
      BY <1>5, <2>1
    <3>2. /\ f[d] = f[Deeper(d, key)]
          /\ Deeper(d, key) \in Descents /\ Deeper(d, key).left = k - 1
      BY <1>1, <2>1, <3>1, DeeperType DEF DeepestAt
    <3> QED BY <1>7, <3>1, <3>2
  <2>2. k \in 0 .. N
    OBVIOUS
  <2> QED BY <1>4, <2>1, <2>2
<1>8. N \in Q
  <2>1. 0 .. N \subseteq Q
    <3> HIDE DEF Q, N
    <3> QED BY <1>2, <1>6, <1>7, UpTo
  <2> QED BY <1>2, <2>1
<1>9. Start \in Descents /\ Start.left = N /\ Good(Start)
  <2>1. Start \in Descents /\ Start.left = N /\ Start.page = root_page_id /\ Start.path = << >>
    BY StartType DEF Start
  <2>2. Passed(<< >>, key, t, h)
    BY DEF Passed
  <2>3. t.range[root_page_id] = Keys
    BY DEF Tree
  <2> HIDE DEF h
  <2>4. Len(<< >>) + h = h
    BY <1>2
  <2> QED BY <1>2, <2>1, <2>2, <2>3, <2>4 DEF Good, h
<1>10. Fine(f[Start])
  BY <1>8, <1>9
<1> QED
  BY <1>1, <1>10 DEF Fine

-----------------------------------------------------------------------------
(* What Find shows *)

(* Two pages of a level with a key in common are one. *)
LEMMA SamePage ==
  ASSUME NEW t \in Pictures, Disjoint(t), NEW p \in t.pages, NEW q \in t.pages,
         t.level[p] = t.level[q], NEW key \in t.range[p], key \in t.range[q]
  PROVE  p = q
BY DEF Disjoint

LEMMA ValueInFacts ==
  ASSUME NEW P, NEW leaf \in NodesOver(P), Increasing(leaf.keys), NEW key \in Keys
  PROVE  /\ \A i \in DOMAIN leaf.keys :
              leaf.keys[i] = key => /\ BinarySearch(leaf.keys, key).found
                                    /\ BinarySearch(leaf.keys, key).index + 1 = i
                                    /\ leaf.type = Leaf => ValueIn(leaf, key) = leaf.vals[i]
         /\ (\A i \in DOMAIN leaf.keys : leaf.keys[i] # key) =>
              ~BinarySearch(leaf.keys, key).found /\ ValueIn(leaf, key) = NotFound
<1> DEFINE ks == leaf.keys
           n == Len(ks)
           sr == BinarySearch(ks, key)
<1>1. ks \in Seq(Keys) /\ n \in Nat /\ DOMAIN ks = 1 .. n
  BY NodeFacts
<1>2. \A i \in 1 .. n : ks[i] \in Int
  BY <1>1, ElementOfSeq, OrderFacts
<1>3. sr \in Places(ks, key) /\ key \in Int
  BY <1>1, BinarySearchFinds, OrderFacts
<1>4. ValueIn(leaf, key) = IF leaf.type = Leaf /\ sr.found THEN leaf.vals[sr.index + 1]
                           ELSE NotFound
  BY DEF ValueIn
<1> HIDE DEF sr, n
<1>5. /\ sr.index \in 0 .. n
      /\ sr.found => sr.index < n /\ ks[sr.index + 1] = key
      /\ \A i \in 1 .. sr.index : ks[i] < key
      /\ ~sr.found => \A i \in (sr.index + 1) .. n : key < ks[i]
  BY <1>3 DEF Places, n
<1> HIDE DEF ks
<1>6. ASSUME NEW i \in DOMAIN ks, ks[i] = key
      PROVE  sr.found /\ sr.index + 1 = i
  <2>1. sr.found
    <3>1. SUFFICES ASSUME ~sr.found PROVE FALSE
      OBVIOUS
    <3>2. i \in 1 .. sr.index \/ i \in (sr.index + 1) .. n
      BY <1>1, <1>5
    <3>3. ks[i] < key \/ key < ks[i]
      BY <1>5, <3>1, <3>2
    <3> QED BY <1>3, <1>6, <3>3
  <2>2. sr.index + 1 \in DOMAIN ks /\ ks[sr.index + 1] = key /\ sr.index \in Int
    BY <1>1, <1>5, <2>1
  <2>3. PICK j \in DOMAIN ks : j = sr.index + 1
    BY <2>2
  <2>4. ~(i < j) /\ ~(j < i)
    <3>1. i < j => ks[i] < ks[j]
      BY DEF Increasing, ks
    <3>2. j < i => ks[j] < ks[i]
      BY DEF Increasing, ks
    <3> QED BY <1>3, <1>6, <2>2, <2>3, <3>1, <3>2
  <2>5. i \in Int /\ j \in Int
    BY <1>1
  <2> QED BY <2>1, <2>3, <2>4, <2>5
<1>7. ASSUME \A i \in DOMAIN ks : ks[i] # key PROVE ~sr.found
  <2>1. SUFFICES ASSUME sr.found PROVE FALSE
    OBVIOUS
  <2>2. sr.index + 1 \in DOMAIN ks /\ ks[sr.index + 1] = key
    BY <1>1, <1>5, <2>1
  <2> QED BY <1>7, <2>2
<1>8. \A i \in DOMAIN ks : ks[i] = key =>
        sr.found /\ sr.index + 1 = i /\ (leaf.type = Leaf => ValueIn(leaf, key) = leaf.vals[i])
  BY <1>4, <1>6
<1>9. (\A i \in DOMAIN ks : ks[i] # key) => ~sr.found /\ ValueIn(leaf, key) = NotFound
  BY <1>4, <1>7
<1> QED
  BY <1>8, <1>9 DEF ks, sr

(* The pages are a tree with the picture t. *)
Stands(t) ==
  /\ t \in Pictures
  /\ Tree(View, root_page_id, t, t.range)
  /\ t.level[root_page_id] <= MaxPageId + 2

(* A leaf with a key in its range is the one where a search for the key ends. *)
LEMMA SearchEndsAt ==
  ASSUME Holding(AnyPair), root_page_id \in Int, NEW t, Stands(t), NEW key \in Keys
  PROVE  LET p == Lookup(key).page
         IN  /\ p \in t.pages /\ t.level[p] = 0 /\ key \in t.range[p]
             /\ LeafFor(key) = p /\ Find(key) = ValueIn(ReadNode(p), key)
             /\ \A q \in t.pages : t.level[q] = 0 /\ key \in t.range[q] => q = p
<1> DEFINE stop == {Leaf, "blank"}
           d == Descent(key, stop)
<1>1. Leaf \in stop /\ Internal \notin stop /\ "blank" \in stop
  BY DEF Leaf, Internal
<1>2. Lookup(key) = d
  BY DEF Lookup
<1> HIDE DEF stop
<1>3. d.ends /\ d.page \in t.pages /\ t.level[d.page] = 0 /\ key \in t.range[d.page]
  BY <1>1, DescentInTree DEF Stands
<1> HIDE DEF d
<1>4. LeafFor(key) = d.page
  BY <1>2, <1>3, LeafForIsLookup
<1>5. Find(key) = ValueIn(ReadNode(d.page), key)
  BY <1>4 DEF Find
<1>6. \A q \in t.pages : t.level[q] = 0 /\ key \in t.range[q] => q = d.page
  BY <1>3, SamePage DEF Stands, Tree
<1> QED
  BY <1>2, <1>3, <1>4, <1>5, <1>6

(* A pair of a leaf has its key in the leaf's range. *)
LEMMA HasInRange ==
  ASSUME NEW V, NEW root, NEW t \in Pictures, NEW wide, Tree(V, root, t, wide),
         NEW p \in t.pages, t.level[p] = 0, NEW key, NEW val, Has(V[p], key, val)
  PROVE  key \in t.range[p] /\ V[p].type = Leaf /\ Increasing(V[p].keys)
<1>1. NodeFits(V, root, t, wide, p)
  BY DEF Tree
<1>2. LeafFits(t.range[p], V[p].keys) /\ (V[p].type = Leaf \/ V[p] = Blank)
  BY <1>1 DEF NodeFits
<1>3. PICK i \in DOMAIN V[p].keys : V[p].keys[i] = key
  BY DEF Has
<1>4. V[p] # Blank
  BY <1>3 DEF Blank
<1> QED
  BY <1>2, <1>3, <1>4 DEF LeafFits

(* Find(key) is val. *)
Finds(key, val) == Find(key) = val

(* Find returns the value of the key's pair, or that there is none. *)
LEMMA FindShows ==
  ASSUME Holding(AnyPair), root_page_id \in Int, NEW t, Stands(t), NEW key \in Keys
  PROVE  /\ \A val \in Int : <<key, val>> \in PairsIn(View, t) => Finds(key, val)
         /\ (\A val \in Int : <<key, val>> \notin PairsIn(View, t)) => Finds(key, NotFound)
<1> DEFINE p == Lookup(key).page
           leaf == ReadNode(p)
<1>1. /\ p \in t.pages /\ t.level[p] = 0 /\ key \in t.range[p]
      /\ Find(key) = ValueIn(leaf, key)
      /\ \A q \in t.pages : t.level[q] = 0 /\ key \in t.range[q] => q = p
  BY SearchEndsAt
<1> HIDE DEF p
<1>2. leaf \in NodesOver(AnyPair) /\ p \in Int /\ View[p] = leaf
  BY <1>1, ReadNodeType, PictureFacts DEF View, Stands
<1>3. NodeFits(View, root_page_id, t, t.range, p)
  BY <1>1 DEF Stands, Tree
<1>4. Increasing(leaf.keys)
  BY <1>1, <1>2, <1>3 DEF NodeFits, LeafFits
<1> HIDE DEF leaf
<1>5. ASSUME NEW val \in Int, <<key, val>> \in PairsIn(View, t) PROVE Finds(key, val)
  <2>1. PICK q \in t.pages : t.level[q] = 0 /\ Has(View[q], key, val)
    BY <1>5 DEF PairsIn
  <2>2. q = p /\ leaf.type = Leaf
    BY <1>1, <1>2, <2>1, HasInRange DEF Stands
  <2>3. PICK i \in DOMAIN leaf.keys : leaf.keys[i] = key /\ leaf.vals[i] = val
    BY <1>2, <2>1, <2>2 DEF Has
  <2> QED BY <1>1, <1>2, <1>4, <2>2, <2>3, ValueInFacts DEF Finds
<1>6. ASSUME \A val \in Int : <<key, val>> \notin PairsIn(View, t) PROVE Finds(key, NotFound)
  <2>1. ASSUME NEW i \in DOMAIN leaf.keys, leaf.keys[i] = key PROVE FALSE
    <3>1. leaf.vals[i] \in Int
      BY <1>2, NodeFacts, ElementOfSeq
    <3>2. Has(View[p], key, leaf.vals[i])
      BY <1>2, <2>1 DEF Has
    <3>3. <<key, leaf.vals[i]>> \in PairsIn(View, t)
      BY <1>1, <3>1, <3>2 DEF PairsIn, AnyPair
    <3> QED BY <1>6, <3>1, <3>3
  <2> QED BY <1>1, <1>2, <1>4, <2>1, ValueInFacts DEF Finds
<1> QED
  BY <1>5, <1>6

-----------------------------------------------------------------------------
(* Trees and pages *)

(* What belongs to a tree is decided by the nodes of its pages. *)
LEMMA TreeSame ==
  ASSUME NEW V, NEW W, NEW root, NEW t, NEW wide, Tree(V, root, t, wide),
         \A p \in t.pages : W[p] = V[p]
  PROVE  Tree(W, root, t, wide) /\ PairsIn(W, t) = PairsIn(V, t)
<1>1. \A p \in t.pages : NodeFits(W, root, t, wide, p)
  BY DEF Tree, NodeFits
<1>2. PairsIn(W, t) = PairsIn(V, t)
  BY DEF PairsIn
<1> QED
  BY <1>1, <1>2 DEF Tree

(* A division is one in a larger picture, too. *)
LEMMA DividesInto ==
  ASSUME NEW R, NEW l, NEW ks, NEW cs, NEW t, NEW wide, Divides(R, l, ks, cs, t, wide),
         NEW u, NEW wide2, t.pages \subseteq u.pages,
         \A c \in t.pages : u.level[c] = t.level[c] /\ wide2[c] = wide[c]
  PROVE  Divides(R, l, ks, cs, u, wide2)
BY DEF Divides

(* A node for the keys R at level l. *)
Suits(node, R, l, t, wide) ==
  IF l = 0 THEN node.type = Leaf /\ LeafFits(R, node.keys)
  ELSE node.type = Internal /\ Divides(R, l - 1, node.keys, Children(node), t, wide)

(* Page p is divided at the key mid: what is not below it goes to page new. *)
Below(R, mid) == {x \in R : x < mid}
NotBelow(R, mid) == {x \in R : mid <= x}

Cut(t, p, new, mid) ==
  [pages |-> t.pages \cup {new},
   level |-> [t.level EXCEPT ![new] = t.level[p]],
   range |-> [t.range EXCEPT ![p] = Below(t.range[p], mid),
                             ![new] = NotBelow(t.range[p], mid)]]

(* The levels above do not know yet. *)
Wide(t, left, right) ==
  [t.range EXCEPT ![left] = t.range[left] \cup t.range[right], ![right] = {}]

LEMMA CutFacts ==
  ASSUME NEW t \in Pictures, NEW p \in t.pages, NEW new \in Int, new \notin t.pages,
         NEW mid \in Keys
  PROVE  LET u == Cut(t, p, new, mid)
         IN  /\ u \in Pictures
             /\ u.pages = t.pages \cup {new} /\ p # new
             /\ u.range[p] = Below(t.range[p], mid)
             /\ u.range[new] = NotBelow(t.range[p], mid)
             /\ u.level[new] = t.level[p]
             /\ \A c \in t.pages : u.level[c] = t.level[c] /\ Wide(u, p, new)[c] = t.range[c]
             /\ \A c \in t.pages \ {p} : u.range[c] = t.range[c]
<1> DEFINE u == Cut(t, p, new, mid)
           low == Below(t.range[p], mid)
           high == NotBelow(t.range[p], mid)
<1>1. t.pages \subseteq Int /\ t.level \in [Int -> Nat] /\ t.range \in [Int -> SUBSET Keys]
  BY DEF Pictures
<1>2. /\ u.pages = t.pages \cup {new}
      /\ u.level = [t.level EXCEPT ![new] = t.level[p]]
      /\ u.range = [t.range EXCEPT ![p] = low, ![new] = high]
      /\ u = [pages |-> u.pages, level |-> u.level, range |-> u.range]
  BY DEF Cut
<1>3. low \cup high = t.range[p] /\ low \subseteq Keys /\ high \subseteq Keys
  <2>1. \A x \in t.range[p] : x \in Int /\ mid \in Int
    BY <1>1, OrderFacts
  <2> QED BY <1>1, <2>1 DEF Below, NotBelow
<1> HIDE DEF u, low, high
<1>4. p \in Int /\ p # new
  BY <1>1
<1>5. u.range[p] = low /\ u.range[new] = high /\ u.level[new] = t.level[p]
  BY <1>1, <1>2, <1>4
<1>6. \A c \in t.pages : c \in Int /\ c # new /\ u.level[c] = t.level[c]
                         /\ (c # p => u.range[c] = t.range[c])
  BY <1>1, <1>2, <1>4
<1>7. u.range \in [Int -> SUBSET Keys] /\ u.level \in [Int -> Nat] /\ u.pages \in SUBSET Int
  BY <1>1, <1>2, <1>3, <1>4
<1>8. u \in Pictures
  BY <1>2, <1>7 DEF Pictures
<1>9. ASSUME NEW c \in t.pages PROVE Wide(u, p, new)[c] = t.range[c]
  BY <1>3, <1>4, <1>5, <1>6, <1>7 DEF Wide
<1> QED
  BY <1>2, <1>4, <1>5, <1>6, <1>8, <1>9 DEF u, low, high

(* A tree in which p has been divided, and the levels above do not know. *)
LEMMA SplitTree ==
  ASSUME NEW V, NEW W, NEW root, NEW t \in Pictures, NEW p \in t.pages,
         NEW new \in Int, new \notin t.pages, NEW mid \in Keys,
         root \in t.pages, t.range[root] = Keys, Disjoint(t),
         \A q \in t.pages \ {p} : NodeFits(V, root, t, t.range, q) /\ W[q] = V[q],
         Suits(W[p], Below(t.range[p], mid), t.level[p], t, t.range),
         Suits(W[new], NotBelow(t.range[p], mid), t.level[p], t, t.range)
  PROVE  LET u == Cut(t, p, new, mid)
         IN  Tree(W, root, u, Wide(u, p, new))
<1> DEFINE u == Cut(t, p, new, mid)
           wide == Wide(u, p, new)
<1>1. /\ u \in Pictures
      /\ u.pages = t.pages \cup {new} /\ p # new
      /\ u.range[p] = Below(t.range[p], mid)
      /\ u.range[new] = NotBelow(t.range[p], mid)
      /\ u.level[new] = t.level[p]
      /\ \A c \in t.pages : u.level[c] = t.level[c] /\ wide[c] = t.range[c]
      /\ \A c \in t.pages \ {p} : u.range[c] = t.range[c]
  BY CutFacts
<1> HIDE DEF u, wide
<1>2. ASSUME NEW R, NEW l, NEW node, Suits(node, R, l, t, t.range)
      PROVE  Suits(node, R, l, u, wide)
  BY <1>1, <1>2, DividesInto DEF Suits
<1>3. ASSUME NEW q \in t.pages \ {p} PROVE NodeFits(W, root, u, wide, q)
  <2>1. NodeFits(V, root, t, t.range, q) /\ W[q] = V[q]
    OBVIOUS
  <2>2. u.level[q] = t.level[q] /\ u.range[q] = t.range[q]
    BY <1>1
  <2>3. CASE t.level[q] = 0
    BY <2>1, <2>2, <2>3 DEF NodeFits
  <2>4. CASE t.level[q] # 0
    <3>1. Suits(W[q], t.range[q], t.level[q], t, t.range)
      BY <2>1, <2>4 DEF NodeFits, Suits
    <3>2. Suits(W[q], t.range[q], t.level[q], u, wide)
      BY <1>2, <3>1
    <3> QED BY <2>2, <2>4, <3>2 DEF NodeFits, Suits
  <2> QED BY <2>3, <2>4
<1>4. ASSUME NEW q \in {p, new} PROVE NodeFits(W, root, u, wide, q)
  <2>1. Suits(W[q], u.range[q], u.level[q], u, wide)
    BY <1>1, <1>2
  <2> QED BY <2>1 DEF NodeFits, Suits
<1>5. Disjoint(u)
  <2>1. \A x \in t.range[p] : x \in Int /\ mid \in Int
    BY OrderFacts DEF Pictures
  <2>2. u.range[p] \cap u.range[new] = {}
    BY <1>1, <2>1 DEF Below, NotBelow
  <2>3. u.range[p] \subseteq t.range[p] /\ u.range[new] \subseteq t.range[p]
    BY <1>1 DEF Below, NotBelow
  <2>4. ASSUME NEW q \in t.pages \ {p}, t.level[q] = t.level[p]
        PROVE u.range[q] \cap u.range[p] = {} /\ u.range[q] \cap u.range[new] = {}
    <3>1. t.range[q] \cap t.range[p] = {}
      BY <2>4 DEF Disjoint
    <3> QED BY <1>1, <2>3, <3>1
  <2>5. ASSUME NEW q \in t.pages \ {p}, NEW r \in t.pages \ {p}, q # r, t.level[q] = t.level[r]
        PROVE u.range[q] \cap u.range[r] = {}
    BY <1>1, <2>5 DEF Disjoint
  <2>6. ASSUME NEW q \in u.pages, NEW r \in u.pages, q # r, u.level[q] = u.level[r]
        PROVE u.range[q] \cap u.range[r] = {}
    <3>1. CASE q \in t.pages \ {p} /\ r \in t.pages \ {p}
      BY <1>1, <2>5, <2>6, <3>1
    <3>2. CASE q \in t.pages \ {p} /\ r \notin t.pages \ {p}
      BY <1>1, <2>4, <2>6, <3>2
    <3>3. CASE q \notin t.pages \ {p} /\ r \in t.pages \ {p}
      <4>1. u.range[r] \cap u.range[q] = {}
        BY <1>1, <2>4, <2>6, <3>3
      <4> QED BY <4>1
    <3>4. CASE q \notin t.pages \ {p} /\ r \notin t.pages \ {p}
      <4>1. (q = p /\ r = new) \/ (q = new /\ r = p)
        BY <1>1, <2>6, <3>4
      <4> QED BY <2>2, <4>1
    <3> QED BY <3>1, <3>2, <3>3, <3>4
  <2> QED BY <2>6 DEF Disjoint
<1>6. wide[root] = Keys /\ root \in u.pages
  BY <1>1
<1> QED
  BY <1>1, <1>3, <1>4, <1>5, <1>6 DEF Tree, u, wide

(* A leaf is written anew. *)
LEMMA LeafRewritten ==
  ASSUME NEW V, NEW W, NEW root, NEW t \in Pictures, NEW wide, Tree(V, root, t, wide),
         NEW p \in t.pages, t.level[p] = 0, W[p].type = Leaf, LeafFits(t.range[p], W[p].keys),
         \A q \in t.pages \ {p} : W[q] = V[q]
  PROVE  Tree(W, root, t, wide)
<1>1. NodeFits(W, root, t, wide, p)
  BY DEF NodeFits
<1>2. \A q \in t.pages \ {p} : NodeFits(W, root, t, wide, q)
  BY DEF Tree, NodeFits
<1> QED
  BY <1>1, <1>2 DEF Tree

(* The pairs with a key of a leaf's range are the leaf's. *)
LEMMA PairsAt ==
  ASSUME NEW V, NEW root, NEW t \in Pictures, NEW wide, Tree(V, root, t, wide),
         NEW p \in t.pages, t.level[p] = 0, NEW pr \in AnyPair, pr[1] \in t.range[p]
  PROVE  pr \in PairsIn(V, t) <=> Has(V[p], pr[1], pr[2])
<1>1. ASSUME pr \in PairsIn(V, t) PROVE Has(V[p], pr[1], pr[2])
  <2>1. PICK q \in t.pages : t.level[q] = 0 /\ Has(V[q], pr[1], pr[2])
    BY <1>1 DEF PairsIn
  <2>2. pr[1] \in t.range[q]
    BY <2>1, HasInRange
  <2>3. q = p
    BY <2>1, <2>2, SamePage DEF Tree
  <2> QED BY <2>1, <2>3
<1>2. ASSUME Has(V[p], pr[1], pr[2]) PROVE pr \in PairsIn(V, t)
  BY <1>2 DEF PairsIn
<1> QED
  BY <1>1, <1>2

-----------------------------------------------------------------------------
(* Sorted lists with values *)

HasIn(ks, vs, key, val) == \E i \in DOMAIN ks : ks[i] = key /\ vs[i] = val

LEMMA IncreasingBy ==
  ASSUME NEW ks \in Seq(Keys), Increasing(ks), NEW i \in DOMAIN ks, NEW j \in DOMAIN ks
  PROVE  /\ i < j => ks[i] < ks[j]
         /\ ks[i] = ks[j] => i = j
         /\ ks[i] < ks[j] => i < j
<1>1. i \in Int /\ j \in Int
  BY LenProperties
<1>2. ks[i] \in Int /\ ks[j] \in Int
  BY LenProperties, ElementOfSeq, OrderFacts
<1>3. i < j => ks[i] < ks[j]
  BY DEF Increasing
<1>4. j < i => ks[j] < ks[i]
  BY DEF Increasing
<1> QED
  BY <1>1, <1>2, <1>3, <1>4

(* A key goes where the keys before it are smaller and those from there on larger. *)
LEMMA InsertedFits ==
  ASSUME NEW R, NEW ks \in Seq(Keys), LeafFits(R, ks), NEW key \in Keys, key \in R,
         NEW i \in 1 .. Len(ks) + 1,
         \A j \in 1 .. (i - 1) : ks[j] < key, \A j \in i .. Len(ks) : key < ks[j]
  PROVE  LeafFits(R, InsertAt(ks, i, key))
<1> DEFINE r == InsertAt(ks, i, key)
           n == Len(ks)
<1>1. r \in Seq(Keys) /\ Inserted(r, ks, i, key)
  BY InsertAtInserts
<1>2. /\ n \in Nat /\ DOMAIN ks = 1 .. n /\ key \in Int
      /\ \A j \in 1 .. n : ks[j] \in Int /\ ks[j] \in R
  BY LenProperties, ElementOfSeq, OrderFacts DEF LeafFits
<1> HIDE DEF r
<1>3. /\ DOMAIN r = 1 .. (n + 1)
      /\ \A j \in 1 .. n + 1 : r[j] = IF j < i THEN ks[j] ELSE IF j = i THEN key ELSE ks[j - 1]
  BY <1>1, LenProperties DEF Inserted
<1> HIDE DEF n
<1>4. i \in 1 .. n + 1
  BY DEF n
<1>5. \A j \in DOMAIN r : r[j] \in R
  <2>1. ASSUME NEW j \in 1 .. n + 1 PROVE r[j] \in R
    <3>1. j < i => j \in 1 .. n
      BY <1>2, <1>4
    <3>2. j > i => j - 1 \in 1 .. n
      BY <1>2, <1>4
    <3>3. j < i \/ j = i \/ j > i
      BY <1>2, <1>4
    <3> QED BY <1>2, <1>3, <3>1, <3>2, <3>3
  <2> QED BY <1>3, <2>1
<1>6. ASSUME NEW a \in 1 .. n + 1, NEW b \in 1 .. n + 1, a < b PROVE r[a] < r[b]
  <2>1. CASE b < i
    <3>1. a < i /\ a \in DOMAIN ks /\ b \in DOMAIN ks
      BY <1>2, <1>4, <1>6, <2>1
    <3>2. r[a] = ks[a] /\ r[b] = ks[b]
      BY <1>3, <2>1, <3>1
    <3> QED BY <1>6, <3>1, <3>2 DEF LeafFits, Increasing
  <2>2. CASE b = i
    <3>1. a \in 1 .. (i - 1) /\ a < i
      BY <1>2, <1>4, <1>6, <2>2
    <3>2. r[a] = ks[a] /\ r[b] = key
      BY <1>3, <2>2, <3>1
    <3> QED BY <3>1, <3>2
  <2>3. CASE b > i
    <3>1. b - 1 \in i .. n /\ b - 1 \in DOMAIN ks /\ r[b] = ks[b - 1]
      <4>1. b - 1 \in i .. n /\ b - 1 \in 1 .. n /\ ~(b < i) /\ b # i
        BY <1>2, <1>4, <2>3
      <4> QED BY <1>2, <1>3, <4>1
    <3>2. key < ks[b - 1]
      BY <3>1 DEF n
    <3>3. CASE a < i
      <4>1. a \in 1 .. (i - 1) /\ a \in DOMAIN ks /\ r[a] = ks[a]
        <5>1. a \in 1 .. (i - 1) /\ a \in 1 .. n
          BY <1>2, <1>4, <3>3
        <5> QED BY <1>2, <1>3, <3>3, <5>1
      <4>2. a < b - 1
        BY <1>2, <1>4, <2>3, <3>3
      <4> QED BY <3>1, <4>1, <4>2 DEF LeafFits, Increasing
    <3>4. CASE a = i
      <4>1. r[a] = key
        BY <1>3, <3>4
      <4> QED BY <3>1, <3>2, <4>1
    <3>5. CASE a > i
      <4>1. a - 1 \in 1 .. n /\ ~(a < i) /\ a # i /\ a - 1 < b - 1
        BY <1>2, <1>4, <1>6, <3>5
      <4>2. r[a] = ks[a - 1] /\ a - 1 \in DOMAIN ks
        BY <1>2, <1>3, <4>1
      <4> QED BY <3>1, <4>1, <4>2 DEF LeafFits, Increasing
    <3> QED BY <1>2, <1>4, <3>3, <3>4, <3>5
  <2> QED BY <1>2, <1>4, <2>1, <2>2, <2>3
<1> QED
  BY <1>3, <1>5, <1>6 DEF LeafFits, Increasing, r

LEMMA InsertedHas ==
  ASSUME NEW ks \in Seq(Keys), NEW vs \in Seq(Int), Len(vs) = Len(ks),
         NEW i \in 1 .. Len(ks) + 1, NEW key \in Keys, NEW val \in Int, NEW k, NEW v
  PROVE  HasIn(InsertAt(ks, i, key), InsertAt(vs, i, val), k, v) <=>
           (k = key /\ v = val) \/ HasIn(ks, vs, k, v)
<1> DEFINE r == InsertAt(ks, i, key)
           w == InsertAt(vs, i, val)
           n == Len(ks)
<1>1. r \in Seq(Keys) /\ Inserted(r, ks, i, key)
  BY InsertAtInserts
<1>2. w \in Seq(Int) /\ Inserted(w, vs, i, val)
  <2>1. i \in 1 .. Len(vs) + 1
    OBVIOUS
  <2> QED BY <2>1, InsertAtInserts
<1>3. n \in Nat /\ DOMAIN ks = 1 .. n
  BY LenProperties
<1> HIDE DEF r, w
<1>4. /\ DOMAIN r = 1 .. (n + 1)
      /\ \A j \in 1 .. n + 1 : r[j] = IF j < i THEN ks[j] ELSE IF j = i THEN key ELSE ks[j - 1]
      /\ \A j \in 1 .. n + 1 : w[j] = IF j < i THEN vs[j] ELSE IF j = i THEN val ELSE vs[j - 1]
  BY <1>1, <1>2, LenProperties DEF Inserted
<1> HIDE DEF n
<1>5. i \in 1 .. n + 1
  BY DEF n
<1>6. ASSUME HasIn(r, w, k, v) PROVE (k = key /\ v = val) \/ HasIn(ks, vs, k, v)
  <2>1. PICK j \in 1 .. n + 1 : r[j] = k /\ w[j] = v
    BY <1>4, <1>6 DEF HasIn
  <2>2. CASE j < i
    <3>1. j \in DOMAIN ks /\ ks[j] = k /\ vs[j] = v
      <4>1. j \in 1 .. n
        BY <1>3, <1>5, <2>2
      <4> QED BY <1>3, <1>4, <2>1, <2>2, <4>1
    <3> QED BY <3>1 DEF HasIn
  <2>3. CASE j = i
    BY <1>4, <2>1, <2>3
  <2>4. CASE j > i
    <3>1. j - 1 \in DOMAIN ks /\ ks[j - 1] = k /\ vs[j - 1] = v
      <4>1. j - 1 \in 1 .. n /\ ~(j < i) /\ j # i
        BY <1>3, <1>5, <2>4
      <4> QED BY <1>3, <1>4, <2>1, <4>1
    <3> QED BY <3>1 DEF HasIn
  <2> QED BY <1>3, <1>5, <2>2, <2>3, <2>4
<1>7. ASSUME k = key, v = val PROVE HasIn(r, w, k, v)
  <2>1. i \in DOMAIN r /\ r[i] = key /\ w[i] = val
    BY <1>3, <1>4, <1>5
  <2> QED BY <1>7, <2>1 DEF HasIn
<1>8. ASSUME HasIn(ks, vs, k, v) PROVE HasIn(r, w, k, v)
  <2>1. PICK j \in 1 .. n : ks[j] = k /\ vs[j] = v
    BY <1>3, <1>8 DEF HasIn
  <2>2. CASE j < i
    <3>1. j \in DOMAIN r /\ r[j] = k /\ w[j] = v
      <4>1. j \in 1 .. n + 1
        BY <1>3
      <4> QED BY <1>4, <2>1, <2>2, <4>1
    <3> QED BY <3>1 DEF HasIn
  <2>3. CASE ~(j < i)
    <3>1. PICK m \in 1 .. n + 1 : m = j + 1
      BY <1>3
    <3>2. ~(m < i) /\ m # i /\ m - 1 = j
      BY <1>3, <1>5, <2>3, <3>1
    <3>3. m \in DOMAIN r /\ r[m] = k /\ w[m] = v
      BY <1>4, <2>1, <3>2
    <3> QED BY <3>3 DEF HasIn
  <2> QED BY <2>2, <2>3
<1> QED
  BY <1>6, <1>7, <1>8 DEF r, w

LEMMA ReplacedHas ==
  ASSUME NEW ks \in Seq(Keys), Increasing(ks), NEW vs \in Seq(Int), Len(vs) = Len(ks),
         NEW i \in DOMAIN ks, NEW val \in Int, NEW k, NEW v
  PROVE  HasIn(ks, ReplaceAt(vs, i, val), k, v) <=>
           IF k = ks[i] THEN v = val ELSE HasIn(ks, vs, k, v)
<1> DEFINE w == ReplaceAt(vs, i, val)
<1>1. DOMAIN ks = 1 .. Len(ks) /\ i \in 1 .. Len(vs)
  BY LenProperties
<1>2. \A j \in DOMAIN ks : w[j] = IF j = i THEN val ELSE vs[j]
  <2>1. Replaced(w, vs, i, val)
    BY <1>1, ReplaceAtFacts
  <2> HIDE DEF w
  <2> QED BY <1>1, <2>1 DEF Replaced
<1>3. \A j \in DOMAIN ks : ks[j] = ks[i] <=> j = i
  BY IncreasingBy
<1> HIDE DEF w
<1> QED
  BY <1>2, <1>3 DEF HasIn, w

LEMMA RemovedHas ==
  ASSUME NEW R, NEW ks \in Seq(Keys), LeafFits(R, ks), NEW vs \in Seq(Int), Len(vs) = Len(ks),
         NEW i \in DOMAIN ks, NEW k, NEW v
  PROVE  /\ LeafFits(R, RemoveAt(ks, i))
         /\ HasIn(RemoveAt(ks, i), RemoveAt(vs, i), k, v) <=> k # ks[i] /\ HasIn(ks, vs, k, v)
<1> DEFINE r == RemoveAt(ks, i)
           w == RemoveAt(vs, i)
           n == Len(ks)
<1>1. n \in Nat /\ DOMAIN ks = 1 .. n /\ i \in 1 .. n /\ i \in DOMAIN vs
  BY LenProperties
<1>2. /\ r \in Seq(Keys) /\ Len(r) = n - 1
      /\ \A j \in 1 .. (n - 1) : r[j] = IF j < i THEN ks[j] ELSE ks[j + 1]
  BY <1>1, RemoveAtElements
<1>3. \A j \in 1 .. (n - 1) : w[j] = IF j < i THEN vs[j] ELSE vs[j + 1]
  <2>1. \A j \in 1 .. (Len(vs) - 1) : w[j] = IF j < i THEN vs[j] ELSE vs[j + 1]
    BY <1>1, RemoveAtElements
  <2> HIDE DEF w
  <2> QED BY <2>1
<1> HIDE DEF r, w, n
<1>4. DOMAIN r = 1 .. (n - 1)
  BY <1>2, LenProperties
<1> DEFINE at(j) == IF j < i THEN j ELSE j + 1
<1>5. ASSUME NEW j \in DOMAIN r
      PROVE at(j) \in DOMAIN ks /\ at(j) # i /\ r[j] = ks[at(j)] /\ w[j] = vs[at(j)]
  <2>1. at(j) \in 1 .. n /\ at(j) # i /\ j \in 1 .. (n - 1)
    BY <1>1, <1>4
  <2>2. r[j] = ks[at(j)] /\ w[j] = vs[at(j)]
    BY <1>2, <1>3, <2>1
  <2> HIDE DEF at
  <2> QED BY <1>1, <2>1, <2>2
<1>6. ASSUME NEW a \in DOMAIN r, NEW b \in DOMAIN r, a < b PROVE r[a] < r[b]
  <2>1. at(a) < at(b)
    BY <1>1, <1>4, <1>6
  <2>2. at(a) \in DOMAIN ks /\ at(b) \in DOMAIN ks /\ r[a] = ks[at(a)] /\ r[b] = ks[at(b)]
    BY <1>5
  <2> HIDE DEF at
  <2> QED BY <2>1, <2>2 DEF LeafFits, Increasing
<1>7. LeafFits(R, r)
  <2> HIDE DEF at
  <2> QED BY <1>5, <1>6 DEF LeafFits, Increasing
<1>8. \A j \in DOMAIN ks : ks[j] = ks[i] <=> j = i
  BY IncreasingBy DEF LeafFits
<1>9. ASSUME HasIn(r, w, k, v) PROVE k # ks[i] /\ HasIn(ks, vs, k, v)
  <2>1. PICK j \in DOMAIN r : r[j] = k /\ w[j] = v
    BY <1>9 DEF HasIn
  <2> HIDE DEF at
  <2> QED BY <1>5, <1>8, <2>1 DEF HasIn
<1>10. ASSUME k # ks[i], HasIn(ks, vs, k, v) PROVE HasIn(r, w, k, v)
  <2>1. PICK m \in 1 .. n : ks[m] = k /\ vs[m] = v
    BY <1>1, <1>10 DEF HasIn
  <2>2. m # i
    BY <1>10, <2>1
  <2>3. CASE m < i
    <3>1. m \in DOMAIN r /\ r[m] = k /\ w[m] = v
      <4>1. m \in 1 .. (n - 1)
        BY <1>1, <2>3
      <4> QED BY <1>2, <1>3, <1>4, <2>1, <2>3, <4>1
    <3> QED BY <3>1 DEF HasIn
  <2>4. CASE m > i
    <3>1. PICK j \in 1 .. (n - 1) : j = m - 1
      BY <1>1, <2>4
    <3>2. ~(j < i) /\ j + 1 = m
      BY <1>1, <2>4, <3>1
    <3>3. j \in DOMAIN r /\ r[j] = k /\ w[j] = v
      BY <1>2, <1>3, <1>4, <2>1, <3>2
    <3> QED BY <3>3 DEF HasIn
  <2> QED BY <1>1, <2>2, <2>3, <2>4
<1> QED
  BY <1>7, <1>9, <1>10 DEF r, w

(* A sorted list cut before place m + 1. *)
LEMMA CutHas ==
  ASSUME NEW R, R \subseteq Keys, NEW ks \in Seq(Keys), LeafFits(R, ks),
         NEW m \in 1 .. (Len(ks) - 1)
  PROVE  LET low == SubSeq(ks, 1, m)
             high == SubSeq(ks, m + 1, Len(ks))
         IN  /\ LeafFits(Below(R, ks[m + 1]), low) /\ LeafFits(NotBelow(R, ks[m + 1]), high)
             /\ Below(R, ks[m + 1]) # {} /\ ks[m + 1] \in NotBelow(R, ks[m + 1])
             /\ \A vs \in Seq(Int) : \A k, v : Len(vs) = Len(ks) =>
                  /\ HasIn(low, SubSeq(vs, 1, m), k, v)
                       <=> k \in Below(R, ks[m + 1]) /\ HasIn(ks, vs, k, v)
                  /\ HasIn(high, SubSeq(vs, m + 1, Len(ks)), k, v)
                       <=> k \in NotBelow(R, ks[m + 1]) /\ HasIn(ks, vs, k, v)
<1> DEFINE n == Len(ks)
           mid == ks[m + 1]
           low == SubSeq(ks, 1, m)
           high == SubSeq(ks, m + 1, n)
<1>1. /\ n \in Nat /\ m \in 1 .. (n - 1) /\ DOMAIN ks = 1 .. n
      /\ 1 \in 1 .. n + 1 /\ m \in (1 - 1) .. n /\ m + 1 \in 1 .. n + 1 /\ n \in ((m + 1) - 1) .. n
      /\ m + 1 \in DOMAIN ks /\ 1 \in DOMAIN ks
  BY LenProperties
<1>2. \A j \in DOMAIN ks : ks[j] \in Int /\ ks[j] \in R
  BY <1>1, ElementOfSeq, OrderFacts DEF LeafFits
<1>3. Increasing(ks)
  BY DEF LeafFits
<1>4. DOMAIN low = 1 .. m /\ \A j \in 1 .. m : low[j] = ks[j]
  <2>1. /\ low \in Seq(Keys) /\ Len(low) = m - 1 + 1
        /\ \A j \in 1 .. (m - 1 + 1) : low[j] = ks[1 + j - 1]
    BY <1>1, CutSeq
  <2> HIDE DEF low, n
  <2>2. m - 1 + 1 = m /\ \A j \in 1 .. m : 1 + j - 1 = j
    BY <1>1
  <2>3. DOMAIN low = 1 .. m
    BY <2>1, <2>2, LenProperties
  <2> QED BY <2>1, <2>2, <2>3
<1>5. DOMAIN high = 1 .. (n - m) /\ \A j \in 1 .. (n - m) : high[j] = ks[m + j]
  <2>1. PICK a \in 1 .. Len(ks) + 1 : a = m + 1
    BY <1>1
  <2>2. n \in (a - 1) .. Len(ks)
    BY <1>1, <2>1
  <2> DEFINE x == SubSeq(ks, a, n)
  <2>3. /\ x \in Seq(Keys) /\ Len(x) = n - a + 1
        /\ \A j \in 1 .. (n - a + 1) : x[j] = ks[a + j - 1]
    <3> HIDE DEF n
    <3> QED BY <2>2, CutSeq DEF x
  <2> HIDE DEF x, n
  <2>4. DOMAIN x = 1 .. (n - m) /\ \A j \in 1 .. (n - m) : x[j] = ks[m + j]
    BY <1>1, <2>1, <2>3, LenProperties
  <2> QED BY <2>1, <2>4 DEF x
<1> HIDE DEF n
<1>6. mid \in Int /\ mid \in R
  BY <1>1, <1>2
<1>7. \A j \in 1 .. n : j <= m <=> ks[j] < mid
  <2>1. ASSUME NEW j \in 1 .. n PROVE j <= m <=> ks[j] < mid
    <3>1. j < m + 1 <=> ks[j] < mid
      BY <1>1, <1>3, IncreasingBy
    <3> QED BY <1>1, <3>1
  <2> QED BY <2>1
<1> HIDE DEF mid, low, high
<1>8. LeafFits(Below(R, mid), low)
  <2>1. \A j \in 1 .. m : j \in DOMAIN ks /\ low[j] \in Below(R, mid)
    BY <1>1, <1>2, <1>4, <1>7 DEF Below
  <2>2. \A a, b \in 1 .. m : a < b => low[a] < low[b]
    BY <1>3, <1>4, <2>1 DEF Increasing
  <2> QED BY <1>4, <2>1, <2>2 DEF LeafFits, Increasing
<1>9. \A j \in 1 .. (n - m) : /\ m + j \in 1 .. n /\ high[j] = ks[m + j]
                              /\ ~(m + j <= m)
  BY <1>1, <1>5
<1>10. LeafFits(NotBelow(R, mid), high)
  <2>1. ASSUME NEW j \in 1 .. (n - m) PROVE high[j] \in NotBelow(R, mid)
    <3>1. PICK x \in 1 .. n : x = m + j /\ high[j] = ks[x] /\ ~(x <= m)
      BY <1>9
    <3>2. ks[x] \in Int /\ ks[x] \in R /\ ~(ks[x] < mid)
      BY <1>1, <1>2, <1>7, <3>1
    <3> QED BY <1>6, <3>1, <3>2 DEF NotBelow
  <2>2. ASSUME NEW a \in 1 .. (n - m), NEW b \in 1 .. (n - m), a < b PROVE high[a] < high[b]
    <3>1. m + a < m + b /\ m + a \in DOMAIN ks /\ m + b \in DOMAIN ks
      BY <1>1, <1>9, <2>2
    <3> QED BY <1>3, <1>9, <3>1 DEF Increasing
  <2> QED BY <1>5, <2>1, <2>2 DEF LeafFits, Increasing
<1>11. Below(R, mid) # {} /\ mid \in NotBelow(R, mid)
  <2>1. 1 \in 1 .. n /\ 1 <= m
    BY <1>1
  <2>2. ks[1] \in Below(R, mid)
    BY <1>1, <1>2, <1>7, <2>1 DEF Below
  <2> QED BY <1>6, <2>2 DEF NotBelow
<1>12. ASSUME NEW vs \in Seq(Int), NEW k, NEW v, Len(vs) = Len(ks)
       PROVE  /\ HasIn(low, SubSeq(vs, 1, m), k, v) <=> k \in Below(R, mid) /\ HasIn(ks, vs, k, v)
              /\ HasIn(high, SubSeq(vs, m + 1, Len(ks)), k, v)
                   <=> k \in NotBelow(R, mid) /\ HasIn(ks, vs, k, v)
  <2> DEFINE lv == SubSeq(vs, 1, m)
             hv == SubSeq(vs, m + 1, Len(ks))
  <2>1. \A j \in 1 .. m : lv[j] = vs[j]
    <3>1. 1 \in 1 .. Len(vs) + 1 /\ m \in (1 - 1) .. Len(vs)
      BY <1>1, <1>12 DEF n
    <3>2. \A j \in 1 .. (m - 1 + 1) : lv[j] = vs[1 + j - 1]
      BY <3>1, CutSeq
    <3> HIDE DEF lv
    <3> QED BY <1>1, <3>2
  <2>2. \A j \in 1 .. (n - m) : hv[j] = vs[m + j]
    <3>0. Len(vs) = n /\ Len(ks) = n
      BY <1>12 DEF n
    <3>1. PICK a \in 1 .. Len(vs) + 1 : a = m + 1
      BY <1>1, <3>0
    <3>2. PICK b \in (a - 1) .. Len(vs) : b = Len(ks) /\ b = n
      BY <1>1, <3>0, <3>1
    <3>3. \A j \in 1 .. (b - a + 1) : SubSeq(vs, a, b)[j] = vs[a + j - 1]
      BY CutSeq
    <3>4. hv = SubSeq(vs, a, b)
      BY <3>1, <3>2
    <3> HIDE DEF hv
    <3> QED BY <1>1, <3>1, <3>2, <3>3, <3>4
  <2> HIDE DEF lv, hv
  <2>3. ASSUME HasIn(low, lv, k, v) PROVE k \in Below(R, mid) /\ HasIn(ks, vs, k, v)
    <3>1. PICK j \in 1 .. m : low[j] = k /\ lv[j] = v
      BY <1>4, <2>3 DEF HasIn
    <3>2. low[j] \in Below(R, mid)
      BY <1>4, <1>8 DEF LeafFits
    <3>3. j \in DOMAIN ks /\ ks[j] = k /\ vs[j] = v
      BY <1>1, <1>4, <2>1, <3>1
    <3> QED BY <3>1, <3>2, <3>3 DEF HasIn
  <2>4. ASSUME HasIn(high, hv, k, v) PROVE k \in NotBelow(R, mid) /\ HasIn(ks, vs, k, v)
    <3>1. PICK j \in 1 .. (n - m) : high[j] = k /\ hv[j] = v
      BY <1>5, <2>4 DEF HasIn
    <3>2. high[j] \in NotBelow(R, mid)
      BY <1>5, <1>10 DEF LeafFits
    <3>3. m + j \in DOMAIN ks /\ ks[m + j] = k /\ vs[m + j] = v
      BY <1>1, <1>9, <2>2, <3>1
    <3> QED BY <3>1, <3>2, <3>3 DEF HasIn
  <2>5. ASSUME HasIn(ks, vs, k, v)
        PROVE  /\ k \in Below(R, mid) => HasIn(low, lv, k, v)
               /\ k \in NotBelow(R, mid) => HasIn(high, hv, k, v)
    <3>1. PICK j \in 1 .. n : ks[j] = k /\ vs[j] = v
      BY <1>1, <2>5 DEF HasIn
    <3>2. k \in Int /\ (j <= m <=> k < mid)
      BY <1>1, <1>2, <1>7, <3>1
    <3>3. ASSUME k \in Below(R, mid) PROVE HasIn(low, lv, k, v)
      <4>1. j \in 1 .. m
        BY <1>1, <3>2, <3>3 DEF Below
      <4>2. j \in DOMAIN low /\ low[j] = k /\ lv[j] = v
        BY <1>4, <2>1, <3>1, <4>1
      <4> QED BY <4>2 DEF HasIn
    <3>4. ASSUME k \in NotBelow(R, mid) PROVE HasIn(high, hv, k, v)
      <4>1. ~(j <= m)
        BY <1>6, <3>2, <3>4 DEF NotBelow
      <4>2. PICK x \in 1 .. (n - m) : x = j - m /\ m + x = j
        BY <1>1, <4>1
      <4>3. x \in DOMAIN high /\ high[x] = k /\ hv[x] = v
        BY <1>5, <2>2, <3>1, <4>2
      <4> QED BY <4>3 DEF HasIn
    <3> QED BY <3>3, <3>4
  <2> QED BY <2>3, <2>4, <2>5 DEF lv, hv
<1> QED
  BY <1>8, <1>10, <1>11, <1>12 DEF low, high, mid, n

-----------------------------------------------------------------------------
(* The nodes after some effects *)

Wrote(effects, p) == {i \in DOMAIN effects : effects[i].page = p}

After(effects) ==
  [p \in Int |-> IF Wrote(effects, p) = {} THEN ReadNode(p)
                 ELSE effects[Max(Wrote(effects, p))].node]

LEMMA AfterNone == After(<< >>) = View
BY DEF After, View, Wrote

LEMMA AfterAppend ==
  ASSUME NEW P, NEW effects \in Seq(Effects(P)), NEW e \in Effects(P)
  PROVE  /\ After(Append(effects, e)) = [After(effects) EXCEPT ![e.page] = e.node]
         /\ NewPages(Append(effects, e)) = NewPages(effects) + (IF e.new THEN 1 ELSE 0)
<1> DEFINE r == Append(effects, e)
           n == Len(effects)
<1>1. /\ r \in Seq(Effects(P)) /\ n \in Nat /\ DOMAIN effects = 1 .. n
      /\ DOMAIN r = 1 .. (n + 1) /\ r[n + 1] = e /\ \A i \in 1 .. n : r[i] = effects[i]
  BY AppendProperties, LenProperties
<1> HIDE DEF r, n
<1>2. e.page \in Int /\ e.new \in BOOLEAN
  BY DEF Effects
<1>3. ASSUME NEW p \in Int, p # e.page PROVE Wrote(r, p) = Wrote(effects, p)
  BY <1>1, <1>3 DEF Wrote
<1>4. Max(Wrote(r, e.page)) = n + 1 /\ Wrote(r, e.page) # {}
  <2> DEFINE S == Wrote(r, e.page)
  <2>1. S \in SUBSET (0 .. (n + 1)) /\ n + 1 \in S /\ n + 1 \in Nat
    BY <1>1 DEF Wrote
  <2> HIDE DEF S
  <2>2. Max(S) \in S /\ \A k \in S : k <= Max(S)
    <3>1. PICK m \in Nat : m = n + 1
      BY <2>1
    <3>2. S \in SUBSET (0 .. m) /\ S # {}
      BY <2>1, <3>1
    <3> QED BY <3>2, MaxOf
  <2>3. Max(S) \in 0 .. (n + 1) /\ n + 1 <= Max(S)
    BY <2>1, <2>2
  <2>4. Max(S) = n + 1
    BY <1>1, <2>3
  <2> QED BY <2>1, <2>4 DEF S
<1>5. ASSUME NEW p \in Int PROVE After(r)[p] = IF p = e.page THEN e.node ELSE After(effects)[p]
  <2>1. CASE p = e.page
    BY <1>1, <1>4, <2>1 DEF After
  <2>2. CASE p # e.page
    <3>1. Wrote(r, p) = Wrote(effects, p)
      BY <1>3, <2>2
    <3>2. CASE Wrote(effects, p) = {}
      BY <2>2, <3>1, <3>2 DEF After
    <3>3. CASE Wrote(effects, p) # {}
      <4> DEFINE S == Wrote(effects, p)
      <4>1. S \in SUBSET (0 .. n) /\ S \subseteq 1 .. n
        BY <1>1 DEF Wrote
      <4> HIDE DEF S
      <4>2. Max(S) \in S
        BY <1>1, <3>3, <4>1, MaxOf DEF S
      <4>3. r[Max(S)] = effects[Max(S)]
        BY <1>1, <4>1, <4>2
      <4> QED BY <2>2, <3>1, <3>3, <4>3 DEF After, S
    <3> QED BY <3>2, <3>3
  <2> QED BY <2>1, <2>2
<1>6. After(r) = [After(effects) EXCEPT ![e.page] = e.node]
  <2>1. After(r) = [p \in Int |-> After(r)[p]] /\ DOMAIN After(effects) = Int
    BY DEF After
  <2> QED BY <1>2, <1>5, <2>1
<1>7. NewPages(r) = NewPages(effects) + (IF e.new THEN 1 ELSE 0)
  <2> DEFINE S == {i \in DOMAIN effects : effects[i].new}
             T == {i \in DOMAIN r : r[i].new}
  <2>1. T = IF e.new THEN S \cup {n + 1} ELSE S
    <3>1. \A i : i \in 1 .. (n + 1) <=> i \in 1 .. n \/ i = n + 1
      BY <1>1
    <3>2. \A i : i \in T <=> i \in S \/ (e.new /\ i = n + 1)
      BY <1>1, <3>1
    <3> QED BY <1>2, <3>2
  <2>2. IsFiniteSet(S)
    <3>1. IsFiniteSet(1 .. n) /\ S \subseteq 1 .. n
      BY <1>1, FS_Interval
    <3> QED BY <3>1, FS_Subset
  <2>3. n + 1 \notin S
    <3>1. n + 1 \notin 1 .. n /\ S \subseteq 1 .. n
      BY <1>1
    <3> QED BY <3>1
  <2> HIDE DEF S, T
  <2>4. Cardinality(S) \in Nat /\ Cardinality(S \cup {n + 1}) = Cardinality(S) + 1
    BY <2>2, <2>3, FS_AddElement, FS_CardinalityType
  <2>5. Cardinality(T) = Cardinality(S) + (IF e.new THEN 1 ELSE 0)
    BY <1>2, <2>1, <2>4
  <2> QED BY <2>5 DEF NewPages, S, T
<1> QED BY <1>6, <1>7 DEF r

LEMMA NewPagesNone == NewPages(<< >>) = 0
<1>1. {i \in DOMAIN << >> : << >>[i].new} = {}
  OBVIOUS
<1> QED BY <1>1, FS_EmptySet DEF NewPages

(* Two effects more, as a division makes them: a new page, and the old one. *)
TwoMore(effects, a, w, P) ==
  /\ effects \o <<a, w>> \in Seq(Effects(P))
  /\ After(effects \o <<a, w>>) =
       [[After(effects) EXCEPT ![a.page] = a.node] EXCEPT ![w.page] = w.node]
  /\ NewPages(effects \o <<a, w>>) = NewPages(effects) + 1

LEMMA AfterDivision ==
  ASSUME NEW P, NEW effects \in Seq(Effects(P)), NEW a \in Effects(P), NEW w \in Effects(P),
         a.new = TRUE, w.new = FALSE
  PROVE  TwoMore(effects, a, w, P)
<1> DEFINE r == Append(effects, a)
<1>1. effects \o <<a, w>> = Append(r, w)
  OBVIOUS
<1>2. r \in Seq(Effects(P)) /\ Append(r, w) \in Seq(Effects(P))
  BY AppendProperties
<1>3. /\ After(r) = [After(effects) EXCEPT ![a.page] = a.node]
      /\ NewPages(r) = NewPages(effects) + 1
  BY AfterAppend
<1> HIDE DEF r
<1>4. /\ After(Append(r, w)) = [After(r) EXCEPT ![w.page] = w.node]
      /\ NewPages(Append(r, w)) = NewPages(r) + 0
  BY <1>2, AfterAppend
<1>5. NewPages(effects) \in Nat
  BY NewPagesType
<1>6. NewPages(Append(r, w)) = NewPages(effects) + 1
  BY <1>3, <1>4, <1>5
<1>7. After(Append(r, w)) = [[After(effects) EXCEPT ![a.page] = a.node] EXCEPT ![w.page] = w.node]
  BY <1>3, <1>4
<1> QED BY <1>1, <1>2, <1>6, <1>7 DEF TwoMore

LEMMA AfterType ==
  ASSUME NEW P, Holding(P), NEW effects \in Seq(Effects(P))
  PROVE  After(effects) \in [Int -> NodesOver(P)]
<1>1. ASSUME NEW p \in Int PROVE After(effects)[p] \in NodesOver(P)
  <2> DEFINE S == Wrote(effects, p)
  <2>1. Len(effects) \in Nat /\ S \in SUBSET (0 .. Len(effects)) /\ S \subseteq DOMAIN effects
    BY LenProperties DEF Wrote
  <2>2. CASE S = {}
    BY <2>2, ReadNodeType DEF After
  <2>3. CASE S # {}
    <3>1. Max(S) \in DOMAIN effects
      <4> HIDE DEF S
      <4> QED BY <2>1, <2>3, MaxOf
    <3>2. effects[Max(S)] \in Effects(P)
      BY <3>1, LenProperties, ElementOfSeq
    <3>3. After(effects)[p] = effects[Max(S)].node
      BY <2>3 DEF After
    <3> QED BY <3>2, <3>3 DEF Effects
  <2> QED BY <2>2, <2>3
<1> QED BY <1>1 DEF After

(* What Apply leaves in the pages is what After says. *)
LEMMA ApplyShows ==
  ASSUME NEW effects, Apply(effects), NEW p \in PageIds
  PROVE  View'[p] = After(effects)[p]
<1>1. pages'[p] = IF Wrote(effects, p) = {} THEN pages[p] ELSE effects[Max(Wrote(effects, p))].node
  BY DEF Apply, Wrote
<1>2. p \in Int
  BY OrderFacts
<1> QED BY <1>1, <1>2 DEF After, View, ReadNode, PageIds

-----------------------------------------------------------------------------
(* Parents *)

(* The two pages of a division under way, as the levels above them have to see it:
   what is promoted is the first key of the right one. *)
Halves(t, left, right, promote, l) ==
  /\ left \in t.pages /\ right \in t.pages
  /\ t.level[left] = l /\ t.level[right] = l
  /\ t.range[left] # {}
  /\ promote \in t.range[right]
  /\ \A x \in t.range[left] : x < promote
  /\ \A x \in t.range[right] : promote <= x

LEMMA WideFacts ==
  ASSUME NEW t \in Pictures, NEW left \in t.pages, NEW right \in t.pages, left # right
  PROVE  /\ Wide(t, left, right)[left] = t.range[left] \cup t.range[right]
         /\ Wide(t, left, right)[right] = {}
         /\ \A c \in t.pages \ {left, right} : Wide(t, left, right)[c] = t.range[c]
BY DEF Wide, Pictures

LEMMA HalvesDiffer ==
  ASSUME NEW t \in Pictures, NEW left, NEW right, NEW promote, NEW l,
         Halves(t, left, right, promote, l)
  PROVE  left # right /\ promote \in Keys
<1>1. PICK x \in t.range[left] : x < promote
  BY DEF Halves
<1>2. left = right => promote <= x
  BY DEF Halves
<1>3. t.range[left] \subseteq Keys /\ t.range[right] \subseteq Keys
  BY DEF Halves, Pictures
<1>4. x \in Int /\ promote \in Int /\ promote \in Keys
  BY <1>3, OrderFacts DEF Halves
<1> QED BY <1>1, <1>2, <1>4

(* The parent of the left half takes the right one, too. *)
LEMMA DividedMore ==
  ASSUME NEW t \in Pictures, NEW R, R \subseteq Keys, NEW l,
         NEW ks \in Seq(Keys), NEW cs \in Seq(Int), NEW left, NEW right, NEW promote,
         Halves(t, left, right, promote, l),
         Divides(R, l, ks, cs, t, Wide(t, left, right)),
         NEW i \in 1 .. Len(ks) + 1, cs[i] = left,
         NEW ms \in Seq(Keys), Inserted(ms, ks, i, promote),
         NEW ds \in Seq(Int), Inserted(ds, cs, i + 1, right)
  PROVE  Divides(R, l, ms, ds, t, t.range)
<1> DEFINE wide == Wide(t, left, right)
           n == Len(ks)
<1>1. /\ n \in Nat /\ DOMAIN ks = 1 .. n /\ Len(cs) = n + 1 /\ LeafFits(R, ks)
      /\ Len(ms) = n + 1 /\ DOMAIN ms = 1 .. (n + 1) /\ Len(ds) = n + 2
  BY LenProperties DEF Divides, Inserted
<1>0. i \in 1 .. n + 1 /\ i \in Int
  BY <1>1
<1>2. /\ left # right /\ promote \in Keys
      /\ wide[left] = t.range[left] \cup t.range[right]
      /\ wide[right] = {}
      /\ \A c \in t.pages \ {left, right} : wide[c] = t.range[c]
  <2>1. left # right /\ promote \in Keys
    BY HalvesDiffer
  <2>2. left \in t.pages /\ right \in t.pages
    BY DEF Halves
  <2> QED BY <2>1, <2>2, WideFacts
<1>3. \A j \in 1 .. n + 1 : /\ cs[j] \in t.pages
                            /\ t.level[cs[j]] = l
                            /\ wide[cs[j]] = Slot(R, ks, j)
                            /\ Slot(R, ks, j) # {}
  BY DEF Divides
<1> HIDE DEF wide
<1>4. /\ \A j \in 1 .. n : ks[j] \in Int
      /\ \A x \in R : x \in Int
      /\ promote \in Int
  BY <1>1, <1>2, ElementOfSeq, OrderFacts
<1>5. /\ \A j \in 1 .. (i - 1) : ms[j] = ks[j]
      /\ ms[i] = promote
      /\ \A j \in (i + 1) .. (n + 1) : ms[j] = ks[j - 1]
  <2>1. \A j \in 1 .. n + 1 :
          ms[j] = IF j < i THEN ks[j] ELSE IF j = i THEN promote ELSE ks[j - 1]
    BY DEF Inserted
  <2> HIDE DEF n
  <2>2. /\ \A j \in 1 .. (i - 1) : j \in 1 .. n + 1 /\ j < i
        /\ i \in 1 .. n + 1 /\ ~(i < i)
        /\ \A j \in (i + 1) .. (n + 1) : j \in 1 .. n + 1 /\ ~(j < i) /\ j # i
    BY <1>0, <1>1
  <2> QED BY <2>1, <2>2
<1>6. /\ \A j \in 1 .. i : ds[j] = cs[j]
      /\ ds[i + 1] = right
      /\ \A j \in (i + 2) .. (n + 2) : ds[j] = cs[j - 1]
  <2>1. \A j \in 1 .. n + 2 :
          ds[j] = IF j < i + 1 THEN cs[j] ELSE IF j = i + 1 THEN right ELSE cs[j - 1]
    <3>1. \A j \in 1 .. Len(cs) + 1 :
            ds[j] = IF j < i + 1 THEN cs[j] ELSE IF j = i + 1 THEN right ELSE cs[j - 1]
      BY DEF Inserted
    <3>2. Len(cs) + 1 = n + 2
      BY <1>1
    <3> QED BY <3>1, <3>2
  <2> HIDE DEF n
  <2>2. /\ \A j \in 1 .. i : j \in 1 .. n + 2 /\ j < i + 1
        /\ i + 1 \in 1 .. n + 2 /\ ~(i + 1 < i + 1)
        /\ \A j \in (i + 2) .. (n + 2) : j \in 1 .. n + 2 /\ ~(j < i + 1) /\ j # i + 1
    BY <1>0, <1>1
  <2> QED BY <2>1, <2>2
<1> HIDE DEF n
<1>7. ASSUME NEW j \in 1 .. n + 1, j # i PROVE t.range[cs[j]] = Slot(R, ks, j)
  <2>1. cs[j] # right
    BY <1>2, <1>3
  <2>2. cs[j] # left
    <3>1. SUFFICES ASSUME cs[j] = left PROVE FALSE
      OBVIOUS
    <3>2. i \in 1 .. n + 1
      BY DEF n
    <3>3. Slot(R, ks, i) = Slot(R, ks, j) /\ Slot(R, ks, j) # {}
      BY <1>3, <3>1, <3>2
    <3>4. PICK x \in Slot(R, ks, j) : x \in Slot(R, ks, i)
      BY <3>3
    <3> QED BY <1>1, <1>7, <3>2, <3>4, SlotsApart DEF LeafFits, n
  <2> QED BY <1>2, <1>3, <2>1, <2>2
<1>8. Slot(R, ks, i) = t.range[left] \cup t.range[right]
  BY <1>2, <1>3 DEF n
<1>9. /\ \A x \in t.range[left] : x < promote
      /\ \A x \in t.range[right] : promote <= x
      /\ promote \in t.range[right]
      /\ t.range[left] # {}
  BY DEF Halves
<1>10. /\ i > 1 => ks[i - 1] < promote
       /\ i <= n => promote < ks[i]
       /\ promote \in R
  <2>1. promote \in Slot(R, ks, i)
    BY <1>8, <1>9
  <2>2. PICK x \in Slot(R, ks, i) : x < promote
    BY <1>8, <1>9
  <2>3. promote \in R /\ x \in R /\ (i > 1 => ks[i - 1] <= x) /\ (i <= n => promote < ks[i])
    BY <2>1, <2>2 DEF Slot, n
  <2>4. i > 1 => ks[i - 1] \in Int
    BY <1>1, <1>4 DEF n
  <2> QED BY <1>4, <2>2, <2>3, <2>4
<1>11. LeafFits(R, ms)
  <2>1. LeafFits(R, InsertAt(ks, i, promote))
    <3>1. ASSUME NEW j \in 1 .. (i - 1) PROVE ks[j] < promote
      <4>1. PICK k \in 1 .. n : k = i - 1
        BY <1>0, <1>1, <3>1
      <4>2. j \in DOMAIN ks /\ k \in DOMAIN ks /\ (j = k \/ j < k)
        <5>1. j \in Int /\ 1 <= j /\ j <= k /\ k <= n /\ k \in Int
          BY <1>0, <4>1
        <5>2. j \in 1 .. n /\ k \in 1 .. n
          BY <1>1, <5>1
        <5> QED BY <1>1, <5>1, <5>2
      <4>3. j < k => ks[j] < ks[k]
        BY <1>1, <4>2 DEF LeafFits, Increasing
      <4>4. ks[k] < promote /\ ks[k] \in Int /\ ks[j] \in Int
        BY <1>1, <1>4, <1>10, <3>1, <4>1, <4>2
      <4> QED BY <1>4, <4>2, <4>3, <4>4
    <3>2. ASSUME NEW j \in i .. Len(ks) PROVE promote < ks[j]
      <4>1. j \in DOMAIN ks /\ i \in DOMAIN ks /\ (j = i \/ i < j) /\ i <= n
        <5>1. j \in i .. n
          BY <3>2 DEF n
        <5> QED BY <1>0, <1>1, <5>1
      <4>2. i < j => ks[i] < ks[j]
        BY <1>1, <4>1 DEF LeafFits, Increasing
      <4>3. promote < ks[i] /\ ks[i] \in Int /\ ks[j] \in Int
        BY <1>1, <1>4, <1>10, <4>1
      <4> QED BY <1>4, <4>1, <4>2, <4>3
    <3> QED BY <1>1, <1>2, <1>10, <3>1, <3>2, InsertedFits
  <2>2. InsertAt(ks, i, promote) \in Seq(Keys) /\ Inserted(InsertAt(ks, i, promote), ks, i, promote)
    BY <1>2, InsertAtInserts
  <2> DEFINE r == InsertAt(ks, i, promote)
  <2>3. r = ms
    <3> HIDE DEF r
    <3>1. Len(r) = Len(ms) /\ \A j \in 1 .. Len(ms) : r[j] = ms[j]
      BY <2>2 DEF Inserted, r
    <3>2. r \in Seq(Keys)
      BY <2>2 DEF r
    <3> QED BY <3>1, <3>2, SeqEqual
  <2> QED BY <2>1, <2>3
<1>12. ASSUME NEW j \in 1 .. n + 2
       PROVE  /\ ds[j] \in t.pages
              /\ t.level[ds[j]] = l
              /\ t.range[ds[j]] = Slot(R, ms, j)
              /\ Slot(R, ms, j) # {}
  <2>0. i \in 1 .. n + 1
    BY <1>0
  <2>1. CASE j < i
    <3>1. j \in 1 .. n + 1 /\ j \in 1 .. i /\ j # i /\ ds[j] = cs[j]
      <4>1. j \in 1 .. n + 1 /\ j \in 1 .. i /\ j # i
        BY <1>1, <2>0, <2>1
      <4> QED BY <1>6, <4>1
    <3>2. /\ j > 1 => ms[j - 1] = ks[j - 1]
          /\ j <= n /\ j <= n + 1 /\ ms[j] = ks[j]
      <4>1. /\ j <= n /\ j <= n + 1 /\ j \in 1 .. (i - 1)
            /\ j > 1 => j - 1 \in 1 .. (i - 1)
        BY <1>1, <2>0, <2>1
      <4> QED BY <1>5, <4>1
    <3>3. Slot(R, ms, j) = Slot(R, ks, j)
      BY <1>1, <3>2 DEF Slot, n
    <3> QED BY <1>3, <1>7, <3>1, <3>3
  <2>2. CASE j = i
    <3>1. ds[j] = left
      <4>1. i \in 1 .. i
        BY <2>0, <1>0
      <4>2. ds[i] = cs[i]
        BY <1>6, <4>1
      <4> QED BY <2>2, <4>2
    <3>2. /\ i > 1 => ms[i - 1] = ks[i - 1]
          /\ ms[i] = promote /\ i <= n + 1
      BY <1>1, <1>5, <2>0
    <3>3. Slot(R, ms, i) = {x \in Slot(R, ks, i) : x < promote}
      <4>1. ASSUME NEW x \in R, x < promote PROVE i <= n => x < ks[i]
        BY <1>1, <1>4, <1>10, <2>0, <4>1
      <4> QED BY <1>1, <3>2, <4>1 DEF Slot, n
    <3>4. Slot(R, ms, i) = t.range[left]
      <4>1. \A x \in Slot(R, ks, i) : x \in Int
        BY <1>4 DEF Slot
      <4> QED BY <1>4, <1>8, <1>9, <3>3, <4>1
    <3> QED BY <1>9, <2>2, <3>1, <3>4 DEF Halves
  <2>3. CASE j = i + 1
    <3>1. ds[j] = right
      BY <1>6, <2>3
    <3>2. /\ j > 1 /\ ms[j - 1] = promote
          /\ j <= n + 1 => ms[j] = ks[i] /\ i <= n
          /\ i <= n => j <= n + 1
      BY <1>1, <1>5, <2>0, <2>3
    <3>3. Slot(R, ms, j) = {x \in Slot(R, ks, i) : promote <= x}
      <4>1. ASSUME NEW x \in R, promote <= x PROVE i > 1 => ks[i - 1] <= x
        <5>1. i > 1 => ks[i - 1] \in Int
          BY <1>1, <1>4, <2>0
        <5> QED BY <1>4, <1>10, <4>1, <5>1
      <4> QED BY <1>1, <3>2, <4>1 DEF Slot, n
    <3>4. Slot(R, ms, j) = t.range[right]
      <4> DEFINE I == Slot(R, ks, i)
                 A == t.range[left]
                 B == t.range[right]
      <4>1. \A x \in I : x \in Int
        BY <1>4 DEF Slot
      <4>2. I = A \cup B /\ (\A x \in A : x < promote) /\ (\A x \in B : promote <= x)
        BY <1>8, <1>9
      <4> HIDE DEF I, A, B
      <4>3. {x \in I : promote <= x} = B
        BY <1>4, <4>1, <4>2
      <4> QED BY <3>3, <4>3 DEF I, B
    <3> QED BY <1>9, <2>3, <3>1, <3>4 DEF Halves
  <2>4. CASE j > i + 1
    <3>1. PICK k \in 1 .. n + 1 : k = j - 1
      BY <1>1, <2>0, <2>4
    <3>2. k # i /\ ds[j] = cs[k] /\ k > 1 /\ j > 1
      BY <1>1, <1>6, <2>0, <2>4, <3>1
    <3>3. /\ ms[j - 1] = ks[k - 1]
          /\ j <= n + 1 => ms[j] = ks[k]
          /\ j <= n + 1 <=> k <= n
      <4>1. PICK a \in (i + 1) .. (n + 1) : a = j - 1
        BY <1>1, <2>0, <2>4
      <4>2. ms[a] = ks[a - 1] /\ a = k
        BY <1>5, <3>1, <4>1
      <4>3. j <= n + 1 => ms[j] = ks[k]
        BY <1>1, <1>5, <2>0, <2>4, <3>1
      <4> QED BY <1>1, <2>0, <2>4, <3>1, <4>1, <4>2, <4>3
    <3>4. Slot(R, ms, j) = Slot(R, ks, k)
      BY <1>1, <3>2, <3>3 DEF Slot, n
    <3> QED BY <1>3, <1>7, <3>1, <3>2, <3>4
  <2>5. j < i \/ j = i \/ j = i + 1 \/ j > i + 1
    <3>1. j \in Int
      BY <1>1
    <3> QED BY <1>0, <3>1
  <2> QED BY <2>1, <2>2, <2>3, <2>4, <2>5
<1>13. Len(ms) + 1 = n + 2
  BY <1>1
<1> QED BY <1>1, <1>11, <1>12, <1>13 DEF Divides

(* lc and hc are the first m + 1 and the last n - m of cs. *)
Parted(cs, n, m, lc, hc) ==
  /\ Len(lc) = m + 1 /\ \A j \in 1 .. m + 1 : lc[j] = cs[j]
  /\ Len(hc) = n - m /\ \A j \in 1 .. n - m : hc[j] = cs[m + 1 + j]

(* A node is cut in two at a key that moves up. *)
LEMMA DividedInTwo ==
  ASSUME NEW t, NEW wide, NEW R, R \subseteq Keys, NEW l,
         NEW ks \in Seq(Keys), NEW cs, Divides(R, l, ks, cs, t, wide),
         NEW m \in 1 .. (Len(ks) - 1), NEW lc, NEW hc, Parted(cs, Len(ks), m, lc, hc)
  PROVE  /\ Divides(Below(R, ks[m + 1]), l, SubSeq(ks, 1, m), lc, t, wide)
         /\ Divides(NotBelow(R, ks[m + 1]), l, SubSeq(ks, m + 2, Len(ks)), hc, t, wide)
         /\ Below(R, ks[m + 1]) # {} /\ ks[m + 1] \in NotBelow(R, ks[m + 1])
<1> DEFINE n == Len(ks)
           mid == ks[m + 1]
           low == SubSeq(ks, 1, m)
           high == SubSeq(ks, m + 2, n)
<1>1. /\ n \in Nat /\ DOMAIN ks = 1 .. n /\ LeafFits(R, ks) /\ m \in 1 .. (n - 1) /\ m \in Int
      /\ m + 1 \in 1 .. n
  BY LenProperties DEF Divides
<1>2. /\ \A j \in 1 .. n : ks[j] \in Int /\ ks[j] \in R
      /\ \A x \in R : x \in Int
      /\ mid \in Int /\ mid \in R
  BY <1>1, ElementOfSeq, OrderFacts DEF LeafFits
<1>3. /\ LeafFits(Below(R, mid), low)
      /\ Below(R, mid) # {} /\ mid \in NotBelow(R, mid)
  BY <1>1, CutHas
<1>4. /\ low \in Seq(Keys) /\ Len(low) = m /\ \A j \in 1 .. m : low[j] = ks[j]
  <2>1. 1 \in 1 .. Len(ks) + 1 /\ m \in (1 - 1) .. Len(ks)
    BY <1>1
  <2>2. low \in Seq(Keys) /\ Len(low) = m - 1 + 1 /\ \A j \in 1 .. (m - 1 + 1) : low[j] = ks[1 + j - 1]
    BY <2>1, CutSeq
  <2> HIDE DEF low, n
  <2>3. m - 1 + 1 = m /\ \A j \in 1 .. m : 1 + j - 1 = j
    BY <1>1
  <2> QED BY <2>2, <2>3
<1>5. /\ high \in Seq(Keys) /\ Len(high) = n - m - 1 /\ DOMAIN high = 1 .. (n - m - 1)
      /\ \A j \in 1 .. (n - m - 1) : high[j] = ks[m + 1 + j]
  <2>1. PICK a \in 1 .. Len(ks) + 1 : a = m + 2
    BY <1>1
  <2>2. n \in (a - 1) .. Len(ks)
    BY <1>1, <2>1
  <2>3. /\ SubSeq(ks, a, n) \in Seq(Keys) /\ Len(SubSeq(ks, a, n)) = n - a + 1
        /\ \A j \in 1 .. (n - a + 1) : SubSeq(ks, a, n)[j] = ks[a + j - 1]
    BY <2>2, CutSeq
  <2>4. high \in Seq(Keys) /\ Len(high) = n - a + 1 /\ \A j \in 1 .. (n - a + 1) : high[j] = ks[a + j - 1]
    BY <2>1, <2>3
  <2> HIDE DEF high, n
  <2>5. n - a + 1 = n - m - 1 /\ \A j \in 1 .. (n - m - 1) : a + j - 1 = m + 1 + j
    BY <1>1, <2>1
  <2> QED BY <2>4, <2>5, LenProperties
<1>6. \A j \in 1 .. n + 1 : /\ cs[j] \in t.pages
                            /\ t.level[cs[j]] = l
                            /\ wide[cs[j]] = Slot(R, ks, j)
                            /\ Slot(R, ks, j) # {}
  BY DEF Divides
<1>7. /\ Len(lc) = m + 1 /\ Len(hc) = n - m
      /\ \A j \in 1 .. m + 1 : lc[j] = cs[j]
      /\ \A j \in 1 .. n - m : hc[j] = cs[m + 1 + j]
  BY DEF Parted
<1>8. \A i, j \in 1 .. n : i < j => ks[i] < ks[j]
  BY <1>1 DEF LeafFits, Increasing
<1> HIDE DEF low, high, mid
<1>9. \A j \in 1 .. n : (j < m + 1 => ks[j] < mid) /\ (m + 1 < j => mid < ks[j])
  BY <1>1, <1>8 DEF mid
<1>10. mid = ks[m + 1]
  BY DEF mid
<1> HIDE DEF n
<1>11. LeafFits(NotBelow(R, mid), high)
  <2>1. ASSUME NEW i \in DOMAIN high PROVE high[i] \in NotBelow(R, mid)
    <3>1. i \in 1 .. (n - m - 1)
      BY <1>5
    <3>2. PICK j \in 1 .. n : j = m + 1 + i
      BY <1>1, <3>1
    <3>3. high[i] = ks[j] /\ m + 1 < j
      BY <1>1, <1>5, <3>1, <3>2
    <3> QED BY <1>2, <1>9, <3>3 DEF NotBelow
  <2>2. ASSUME NEW i \in DOMAIN high, NEW j \in DOMAIN high, i < j PROVE high[i] < high[j]
    <3>1. i \in 1 .. (n - m - 1) /\ j \in 1 .. (n - m - 1)
      BY <1>5
    <3>2. PICK a \in 1 .. n : a = m + 1 + i
      BY <1>1, <3>1
    <3>3. PICK b \in 1 .. n : b = m + 1 + j
      BY <1>1, <3>1
    <3>4. a < b /\ high[i] = ks[a] /\ high[j] = ks[b]
      BY <1>1, <1>5, <2>2, <3>1, <3>2, <3>3
    <3> QED BY <1>8, <3>4
  <2> QED BY <2>1, <2>2 DEF LeafFits, Increasing
<1>12. ASSUME NEW j \in 1 .. m + 1 PROVE Slot(Below(R, mid), low, j) = Slot(R, ks, j)
  <2>1. j \in 1 .. n /\ j \in Int /\ (j <= m \/ j = m + 1)
    BY <1>1
  <2>2. j > 1 => low[j - 1] = ks[j - 1]
    BY <1>1, <1>4, <2>1
  <2>3. CASE j <= m
    <3>1. low[j] = ks[j] /\ j <= n /\ ks[j] < mid /\ j <= Len(low)
      BY <1>1, <1>4, <1>9, <2>1, <2>3
    <3>2. \A x \in R : x < ks[j] => x < mid
      BY <1>2, <2>1, <3>1
    <3> QED BY <2>2, <3>1, <3>2 DEF Slot, Below, n
  <2>4. CASE j = m + 1
    <3>1. ~(j <= Len(low)) /\ j <= n /\ ks[j] = mid
      BY <1>1, <1>4, <1>10, <2>4
    <3> QED BY <2>2, <3>1 DEF Slot, Below, n
  <2> QED BY <2>1, <2>3, <2>4
<1>13. ASSUME NEW j \in 1 .. n - m, NEW k \in 1 .. n + 1, k = m + 1 + j
       PROVE Slot(NotBelow(R, mid), high, j) = Slot(R, ks, k)
  <2>0. j \in Int /\ k \in Int /\ k > 1 /\ n \in Int /\ m \in Int
    BY <1>1, <1>13
  <2>1. /\ j <= Len(high) <=> k <= n
        /\ j <= Len(high) => high[j] = ks[k]
    <3>1. j <= Len(high) <=> j <= n - m - 1
      BY <1>5
    <3>2. j <= n - m - 1 <=> k <= n
      BY <1>13, <2>0
    <3>3. j <= n - m - 1 => j \in 1 .. (n - m - 1)
      BY <2>0
    <3> QED BY <1>5, <1>13, <3>1, <3>2, <3>3
  <2>2. CASE j = 1
    <3>1. ks[k - 1] = mid /\ ~(j > 1)
      <4>1. k - 1 = m + 1
        BY <1>13, <2>0, <2>2
      <4> QED BY <1>10, <2>2, <4>1
    <3> QED BY <2>0, <2>1, <3>1 DEF Slot, NotBelow, n
  <2>3. CASE j # 1
    <3>1. PICK a \in 1 .. (n - m - 1) : a = j - 1
      BY <2>0, <2>3
    <3>2. PICK b \in 1 .. n : b = k - 1
      BY <2>0
    <3>3. high[a] = ks[b] /\ mid < ks[b]
      <4>1. m + 1 + a = b /\ m + 1 < b
        BY <1>13, <2>0, <3>1, <3>2
      <4> QED BY <1>5, <1>9, <4>1
    <3>4. \A x \in R : ks[b] <= x => mid <= x
      BY <1>2, <3>3
    <3>5. j > 1 /\ high[j - 1] = ks[k - 1]
      BY <2>0, <2>3, <3>1, <3>2, <3>3
    <3> QED BY <2>0, <2>1, <3>2, <3>3, <3>4, <3>5 DEF Slot, NotBelow, n
  <2> QED BY <2>2, <2>3
<1>14. Divides(Below(R, mid), l, low, lc, t, wide)
  <2>1. ASSUME NEW j \in 1 .. Len(low) + 1
        PROVE  /\ lc[j] \in t.pages /\ t.level[lc[j]] = l
               /\ wide[lc[j]] = Slot(Below(R, mid), low, j)
               /\ Slot(Below(R, mid), low, j) # {}
    <3>1. j \in 1 .. m + 1 /\ j \in 1 .. n + 1
      BY <1>1, <1>4
    <3> QED BY <1>6, <1>7, <1>12, <3>1
  <2> QED BY <1>3, <1>4, <1>7, <2>1 DEF Divides
<1>15. Divides(NotBelow(R, mid), l, high, hc, t, wide)
  <2>1. ASSUME NEW j \in 1 .. Len(high) + 1
        PROVE  /\ hc[j] \in t.pages /\ t.level[hc[j]] = l
               /\ wide[hc[j]] = Slot(NotBelow(R, mid), high, j)
               /\ Slot(NotBelow(R, mid), high, j) # {}
    <3>1. j \in 1 .. n - m
      BY <1>1, <1>5
    <3>2. PICK k \in 1 .. n + 1 : k = m + 1 + j
      BY <1>1, <3>1
    <3>3. hc[j] = cs[k] /\ Slot(NotBelow(R, mid), high, j) = Slot(R, ks, k)
      BY <1>7, <1>13, <3>1, <3>2
    <3> QED BY <1>6, <3>3
  <2>2. Len(hc) = Len(high) + 1
    BY <1>1, <1>5, <1>7
  <2> QED BY <1>11, <2>1, <2>2 DEF Divides
<1> QED BY <1>3, <1>14, <1>15 DEF mid, low, high, n

(* A division under way below root: the pages form a tree, but for the range of the
   left half, which is taken for that of both. *)
Dividing(V, root, t, left, right, promote, l) ==
  Halves(t, left, right, promote, l) /\ Tree(V, root, t, Wide(t, left, right))

LEMMA DividingFacts ==
  ASSUME NEW t \in Pictures, NEW left, NEW right, NEW promote, NEW l,
         Halves(t, left, right, promote, l)
  PROVE  /\ left # right /\ promote \in Keys /\ left \in t.pages /\ right \in t.pages
         /\ t.level[left] = l /\ t.level[right] = l
         /\ Wide(t, left, right)[left] = t.range[left] \cup t.range[right]
         /\ Wide(t, left, right)[right] = {}
         /\ \A c \in t.pages \ {left, right} : Wide(t, left, right)[c] = t.range[c]
<1>1. left # right /\ promote \in Keys
  BY HalvesDiffer
<1>2. left \in t.pages /\ right \in t.pages /\ t.level[left] = l /\ t.level[right] = l
  BY DEF Halves
<1> QED BY <1>1, <1>2, WideFacts

(* Page p is above the halves on the way to key. *)
Above(t, left, right, l, key, p) ==
  /\ key \in t.range[left] \cup t.range[right]
  /\ p \in t.pages
  /\ t.level[p] = l + 1
  /\ key \in t.range[p]

(* No other page than the parent has the left half for a child. *)
LEMMA OthersFit ==
  ASSUME NEW V, NEW root, NEW t \in Pictures, NEW left, NEW right, NEW promote, NEW l,
         Dividing(V, root, t, left, right, promote, l),
         NEW key, NEW p, Above(t, left, right, l, key, p)
  PROVE  \A q \in t.pages \ {p} : NodeFits(V, root, t, t.range, q)
<1> SUFFICES ASSUME NEW q \in t.pages \ {p} PROVE NodeFits(V, root, t, t.range, q)
  OBVIOUS
<1>0. /\ key \in t.range[left] \cup t.range[right]
      /\ p \in t.pages /\ t.level[p] = l + 1 /\ key \in t.range[p]
  BY DEF Above
<1> DEFINE wide == Wide(t, left, right)
           ks == V[q].keys
           cs == Children(V[q])
<1>1. NodeFits(V, root, t, wide, q) /\ Disjoint(t)
  BY DEF Dividing, Tree
<1>2. /\ left # right /\ t.level[left] = l /\ t.level[right] = l
      /\ wide[left] = t.range[left] \cup t.range[right]
      /\ wide[right] = {}
      /\ \A c \in t.pages \ {left, right} : wide[c] = t.range[c]
      /\ left \in t.pages
  <2>1. Halves(t, left, right, promote, l)
    BY DEF Dividing
  <2> QED BY <2>1, DividingFacts
<1>3. t.level[q] \in Nat /\ l \in Int
  BY <1>2, PictureFacts
<1> HIDE DEF wide
<1>4. CASE t.level[q] = 0
  BY <1>1, <1>4 DEF NodeFits
<1>5. CASE t.level[q] # 0
  <2>1. V[q].type = Internal /\ Divides(t.range[q], t.level[q] - 1, ks, cs, t, wide)
    BY <1>1, <1>5 DEF NodeFits
  <2> HIDE DEF ks, cs
  <2>2. \A j \in 1 .. Len(ks) + 1 : /\ cs[j] \in t.pages
                                    /\ t.level[cs[j]] = t.level[q] - 1
                                    /\ wide[cs[j]] = Slot(t.range[q], ks, j)
                                    /\ Slot(t.range[q], ks, j) # {}
    BY <2>1 DEF Divides
  <2>3. ASSUME NEW j \in 1 .. Len(ks) + 1 PROVE wide[cs[j]] = t.range[cs[j]]
    <3>1. cs[j] # right
      BY <1>2, <2>2
    <3>2. cs[j] # left
      <4>1. SUFFICES ASSUME cs[j] = left PROVE FALSE
        OBVIOUS
      <4>2. key \in t.range[q]
        BY <1>0, <1>2, <2>2, <4>1 DEF Slot
      <4>3. t.level[q] = l + 1
        <5> DEFINE a == t.level[q]
                   b == t.level[left]
        <5>1. b = a - 1 /\ b = l /\ a \in Nat
          BY <1>2, <1>3, <2>2, <4>1
        <5> HIDE DEF a, b
        <5>2. a = l + 1
          BY <1>3, <5>1
        <5> QED BY <5>2 DEF a
      <4>4. q = p
        BY <1>0, <1>1, <4>2, <4>3, SamePage
      <4> QED BY <4>4
    <3> QED BY <1>2, <2>2, <3>1, <3>2
  <2>4. Divides(t.range[q], t.level[q] - 1, ks, cs, t, t.range)
    BY <2>1, <2>3 DEF Divides
  <2> QED BY <1>5, <2>1, <2>4 DEF NodeFits, ks, cs
<1> QED BY <1>4, <1>5

(* The parent is where the search for the key went on to the left half. *)
LEMMA LeftIsChild ==
  ASSUME NEW V \in [Int -> NodesOver(AnyPair)], NEW root, NEW t \in Pictures,
         NEW left, NEW right, NEW promote, NEW l,
         Dividing(V, root, t, left, right, promote, l),
         NEW key, NEW p, Above(t, left, right, l, key, p)
  PROVE  /\ V[p].type = Internal
         /\ Divides(t.range[p], l, V[p].keys, Children(V[p]), t, Wide(t, left, right))
         /\ ChildIndex(V[p], key) + 1 \in 1 .. Len(V[p].keys) + 1
         /\ Children(V[p])[ChildIndex(V[p], key) + 1] = left
<1> DEFINE wide == Wide(t, left, right)
           node == V[p]
           i == ChildIndex(node, key) + 1
           c == Children(node)[i]
<1>0. /\ key \in t.range[left] \cup t.range[right]
      /\ p \in t.pages /\ t.level[p] = l + 1 /\ key \in t.range[p]
  BY DEF Above
<1>1. NodeFits(V, root, t, wide, p) /\ Disjoint(t)
  BY <1>0 DEF Dividing, Tree
<1>2. /\ left # right /\ t.level[left] = l /\ t.level[right] = l
      /\ wide[left] = t.range[left] \cup t.range[right]
      /\ wide[right] = {}
      /\ \A d \in t.pages \ {left, right} : wide[d] = t.range[d]
      /\ left \in t.pages /\ right \in t.pages
  <2>1. Halves(t, left, right, promote, l)
    BY DEF Dividing
  <2> QED BY <2>1, DividingFacts
<1> HIDE DEF wide
<1>3. t.level[p] \in Nat /\ l \in Nat /\ t.level[p] # 0 /\ t.level[p] - 1 = l
  <2>1. l \in Nat
    BY <1>2, PictureFacts
  <2> QED BY <1>0, <2>1
<1>4. node.type = Internal /\ Divides(t.range[p], l, node.keys, Children(node), t, wide)
  BY <1>1, <1>3 DEF NodeFits
<1>5. node \in NodesOver(AnyPair) /\ key \in Keys
  BY <1>0, PictureFacts DEF Pictures
<1> HIDE DEF node
<1>6. i \in 1 .. Len(node.keys) + 1 /\ key \in Slot(t.range[p], node.keys, i)
  BY <1>0, <1>4, <1>5, ChildSlot DEF Divides, LeafFits
<1> HIDE DEF i
<1>7. c \in t.pages /\ t.level[c] = l /\ key \in wide[c]
  BY <1>4, <1>6 DEF Divides
<1> HIDE DEF c
<1>8. c = left
  <2>1. c # right
    BY <1>2, <1>7
  <2>2. SUFFICES ASSUME c # left PROVE FALSE
    OBVIOUS
  <2>3. key \in t.range[c]
    BY <1>2, <1>7, <2>1, <2>2
  <2>4. CASE key \in t.range[left]
    <3>1. c = left
      BY <1>1, <1>2, <1>7, <2>3, <2>4, SamePage
    <3> QED BY <2>2, <3>1
  <2>5. CASE key \in t.range[right]
    <3>1. c = right
      BY <1>1, <1>2, <1>7, <2>3, <2>5, SamePage
    <3> QED BY <2>1, <3>1
  <2> QED BY <1>0, <2>4, <2>5
<1> QED BY <1>4, <1>6, <1>8 DEF i, c, node, wide

(* What the parent holds when it has taken the right half. *)
LEMMA ParentTakes ==
  ASSUME NEW V \in [Int -> NodesOver(AnyPair)], NEW root, NEW t \in Pictures,
         NEW left, NEW right, NEW promote, NEW l,
         Dividing(V, root, t, left, right, promote, l),
         NEW key, NEW p, Above(t, left, right, l, key, p),
         NEW ci, ci = ChildIndex(V[p], key)
  PROVE  LET ms == InsertAt(V[p].keys, ci + 1, promote)
             ds == InsertAt(ReplaceAt(Children(V[p]), ci + 1, left), ci + 2, right)
         IN  /\ ms \in Seq(Keys) /\ ds \in Seq(Int)
             /\ Len(ms) = Len(V[p].keys) + 1
             /\ Divides(t.range[p], l, ms, ds, t, t.range)
<1> DEFINE ks == V[p].keys
           cs == Children(V[p])
<1>0. p \in t.pages /\ p \in Int /\ key \in t.range[p] /\ key \in Keys
  <2>1. p \in t.pages /\ key \in t.range[p]
    BY DEF Above
  <2> QED BY <2>1, PictureFacts
<1>1. PICK i \in 1 .. Len(ks) + 1 : i = ci + 1 /\ cs[i] = left
  BY LeftIsChild
<1>2. Divides(t.range[p], l, ks, cs, t, Wide(t, left, right))
  BY LeftIsChild
<1>3. /\ ks \in Seq(Keys) /\ cs \in Seq(Int) /\ Len(ks) \in Nat /\ Len(cs) = Len(ks) + 1
      /\ t.range[p] \subseteq Keys
  <2>1. V[p] \in NodesOver(AnyPair) /\ key \in Keys
    BY <1>0
  <2>2. t.range[p] \subseteq Keys
    BY <1>0, PictureFacts
  <2> QED BY <2>1, <2>2, NodeFacts, ChildFacts
<1> HIDE DEF ks, cs
<1>4. Halves(t, left, right, promote, l)
  BY DEF Dividing
<1>5. left \in Int /\ right \in Int /\ promote \in Keys
  <2>1. left \in t.pages /\ right \in t.pages /\ promote \in Keys
    BY <1>4, DividingFacts
  <2> QED BY <2>1, PictureFacts
<1> DEFINE ms == InsertAt(ks, i, promote)
           rs == ReplaceAt(cs, i, left)
           ds == InsertAt(rs, i + 1, right)
<1>6. ms \in Seq(Keys) /\ Inserted(ms, ks, i, promote)
  BY <1>3, <1>5, InsertAtInserts
<1>7. rs = cs
  <2>1. i \in 1 .. Len(cs)
    BY <1>3
  <2>2. rs \in Seq(Int) /\ Replaced(rs, cs, i, left)
    BY <1>3, <1>5, <2>1, ReplaceAtFacts
  <2> HIDE DEF rs
  <2>3. Len(rs) = Len(cs) /\ \A j \in 1 .. Len(rs) : rs[j] = cs[j]
    BY <1>1, <2>2 DEF Replaced
  <2> QED BY <1>3, <2>2, <2>3, SeqEqual
<1> HIDE DEF rs
<1>8. ds \in Seq(Int) /\ Inserted(ds, cs, i + 1, right)
  <2>1. PICK k \in 1 .. Len(cs) + 1 : k = i + 1
    BY <1>3
  <2>2. InsertAt(cs, k, right) \in Seq(Int) /\ Inserted(InsertAt(cs, k, right), cs, k, right)
    BY <1>3, <1>5, InsertAtInserts
  <2> QED BY <1>7, <2>1, <2>2
<1> HIDE DEF ms, ds
<1>9. Divides(t.range[p], l, ms, ds, t, t.range)
  BY <1>1, <1>2, <1>3, <1>4, <1>6, <1>8, DividedMore
<1>10. Len(ms) = Len(ks) + 1
  BY <1>6 DEF Inserted
<1>11. ci + 2 = i + 1
  <2>1. ci \in 0 .. Len(ks)
    <3>1. V[p] \in NodesOver(AnyPair) /\ key \in Keys
      BY <1>0
    <3> QED BY <3>1, ChildFacts DEF ks
  <2> QED BY <1>1, <1>3, <2>1
<1> QED BY <1>1, <1>6, <1>8, <1>9, <1>10, <1>11 DEF ms, ds, rs, ks, cs

(* The page above the two halves knows them both, and no page below root is wider
   than it is. *)
LEMMA RootKnown ==
  ASSUME NEW V, NEW root, NEW t \in Pictures, NEW left, NEW right, NEW promote, NEW l,
         Dividing(V, root, t, left, right, promote, l),
         NEW p \in t.pages, t.level[p] = l + 1, t.level[p] <= t.level[root]
  PROVE  root \in t.pages /\ t.range[root] = Keys /\ Disjoint(t)
<1>1. Halves(t, left, right, promote, l) /\ Tree(V, root, t, Wide(t, left, right))
  BY DEF Dividing
<1> DEFINE wide == Wide(t, left, right)
<1>2. /\ wide[right] = {} /\ \A c \in t.pages \ {left, right} : wide[c] = t.range[c]
      /\ promote \in Keys /\ t.level[left] = l /\ left \in t.pages
  BY <1>1, DividingFacts
<1>3. root \in t.pages /\ wide[root] = Keys /\ Disjoint(t)
  BY <1>1 DEF Tree
<1> HIDE DEF wide
<1>4. root # left
  <2>1. l \in Nat
    BY <1>2, PictureFacts
  <2> QED BY <1>2, <2>1
<1> QED BY <1>2, <1>3, <1>4

LEMMA ParentWritten ==
  ASSUME NEW V, NEW W, NEW root, NEW t \in Pictures, NEW left, NEW right, NEW promote, NEW l,
         Dividing(V, root, t, left, right, promote, l),
         NEW key, NEW p, Above(t, left, right, l, key, p), t.level[p] <= t.level[root],
         \A q \in t.pages \ {p} : W[q] = V[q],
         Suits(W[p], t.range[p], l + 1, t, t.range)
  PROVE  Tree(W, root, t, t.range)
<1>0. p \in t.pages /\ t.level[p] = l + 1
  BY DEF Above
<1>1. root \in t.pages /\ t.range[root] = Keys /\ Disjoint(t)
  BY <1>0, RootKnown
<1>2. ASSUME NEW q \in t.pages \ {p} PROVE NodeFits(W, root, t, t.range, q)
  <2>1. NodeFits(V, root, t, t.range, q) /\ W[q] = V[q]
    BY OthersFit
  <2> QED BY <2>1 DEF NodeFits
<1>3. NodeFits(W, root, t, t.range, p)
  BY <1>0 DEF NodeFits, Suits
<1> QED BY <1>1, <1>2, <1>3 DEF Tree

(* Both parts of a page that is cut are halves. *)
LEMMA CutHalves ==
  ASSUME NEW t \in Pictures, NEW p \in t.pages, NEW new \in Int, new \notin t.pages,
         NEW mid \in Keys, Below(t.range[p], mid) # {}, mid \in t.range[p]
  PROVE  Halves(Cut(t, p, new, mid), p, new, mid, t.level[p])
<1> DEFINE u == Cut(t, p, new, mid)
<1>1. /\ u.pages = t.pages \cup {new}
      /\ u.range[p] = Below(t.range[p], mid)
      /\ u.range[new] = NotBelow(t.range[p], mid)
      /\ u.level[new] = t.level[p] /\ u.level[p] = t.level[p]
  BY CutFacts
<1> HIDE DEF u
<1>2. mid <= mid
  BY OrderFacts
<1>3. /\ \A x \in u.range[p] : x < mid
      /\ \A x \in u.range[new] : mid <= x
      /\ mid \in u.range[new] /\ u.range[p] # {}
  BY <1>1, <1>2 DEF Below, NotBelow
<1> QED BY <1>1, <1>3 DEF Halves, u

LEMMA ParentDivided ==
  ASSUME NEW V, NEW W, NEW root, NEW t \in Pictures, NEW left, NEW right, NEW promote, NEW l,
         Dividing(V, root, t, left, right, promote, l),
         NEW key, NEW p, Above(t, left, right, l, key, p), t.level[p] <= t.level[root],
         NEW new \in Int, new \notin t.pages, NEW mid \in Keys,
         Below(t.range[p], mid) # {}, mid \in t.range[p],
         \A q \in t.pages \ {p} : W[q] = V[q],
         Suits(W[p], Below(t.range[p], mid), l + 1, t, t.range),
         Suits(W[new], NotBelow(t.range[p], mid), l + 1, t, t.range)
  PROVE  Dividing(W, root, Cut(t, p, new, mid), p, new, mid, l + 1)
<1>0. p \in t.pages /\ t.level[p] = l + 1
  BY DEF Above
<1>1. root \in t.pages /\ t.range[root] = Keys /\ Disjoint(t)
  BY <1>0, RootKnown
<1>2. \A q \in t.pages \ {p} : NodeFits(V, root, t, t.range, q) /\ W[q] = V[q]
  BY OthersFit
<1>3. Tree(W, root, Cut(t, p, new, mid), Wide(Cut(t, p, new, mid), p, new))
  BY <1>0, <1>1, <1>2, SplitTree
<1>4. Halves(Cut(t, p, new, mid), p, new, mid, l + 1)
  BY <1>0, CutHalves
<1> QED BY <1>3, <1>4 DEF Dividing

-----------------------------------------------------------------------------
(* A new root *)

Raised(t, new, l) ==
  [pages |-> t.pages \cup {new},
   level |-> [t.level EXCEPT ![new] = l],
   range |-> [t.range EXCEPT ![new] = Keys]]

LEMMA RaisedFacts ==
  ASSUME NEW t \in Pictures, NEW new \in Int, new \notin t.pages, NEW l \in Nat
  PROVE  LET u == Raised(t, new, l)
         IN  /\ u \in Pictures
             /\ u.pages = t.pages \cup {new}
             /\ u.level[new] = l /\ u.range[new] = Keys
             /\ \A c \in t.pages : c # new /\ u.level[c] = t.level[c] /\ u.range[c] = t.range[c]
<1> DEFINE u == Raised(t, new, l)
<1>1. t.pages \subseteq Int /\ t.level \in [Int -> Nat] /\ t.range \in [Int -> SUBSET Keys]
  BY DEF Pictures
<1>2. /\ u.pages = t.pages \cup {new}
      /\ u.level = [t.level EXCEPT ![new] = l]
      /\ u.range = [t.range EXCEPT ![new] = Keys]
      /\ u = [pages |-> u.pages, level |-> u.level, range |-> u.range]
  BY DEF Raised
<1> HIDE DEF u
<1>3. u.level \in [Int -> Nat] /\ u.range \in [Int -> SUBSET Keys] /\ u.pages \in SUBSET Int
  BY <1>1, <1>2
<1>4. u \in Pictures
  BY <1>2, <1>3 DEF Pictures
<1>5. u.level[new] = l /\ u.range[new] = Keys
  BY <1>1, <1>2
<1>6. \A c \in t.pages : c # new /\ u.level[c] = t.level[c] /\ u.range[c] = t.range[c]
  BY <1>1, <1>2
<1> QED BY <1>2, <1>4, <1>5, <1>6 DEF u

LEMMA OneKeyDivides ==
  ASSUME NEW t, NEW l, NEW left, NEW right, NEW promote \in Keys,
         Halves(t, left, right, promote, l), t.range[left] \cup t.range[right] = Keys
  PROVE  Divides(Keys, l, <<promote>>, <<left, right>>, t, t.range)
<1> DEFINE ks == <<promote>>
           cs == <<left, right>>
<1>1. /\ ks \in Seq(Keys) /\ Len(ks) = 1 /\ DOMAIN ks = 1 .. 1 /\ ks[1] = promote
      /\ Len(cs) = 2 /\ cs[1] = left /\ cs[2] = right
  OBVIOUS
<1> HIDE DEF ks, cs
<1>2. LeafFits(Keys, ks)
  <2>1. \A i \in DOMAIN ks : i = 1
    BY <1>1
  <2>2. Increasing(ks)
    <3>1. \A i, j \in DOMAIN ks : ~(i < j)
      BY <2>1
    <3> QED BY <3>1 DEF Increasing
  <2> QED BY <1>1, <2>1, <2>2 DEF LeafFits
<1>3. /\ left \in t.pages /\ right \in t.pages /\ t.level[left] = l /\ t.level[right] = l
      /\ t.range[left] # {} /\ promote \in t.range[right]
      /\ \A x \in t.range[left] : x < promote
      /\ \A x \in t.range[right] : promote <= x
  BY DEF Halves
<1>4. \A x \in Keys : x \in Int /\ promote \in Int
  BY OrderFacts
<1>5. Slot(Keys, ks, 1) = t.range[left]
  <2>1. Slot(Keys, ks, 1) = {x \in Keys : x < promote}
    BY <1>1 DEF Slot
  <2>2. \A x \in Keys : x < promote <=> x \in t.range[left]
    BY <1>3, <1>4
  <2>3. t.range[left] \subseteq Keys
    OBVIOUS
  <2> QED BY <2>1, <2>2, <2>3
<1>6. Slot(Keys, ks, 2) = t.range[right]
  <2>1. Slot(Keys, ks, 2) = {x \in Keys : promote <= x}
    BY <1>1 DEF Slot
  <2>2. \A x \in Keys : promote <= x <=> x \in t.range[right]
    BY <1>3, <1>4
  <2>3. t.range[right] \subseteq Keys
    OBVIOUS
  <2> QED BY <2>1, <2>2, <2>3
<1>7. \A i \in 1 .. Len(ks) + 1 : i = 1 \/ i = 2
  BY <1>1
<1> QED BY <1>1, <1>2, <1>3, <1>5, <1>6, <1>7 DEF Divides, ks, cs

LEMMA RootGrown ==
  ASSUME NEW V, NEW W, NEW root, NEW t \in Pictures, NEW left, NEW right, NEW promote, NEW l,
         Dividing(V, root, t, left, right, promote, l),
         \A q \in t.pages : t.level[q] <= l, t.level[root] = l,
         V[left] # Blank, NEW new \in Int, new \notin t.pages,
         \A q \in t.pages : W[q] = V[q],
         W[new].type = Internal, W[new].keys = <<promote>>, Children(W[new]) = <<left, right>>
  PROVE  LET u == Raised(t, new, l + 1)
         IN  Tree(W, new, u, u.range) /\ PairsIn(W, u) = PairsIn(V, t)
<1> DEFINE u == Raised(t, new, l + 1)
           wide == Wide(t, left, right)
<1>1. Halves(t, left, right, promote, l) /\ Tree(V, root, t, wide)
  BY DEF Dividing
<1>2. /\ left # right /\ promote \in Keys /\ left \in t.pages /\ right \in t.pages
      /\ t.level[left] = l /\ t.level[right] = l
      /\ wide[left] = t.range[left] \cup t.range[right]
      /\ wide[right] = {}
      /\ \A c \in t.pages \ {left, right} : wide[c] = t.range[c]
  BY <1>1, DividingFacts
<1>3. /\ root \in t.pages /\ wide[root] = Keys /\ Disjoint(t)
      /\ \A q \in t.pages : NodeFits(V, root, t, wide, q)
  BY <1>1 DEF Tree
<1> HIDE DEF wide
<1>4. l \in Nat /\ l + 1 \in Nat
  <2>1. l \in Nat
    BY <1>2, PictureFacts
  <2> QED BY <2>1
<1>5. /\ u.pages = t.pages \cup {new}
      /\ u.level[new] = l + 1 /\ u.range[new] = Keys
      /\ \A c \in t.pages : c # new /\ u.level[c] = t.level[c] /\ u.range[c] = t.range[c]
  <2>1. PICK h \in Nat : h = l + 1
    BY <1>4
  <2> QED BY <2>1, RaisedFacts
<1> HIDE DEF u
<1>6. \A q \in t.pages : t.level[q] \in Nat /\ t.level[q] <= l /\ t.level[q] # l + 1
  <2>1. \A q \in t.pages : t.level[q] \in Nat
    BY PictureFacts
  <2> QED BY <1>4, <2>1
<1>7. root = left
  <2>1. root # right
    BY <1>2, <1>3
  <2>2. SUFFICES ASSUME root # left PROVE FALSE
    OBVIOUS
  <2>3. t.range[root] = Keys
    BY <1>2, <1>3, <2>1, <2>2
  <2>4. promote \in t.range[right] /\ promote \in t.range[root]
    BY <1>1, <1>2, <2>3 DEF Halves
  <2>5. root = right
    BY <1>2, <1>3, <2>4, SamePage
  <2> QED BY <2>1, <2>5
<1>8. t.range[left] \cup t.range[right] = Keys
  BY <1>2, <1>3, <1>7
<1>9. ASSUME NEW q \in t.pages PROVE NodeFits(W, new, u, u.range, q)
  <2>1. /\ NodeFits(V, root, t, wide, q) /\ W[q] = V[q]
        /\ u.level[q] = t.level[q] /\ u.range[q] = t.range[q]
    BY <1>3, <1>5
  <2>2. CASE t.level[q] = 0
    <3>1. V[q].type = Leaf /\ LeafFits(t.range[q], V[q].keys)
      BY <1>7, <2>1, <2>2 DEF NodeFits
    <3> QED BY <2>1, <2>2, <3>1 DEF NodeFits
  <2>3. CASE t.level[q] # 0
    <3> DEFINE ks == V[q].keys
               cs == Children(V[q])
               h == t.level[q] - 1
    <3>1. V[q].type = Internal /\ Divides(t.range[q], h, ks, cs, t, wide)
      BY <2>1, <2>3 DEF NodeFits
    <3>2. h \in Int /\ h # l
      BY <1>4, <1>6
    <3> HIDE DEF ks, cs, h
    <3>3. \A j \in 1 .. Len(ks) + 1 : /\ cs[j] \in t.pages
                                      /\ t.level[cs[j]] = h
                                      /\ wide[cs[j]] = Slot(t.range[q], ks, j)
                                      /\ Slot(t.range[q], ks, j) # {}
      BY <3>1 DEF Divides
    <3>4. \A j \in 1 .. Len(ks) + 1 :
            u.range[cs[j]] = wide[cs[j]] /\ u.level[cs[j]] = h /\ cs[j] \in u.pages
      BY <1>2, <1>5, <3>2, <3>3
    <3>5. Divides(t.range[q], h, ks, cs, u, u.range)
      BY <3>1, <3>3, <3>4 DEF Divides
    <3> QED BY <2>1, <2>3, <3>1, <3>5 DEF NodeFits, ks, cs, h
  <2> QED BY <2>2, <2>3
<1>10. NodeFits(W, new, u, u.range, new)
  <2>1. Divides(Keys, l, <<promote>>, <<left, right>>, t, t.range)
    BY <1>1, <1>2, <1>8, OneKeyDivides
  <2>2. t.pages \subseteq u.pages
    BY <1>5
  <2>3. Divides(Keys, l, <<promote>>, <<left, right>>, u, u.range)
    BY <1>5, <2>1, <2>2, DividesInto
  <2>4. u.level[new] # 0 /\ u.level[new] - 1 = l
    BY <1>4, <1>5
  <2> QED BY <1>5, <2>3, <2>4 DEF NodeFits
<1>11. Disjoint(u)
  <2>1. ASSUME NEW p \in u.pages, NEW q \in u.pages, p # q, u.level[p] = u.level[q]
        PROVE u.range[p] \cap u.range[q] = {}
    <3>1. p \in t.pages /\ q \in t.pages
      BY <1>5, <1>6, <2>1
    <3> QED BY <1>3, <1>5, <2>1, <3>1 DEF Disjoint
  <2> QED BY <2>1 DEF Disjoint
<1>12. Tree(W, new, u, u.range)
  BY <1>5, <1>9, <1>10, <1>11 DEF Tree
<1>13. PairsIn(W, u) = PairsIn(V, t)
  <2>1. u.level[new] # 0
    BY <1>4, <1>5
  <2> QED BY <1>5, <2>1 DEF PairsIn
<1> QED BY <1>12, <1>13 DEF u

-----------------------------------------------------------------------------
(* What the nodes of a division hold *)

LEMMA ChildrenCut ==
  ASSUME NEW cs \in Seq(Int), NEW a \in 1 .. Len(cs), NEW b \in (a - 1) .. (Len(cs) - 1)
  PROVE  LET r == Append(SubSeq(cs, a, b), cs[b + 1])
         IN  /\ r \in Seq(Int) /\ Len(r) = b - a + 2
             /\ \A j \in 1 .. (b - a + 2) : r[j] = cs[a + j - 1]
<1> DEFINE v == SubSeq(cs, a, b)
           x == cs[b + 1]
           r == Append(v, x)
           n == b - a + 1
<1>1. Len(cs) \in Nat /\ a \in Int /\ b \in Int /\ n \in Nat /\ b + 1 \in 1 .. Len(cs)
  BY LenProperties
<1>2. x \in Int
  BY <1>1, ElementOfSeq
<1>3. v \in Seq(Int) /\ Len(v) = n /\ \A j \in 1 .. n : v[j] = cs[a + j - 1]
  <2>1. PICK k \in 1 .. Len(cs) + 1 : k = a
    BY <1>1
  <2>2. b \in (k - 1) .. Len(cs)
    BY <1>1, <2>1
  <2>3. /\ SubSeq(cs, k, b) \in Seq(Int) /\ Len(SubSeq(cs, k, b)) = b - k + 1
        /\ \A j \in 1 .. (b - k + 1) : SubSeq(cs, k, b)[j] = cs[k + j - 1]
    BY <2>2, CutSeq
  <2> QED BY <2>1, <2>3
<1> HIDE DEF v, x
<1>5. r \in Seq(Int) /\ Len(r) = n + 1 /\ r[n + 1] = x /\ \A j \in 1 .. n : r[j] = v[j]
  BY <1>1, <1>2, <1>3, AppendProperties
<1> HIDE DEF r
<1>6. ASSUME NEW j \in 1 .. n + 1 PROVE r[j] = cs[a + j - 1]
  <2>1. CASE j = n + 1
    <3>1. a + j - 1 = b + 1
      BY <1>1, <2>1
    <3> QED BY <1>5, <2>1, <3>1 DEF x
  <2>2. CASE j # n + 1
    <3>1. j \in 1 .. n
      BY <1>1, <2>2
    <3> QED BY <1>3, <1>5, <3>1
  <2> QED BY <2>1, <2>2
<1>7. n + 1 = b - a + 2
  BY <1>1
<1> QED BY <1>5, <1>6, <1>7 DEF v, x, r

LEMMA ChildrenWhole ==
  ASSUME NEW cs \in Seq(Int), NEW n \in Nat, Len(cs) = n + 1, NEW type, NEW ks
  PROVE  Children(Node(type, ks, SubSeq(cs, 1, n), cs[n + 1])) = cs
<1> DEFINE r == Append(SubSeq(cs, 1, n), cs[n + 1])
<1>0. Children(Node(type, ks, SubSeq(cs, 1, n), cs[n + 1])) = r
  BY DEF Children, Node
<1>1. 1 \in 1 .. Len(cs) /\ n \in (1 - 1) .. (Len(cs) - 1)
  OBVIOUS
<1>2. r \in Seq(Int) /\ Len(r) = n - 1 + 2 /\ \A j \in 1 .. (n - 1 + 2) : r[j] = cs[1 + j - 1]
  BY <1>1, ChildrenCut
<1> HIDE DEF r
<1>3. Len(r) = Len(cs) /\ \A j \in 1 .. Len(r) : r[j] = cs[j]
  BY <1>2
<1>4. r = cs
  BY <1>2, <1>3, SeqEqual
<1> QED BY <1>0, <1>4

LEMMA NodeFields ==
  ASSUME NEW type, NEW ks, NEW vs, NEW next
  PROVE  /\ Node(type, ks, vs, next).type = type /\ Node(type, ks, vs, next).keys = ks
         /\ Node(type, ks, vs, next).vals = vs
BY DEF Node

(* A node that suits R, cut in two: what the two nodes hold. *)
LEMMA CutSuits ==
  ASSUME NEW t, NEW wide, NEW R, R \subseteq Keys, NEW l \in Nat,
         NEW ks \in Seq(Keys), NEW cs \in Seq(Int), Divides(R, l, ks, cs, t, wide),
         NEW m \in 1 .. (Len(ks) - 1), NEW n, n = Len(ks)
  PROVE  /\ Suits(Node(Internal, SubSeq(ks, 1, m), SubSeq(cs, 1, m), cs[m + 1]),
                  Below(R, ks[m + 1]), l + 1, t, wide)
         /\ Suits(Node(Internal, SubSeq(ks, m + 2, n), SubSeq(cs, m + 2, n), cs[n + 1]),
                  NotBelow(R, ks[m + 1]), l + 1, t, wide)
         /\ ks[m + 1] \in Keys /\ Below(R, ks[m + 1]) # {} /\ ks[m + 1] \in R
<1> DEFINE lk == SubSeq(ks, 1, m)
           hk == SubSeq(ks, m + 2, n)
           low == Node(Internal, lk, SubSeq(cs, 1, m), cs[m + 1])
           high == Node(Internal, hk, SubSeq(cs, m + 2, n), cs[n + 1])
           lc == Append(SubSeq(cs, 1, m), cs[m + 1])
           hc == Append(SubSeq(cs, m + 2, n), cs[n + 1])
<1>1. n \in Nat /\ Len(cs) = n + 1 /\ m \in Int /\ 1 <= m /\ m <= n - 1
  BY LenProperties DEF Divides
<1>0. lk = SubSeq(ks, 1, m) /\ hk = SubSeq(ks, m + 2, Len(ks))
  OBVIOUS
<1>10. Children(low) = lc /\ Children(high) = hc
  BY DEF Children, Node
<1> HIDE DEF lk, hk
<1>2. Len(lc) = m + 1 /\ \A j \in 1 .. m + 1 : lc[j] = cs[j]
  <2>1. 1 \in 1 .. Len(cs) /\ m \in (1 - 1) .. (Len(cs) - 1)
    BY <1>1
  <2>2. Len(lc) = m - 1 + 2 /\ \A j \in 1 .. (m - 1 + 2) : lc[j] = cs[1 + j - 1]
    BY <2>1, ChildrenCut
  <2> HIDE DEF lc
  <2>3. m - 1 + 2 = m + 1 /\ \A j \in 1 .. m + 1 : 1 + j - 1 = j
    BY <1>1
  <2> QED BY <2>2, <2>3
<1>3. Len(hc) = Len(ks) - m /\ \A j \in 1 .. Len(ks) - m : hc[j] = cs[m + 1 + j]
  <2>1. PICK a \in 1 .. Len(cs) : a = m + 2
    BY <1>1
  <2>2. n \in (a - 1) .. (Len(cs) - 1)
    BY <1>1, <2>1
  <2> DEFINE r == Append(SubSeq(cs, a, n), cs[n + 1])
  <2>3. Len(r) = n - a + 2 /\ \A j \in 1 .. (n - a + 2) : r[j] = cs[a + j - 1]
    BY <2>2, ChildrenCut
  <2>4. hc = r
    BY <2>1
  <2> HIDE DEF hc, r
  <2>5. n - a + 2 = n - m /\ \A j \in 1 .. n - m : a + j - 1 = m + 1 + j
    BY <1>1, <2>1
  <2> QED BY <2>3, <2>4, <2>5
<1>4. /\ low.type = Internal /\ low.keys = SubSeq(ks, 1, m)
      /\ high.type = Internal /\ high.keys = SubSeq(ks, m + 2, Len(ks))
  BY <1>0 DEF Node
<1> HIDE DEF low, high
<1> HIDE DEF lc, hc
<1>11. Parted(cs, Len(ks), m, lc, hc)
  BY <1>2, <1>3 DEF Parted
<1>5. /\ Divides(Below(R, ks[m + 1]), l, SubSeq(ks, 1, m), lc, t, wide)
      /\ Divides(NotBelow(R, ks[m + 1]), l, SubSeq(ks, m + 2, Len(ks)), hc, t, wide)
      /\ Below(R, ks[m + 1]) # {} /\ ks[m + 1] \in NotBelow(R, ks[m + 1])
  BY <1>11, DividedInTwo
<1>6. l + 1 # 0 /\ (l + 1) - 1 = l
  OBVIOUS
<1>7. Suits(low, Below(R, ks[m + 1]), l + 1, t, wide)
  BY <1>4, <1>5, <1>6, <1>10 DEF Suits
<1>8. Suits(high, NotBelow(R, ks[m + 1]), l + 1, t, wide)
  BY <1>4, <1>5, <1>6, <1>10 DEF Suits
<1>9. ks[m + 1] \in R /\ ks[m + 1] \in Keys
  BY <1>5 DEF NotBelow
<1> QED BY <1>5, <1>7, <1>8, <1>9 DEF low, high, lk, hk

LEMMA WholeSuits ==
  ASSUME NEW t, NEW wide, NEW R, NEW l \in Nat, NEW ks, NEW n \in Nat, Len(ks) = n,
         NEW cs \in Seq(Int), Divides(R, l, ks, cs, t, wide)
  PROVE  Suits(Node(Internal, ks, SubSeq(cs, 1, n), cs[n + 1]), R, l + 1, t, wide)
<1> DEFINE node == Node(Internal, ks, SubSeq(cs, 1, n), cs[n + 1])
<1>1. Len(cs) = n + 1
  BY DEF Divides
<1>2. Children(node) = cs
  BY <1>1, ChildrenWhole
<1>3. node.type = Internal /\ node.keys = ks
  BY NodeFields
<1>4. l + 1 # 0 /\ (l + 1) - 1 = l
  OBVIOUS
<1> HIDE DEF node
<1>5. Suits(node, R, l + 1, t, wide)
  BY <1>2, <1>3, <1>4 DEF Suits
<1> QED BY <1>5 DEF node

-----------------------------------------------------------------------------
(* The chain of the leaves *)

(* No key is between the leaves p and q. *)
Follows(t, p, q) ==
  /\ q \in t.pages /\ t.level[q] = 0 /\ t.range[q] # {}
  /\ \A x \in t.range[p], y \in t.range[q] : x < y
  /\ \A x \in t.range[p], z \in Keys \ t.range[p] :
       x < z => \E y \in t.range[q] : y <= z

(* No key is beyond the leaf p. *)
IsLast(t, p) == \A x \in t.range[p], z \in Keys : x < z => z \in t.range[p]

IsLeaf(V, t, p) == p \in t.pages /\ t.level[p] = 0 /\ V[p].type = Leaf /\ t.range[p] # {}

(* Each leaf leads to the next one. *)
Chained(V, t) ==
  \A p \in t.pages :
    IsLeaf(V, t, p) =>
      IF V[p].next = NoNext THEN IsLast(t, p)
      ELSE Follows(t, p, V[p].next) /\ V[V[p].next].type = Leaf

LEMMA RangeOrder ==
  ASSUME NEW t \in Pictures, NEW p \in t.pages
  PROVE  t.range[p] \subseteq Keys /\ t.range[p] \subseteq Int
BY PictureFacts, OrderFacts

LEMMA LeafIsWhole ==
  ASSUME NEW V, NEW t \in Pictures, Chained(V, t), NEW p, IsLeaf(V, t, p),
         NEW x \in t.range[p], NEW y \in t.range[p], NEW z \in Keys, x < z, z < y
  PROVE  z \in t.range[p]
<1>1. p \in t.pages /\ x \in Int /\ y \in Int /\ z \in Int
  BY RangeOrder, OrderFacts DEF IsLeaf
<1>2. CASE V[p].next = NoNext
  BY <1>1, <1>2 DEF Chained, IsLast
<1>3. CASE V[p].next # NoNext
  <2> DEFINE q == V[p].next
  <2>1. Follows(t, p, q)
    BY <1>1, <1>3 DEF Chained
  <2> HIDE DEF q
  <2>2. SUFFICES ASSUME z \notin t.range[p] PROVE FALSE
    OBVIOUS
  <2>3. PICK u \in t.range[q] : u <= z
    BY <2>1, <2>2 DEF Follows
  <2>4. y < u /\ u \in Int
    BY <2>1, <2>3, RangeOrder DEF Follows
  <2> QED BY <1>1, <2>3, <2>4
<1> QED BY <1>2, <1>3

(* What follows a leaf is another leaf of the tree. *)
LEMMA ChainNext ==
  ASSUME NEW V, NEW t, Chained(V, t), NEW p, IsLeaf(V, t, p), V[p].next # NoNext
  PROVE  /\ Follows(t, p, V[p].next) /\ V[V[p].next].type = Leaf
         /\ V[p].next \in t.pages /\ t.level[V[p].next] = 0
BY DEF Chained, IsLeaf, Follows

(* The chain is decided by the leaves. *)
LEMMA ChainBelow ==
  ASSUME NEW V, NEW W, NEW t, NEW u, Chained(V, t),
         \A q \in u.pages : u.level[q] = 0 => q \in t.pages /\ t.level[q] = 0,
         \A q \in t.pages : t.level[q] = 0 =>
           q \in u.pages /\ u.level[q] = 0 /\ u.range[q] = t.range[q] /\ W[q] = V[q]
  PROVE  Chained(W, u)
<1>1. ASSUME NEW p \in u.pages, IsLeaf(W, u, p)
      PROVE  IF W[p].next = NoNext THEN IsLast(u, p)
             ELSE Follows(u, p, W[p].next) /\ W[W[p].next].type = Leaf
  <2>1. p \in t.pages /\ W[p] = V[p] /\ u.range[p] = t.range[p] /\ IsLeaf(V, t, p)
    BY <1>1 DEF IsLeaf
  <2>2. CASE V[p].next = NoNext
    <3>1. IsLast(t, p)
      BY <2>1, <2>2 DEF Chained
    <3> QED BY <2>1, <2>2, <3>1 DEF IsLast
  <2>3. CASE V[p].next # NoNext
    <3> DEFINE q == V[p].next
    <3>1. Follows(t, p, q) /\ V[q].type = Leaf /\ q \in t.pages /\ t.level[q] = 0
      BY <2>1, <2>3, ChainNext
    <3> HIDE DEF q
    <3>2. q \in u.pages /\ u.level[q] = 0 /\ u.range[q] = t.range[q] /\ W[q] = V[q]
      BY <3>1
    <3>3. Follows(u, p, q)
      BY <2>1, <3>1, <3>2 DEF Follows
    <3> QED BY <2>1, <2>3, <3>1, <3>2, <3>3 DEF q
  <2> QED BY <2>2, <2>3
<1> QED BY <1>1 DEF Chained

LEMMA ChainSame ==
  ASSUME NEW V, NEW W, NEW t, Chained(V, t), \A p \in t.pages : W[p] = V[p]
  PROVE  Chained(W, t)
BY ChainBelow

(* Page p keeps its next page, or is alone. *)
NextStays(V, t, p, next) ==
  \/ V[p].type = Leaf /\ next = V[p].next
  \/ t.range[p] = Keys /\ next = NoNext

LEMMA ChainRewritten ==
  ASSUME NEW V, NEW W, NEW t, Chained(V, t), NEW p \in t.pages, t.level[p] = 0,
         W[p].type = Leaf, NextStays(V, t, p, W[p].next),
         \A q \in t.pages \ {p} : W[q] = V[q]
  PROVE  Chained(W, t)
<1>1. ASSUME NEW q \in t.pages, V[q].type = Leaf PROVE W[q].type = Leaf
  BY <1>1
<1>2. ASSUME NEW q \in t.pages, IsLeaf(V, t, q), W[q].next = V[q].next
      PROVE  IF W[q].next = NoNext THEN IsLast(t, q)
             ELSE Follows(t, q, W[q].next) /\ W[W[q].next].type = Leaf
  <2>1. CASE V[q].next = NoNext
    BY <1>2, <2>1 DEF Chained
  <2>2. CASE V[q].next # NoNext
    <3>1. Follows(t, q, V[q].next) /\ V[V[q].next].type = Leaf /\ V[q].next \in t.pages
      BY <1>2, <2>2, ChainNext
    <3> QED BY <1>1, <1>2, <2>2, <3>1
  <2> QED BY <2>1, <2>2
<1>3. ASSUME NEW q \in t.pages, IsLeaf(W, t, q)
      PROVE  IF W[q].next = NoNext THEN IsLast(t, q)
             ELSE Follows(t, q, W[q].next) /\ W[W[q].next].type = Leaf
  <2>1. CASE q # p
    <3>1. W[q] = V[q] /\ IsLeaf(V, t, q)
      BY <1>3, <2>1 DEF IsLeaf
    <3> QED BY <1>2, <3>1
  <2>2. CASE q = p /\ V[p].type = Leaf /\ W[p].next = V[p].next
    <3>1. IsLeaf(V, t, q)
      BY <1>3, <2>2 DEF IsLeaf
    <3> QED BY <1>2, <2>2, <3>1
  <2>3. CASE q = p /\ t.range[p] = Keys /\ W[p].next = NoNext
    BY <2>3 DEF IsLast
  <2> QED BY <2>1, <2>2, <2>3 DEF NextStays
<1> QED BY <1>3 DEF Chained

(* A leaf is divided, and the new one comes between it and the next. *)
LEMMA ChainDivided ==
  ASSUME NEW V, NEW W, NEW t \in Pictures, Chained(V, t), NEW p, IsLeaf(V, t, p),
         NEW new \in Int, new \notin t.pages, new # NoNext, NEW mid \in t.range[p],
         Below(t.range[p], mid) # {},
         W[p].type = Leaf, W[p].next = new, W[new].type = Leaf, W[new].next = V[p].next,
         \A q \in t.pages \ {p} : W[q] = V[q]
  PROVE  Chained(W, Cut(t, p, new, mid))
<1> DEFINE u == Cut(t, p, new, mid)
           R == t.range[p]
<1>1. p \in t.pages /\ t.level[p] = 0 /\ mid \in Keys /\ mid \in Int /\ R \subseteq Keys
  BY RangeOrder DEF IsLeaf
<1>2. /\ u.pages = t.pages \cup {new} /\ p # new
      /\ u.range[p] = Below(R, mid) /\ u.range[new] = NotBelow(R, mid)
      /\ u.level[new] = 0
  BY <1>1, CutFacts
<1>3. /\ \A c \in t.pages : u.level[c] = t.level[c]
      /\ \A c \in t.pages \ {p} : u.range[c] = t.range[c]
  <2>1. \A c \in t.pages : u.level[c] = t.level[c]
    BY <1>1, CutFacts
  <2>2. \A c \in t.pages \ {p} : u.range[c] = t.range[c]
    BY <1>1, CutFacts
  <2> QED BY <2>1, <2>2
<1> HIDE DEF u
<1>4. PICK low : low \in Below(R, mid)
  OBVIOUS
<1>5. /\ low \in R /\ low < mid /\ low \in Int
      /\ \A k \in Keys : k \in Int
      /\ mid \in NotBelow(R, mid)
  <2>1. low \in R /\ low < mid
    BY <1>4 DEF Below
  <2>2. \A k \in Keys : k \in Int
    BY OrderFacts
  <2>3. low \in Keys /\ low \in Int
    BY <1>1, <2>1, <2>2
  <2>4. mid <= mid
    BY <1>1
  <2>5. mid \in NotBelow(R, mid)
    BY <2>4 DEF NotBelow
  <2> QED BY <2>1, <2>2, <2>3, <2>5
<1>6. Follows(u, p, new)
  <2>1. ASSUME NEW x \in Below(R, mid), NEW y \in NotBelow(R, mid) PROVE x < y
    <3>1. x \in R /\ x < mid /\ y \in R /\ mid <= y
      BY DEF Below, NotBelow
    <3>2. x \in Int /\ y \in Int
      BY <1>1, <1>5, <3>1
    <3> QED BY <1>1, <3>1, <3>2
  <2>2. ASSUME NEW x \in Below(R, mid), NEW z \in Keys \ Below(R, mid), x < z
        PROVE  mid <= z
    <3>1. SUFFICES ASSUME z < mid PROVE FALSE
      BY <1>1, <1>5
    <3>2. x \in R
      BY DEF Below
    <3>3. z \in R
      BY <2>2, <3>1, <3>2, LeafIsWhole
    <3> QED BY <3>1, <3>3 DEF Below
  <2> QED BY <1>1, <1>2, <1>3, <1>5, <2>1, <2>2 DEF Follows
<1>7. IF V[p].next = NoNext THEN IsLast(u, new)
      ELSE Follows(u, new, V[p].next) /\ W[V[p].next].type = Leaf
  <2>1. \A x \in NotBelow(R, mid) : x \in R /\ mid <= x /\ x \in Int
    BY <1>1, <1>5 DEF NotBelow
  <2>2. ASSUME NEW x \in NotBelow(R, mid), NEW z \in Keys, x < z
        PROVE  z \in R => z \in NotBelow(R, mid)
    <3>1. mid <= z
      BY <1>1, <1>5, <2>1, <2>2
    <3> QED BY <3>1 DEF NotBelow
  <2>3. CASE V[p].next = NoNext
    <3>1. IsLast(t, p)
      BY <1>1, <2>3 DEF Chained
    <3> QED BY <1>2, <2>1, <2>2, <2>3, <3>1 DEF IsLast
  <2>4. CASE V[p].next # NoNext
    <3> DEFINE r == V[p].next
    <3>1. Follows(t, p, r) /\ V[r].type = Leaf /\ r \in t.pages /\ t.level[r] = 0
      BY <2>4, ChainNext
    <3> HIDE DEF r
    <3>2. r # p
      <4>1. SUFFICES ASSUME r = p PROVE FALSE
        OBVIOUS
      <4>2. mid < mid
        BY <3>1, <4>1 DEF Follows
      <4> QED BY <1>1, <4>2
    <3>3. W[r] = V[r] /\ u.range[r] = t.range[r] /\ r \in u.pages /\ u.level[r] = 0
      BY <1>2, <1>3, <3>1, <3>2
    <3>4. Follows(u, new, r)
      BY <1>2, <2>1, <2>2, <3>1, <3>3 DEF Follows
    <3> QED BY <2>4, <3>1, <3>3, <3>4 DEF r
  <2> QED BY <2>3, <2>4
<1>8. ASSUME NEW q \in t.pages \ {p}, IsLeaf(V, t, q)
      PROVE  IF V[q].next = NoNext THEN IsLast(u, q)
             ELSE Follows(u, q, V[q].next) /\ W[V[q].next].type = Leaf
  <2>1. u.range[q] = t.range[q]
    BY <1>3
  <2>2. CASE V[q].next = NoNext
    <3>1. IsLast(t, q)
      BY <1>8, <2>2 DEF Chained
    <3> QED BY <2>1, <2>2, <3>1 DEF IsLast
  <2>3. CASE V[q].next # NoNext
    <3> DEFINE r == V[q].next
    <3>1. Follows(t, q, r) /\ V[r].type = Leaf /\ r \in t.pages /\ t.level[r] = 0
      BY <1>8, <2>3, ChainNext
    <3> HIDE DEF r
    <3>2. CASE r # p
      <4>1. W[r] = V[r] /\ u.range[r] = t.range[r] /\ r \in u.pages /\ u.level[r] = 0
        BY <1>2, <1>3, <3>1, <3>2
      <4>2. Follows(u, q, r)
        BY <2>1, <3>1, <4>1 DEF Follows
      <4> QED BY <2>3, <3>1, <4>1, <4>2 DEF r
    <3>3. CASE r = p
      <4>1. ASSUME NEW x \in t.range[q], NEW z \in Keys \ t.range[q], x < z
            PROVE  \E y \in Below(R, mid) : y <= z
        <5>1. PICK y \in R : y <= z
          BY <3>1, <3>3, <4>1 DEF Follows
        <5>2. y \in Int /\ z \in Int
          BY <1>1, <1>5
        <5>3. CASE y < mid
          <6>1. y \in Below(R, mid)
            BY <5>3 DEF Below
          <6> QED BY <5>1, <6>1
        <5>4. CASE ~(y < mid)
          <6>1. low <= z
            BY <1>1, <1>5, <5>1, <5>2, <5>4
          <6> QED BY <1>4, <6>1
        <5> QED BY <5>3, <5>4
      <4>2. \A x \in t.range[q], y \in Below(R, mid) : x < y
        BY <3>1, <3>3 DEF Follows, Below
      <4>3. Follows(u, q, p)
        BY <1>1, <1>2, <1>3, <1>4, <2>1, <4>1, <4>2 DEF Follows
      <4> QED BY <2>3, <3>3, <4>3 DEF r
    <3> QED BY <3>2, <3>3
  <2> QED BY <2>2, <2>3
<1>9. ASSUME NEW q \in u.pages, IsLeaf(W, u, q)
      PROVE  IF W[q].next = NoNext THEN IsLast(u, q)
             ELSE Follows(u, q, W[q].next) /\ W[W[q].next].type = Leaf
  <2>1. CASE q = p
    BY <1>6, <2>1
  <2>2. CASE q = new
    BY <1>7, <2>2
  <2>3. CASE q \in t.pages \ {p}
    <3>1. W[q] = V[q] /\ IsLeaf(V, t, q)
      BY <1>3, <1>9, <2>3 DEF IsLeaf
    <3> QED BY <1>8, <2>3, <3>1
  <2> QED BY <1>2, <2>1, <2>2, <2>3
<1> QED BY <1>9 DEF Chained, u

(* No leaf follows the one that ends with the keys. *)
LEMMA ChainEnds ==
  ASSUME NEW V, NEW t \in Pictures, Disjoint(t), Chained(V, t), NEW p, IsLeaf(V, t, p),
         NEW left \in t.pages, t.level[left] = 0,
         \A k \in Keys : k \in t.range[left] \cup t.range[p],
         \A x \in t.range[left], y \in t.range[p] : x < y
  PROVE  V[p].next = NoNext
<1> SUFFICES ASSUME V[p].next # NoNext PROVE FALSE
  OBVIOUS
<1>1. PICK q : q = V[p].next
  OBVIOUS
<1>2. Follows(t, p, q) /\ q \in t.pages /\ t.level[q] = 0 /\ p \in t.pages /\ t.level[p] = 0
  BY <1>1, ChainNext DEF IsLeaf
<1>3. PICK x \in t.range[p], y \in t.range[q] : x < y
  BY <1>2 DEF Follows, IsLeaf
<1>4. x \in Int /\ y \in Int /\ y \in Keys
  BY <1>2, RangeOrder
<1>5. y \notin t.range[p]
  <2>1. SUFFICES ASSUME y \in t.range[p] PROVE FALSE
    OBVIOUS
  <2>2. y < y
    BY <1>2, <2>1 DEF Follows
  <2> QED BY <1>4, <2>2
<1>6. y \in t.range[left]
  BY <1>4, <1>5
<1>7. y < x
  BY <1>6
<1> QED BY <1>3, <1>4, <1>7

-----------------------------------------------------------------------------
(* An insert under way *)

PagesOf(effects) == {effects[i].page : i \in DOMAIN effects}

(* The page that the next new node gets. *)
NewPage(effects) == next_page_id + NewPages(effects)

(* The tree fills no more pages than there are, and has no more levels. *)
Extent(effects, t, root) ==
  /\ t.pages \subseteq PageIds \cup PagesOf(effects)
  /\ \A p \in t.pages : p < NewPage(effects) /\ t.level[p] <= t.level[root]
  /\ t.level[root] + RootPage < NewPage(effects)
  /\ NewPage(effects) - 1 \in PageIds \cup PagesOf(effects)

(* The first effect of a split is on a page that is new. *)
Opens(effects) == effects # << >> /\ effects[1].page = next_page_id

(* The pages on the way to key that are above level l. *)
PassedAbove(path, key, t, l) ==
  /\ t.level[root_page_id] = Len(path)
  /\ \A i \in DOMAIN path : Len(path) + 1 - i > l =>
       /\ path[i].page \in t.pages
       /\ t.level[path[i].page] = Len(path) + 1 - i
       /\ key \in t.range[path[i].page]
       /\ path[i].child = ChildIndex(ReadNode(path[i].page), key)

(* The effects so far leave the parent of a divided page, as it was: the right half
   hangs on the chain only.  The pairs are those of Q. *)
Torn(effects, Q) ==
  \E t, left, right, promote, l :
    /\ t \in Pictures
    /\ Dividing(After(effects), root_page_id, t, left, right, promote, l)
    /\ After(effects)[left] # Blank
    /\ Extent(effects, t, root_page_id)
    /\ PairsIn(After(effects), t) = Q /\ Chained(After(effects), t)

(* An insert may stop anywhere after the cut of the leaf. *)
StaysTorn(effects, Q) == \A n \in 2 .. (Len(effects) - 1) : Torn(SubSeq(effects, 1, n), Q)

(* Two pages of level l are to be told to the parent; the pairs are those of Q. *)
Pending(s, t, l, key, path, Q) ==
  /\ s \in Splits(AnyPair) /\ ~s.done /\ s.root = root_page_id
  /\ t \in Pictures
  /\ Dividing(After(s.effects), root_page_id, t, s.left, s.right, s.promote, l)
  /\ Extent(s.effects, t, root_page_id)
  /\ PairsIn(After(s.effects), t) = Q /\ Chained(After(s.effects), t)
  /\ Opens(s.effects)
  /\ key \in t.range[s.left] \cup t.range[s.right]
  /\ After(s.effects)[s.left] # Blank
  /\ \A p \in t.pages : t.level[p] > l => After(s.effects)[p] = ReadNode(p)
  /\ PassedAbove(path, key, t, l)
  /\ StaysTorn(s.effects, Q)

(* The effects make a tree again. *)
Final(s, t, Q) ==
  /\ s \in Splits(AnyPair) /\ s.done
  /\ t \in Pictures
  /\ Tree(After(s.effects), s.root, t, t.range)
  /\ Extent(s.effects, t, s.root)
  /\ PairsIn(After(s.effects), t) = Q /\ Chained(After(s.effects), t)
  /\ Len(s.effects) > 1 => Opens(s.effects)
  /\ StaysTorn(s.effects, Q)

LEMMA AppendSecond ==
  ASSUME NEW a, NEW b
  PROVE  Append(<<a>>, b) = <<a, b>>
<1> DEFINE s == <<a>>
<1>1. s = [i \in 1 .. 1 |-> a] /\ Len(s) = 1 /\ s[1] = a
  OBVIOUS
<1>2. Append(s, b) = [i \in 1 .. Len(s) + 1 |-> IF i \in 1 .. Len(s) THEN s[i] ELSE b]
  OBVIOUS
<1>3. Append(s, b) = [i \in 1 .. 2 |-> IF i = 1 THEN a ELSE b]
  <2> HIDE DEF s
  <2> QED BY <1>1, <1>2
<1>4. <<a, b>> = [i \in 1 .. 2 |-> IF i = 1 THEN a ELSE b]
  OBVIOUS
<1> QED BY <1>3, <1>4

LEMMA PagesAppend ==
  ASSUME NEW P, NEW effects \in Seq(Effects(P)), NEW e \in Effects(P)
  PROVE  /\ PagesOf(Append(effects, e)) = PagesOf(effects) \cup {e.page}
         /\ Opens(effects) => Opens(Append(effects, e))
<1> DEFINE r == Append(effects, e)
           n == Len(effects)
<1>1. /\ n \in Nat /\ DOMAIN effects = 1 .. n
      /\ DOMAIN r = 1 .. (n + 1) /\ r[n + 1] = e /\ \A i \in 1 .. n : r[i] = effects[i]
  BY AppendProperties, LenProperties
<1>2. r # << >>
  BY AppendProperties
<1> HIDE DEF r
<1>3. Opens(effects) => Opens(r)
  <2>1. SUFFICES ASSUME Opens(effects) PROVE Opens(r)
    OBVIOUS
  <2>2. n # 0
    BY <2>1, EmptySeq DEF Opens
  <2>3. 1 \in 1 .. n
    BY <1>1, <2>2
  <2>4. r[1] = effects[1]
    BY <1>1, <2>3
  <2> QED BY <1>2, <2>1, <2>4 DEF Opens
<1> HIDE DEF n
<1>4. \A i : i \in 1 .. (n + 1) <=> i \in 1 .. n \/ i = n + 1
  BY <1>1
<1>5. PagesOf(r) = PagesOf(effects) \cup {e.page}
  BY <1>1, <1>4 DEF PagesOf
<1> QED BY <1>3, <1>5 DEF r

(* One page more. *)
LEMMA ExtentMore ==
  ASSUME NEW effects, NEW more, NEW t \in Pictures, NEW u \in Pictures, NEW root, NEW top,
         NewPage(effects) \in Nat, root \in t.pages,
         Extent(effects, t, root),
         NEW new, new = NewPage(effects), NewPage(more) = new + 1,
         u.pages = t.pages \cup {new}, PagesOf(effects) \cup {new} \subseteq PagesOf(more),
         \A p \in t.pages : u.level[p] = t.level[p],
         u.level[new] <= u.level[top],
         u.level[top] \in {t.level[root], t.level[root] + 1}
  PROVE  Extent(more, u, top)
<1> DEFINE h == t.level[root]
           k == u.level[top]
<1>1. /\ h \in Nat /\ k \in {h, h + 1} /\ new \in Nat /\ RootPage \in Nat
      /\ h + RootPage < new
  BY BTreeAssumption, PictureFacts DEF Extent
<1>2. ASSUME NEW p \in u.pages PROVE p < new + 1 /\ u.level[p] <= k
  <2>1. CASE p = new
    BY <1>1, <2>1
  <2>2. CASE p \in t.pages
    <3> DEFINE a == u.level[p]
    <3>1. p < new /\ a <= h /\ p \in Int /\ a \in Nat
      BY <2>2, PictureFacts DEF Extent
    <3> HIDE DEF a, h, k
    <3>2. p < new + 1 /\ a <= k
      BY <1>1, <3>1
    <3> QED BY <3>2 DEF a
  <2> QED BY <2>1, <2>2
<1>3. k + RootPage < new + 1
  <2> HIDE DEF h, k
  <2> QED BY <1>1
<1>4. (new + 1) - 1 \in PageIds \cup PagesOf(more)
  <2>1. (new + 1) - 1 = new
    BY <1>1
  <2> QED BY <2>1
<1>5. u.pages \subseteq PageIds \cup PagesOf(more)
  BY DEF Extent
<1> QED BY <1>2, <1>3, <1>4, <1>5 DEF Extent

LEMMA NewPageType ==
  ASSUME next_page_id \in Nat, NEW effects \in Seq(Effects(AnyPair))
  PROVE  NewPage(effects) \in Nat
<1>1. NewPages(effects) \in Nat
  BY NewPagesType
<1> QED BY <1>1 DEF NewPage

LEMMA TornAppend ==
  ASSUME NEW P, NEW effects \in Seq(Effects(P)), NEW e \in Effects(P), NEW Q,
         StaysTorn(effects, Q), Torn(effects, Q)
  PROVE  StaysTorn(Append(effects, e), Q)
<1> DEFINE r == Append(effects, e)
           m == Len(effects)
<1>1. m \in Nat /\ Len(r) = m + 1
  BY AppendProperties, LenProperties
<1>2. ASSUME NEW n \in 1 .. m PROVE SubSeq(r, 1, n) = SubSeq(effects, 1, n)
  <2> DEFINE one == <<e>>
  <2>1. one \in Seq(Effects(P)) /\ r = effects \o one
    OBVIOUS
  <2>2. 1 \in 1 .. Len(effects) /\ n \in 1 .. Len(effects)
    BY <1>1
  <2> HIDE DEF one, r
  <2> QED BY <2>1, <2>2, SubSeqOfConcat1
<1>3. SubSeq(effects, 1, m) = effects
  BY SubSeqFull
<1> HIDE DEF r, m
<1>4. ASSUME NEW n \in 2 .. (Len(r) - 1) PROVE Torn(SubSeq(r, 1, n), Q)
  <2>1. n \in 1 .. m /\ (n = m \/ n \in 2 .. (m - 1))
    BY <1>1
  <2> QED BY <1>2, <1>3, <2>1 DEF StaysTorn, m
<1> QED BY <1>4 DEF StaysTorn, r

(* A new page that nothing leads to changes nothing. *)
LEMMA TornOrphan ==
  ASSUME Holding(AnyPair), next_page_id \in Nat, NEW effects \in Seq(Effects(AnyPair)), NEW Q,
         Torn(effects, Q),
         NEW a \in Effects(AnyPair), a.new = TRUE, a.page = NewPage(effects)
  PROVE  Torn(Append(effects, a), Q)
<1> DEFINE more == Append(effects, a)
           new == NewPage(effects)
           V == After(effects)
           W == After(more)
<1>1. PICK t, left, right, promote, l :
        /\ t \in Pictures
        /\ Dividing(V, root_page_id, t, left, right, promote, l)
        /\ V[left] # Blank
        /\ Extent(effects, t, root_page_id)
        /\ PairsIn(V, t) = Q /\ Chained(V, t)
  BY DEF Torn
<1>2. new \in Nat /\ NewPages(effects) \in Nat
  BY NewPageType, NewPagesType
<1>3. /\ W = [V EXCEPT ![new] = a.node]
      /\ NewPages(more) = NewPages(effects) + 1
      /\ PagesOf(more) = PagesOf(effects) \cup {new}
  BY AfterAppend, PagesAppend
<1>4. V \in [Int -> NodesOver(AnyPair)]
  BY AfterType
<1>5. NewPage(more) = new + 1
  BY <1>2, <1>3 DEF NewPage
<1> HIDE DEF V, W, more, new
<1>6. ASSUME NEW p \in t.pages PROVE W[p] = V[p]
  <2>1. p \in Int /\ p < new
    BY <1>1, PictureFacts DEF Extent, new
  <2>2. p # new
    BY <1>2, <2>1
  <2> QED BY <1>3, <1>4, <2>1, <2>2
<1>7. left \in t.pages
  BY <1>1 DEF Dividing, Halves
<1>8. Dividing(W, root_page_id, t, left, right, promote, l) /\ W[left] # Blank
      /\ PairsIn(W, t) = Q /\ Chained(W, t)
  BY <1>1, <1>6, <1>7, TreeSame, ChainSame DEF Dividing
<1>9. Extent(more, t, root_page_id)
  <2> DEFINE h == t.level[root_page_id]
  <2>1. h \in Nat /\ h + RootPage < new /\ RootPage \in Nat
    <3>1. root_page_id \in t.pages
      BY <1>1 DEF Dividing, Tree
    <3> QED BY <1>1, <3>1, PictureFacts, BTreeAssumption DEF Extent, new
  <2>2. ASSUME NEW p \in t.pages PROVE p < new + 1 /\ t.level[p] <= h
    <3>1. p \in Int /\ p < new /\ t.level[p] <= h
      BY <1>1, PictureFacts DEF Extent, new
    <3> HIDE DEF h
    <3> QED BY <1>2, <3>1
  <2>3. h + RootPage < new + 1
    <3> HIDE DEF h
    <3> QED BY <1>2, <2>1
  <2>4. (new + 1) - 1 \in PageIds \cup PagesOf(more)
    <3>1. (new + 1) - 1 = new
      BY <1>2
    <3> QED BY <1>3, <3>1
  <2>5. t.pages \subseteq PageIds \cup PagesOf(more)
    BY <1>1, <1>3 DEF Extent
  <2> QED BY <1>5, <2>2, <2>3, <2>4, <2>5 DEF Extent
<1>10. Torn(more, Q)
  BY <1>1, <1>8, <1>9 DEF Torn, W
<1> QED BY <1>10 DEF more

LEMMA PendingTorn ==
  ASSUME NEW s, NEW t, NEW l, NEW key, NEW path, NEW Q, Pending(s, t, l, key, path, Q)
  PROVE  Torn(s.effects, Q)
BY DEF Pending, Torn

(* The new root ends it. *)
LEMMA GrowRootEnds ==
  ASSUME Holding(AnyPair), next_page_id \in Nat, NEW s, NEW t, NEW l, NEW key, NEW path, NEW Q,
         Pending(s, t, l, key, path, Q), t.level[root_page_id] = l
  PROVE  \E u : Final(GrowRoot(s), u, Q)
<1> DEFINE effects == s.effects
           new == NewPage(effects)
           e == AllocNode(new, Internal, <<s.promote>>, <<s.left>>, s.right)
           V == After(effects)
           W == After(Append(effects, e))
           u == Raised(t, new, l + 1)
           g == GrowRoot(s)
<1>1. /\ s \in Splits(AnyPair) /\ t \in Pictures /\ ~s.done
      /\ Dividing(V, root_page_id, t, s.left, s.right, s.promote, l)
      /\ Extent(effects, t, root_page_id)
      /\ PairsIn(V, t) = Q /\ Chained(V, t) /\ Opens(effects) /\ V[s.left] # Blank
      /\ StaysTorn(effects, Q) /\ Torn(effects, Q)
  BY PendingTorn DEF Pending
<1>2. /\ effects \in Seq(Effects(AnyPair)) /\ s.left \in Int /\ s.right \in Int
      /\ s.promote \in Keys /\ s.promote \in Int
  BY <1>1 DEF Splits
<1>3. new \in Nat /\ new \in Int
  <2>1. new \in Nat
    BY <1>2, NewPageType
  <2> QED BY <2>1
<1>4. g \in Splits(AnyPair)
  BY <1>1, <1>2, GrowRootType
<1>5. g.effects = Append(effects, e) /\ g.root = new /\ g.done
  <2>1. g = [s EXCEPT !.effects = Append(effects, e), !.root = new, !.done = TRUE]
    BY DEF GrowRoot, NewPage
  <2>2. s \in [effects : Seq(Effects(AnyPair)), promote : Int, left : Int, right : Int,
               done : BOOLEAN, root : Int]
    BY <1>1 DEF Splits
  <2> HIDE DEF g, e, new
  <2> QED BY <2>1, <2>2
<1>6. /\ e.page = new /\ e.new /\ e.node.type = Internal /\ e.node.keys = <<s.promote>>
      /\ Children(e.node) = <<s.left, s.right>>
  <2>1. Append(<<s.left>>, s.right) = <<s.left, s.right>>
    BY AppendSecond
  <2>2. /\ e.page = new /\ e.new /\ e.node.type = Internal /\ e.node.keys = <<s.promote>>
        /\ e.node.vals = <<s.left>> /\ e.node.next = s.right
    BY DEF AllocNode, Node
  <2> QED BY <2>1, <2>2 DEF Children
<1>7. e \in Effects(AnyPair)
  <2> DEFINE ks == <<s.promote>>
             cs == <<s.left>>
  <2>1. ks \in Seq(Keys) /\ cs \in Seq(Int) /\ Len(ks) = 1 /\ Len(cs) = 1
    BY <1>2
  <2>2. e = AllocNode(new, Internal, ks, cs, s.right)
    OBVIOUS
  <2> HIDE DEF ks, cs, e, new
  <2>3. Node(Internal, ks, cs, s.right) \in NodesOver(AnyPair)
    <3>1. Len(ks) <= MaxKeys /\ Len(cs) = Len(ks)
      BY <2>1, OrderFacts
    <3> QED BY <1>2, <2>1, <3>1, InternalNode
  <2> QED BY <1>3, <2>2, <2>3, EffectType
<1> HIDE DEF e, g
<1>8. /\ W = [V EXCEPT ![new] = e.node]
      /\ NewPages(Append(effects, e)) = NewPages(effects) + 1
      /\ PagesOf(Append(effects, e)) = PagesOf(effects) \cup {new}
      /\ Opens(Append(effects, e))
  BY <1>1, <1>2, <1>6, <1>7, AfterAppend, PagesAppend
<1>9. NewPage(Append(effects, e)) = new + 1
  <2>1. NewPages(effects) \in Nat
    BY <1>2, NewPagesType
  <2> QED BY <1>8, <2>1 DEF NewPage
<1>10. new \notin t.pages /\ (\A q \in t.pages : t.level[q] <= l)
  <2>1. \A q \in t.pages : q < new /\ t.level[q] <= l
    BY <1>1 DEF Extent
  <2> QED BY <1>3, <2>1
<1>11. /\ root_page_id \in t.pages /\ l \in Nat
  BY <1>1, PictureFacts DEF Dividing, Tree
<1>12. (\A q \in t.pages : W[q] = V[q]) /\ W[new] = e.node
  <2>1. V \in [Int -> NodesOver(AnyPair)]
    BY <1>2, AfterType
  <2> HIDE DEF V, W
  <2>2. \A q \in t.pages : q \in Int /\ q # new
    BY <1>1, <1>10, PictureFacts
  <2> QED BY <1>3, <1>8, <2>1, <2>2
<1>13. Tree(W, new, u, u.range) /\ PairsIn(W, u) = PairsIn(V, t)
  <2>1. W[new].type = Internal /\ W[new].keys = <<s.promote>>
        /\ Children(W[new]) = <<s.left, s.right>>
    BY <1>6, <1>12
  <2> DEFINE left == s.left
             right == s.right
             promote == s.promote
  <2> HIDE DEF V, W, new, effects, left, right, promote
  <2>2. /\ Dividing(V, root_page_id, t, left, right, promote, l) /\ V[left] # Blank
        /\ W[new].keys = <<promote>> /\ Children(W[new]) = <<left, right>>
    BY <1>1, <2>1 DEF left, right, promote
  <2> QED BY <1>1, <1>3, <1>10, <1>12, <2>1, <2>2, RootGrown
<1>14. /\ u \in Pictures /\ u.pages = t.pages \cup {new} /\ u.level[new] = l + 1
       /\ \A c \in t.pages : u.level[c] = t.level[c]
  <2>1. PICK h \in Nat : h = l + 1
    BY <1>11
  <2> HIDE DEF new
  <2> QED BY <1>1, <1>3, <1>10, <2>1, RaisedFacts
<1>20. \A c \in t.pages : u.range[c] = t.range[c]
  <2>1. PICK h \in Nat : h = l + 1
    BY <1>11
  <2> HIDE DEF new
  <2> QED BY <1>1, <1>3, <1>10, <2>1, RaisedFacts
<1>21. Chained(W, u)
  <2>1. u.level[new] # 0
    BY <1>11, <1>14
  <2>2. \A q \in u.pages : u.level[q] = 0 => q \in t.pages /\ t.level[q] = 0
    BY <1>14, <2>1
  <2>3. \A q \in t.pages : t.level[q] = 0 =>
           q \in u.pages /\ u.level[q] = 0 /\ u.range[q] = t.range[q] /\ W[q] = V[q]
    BY <1>12, <1>14, <1>20
  <2> HIDE DEF u, V, W
  <2> QED BY <1>1, <2>2, <2>3, ChainBelow
<1> HIDE DEF u, new, effects
<1>15. Extent(Append(effects, e), u, new)
  <2>1. u.level[new] <= u.level[new]
    BY <1>11, <1>14
  <2>2. PagesOf(effects) \cup {new} \subseteq PagesOf(Append(effects, e))
    BY <1>8
  <2>3. new = NewPage(effects)
    BY DEF new
  <2>4. u.level[new] \in {t.level[root_page_id], t.level[root_page_id] + 1}
    BY <1>14
  <2>5. NewPage(effects) \in Nat
    BY <1>3, <2>3
  <2> QED BY <1>1, <1>9, <1>11, <1>14, <2>1, <2>2, <2>3, <2>4, <2>5, ExtentMore
<1>22. StaysTorn(Append(effects, e), Q)
  BY <1>1, <1>2, <1>7, TornAppend
<1>16. Final(g, u, Q)
  BY <1>1, <1>4, <1>5, <1>8, <1>13, <1>14, <1>15, <1>21, <1>22 DEF Final
<1> QED BY <1>16 DEF g

-----------------------------------------------------------------------------
(* One level up *)

(* Pages above the leaves hold no pairs. *)
LEMMA PairsBelow ==
  ASSUME NEW V, NEW W, NEW t, NEW u,
         \A q \in u.pages : u.level[q] = 0 => q \in t.pages /\ t.level[q] = 0,
         \A q \in t.pages : t.level[q] = 0 => q \in u.pages /\ u.level[q] = 0 /\ W[q] = V[q]
  PROVE  PairsIn(W, u) = PairsIn(V, t)
BY DEF PairsIn

(* The parent, as it is read and as it is to be. *)
Grown(s, entry) == InsertAt(ReadNode(entry.page).keys, entry.child + 1, s.promote)

Branches(s, entry) ==
  InsertAt(ReplaceAt(Children(ReadNode(entry.page)), entry.child + 1, s.left),
           entry.child + 2, s.right)

(* What a parent on the way is known to hold. *)
ParentSees(s, t, l, key, entry) ==
  LET p == entry.page
      ms == Grown(s, entry)
      ds == Branches(s, entry)
  IN  /\ Above(t, s.left, s.right, l, key, p)
      /\ l \in Nat /\ p \in Int /\ t.range[p] \subseteq Keys
      /\ t.level[p] = l + 1 /\ t.level[p] <= t.level[root_page_id]
      /\ After(s.effects) \in [Int -> NodesOver(AnyPair)]
      /\ ms \in Seq(Keys) /\ ds \in Seq(Int)
      /\ Len(ms) = Len(ReadNode(p).keys) + 1
      /\ Divides(t.range[p], l, ms, ds, t, t.range)
      /\ entry \in PathEntries
      /\ entry.child \in 0 .. Len(ReadNode(p).keys)

LEMMA ParentRead ==
  ASSUME Holding(AnyPair), next_page_id \in Nat, NEW s, NEW t, NEW l, NEW key,
         NEW path \in Seq(PathEntries), NEW Q, Pending(s, t, l, key, path, Q),
         NEW i \in DOMAIN path, Len(path) + 1 - i = l + 1
  PROVE  ParentSees(s, t, l, key, path[i])
<1> DEFINE p == path[i].page
           V == After(s.effects)
           left == s.left
           right == s.right
           promote == s.promote
           ci == path[i].child
<1>1. /\ t \in Pictures /\ s \in Splits(AnyPair)
      /\ Dividing(V, root_page_id, t, left, right, promote, l)
      /\ key \in t.range[left] \cup t.range[right]
      /\ \A q \in t.pages : t.level[q] > l => V[q] = ReadNode(q)
      /\ \A q \in t.pages : t.level[q] <= t.level[root_page_id]
  BY DEF Pending, Extent
<1>2. l \in Nat
  <2> HIDE DEF left, right, promote, V
  <2>1. left \in t.pages /\ t.level[left] = l
    BY <1>1 DEF Dividing, Halves
  <2> QED BY <1>1, <2>1, PictureFacts
<1>3. Len(path) + 1 - i > l
  <2>1. l + 1 > l
    BY <1>2
  <2> QED BY <2>1
<1>4. /\ p \in t.pages
      /\ t.level[p] = Len(path) + 1 - i
      /\ key \in t.range[p]
      /\ ci = ChildIndex(ReadNode(p), key)
  BY <1>3 DEF Pending, PassedAbove
<1>5. p \in Int /\ t.range[p] \subseteq Keys /\ t.level[p] = l + 1 /\ key \in Keys
  <2> HIDE DEF p
  <2>1. p \in Int /\ t.range[p] \subseteq Keys
    BY <1>1, <1>4, PictureFacts
  <2> QED BY <1>4, <2>1
<1>6. V[p] = ReadNode(p)
  <2>1. t.level[p] > l
    BY <1>2, <1>5
  <2> QED BY <1>1, <1>4, <2>1
<1>7. Above(t, left, right, l, key, p)
  BY <1>1, <1>4, <1>5 DEF Above
<1>8. V \in [Int -> NodesOver(AnyPair)]
  <2>1. s.effects \in Seq(Effects(AnyPair))
    BY <1>1 DEF Splits
  <2> QED BY <2>1, AfterType
<1>9. path[i] \in PathEntries
  BY ElementOfSeq, LenProperties
<1>10. ci \in 0 .. Len(ReadNode(p).keys)
  <2>1. ReadNode(p) \in NodesOver(AnyPair)
    BY ReadNodeType
  <2> HIDE DEF p, ci
  <2> QED BY <1>4, <1>5, <2>1, ChildFacts
<1> DEFINE ms == InsertAt(V[p].keys, ci + 1, promote)
           ds == InsertAt(ReplaceAt(Children(V[p]), ci + 1, left), ci + 2, right)
<1>11. Grown(s, path[i]) = ms /\ Branches(s, path[i]) = ds
  BY <1>6 DEF Grown, Branches
<1>12. /\ ms \in Seq(Keys) /\ ds \in Seq(Int)
       /\ Len(ms) = Len(V[p].keys) + 1
       /\ Divides(t.range[p], l, ms, ds, t, t.range)
  <2>1. ci = ChildIndex(V[p], key)
    BY <1>4, <1>6
  <2> HIDE DEF p, V, left, right, promote, ci
  <2> QED BY <1>1, <1>7, <1>8, <2>1, ParentTakes
<1> QED BY <1>1, <1>2, <1>4, <1>5, <1>6, <1>7, <1>8, <1>9, <1>10, <1>11, <1>12 DEF ParentSees

(* The parent has room. *)
LEMMA ParentRoom ==
  ASSUME Holding(AnyPair), next_page_id \in Nat, root_page_id \in Int,
         NEW s, NEW t, NEW l, NEW key,
         NEW path \in Seq(PathEntries), NEW Q, Pending(s, t, l, key, path, Q),
         NEW i \in DOMAIN path, Len(path) + 1 - i = l + 1,
         ~Overflows(Len(Grown(s, path[i]))), NEW top
  PROVE  Final(InsertIntoParent(path[i], s, top), t, Q)
<1> DEFINE p == path[i].page
           ms == Grown(s, path[i])
           ds == Branches(s, path[i])
           n == Len(ms)
           effects == s.effects
           V == After(effects)
           e == WriteNode(p, Internal, ms, SubSeq(ds, 1, n), ds[n + 1])
           W == After(Append(effects, e))
           g == InsertIntoParent(path[i], s, top)
<1>1. /\ Above(t, s.left, s.right, l, key, p)
      /\ l \in Nat /\ p \in Int /\ t.range[p] \subseteq Keys
      /\ t.level[p] = l + 1 /\ t.level[p] <= t.level[root_page_id]
      /\ V \in [Int -> NodesOver(AnyPair)]
      /\ ms \in Seq(Keys) /\ ds \in Seq(Int)
      /\ n = Len(ReadNode(p).keys) + 1
      /\ Divides(t.range[p], l, ms, ds, t, t.range)
      /\ path[i] \in PathEntries
      /\ path[i].child \in 0 .. Len(ReadNode(p).keys)
  <2>1. ParentSees(s, t, l, key, path[i])
    BY ParentRead
  <2> QED BY <2>1 DEF ParentSees
<1>2. /\ s \in Splits(AnyPair) /\ t \in Pictures /\ ~s.done /\ s.root = root_page_id
      /\ Dividing(V, root_page_id, t, s.left, s.right, s.promote, l)
      /\ Extent(effects, t, root_page_id)
      /\ PairsIn(V, t) = Q /\ Chained(V, t) /\ Opens(effects)
      /\ StaysTorn(effects, Q) /\ Torn(effects, Q)
  BY PendingTorn DEF Pending
<1>3. effects \in Seq(Effects(AnyPair)) /\ s.promote \in Keys
  BY <1>2 DEF Splits
<1>4. g \in Splits(AnyPair)
  BY <1>1, <1>2, <1>3, InsertIntoParentType
<1>5. g.effects = Append(effects, e) /\ g.root = root_page_id /\ g.done
  <2>1. g = [s EXCEPT !.effects = Append(effects, e), !.done = TRUE]
    BY DEF InsertIntoParent, Grown, Branches
  <2>2. s \in [effects : Seq(Effects(AnyPair)), promote : Int, left : Int, right : Int,
               done : BOOLEAN, root : Int]
    BY <1>2 DEF Splits
  <2> HIDE DEF g, e
  <2> QED BY <1>2, <2>1, <2>2
<1>6. n \in Nat /\ n <= MaxKeys
  <2>1. n \in Nat
    BY <1>1, LenProperties
  <2> QED BY <2>1, OrderFacts DEF Overflows
<1>7. e.page = p /\ e.new = FALSE
  BY DEF WriteNode
<1>8. e \in Effects(AnyPair)
  <2>1. Len(ds) = n + 1
    BY <1>1 DEF Divides
  <2>2. SubSeq(ds, 1, n) \in Seq(Int) /\ Len(SubSeq(ds, 1, n)) = n
    <3>1. 1 \in 1 .. Len(ds) + 1 /\ n \in (1 - 1) .. Len(ds)
      BY <1>6, <2>1
    <3>2. ds \in Seq(Int)
      BY <1>1
    <3>3. SubSeq(ds, 1, n) \in Seq(Int) /\ Len(SubSeq(ds, 1, n)) = n - 1 + 1
      BY <3>1, <3>2, CutSeq
    <3> QED BY <1>6, <3>3
  <2>3. ds[n + 1] \in Int
    <3>1. n + 1 \in 1 .. Len(ds)
      BY <1>6, <2>1
    <3> QED BY <1>1, <3>1, ElementOfSeq
  <2> DEFINE c == SubSeq(ds, 1, n)
             x == ds[n + 1]
  <2> HIDE DEF c, x
  <2>4. Node(Internal, ms, c, x) \in NodesOver(AnyPair)
    BY <1>1, <1>6, <2>2, <2>3, InternalNode DEF c, x
  <2>5. WriteNode(p, Internal, ms, c, x) \in Effects(AnyPair)
    BY <1>1, <2>4, EffectType
  <2> QED BY <2>5 DEF c, x
<1>9. Suits(e.node, t.range[p], l + 1, t, t.range)
  <2>1. e.node = Node(Internal, ms, SubSeq(ds, 1, n), ds[n + 1])
    BY DEF WriteNode
  <2>2. Suits(Node(Internal, ms, SubSeq(ds, 1, n), ds[n + 1]), t.range[p], l + 1, t, t.range)
    BY <1>1, <1>6, WholeSuits
  <2> QED BY <2>1, <2>2
<1> HIDE DEF e, g, ms, ds, n
<1>10. /\ W = [V EXCEPT ![p] = e.node]
       /\ NewPages(Append(effects, e)) = NewPages(effects) + 0
       /\ PagesOf(Append(effects, e)) = PagesOf(effects) \cup {p}
       /\ Opens(Append(effects, e))
  <2>1. /\ After(Append(effects, e)) = [After(effects) EXCEPT ![e.page] = e.node]
        /\ NewPages(Append(effects, e)) = NewPages(effects) + (IF e.new THEN 1 ELSE 0)
    BY <1>3, <1>8, AfterAppend
  <2>2. /\ PagesOf(Append(effects, e)) = PagesOf(effects) \cup {e.page}
        /\ Opens(Append(effects, e))
    BY <1>2, <1>3, <1>8, PagesAppend
  <2> QED BY <1>7, <2>1, <2>2
<1>11. W[p] = e.node /\ \A q \in t.pages \ {p} : W[q] = V[q]
  <2>1. \A q \in t.pages : q \in Int
    BY <1>2, PictureFacts
  <2> HIDE DEF V, W, p
  <2> QED BY <1>1, <1>10, <2>1
<1>12. Tree(W, root_page_id, t, t.range)
  <2> DEFINE left == s.left
             right == s.right
             promote == s.promote
  <2> HIDE DEF V, W, p, left, right, promote
  <2>1. /\ Dividing(V, root_page_id, t, left, right, promote, l)
        /\ Above(t, left, right, l, key, p)
    BY <1>1, <1>2 DEF left, right, promote
  <2> QED BY <1>1, <1>2, <1>9, <1>11, <2>1, ParentWritten
<1>13. PairsIn(W, t) = PairsIn(V, t) /\ Chained(W, t)
  <2>1. t.level[p] # 0
    BY <1>1
  <2>2. \A q \in t.pages : t.level[q] = 0 => W[q] = V[q]
    BY <1>11, <2>1
  <2>3. PairsIn(W, t) = PairsIn(V, t)
    <3> HIDE DEF V, W, p
    <3> QED BY <2>2, PairsBelow
  <2>4. Chained(V, t)
    BY <1>2
  <2>5. Chained(W, t)
    <3> HIDE DEF V, W, p
    <3> QED BY <2>2, <2>4, ChainBelow
  <2> QED BY <2>3, <2>5
<1>14. Extent(Append(effects, e), t, root_page_id)
  <2>1. NewPage(Append(effects, e)) = NewPage(effects)
    <3>1. NewPages(effects) \in Nat
      BY <1>3, NewPagesType
    <3> QED BY <1>10, <3>1 DEF NewPage
  <2> QED BY <1>2, <1>10, <2>1 DEF Extent
<1>16. StaysTorn(Append(effects, e), Q)
  BY <1>2, <1>3, <1>8, TornAppend
<1>15. Final(g, t, Q)
  BY <1>2, <1>4, <1>5, <1>10, <1>12, <1>13, <1>14, <1>16 DEF Final
<1> QED BY <1>15 DEF g

LEMMA DivisionPages ==
  ASSUME NEW P, NEW effects \in Seq(Effects(P)), NEW a \in Effects(P), NEW w \in Effects(P)
  PROVE  /\ PagesOf(effects \o <<a, w>>) = PagesOf(effects) \cup {a.page, w.page}
         /\ Opens(effects) => Opens(effects \o <<a, w>>)
<1> DEFINE r == Append(effects, a)
<1>1. effects \o <<a, w>> = Append(r, w)
  OBVIOUS
<1>2. r \in Seq(Effects(P))
  BY AppendProperties
<1>3. PagesOf(r) = PagesOf(effects) \cup {a.page} /\ (Opens(effects) => Opens(r))
  BY PagesAppend
<1> HIDE DEF r
<1>4. PagesOf(Append(r, w)) = PagesOf(r) \cup {w.page} /\ (Opens(r) => Opens(Append(r, w)))
  BY <1>2, PagesAppend
<1> QED BY <1>1, <1>3, <1>4

(* What is in a list is of the list's type. *)
LEMMA LastTwo ==
  ASSUME NEW E, NEW s \in Seq(E), NEW a, NEW w, s \o <<a, w>> \in Seq(E)
  PROVE  a \in E /\ w \in E
<1> DEFINE S == E \cup {a, w}
           e == <<a, w>>
           r == s \o e
           n == Len(s)
<1>1. s \in Seq(S) /\ n \in Nat
  <2>1. E \subseteq S
    OBVIOUS
  <2> QED BY <2>1, SeqMonotonic, LenProperties
<1>2. e \in Seq(S) /\ Len(e) = 2 /\ e[1] = a /\ e[2] = w
  OBVIOUS
<1> HIDE DEF S, e
<1>3. Len(r) = Len(s) + Len(e) /\
      \A i \in 1 .. Len(s) + Len(e) : r[i] = IF i <= Len(s) THEN s[i] ELSE e[i - Len(s)]
  BY <1>1, <1>2, ConcatProperties
<1>4. r \in Seq(E)
  BY DEF e
<1> HIDE DEF r, n
<1>5. r[n + 1] = a /\ r[n + 2] = w
  <2>1. n + 1 \in 1 .. Len(s) + Len(e) /\ n + 2 \in 1 .. Len(s) + Len(e)
        /\ ~(n + 1 <= Len(s)) /\ ~(n + 2 <= Len(s))
        /\ (n + 1) - Len(s) = 1 /\ (n + 2) - Len(s) = 2
    BY <1>1, <1>2 DEF n
  <2> QED BY <1>2, <1>3, <2>1
<1>6. n + 1 \in 1 .. Len(r) /\ n + 2 \in 1 .. Len(r)
  BY <1>1, <1>2, <1>3 DEF n
<1>7. r[n + 1] \in E /\ r[n + 2] \in E
  BY <1>4, <1>6, ElementOfSeq
<1> QED BY <1>5, <1>7

(* The levels above are not changed by the cut of a page below. *)
LEMMA PassedOn ==
  ASSUME NEW t \in Pictures, NEW l \in Nat, NEW p \in t.pages, t.level[p] = l + 1,
         NEW new \in Int, new \notin t.pages, NEW mid \in Keys, root_page_id \in t.pages,
         NEW path \in Seq(PathEntries), NEW key, PassedAbove(path, key, t, l)
  PROVE  PassedAbove(path, key, Cut(t, p, new, mid), l + 1)
<1> DEFINE u == Cut(t, p, new, mid)
<1>1. /\ t.pages \subseteq u.pages
      /\ \A c \in t.pages : u.level[c] = t.level[c]
      /\ \A c \in t.pages \ {p} : u.range[c] = t.range[c]
  <2>1. u.pages = t.pages \cup {new}
    BY CutFacts
  <2>2. \A c \in t.pages : u.level[c] = t.level[c]
    BY CutFacts
  <2>3. \A c \in t.pages \ {p} : u.range[c] = t.range[c]
    BY CutFacts
  <2> QED BY <2>1, <2>2, <2>3
<1> HIDE DEF u
<1>2. u.level[root_page_id] = Len(path)
  BY <1>1 DEF PassedAbove
<1>3. ASSUME NEW i \in DOMAIN path, Len(path) + 1 - i > l + 1
      PROVE  /\ path[i].page \in u.pages
             /\ u.level[path[i].page] = Len(path) + 1 - i
             /\ key \in u.range[path[i].page]
             /\ path[i].child = ChildIndex(ReadNode(path[i].page), key)
  <2>1. Len(path) + 1 - i \in Int /\ Len(path) + 1 - i > l /\ Len(path) + 1 - i # l + 1
    BY <1>3, LenProperties
  <2>2. /\ path[i].page \in t.pages
        /\ t.level[path[i].page] = Len(path) + 1 - i
        /\ key \in t.range[path[i].page]
        /\ path[i].child = ChildIndex(ReadNode(path[i].page), key)
    BY <2>1 DEF PassedAbove
  <2>3. path[i].page # p
    BY <2>1, <2>2
  <2> QED BY <1>1, <2>2, <2>3
<1> QED BY <1>2, <1>3 DEF PassedAbove, u

(* The parent is full and is cut in two itself. *)
LEMMA ParentFull ==
  ASSUME Holding(AnyPair), next_page_id \in Nat, root_page_id \in Int,
         NEW s, NEW t, NEW l, NEW key,
         NEW path \in Seq(PathEntries), NEW Q, Pending(s, t, l, key, path, Q),
         NEW i \in DOMAIN path, Len(path) + 1 - i = l + 1,
         Overflows(Len(Grown(s, path[i])))
  PROVE  \E u : Pending(InsertIntoParent(path[i], s, FALSE), u, l + 1, key, path, Q)
<1> DEFINE p == path[i].page
           ms == Grown(s, path[i])
           ds == Branches(s, path[i])
           n == Len(ms)
           m == n \div 2
           mid == ms[m + 1]
           effects == s.effects
           new == NewPage(effects)
           V == After(effects)
           high == Node(Internal, SubSeq(ms, m + 2, n), SubSeq(ds, m + 2, n), ds[n + 1])
           low == Node(Internal, SubSeq(ms, 1, m), SubSeq(ds, 1, m), ds[m + 1])
           a == [page |-> new, node |-> high, new |-> TRUE]
           w == [page |-> p, node |-> low, new |-> FALSE]
           more == effects \o <<a, w>>
           W == After(more)
           g == InsertIntoParent(path[i], s, FALSE)
           u == Cut(t, p, new, mid)
<1>1. /\ Above(t, s.left, s.right, l, key, p)
      /\ l \in Nat /\ p \in Int /\ t.range[p] \subseteq Keys
      /\ t.level[p] = l + 1 /\ t.level[p] <= t.level[root_page_id]
      /\ V \in [Int -> NodesOver(AnyPair)]
      /\ ms \in Seq(Keys) /\ ds \in Seq(Int)
      /\ n = Len(ReadNode(p).keys) + 1
      /\ Divides(t.range[p], l, ms, ds, t, t.range)
      /\ path[i] \in PathEntries
      /\ path[i].child \in 0 .. Len(ReadNode(p).keys)
  <2>1. ParentSees(s, t, l, key, path[i])
    BY ParentRead
  <2> QED BY <2>1 DEF ParentSees
<1>2. /\ s \in Splits(AnyPair) /\ t \in Pictures /\ ~s.done /\ s.root = root_page_id
      /\ Dividing(V, root_page_id, t, s.left, s.right, s.promote, l)
      /\ Extent(effects, t, root_page_id)
      /\ PairsIn(V, t) = Q /\ Chained(V, t) /\ Opens(effects)
      /\ \A q \in t.pages : t.level[q] > l => V[q] = ReadNode(q)
      /\ PassedAbove(path, key, t, l)
      /\ StaysTorn(effects, Q) /\ Torn(effects, Q)
  BY PendingTorn DEF Pending
<1>3. effects \in Seq(Effects(AnyPair)) /\ s.promote \in Keys
  BY <1>2 DEF Splits
<1>4. g \in Splits(AnyPair)
  BY <1>1, <1>2, <1>3, InsertIntoParentType
<1>5. g = Split(more, mid, p, new)
  BY DEF InsertIntoParent, Grown, Branches, AllocNode, WriteNode, NewPage
<1>6. /\ g.effects = more /\ g.promote = mid /\ g.left = p /\ g.right = new
      /\ g.done = FALSE /\ g.root = root_page_id
  <2> HIDE DEF g, more, mid, p, new
  <2> QED BY <1>5 DEF Split
<1>7. p \in t.pages /\ key \in t.range[p]
  BY <1>1 DEF Above
<1>8. m \in 1 .. (Len(ms) - 1) /\ n \in Nat
  <2>1. n \in Nat
    BY <1>1, LenProperties
  <2>2. n >= 2
    BY <2>1, OrderFacts DEF Overflows
  <2> HIDE DEF ms
  <2>3. m \in 1 .. (n - 1)
    BY <2>1, <2>2, HalfFacts
  <2> QED BY <2>1, <2>3
<1> HIDE DEF g, ms, ds, m
<1>9. /\ Suits(low, Below(t.range[p], mid), l + 1, t, t.range)
      /\ Suits(high, NotBelow(t.range[p], mid), l + 1, t, t.range)
      /\ mid \in Keys /\ Below(t.range[p], mid) # {} /\ mid \in t.range[p]
  <2> DEFINE R == t.range[p]
             wide == t.range
  <2> HIDE DEF R, wide
  <2>1. R \subseteq Keys /\ Divides(R, l, ms, ds, t, wide)
    BY <1>1 DEF R, wide
  <2>2. n = Len(ms)
    OBVIOUS
  <2> HIDE DEF n
  <2>3. /\ Suits(low, Below(R, mid), l + 1, t, wide)
        /\ Suits(high, NotBelow(R, mid), l + 1, t, wide)
        /\ mid \in Keys /\ Below(R, mid) # {} /\ mid \in R
    <3>1. l \in Nat /\ ms \in Seq(Keys) /\ ds \in Seq(Int) /\ m \in 1 .. (Len(ms) - 1)
      BY <1>1, <1>8
    <3> HIDE DEF m
    <3> QED BY <2>1, <2>2, <3>1, CutSuits
  <2> QED BY <2>3 DEF R, wide
<1>10. low # Blank
  BY DEF Node, Blank, Internal
<1>11. a.page = new /\ a.node = high /\ a.new = TRUE /\ w.page = p /\ w.node = low /\ w.new = FALSE
  OBVIOUS
<1> HIDE DEF low, high, mid, n
<1>12. a \in Effects(AnyPair) /\ w \in Effects(AnyPair)
  <2>1. more \in Seq(Effects(AnyPair))
    BY <1>4, <1>6 DEF Splits
  <2> HIDE DEF a, w
  <2> QED BY <1>3, <2>1, LastTwo
<1>13. new \in Nat /\ new \in Int
  <2>1. new \in Nat
    BY <1>3, NewPageType
  <2> QED BY <2>1
<1>14. new \notin t.pages
  <2>1. \A q \in t.pages : q < new
    BY <1>2 DEF Extent
  <2> QED BY <1>13, <2>1
<1> HIDE DEF a, w, effects
<1>15. /\ more \in Seq(Effects(AnyPair))
       /\ W = [[V EXCEPT ![new] = high] EXCEPT ![p] = low]
       /\ NewPages(more) = NewPages(effects) + 1
  <2>1. /\ effects \o <<a, w>> \in Seq(Effects(AnyPair))
        /\ After(effects \o <<a, w>>) =
             [[After(effects) EXCEPT ![a.page] = a.node] EXCEPT ![w.page] = w.node]
        /\ NewPages(effects \o <<a, w>>) = NewPages(effects) + 1
    <3>1. effects \in Seq(Effects(AnyPair)) /\ a.new = TRUE /\ w.new = FALSE
      BY <1>3, <1>11
    <3> HIDE DEF more, W, V, u, new, p
    <3>2. TwoMore(effects, a, w, AnyPair)
      BY <1>12, <3>1, AfterDivision
    <3> QED BY <3>2 DEF TwoMore
  <2> QED BY <1>11, <2>1
<1>16. PagesOf(more) = PagesOf(effects) \cup {new, p} /\ Opens(more)
  BY <1>2, <1>3, <1>11, <1>12, DivisionPages
<1>27. StaysTorn(more, Q)
  <2> DEFINE one == Append(effects, a)
  <2>1. more = Append(one, w)
    OBVIOUS
  <2>2. one \in Seq(Effects(AnyPair))
    BY <1>3, <1>12, AppendProperties
  <2>3. StaysTorn(one, Q) /\ Torn(one, Q)
    <3>1. a.page = NewPage(effects) /\ a.new = TRUE
      BY <1>11
    <3> QED BY <1>2, <1>3, <1>12, <3>1, TornAppend, TornOrphan
  <2> HIDE DEF one, more
  <2>4. StaysTorn(Append(one, w), Q)
    BY <1>12, <2>2, <2>3, TornAppend
  <2> QED BY <2>1, <2>4
<1> HIDE DEF more
<1>17. W[p] = low /\ W[new] = high /\ \A q \in t.pages \ {p} : W[q] = V[q]
  <2>1. \A q \in t.pages : q \in Int /\ q # new
    BY <1>2, <1>14, PictureFacts
  <2> HIDE DEF V, W, p, new
  <2> QED BY <1>1, <1>7, <1>13, <1>15, <2>1
<1> HIDE DEF V, W, p, new
<1>18. Dividing(W, root_page_id, u, p, new, mid, l + 1)
  <2> DEFINE left == s.left
             right == s.right
             promote == s.promote
  <2> HIDE DEF left, right, promote
  <2>1. /\ Dividing(V, root_page_id, t, left, right, promote, l)
        /\ Above(t, left, right, l, key, p)
    BY <1>1, <1>2 DEF left, right, promote
  <2>2. Suits(W[p], Below(t.range[p], mid), l + 1, t, t.range)
        /\ Suits(W[new], NotBelow(t.range[p], mid), l + 1, t, t.range)
    BY <1>9, <1>17
  <2> QED BY <1>1, <1>2, <1>9, <1>13, <1>14, <1>17, <2>1, <2>2, ParentDivided
<1>19. /\ u \in Pictures
       /\ u.pages = t.pages \cup {new} /\ p # new
       /\ u.range[p] = Below(t.range[p], mid)
       /\ u.range[new] = NotBelow(t.range[p], mid)
       /\ u.level[new] = t.level[p]
       /\ \A c \in t.pages : u.level[c] = t.level[c]
       /\ \A c \in t.pages \ {p} : u.range[c] = t.range[c]
  <2>1. /\ u \in Pictures
        /\ u.pages = t.pages \cup {new} /\ p # new
        /\ u.range[p] = Below(t.range[p], mid)
        /\ u.range[new] = NotBelow(t.range[p], mid)
        /\ u.level[new] = t.level[p]
    BY <1>2, <1>7, <1>9, <1>13, <1>14, CutFacts
  <2>2. \A c \in t.pages : u.level[c] = t.level[c]
    BY <1>2, <1>7, <1>9, <1>13, <1>14, CutFacts
  <2>3. \A c \in t.pages \ {p} : u.range[c] = t.range[c]
    BY <1>2, <1>7, <1>9, <1>13, <1>14, CutFacts
  <2> QED BY <2>1, <2>2, <2>3
<1>20. root_page_id \in t.pages
  BY <1>2 DEF Dividing, Tree
<1>21. PassedAbove(path, key, u, l + 1)
  BY <1>1, <1>2, <1>7, <1>9, <1>13, <1>14, <1>20, PassedOn
<1> HIDE DEF u
<1>22. key \in u.range[p] \cup u.range[new]
  <2>1. key \in Int /\ mid \in Int
    BY <1>1, <1>7, <1>9, OrderFacts
  <2> QED BY <1>7, <1>19, <2>1 DEF Below, NotBelow
<1>23. Extent(more, u, root_page_id)
  <2>1. new = NewPage(effects)
    BY DEF new
  <2>2. NewPage(more) = new + 1
    <3>1. NewPages(effects) \in Nat
      BY <1>3, NewPagesType
    <3> QED BY <1>15, <2>1, <3>1 DEF NewPage
  <2>3. u.level[new] <= u.level[root_page_id]
        /\ u.level[root_page_id] \in {t.level[root_page_id], t.level[root_page_id] + 1}
    BY <1>1, <1>19, <1>20
  <2>4. PagesOf(effects) \cup {new} \subseteq PagesOf(more)
    BY <1>16
  <2>5. NewPage(effects) \in Nat
    BY <1>13, <2>1
  <2> QED BY <1>2, <1>19, <1>20, <2>1, <2>2, <2>3, <2>4, <2>5, ExtentMore
<1>24. PairsIn(W, u) = PairsIn(V, t) /\ Chained(W, u)
  <2>1. t.level[p] # 0
    BY <1>1
  <2>2. \A q \in u.pages : u.level[q] = 0 => q \in t.pages /\ t.level[q] = 0
    BY <1>19, <2>1
  <2>3. \A q \in t.pages : t.level[q] = 0 =>
           q \in u.pages /\ u.level[q] = 0 /\ u.range[q] = t.range[q] /\ W[q] = V[q]
    BY <1>17, <1>19, <2>1
  <2> QED BY <1>2, <2>2, <2>3, PairsBelow, ChainBelow
<1>25. \A q \in u.pages : u.level[q] > l + 1 => W[q] = ReadNode(q)
  <2>1. SUFFICES ASSUME NEW q \in u.pages, u.level[q] > l + 1 PROVE W[q] = ReadNode(q)
    OBVIOUS
  <2>2. l + 1 \in Int /\ ~(l + 1 > l + 1)
    BY <1>1
  <2>3. q \in t.pages /\ q # p /\ t.level[q] > l + 1
    BY <1>1, <1>19, <2>1, <2>2
  <2>4. t.level[q] \in Nat
    BY <1>2, <2>3, PictureFacts
  <2>5. t.level[q] > l
    <3>1. \A x \in Nat : x > l + 1 => x > l
      BY <1>1
    <3> QED BY <2>3, <2>4, <3>1
  <2> QED BY <1>2, <1>17, <2>3, <2>5
<1>26. Pending(g, u, l + 1, key, path, Q)
  BY <1>2, <1>4, <1>6, <1>10, <1>16, <1>17, <1>18, <1>19, <1>21, <1>22, <1>23, <1>24, <1>25, <1>27
     DEF Pending, W, V
<1> QED BY <1>26 DEF g

-----------------------------------------------------------------------------
(* The climb *)

LEMMA ParentCases ==
  ASSUME NEW entry, NEW s, NEW top \in BOOLEAN
  PROVE  /\ ~top => InsertIntoParent(entry, s, top) = InsertIntoParent(entry, s, FALSE)
         /\ top /\ Overflows(Len(Grown(s, entry))) =>
              InsertIntoParent(entry, s, top) = GrowRoot(InsertIntoParent(entry, s, FALSE))
BY DEF InsertIntoParent, Grown

(* One level up the tree is whole again, unless the division goes on. *)
LEMMA ParentStep ==
  ASSUME Holding(AnyPair), next_page_id \in Nat, root_page_id \in Int,
         NEW s, NEW t, NEW l, NEW key,
         NEW path \in Seq(PathEntries), NEW Q, Pending(s, t, l, key, path, Q),
         NEW i \in DOMAIN path, Len(path) + 1 - i = l + 1
  PROVE  LET g == InsertIntoParent(path[i], s, i = 1)
         IN  \/ \E u : Final(g, u, Q)
             \/ i # 1 /\ \E u : Pending(g, u, l + 1, key, path, Q)
<1> DEFINE top == i = 1
           g == InsertIntoParent(path[i], s, top)
           h == InsertIntoParent(path[i], s, FALSE)
<1>1. top \in BOOLEAN /\ (top <=> i = 1)
  OBVIOUS
<1> HIDE DEF top
<1>2. CASE ~Overflows(Len(Grown(s, path[i])))
  <2>1. Final(g, t, Q)
    BY <1>2, ParentRoom
  <2> QED BY <2>1 DEF top
<1>3. CASE Overflows(Len(Grown(s, path[i])))
  <2>1. PICK u : Pending(h, u, l + 1, key, path, Q)
    BY <1>3, ParentFull
  <2>2. CASE ~top
    <3>1. g = h
      BY <1>1, <2>2, ParentCases
    <3>2. i # 1 /\ Pending(g, u, l + 1, key, path, Q)
      BY <1>1, <2>1, <2>2, <3>1
    <3> QED BY <3>2 DEF top
  <2>3. CASE top
    <3>1. g = GrowRoot(h)
      BY <1>1, <1>3, <2>3, ParentCases
    <3>2. u.level[root_page_id] = l + 1
      <4>1. u.level[root_page_id] = Len(path)
        BY <2>1 DEF Pending, PassedAbove
      <4>2. Len(path) = l + 1
        BY <1>1, <2>3, LenProperties
      <4> QED BY <4>1, <4>2
    <3> HIDE DEF h
    <3>3. PICK k : k = l + 1
      OBVIOUS
    <3>4. \E v : Final(GrowRoot(h), v, Q)
      BY <2>1, <3>2, <3>3, GrowRootEnds
    <3>5. \E v : Final(g, v, Q)
      BY <3>1, <3>4
    <3> QED BY <3>5 DEF top
  <2> QED BY <1>1, <2>2, <2>3
<1> QED BY <1>2, <1>3

(* The climb ends with a tree. *)
LEMMA ClimbEnds ==
  ASSUME Holding(AnyPair), next_page_id \in Nat, root_page_id \in Int,
         NEW split, NEW t, NEW key, NEW path \in Seq(PathEntries), path # << >>, NEW Q,
         Pending(split, t, 0, key, path, Q), key \in Keys
  PROVE  \E u : Final(Climb(path, split), u, Q)
<1> DEFINE n == Len(path)
<1>1. n \in Nat /\ DOMAIN path = 1 .. n /\ n # 0
  BY LenProperties, EmptySeq
<1>2. \A i \in DOMAIN path : path[i].child \in 0 .. Len(ReadNode(path[i].page).keys)
  <2>1. SUFFICES ASSUME NEW i \in DOMAIN path
                 PROVE  path[i].child \in 0 .. Len(ReadNode(path[i].page).keys)
    OBVIOUS
  <2>2. Len(path) + 1 - i > 0
    BY <1>1, <2>1
  <2>3. path[i].child = ChildIndex(ReadNode(path[i].page), key)
    BY <2>2 DEF Pending, PassedAbove
  <2>4. ReadNode(path[i].page) \in NodesOver(AnyPair)
    BY ReadNodeType
  <2> QED BY <2>3, <2>4, ChildFacts
<1>3. split \in Splits(AnyPair)
  BY DEF Pending
<1>4. PICK g : ClimbOf(g, path, split, AnyPair)
  BY <1>2, <1>3, ClimbSteps
<1>5. /\ g[0] = split
      /\ \A j \in 1 .. n :
           g[j] = IF g[j - 1].done THEN g[j - 1]
                  ELSE InsertIntoParent(path[n - j + 1], g[j - 1], n - j + 1 = 1)
      /\ Climb(path, split) = g[n]
  BY <1>4 DEF ClimbOf
<1> DEFINE J == {j \in 0 .. n : \/ \E u : Final(g[j], u, Q)
                                \/ j < n /\ \E u : Pending(g[j], u, j, key, path, Q)}
<1>6. 0 \in J
  BY <1>1, <1>5
<1>7. ASSUME NEW j \in 1 .. n, j - 1 \in J PROVE j \in J
  <2>1. CASE \E u : Final(g[j - 1], u, Q)
    <3>1. PICK u : Final(g[j - 1], u, Q)
      BY <2>1
    <3>2. g[j - 1].done
      BY <3>1 DEF Final
    <3>3. g[j] = g[j - 1]
      BY <1>5, <3>2
    <3> QED BY <1>1, <3>1, <3>3
  <2>2. CASE \E u : Pending(g[j - 1], u, j - 1, key, path, Q)
    <3>1. PICK l \in Nat : l = j - 1
      BY <1>1
    <3>2. PICK i \in 1 .. n : i = n - j + 1
      BY <1>1
    <3>3. PICK s : s = g[j - 1]
      OBVIOUS
    <3>4. PICK u : Pending(s, u, l, key, path, Q)
      BY <2>2, <3>1, <3>3
    <3>5. ~s.done
      BY <3>4 DEF Pending
    <3>6. g[j] = InsertIntoParent(path[i], s, i = 1)
      BY <1>5, <3>2, <3>3, <3>5
    <3>7. i \in DOMAIN path /\ Len(path) + 1 - i = l + 1 /\ l + 1 = j /\ (i # 1 => j < n)
      BY <1>1, <3>1, <3>2
    <3>8. \/ \E v : Final(g[j], v, Q)
          \/ i # 1 /\ \E v : Pending(g[j], v, l + 1, key, path, Q)
      BY <3>4, <3>6, <3>7, ParentStep
    <3> QED BY <1>1, <3>7, <3>8
  <2> QED BY <1>7, <2>1, <2>2
<1>8. n \in J
  <2>1. 0 .. n \subseteq J
    <3> HIDE DEF J, n
    <3> QED BY <1>1, <1>6, <1>7, UpTo
  <2> QED BY <1>1, <2>1
<1> QED BY <1>1, <1>5, <1>8

-----------------------------------------------------------------------------
(* A leaf written anew *)

LEMMA AfterOne ==
  ASSUME NEW P, NEW e \in Effects(P)
  PROVE  /\ After(<<e>>) = [View EXCEPT ![e.page] = e.node]
         /\ NewPages(<<e>>) = IF e.new THEN 1 ELSE 0
         /\ PagesOf(<<e>>) = {e.page}
<1> DEFINE none == << >>
           one == Append(none, e)
<1>1. none \in Seq(Effects(P))
  OBVIOUS
<1>2. one = <<e>>
  OBVIOUS
<1>3. After(none) = View /\ NewPages(none) = 0 /\ PagesOf(none) = {}
  BY AfterNone, NewPagesNone DEF PagesOf
<1> HIDE DEF none
<1>4. /\ After(one) = [After(none) EXCEPT ![e.page] = e.node]
      /\ NewPages(one) = NewPages(none) + (IF e.new THEN 1 ELSE 0)
      /\ PagesOf(one) = PagesOf(none) \cup {e.page}
  BY <1>1, AfterAppend, PagesAppend
<1> HIDE DEF one
<1>5. NewPages(one) = IF e.new THEN 1 ELSE 0
  BY <1>3, <1>4
<1> QED BY <1>2, <1>3, <1>4, <1>5

(* The pairs when the leaf for the keys R holds ks and vs. *)
Refilled(Q, R, ks, vs) ==
  {pr \in Q : pr[1] \notin R} \cup {pr \in AnyPair : HasIn(ks, vs, pr[1], pr[2])}

With(Q, key, val) == {pr \in Q : pr[1] # key} \cup {<<key, val>>}
Without(Q, key) == {pr \in Q : pr[1] # key}

(* Leaf p of V is written anew, or its pairs are shared by p and new; the other leaves
   are the same. *)
LeafShared(V, W, t, u, p, new, ks, vs) ==
  /\ p \in u.pages /\ u.level[p] = 0 /\ new \in u.pages /\ u.level[new] = 0
  /\ \A q \in t.pages : q # p /\ t.level[q] = 0 =>
       q \in u.pages /\ u.level[q] = 0 /\ W[q] = V[q]
  /\ \A q \in u.pages : q \notin {p, new} /\ u.level[q] = 0 =>
       q \in t.pages /\ t.level[q] = 0
  /\ \A pr \in AnyPair : HasIn(ks, vs, pr[1], pr[2]) <=>
       Has(W[p], pr[1], pr[2]) \/ Has(W[new], pr[1], pr[2])

LEMMA LeafPairs ==
  ASSUME NEW V, NEW W, NEW root, NEW t \in Pictures, NEW wide, Tree(V, root, t, wide),
         NEW p \in t.pages, t.level[p] = 0, NEW u, NEW new, NEW ks, NEW vs,
         LeafShared(V, W, t, u, p, new, ks, vs)
  PROVE  PairsIn(W, u) = Refilled(PairsIn(V, t), t.range[p], ks, vs)
<1>0. /\ p \in u.pages /\ u.level[p] = 0 /\ new \in u.pages /\ u.level[new] = 0
      /\ \A q \in t.pages : q # p /\ t.level[q] = 0 =>
           q \in u.pages /\ u.level[q] = 0 /\ W[q] = V[q]
      /\ \A q \in u.pages : q \notin {p, new} /\ u.level[q] = 0 =>
           q \in t.pages /\ t.level[q] = 0
      /\ \A pr \in AnyPair : HasIn(ks, vs, pr[1], pr[2]) <=>
           Has(W[p], pr[1], pr[2]) \/ Has(W[new], pr[1], pr[2])
  BY DEF LeafShared
<1>1. ASSUME NEW pr \in PairsIn(W, u)
      PROVE  pr \in Refilled(PairsIn(V, t), t.range[p], ks, vs)
  <2>1. pr \in AnyPair
    BY DEF PairsIn
  <2>2. PICK q \in u.pages : u.level[q] = 0 /\ Has(W[q], pr[1], pr[2])
    BY DEF PairsIn
  <2>3. CASE q \in {p, new}
    BY <1>0, <2>1, <2>2, <2>3 DEF Refilled
  <2>4. CASE q \notin {p, new}
    <3>1. q \in t.pages /\ t.level[q] = 0 /\ q # p
      BY <1>0, <2>2, <2>4
    <3>2. Has(V[q], pr[1], pr[2])
      BY <1>0, <2>2, <3>1
    <3>3. pr \in PairsIn(V, t)
      BY <2>1, <3>1, <3>2 DEF PairsIn
    <3>4. pr[1] \in t.range[q]
      BY <3>1, <3>2, HasInRange
    <3>5. pr[1] \notin t.range[p]
      BY <3>1, <3>4, SamePage DEF Tree
    <3> QED BY <3>3, <3>5 DEF Refilled
  <2> QED BY <2>3, <2>4
<1>2. ASSUME NEW pr \in Refilled(PairsIn(V, t), t.range[p], ks, vs)
      PROVE  pr \in PairsIn(W, u)
  <2>1. pr \in AnyPair
    BY DEF PairsIn, Refilled
  <2>2. CASE HasIn(ks, vs, pr[1], pr[2])
    BY <1>0, <2>1, <2>2 DEF PairsIn
  <2>3. CASE pr \in PairsIn(V, t) /\ pr[1] \notin t.range[p]
    <3>1. PICK q \in t.pages : t.level[q] = 0 /\ Has(V[q], pr[1], pr[2])
      BY <2>3 DEF PairsIn
    <3>2. q # p
      BY <2>3, <3>1, HasInRange
    <3>3. q \in u.pages /\ u.level[q] = 0 /\ W[q] = V[q]
      BY <1>0, <3>1, <3>2
    <3> QED BY <2>1, <3>1, <3>3 DEF PairsIn
  <2> QED BY <2>2, <2>3 DEF Refilled
<1> QED BY <1>1, <1>2

(* The lists ks and vs hold the node's pairs, but for the one with key. *)
HoldsWith(ks, vs, node, key, val) ==
  \A pr \in AnyPair : HasIn(ks, vs, pr[1], pr[2]) <=>
    IF pr[1] = key THEN pr[2] = val ELSE Has(node, pr[1], pr[2])

HoldsWithout(ks, vs, node, key) ==
  \A pr \in AnyPair : HasIn(ks, vs, pr[1], pr[2]) <=>
    pr[1] # key /\ Has(node, pr[1], pr[2])

(* The pages are a tree with the picture t, and there is room for it. *)
Standing(t) ==
  /\ t \in Pictures
  /\ Tree(View, root_page_id, t, t.range) /\ Chained(View, t)
  /\ t.pages \subseteq PageIds
  /\ \A p \in t.pages : p < next_page_id /\ t.level[p] <= t.level[root_page_id]
  /\ t.level[root_page_id] + RootPage < next_page_id
  /\ next_page_id - 1 \in PageIds

LEMMA StandingFacts ==
  ASSUME NEW t, Standing(t), next_page_id \in Nat
  PROVE  /\ Stands(t) /\ Extent(<< >>, t, root_page_id)
         /\ root_page_id \in t.pages /\ root_page_id \in PageIds /\ root_page_id \in Int
<1>1. t \in Pictures /\ root_page_id \in t.pages
  BY DEF Standing, Tree
<1>2. NewPage(<< >>) = next_page_id /\ PagesOf(<< >>) = {}
  BY NewPagesNone DEF NewPage, PagesOf
<1>3. Extent(<< >>, t, root_page_id)
  BY <1>2 DEF Extent, Standing
<1>4. root_page_id \in PageIds /\ root_page_id \in Int
  BY <1>1, OrderFacts DEF Standing
<1>5. t.level[root_page_id] <= MaxPageId + 2
  <2>1. t.level[root_page_id] \in Nat
    BY <1>1, PictureFacts
  <2> DEFINE l == t.level[root_page_id]
  <2>2. /\ l \in Nat /\ l + RootPage < next_page_id
        /\ next_page_id - 1 <= MaxPageId /\ RootPage \in Nat /\ MaxPageId \in Nat
    BY <2>1, BTreeAssumption DEF Standing, PageIds
  <2> HIDE DEF l
  <2>3. l <= MaxPageId + 2
    BY <2>2
  <2> QED BY <2>3 DEF l
<1> QED BY <1>1, <1>3, <1>4, <1>5 DEF Stands, Standing

(* One leaf is written. *)
LEMMA LeafWritten ==
  ASSUME Holding(AnyPair), next_page_id \in Nat, NEW t, Standing(t),
         NEW p \in t.pages, t.level[p] = 0, NEW ks, NEW vs, PairedIn(ks, vs, AnyPair),
         Len(ks) <= MaxKeys, NEW next \in Int, LeafFits(t.range[p], ks),
         NextStays(View, t, p, next)
  PROVE  LET e == WriteNode(p, Leaf, ks, vs, next)
         IN  /\ e \in Effects(AnyPair) /\ e.page = p
             /\ Tree(After(<<e>>), root_page_id, t, t.range)
             /\ Chained(After(<<e>>), t)
             /\ Extent(<<e>>, t, root_page_id)
             /\ PairsIn(After(<<e>>), t) = Refilled(PairsIn(View, t), t.range[p], ks, vs)
<1> DEFINE e == WriteNode(p, Leaf, ks, vs, next)
           W == After(<<e>>)
<1>1. /\ t \in Pictures /\ p \in Int /\ Tree(View, root_page_id, t, t.range)
      /\ Chained(View, t)
  BY PictureFacts DEF Standing
<1>2. e \in Effects(AnyPair)
  BY <1>1, PairedIsLeaf, EffectType
<1>3. /\ e.page = p /\ e.new = FALSE
      /\ e.node.type = Leaf /\ e.node.keys = ks /\ e.node.vals = vs /\ e.node.next = next
  BY DEF WriteNode, Node
<1> HIDE DEF e
<1>4. W = [View EXCEPT ![p] = e.node] /\ NewPages(<<e>>) = 0 /\ PagesOf(<<e>>) = {p}
  BY <1>2, <1>3, AfterOne
<1>5. W[p] = e.node /\ \A q \in t.pages \ {p} : W[q] = View[q]
  <2>1. \A q \in t.pages : q \in Int
    BY <1>1, PictureFacts
  <2>2. DOMAIN View = Int
    BY DEF View
  <2> HIDE DEF W
  <2> QED BY <1>1, <1>4, <2>1, <2>2
<1> HIDE DEF W
<1>6. Tree(W, root_page_id, t, t.range)
  BY <1>1, <1>3, <1>5, LeafRewritten
<1>7. Extent(<<e>>, t, root_page_id)
  <2>1. NewPage(<<e>>) = next_page_id
    BY <1>4 DEF NewPage
  <2> QED BY <1>4, <2>1 DEF Extent, Standing
<1>8. PairsIn(W, t) = Refilled(PairsIn(View, t), t.range[p], ks, vs)
  <2>1. \A pr \in AnyPair : HasIn(ks, vs, pr[1], pr[2]) <=>
           Has(W[p], pr[1], pr[2]) \/ Has(W[p], pr[1], pr[2])
    BY <1>3, <1>5 DEF Has, HasIn
  <2>2. LeafShared(View, W, t, t, p, p, ks, vs)
    BY <1>5, <2>1 DEF LeafShared
  <2> QED BY <1>1, <2>2, LeafPairs
<1>9. Chained(W, t)
  <2>1. W[p].type = Leaf /\ W[p].next = next
    BY <1>3, <1>5
  <2> QED BY <1>1, <1>5, <2>1, ChainRewritten
<1> QED BY <1>2, <1>3, <1>6, <1>7, <1>8, <1>9 DEF e, W

-----------------------------------------------------------------------------
(* A leaf divided *)

LEMMA LeafSplit ==
  ASSUME Holding(AnyPair), next_page_id \in Nat, NEW t, Standing(t), NEW key,
         NEW p \in t.pages, t.level[p] = 0, key \in t.range[p], ReadNode(p).type = Leaf,
         NEW ks, NEW vs, PairedIn(ks, vs, AnyPair),
         Len(ks) = MaxKeys + 1, LeafFits(t.range[p], ks),
         NEW path \in Seq(PathEntries), PassedAbove(path, key, t, 0)
  PROVE  \E u : Pending(SplitLeaf(p, ks, vs), u, 0, key, path,
                        Refilled(PairsIn(View, t), t.range[p], ks, vs))
<1> DEFINE n == Len(ks)
           m == n \div 2
           mid == ks[m + 1]
           new == next_page_id
           next == ReadNode(p).next
           hk == SubSeq(ks, m + 1, n)
           hv == SubSeq(vs, m + 1, n)
           lk == SubSeq(ks, 1, m)
           lv == SubSeq(vs, 1, m)
           high == Node(Leaf, hk, hv, next)
           low == Node(Leaf, lk, lv, new)
           a == [page |-> new, node |-> high, new |-> TRUE]
           w == [page |-> p, node |-> low, new |-> FALSE]
           none == << >>
           more == none \o <<a, w>>
           W == After(more)
           g == SplitLeaf(p, ks, vs)
           R == t.range[p]
           u == Cut(t, p, new, mid)
           Q == Refilled(PairsIn(View, t), t.range[p], ks, vs)
<1>1. /\ t \in Pictures /\ p \in Int /\ R \subseteq Keys
      /\ Tree(View, root_page_id, t, t.range)
      /\ root_page_id \in t.pages /\ t.range[root_page_id] = Keys /\ Disjoint(t)
      /\ \A q \in t.pages : NodeFits(View, root_page_id, t, t.range, q)
      /\ \A q \in t.pages : q \in Int /\ q < new
      /\ Extent(none, t, root_page_id) /\ root_page_id \in Int
      /\ Chained(View, t) /\ View[p].type = Leaf /\ View[p].next = next /\ new # NoNext
  BY PictureFacts, StandingFacts DEF Standing, Tree, View, NoNext
<1>2. ks \in Seq(Keys) /\ vs \in Seq(Int) /\ Len(vs) = Len(ks)
  BY DEF PairedIn
<1>3. g \in Splits(AnyPair)
  BY <1>1, SplitLeafType
<1>4. g = Split(more, mid, p, new)
  <2>1. <<a, w>> = more
    OBVIOUS
  <2>2. g = Split(<<a, w>>, mid, p, new)
    BY <1>2 DEF SplitLeaf, AllocNode, WriteNode
  <2> HIDE DEF more, a, w, g
  <2> QED BY <2>1, <2>2
<1>5. /\ g.effects = more /\ g.promote = mid /\ g.left = p /\ g.right = new
      /\ g.done = FALSE /\ g.root = root_page_id
  <2> HIDE DEF g, more, mid
  <2> QED BY <1>4 DEF Split
<1>6. m \in 1 .. (Len(ks) - 1) /\ n \in Nat
  <2>1. n \in Nat /\ n >= 2
    BY OrderFacts
  <2> HIDE DEF n
  <2>2. m \in 1 .. (n - 1)
    BY <2>1, HalfFacts
  <2> QED BY <2>1, <2>2 DEF n
<1> HIDE DEF m
<1>7. /\ LeafFits(Below(R, mid), lk) /\ LeafFits(NotBelow(R, mid), hk)
      /\ Below(R, mid) # {} /\ mid \in NotBelow(R, mid)
      /\ \A k, v : /\ HasIn(lk, lv, k, v) <=> k \in Below(R, mid) /\ HasIn(ks, vs, k, v)
                   /\ HasIn(hk, hv, k, v) <=> k \in NotBelow(R, mid) /\ HasIn(ks, vs, k, v)
  <2> HIDE DEF R
  <2>1. LeafFits(R, ks)
    BY DEF R
  <2>2. /\ LeafFits(Below(R, ks[m + 1]), SubSeq(ks, 1, m))
        /\ LeafFits(NotBelow(R, ks[m + 1]), SubSeq(ks, m + 1, Len(ks)))
        /\ Below(R, ks[m + 1]) # {} /\ ks[m + 1] \in NotBelow(R, ks[m + 1])
        /\ \A vv \in Seq(Int) : \A k, v : Len(vv) = Len(ks) =>
             /\ HasIn(SubSeq(ks, 1, m), SubSeq(vv, 1, m), k, v)
                  <=> k \in Below(R, ks[m + 1]) /\ HasIn(ks, vv, k, v)
             /\ HasIn(SubSeq(ks, m + 1, Len(ks)), SubSeq(vv, m + 1, Len(ks)), k, v)
                  <=> k \in NotBelow(R, ks[m + 1]) /\ HasIn(ks, vv, k, v)
    BY <1>1, <1>2, <1>6, <2>1, CutHas
  <2> QED BY <1>2, <2>2
<1>8. mid \in Keys /\ mid \in R
  BY <1>1, <1>7 DEF NotBelow
<1>9. /\ low.type = Leaf /\ low.keys = lk /\ low.vals = lv /\ low # Blank /\ low.next = new
      /\ high.type = Leaf /\ high.keys = hk /\ high.vals = hv /\ high.next = next
  BY DEF Node, Blank, Leaf
<1>10. a.page = new /\ a.node = high /\ a.new = TRUE /\ w.page = p /\ w.node = low /\ w.new = FALSE
  OBVIOUS
<1>11. none \in Seq(Effects(AnyPair)) /\ new \in Int
  OBVIOUS
<1>12. NewPages(none) = 0 /\ After(none) = View /\ PagesOf(none) = {}
  BY AfterNone, NewPagesNone DEF PagesOf
<1> HIDE DEF low, high, mid, n, lk, hk, lv, hv, g, none
<1>13. a \in Effects(AnyPair) /\ w \in Effects(AnyPair)
  <2>1. more \in Seq(Effects(AnyPair))
    BY <1>3, <1>5 DEF Splits
  <2> HIDE DEF a, w
  <2> QED BY <1>11, <2>1, LastTwo
<1>14. Opens(more)
  <2>1. more # << >> /\ more[1] = a
    <3> HIDE DEF a, w
    <3> QED BY DEF none
  <2> HIDE DEF more, a
  <2> QED BY <1>10, <2>1 DEF Opens
<1>31. Len(more) = 2
  <2> HIDE DEF a, w
  <2> QED BY DEF none
<1> HIDE DEF a, w
<1>15. /\ more \in Seq(Effects(AnyPair))
       /\ W = [[View EXCEPT ![new] = high] EXCEPT ![p] = low]
       /\ NewPages(more) = 1
  <2>1. TwoMore(none, a, w, AnyPair)
    <3> HIDE DEF new, u
    <3> QED BY <1>10, <1>11, <1>13, AfterDivision
  <2> QED BY <1>10, <1>12, <2>1 DEF TwoMore
<1>16. PagesOf(more) = PagesOf(none) \cup {new, p}
  BY <1>10, <1>11, <1>13, DivisionPages
<1> HIDE DEF more
<1>17. p \in t.pages /\ new \notin t.pages
  <2>1. \A q \in t.pages : q # new
    BY <1>1
  <2> QED BY <2>1
<1>18. W[p] = low /\ W[new] = high /\ \A q \in t.pages \ {p} : W[q] = View[q]
  <2>1. \A q \in t.pages : q \in Int /\ q # new
    BY <1>1, <1>17
  <2>2. DOMAIN View = Int
    BY DEF View
  <2> HIDE DEF W, new
  <2> QED BY <1>1, <1>11, <1>15, <1>17, <2>1, <2>2
<1> HIDE DEF W, new
<1>19. /\ u \in Pictures
       /\ u.pages = t.pages \cup {new} /\ p # new
       /\ u.range[p] = Below(R, mid)
       /\ u.range[new] = NotBelow(R, mid)
       /\ u.level[new] = t.level[p]
       /\ \A c \in t.pages : u.level[c] = t.level[c]
       /\ \A c \in t.pages \ {p} : u.range[c] = t.range[c]
  <2>1. /\ u \in Pictures
        /\ u.pages = t.pages \cup {new} /\ p # new
        /\ u.range[p] = Below(t.range[p], mid)
        /\ u.range[new] = NotBelow(t.range[p], mid)
        /\ u.level[new] = t.level[p]
    BY <1>1, <1>8, <1>11, <1>17, CutFacts
  <2>2. \A c \in t.pages : u.level[c] = t.level[c]
    BY <1>1, <1>8, <1>11, <1>17, CutFacts
  <2>3. \A c \in t.pages \ {p} : u.range[c] = t.range[c]
    BY <1>1, <1>8, <1>11, <1>17, CutFacts
  <2> QED BY <2>1, <2>2, <2>3
<1>20. Tree(W, root_page_id, u, Wide(u, p, new))
  <2>1. Suits(W[p], Below(t.range[p], mid), t.level[p], t, t.range)
    BY <1>7, <1>9, <1>18 DEF Suits
  <2>2. Suits(W[new], NotBelow(t.range[p], mid), t.level[p], t, t.range)
    BY <1>7, <1>9, <1>18 DEF Suits
  <2> QED BY <1>1, <1>8, <1>11, <1>17, <1>18, <2>1, <2>2, SplitTree
<1>21. Halves(u, p, new, mid, 0)
  <2>1. Halves(u, p, new, mid, t.level[p])
    BY <1>1, <1>7, <1>8, <1>11, <1>17, CutHalves
  <2> QED BY <2>1
<1>30. Chained(W, u)
  <2>1. IsLeaf(View, t, p) /\ Below(t.range[p], mid) # {} /\ mid \in t.range[p]
    BY <1>1, <1>7, <1>8, <1>17 DEF IsLeaf
  <2>2. /\ W[p].type = Leaf /\ W[p].next = new
        /\ W[new].type = Leaf /\ W[new].next = View[p].next
    BY <1>1, <1>9, <1>18
  <2> QED BY <1>1, <1>11, <1>17, <1>18, <2>1, <2>2, ChainDivided
<1> HIDE DEF u
<1>22. Dividing(W, root_page_id, u, p, new, mid, 0)
  BY <1>20, <1>21 DEF Dividing
<1>23. Extent(more, u, root_page_id)
  <2>1. new = NewPage(none)
    BY <1>12 DEF new, NewPage
  <2>2. NewPage(more) = new + 1
    BY <1>15 DEF new, NewPage
  <2>3. u.level[new] <= u.level[root_page_id]
        /\ u.level[root_page_id] \in {t.level[root_page_id], t.level[root_page_id] + 1}
    <3>1. u.level[new] = 0 /\ u.level[root_page_id] = t.level[root_page_id]
      BY <1>1, <1>19
    <3>2. t.level[root_page_id] \in Nat
      BY <1>1, PictureFacts
    <3> QED BY <3>1, <3>2
  <2>4. PagesOf(none) \cup {new} \subseteq PagesOf(more)
    BY <1>16
  <2>5. NewPage(none) \in Nat
    BY <2>1 DEF new
  <2> QED BY <1>1, <1>19, <2>1, <2>2, <2>3, <2>4, <2>5, ExtentMore
<1>24. PairsIn(W, u) = Q
  <2>1. ASSUME NEW pr \in AnyPair
        PROVE  HasIn(ks, vs, pr[1], pr[2]) <=> Has(W[p], pr[1], pr[2]) \/ Has(W[new], pr[1], pr[2])
    <3>1. /\ Has(W[p], pr[1], pr[2]) <=> HasIn(lk, lv, pr[1], pr[2])
          /\ Has(W[new], pr[1], pr[2]) <=> HasIn(hk, hv, pr[1], pr[2])
      BY <1>9, <1>18 DEF Has, HasIn
    <3>2. HasIn(ks, vs, pr[1], pr[2]) => pr[1] \in R
      BY DEF HasIn, LeafFits
    <3>3. pr[1] \in R => pr[1] \in Below(R, mid) \/ pr[1] \in NotBelow(R, mid)
      <4>1. pr[1] \in R => pr[1] \in Int /\ mid \in Int
        BY <1>1, <1>8, OrderFacts
      <4> QED BY <4>1 DEF Below, NotBelow
    <3> QED BY <1>7, <3>1, <3>2, <3>3
  <2>2. \A q \in t.pages : q # p /\ t.level[q] = 0 =>
           q \in u.pages /\ u.level[q] = 0 /\ W[q] = View[q]
    BY <1>18, <1>19
  <2>3. \A q \in u.pages : q \notin {p, new} /\ u.level[q] = 0 =>
           q \in t.pages /\ t.level[q] = 0
    BY <1>19
  <2>4. p \in u.pages /\ u.level[p] = 0 /\ new \in u.pages /\ u.level[new] = 0
    BY <1>17, <1>19
  <2>5. LeafShared(View, W, t, u, p, new, ks, vs)
    BY <2>1, <2>2, <2>3, <2>4 DEF LeafShared
  <2> QED BY <1>1, <1>17, <2>5, LeafPairs
<1>25. key \in u.range[p] \cup u.range[new]
  <2>1. key \in Int /\ mid \in Int
    BY <1>1, <1>8, OrderFacts
  <2> QED BY <1>19, <2>1 DEF Below, NotBelow
<1>26. \A q \in u.pages : u.level[q] > 0 => W[q] = ReadNode(q)
  <2>1. SUFFICES ASSUME NEW q \in u.pages, u.level[q] > 0 PROVE W[q] = ReadNode(q)
    OBVIOUS
  <2>2. q \in t.pages \ {p}
    BY <1>19, <2>1
  <2> QED BY <1>1, <1>18, <2>2 DEF View
<1>27. PassedAbove(path, key, u, 0)
  <2>1. u.level[root_page_id] = Len(path)
    BY <1>1, <1>19 DEF PassedAbove
  <2>2. ASSUME NEW i \in DOMAIN path, Len(path) + 1 - i > 0
        PROVE  /\ path[i].page \in u.pages
               /\ u.level[path[i].page] = Len(path) + 1 - i
               /\ key \in u.range[path[i].page]
               /\ path[i].child = ChildIndex(ReadNode(path[i].page), key)
    <3>1. /\ path[i].page \in t.pages
          /\ t.level[path[i].page] = Len(path) + 1 - i
          /\ key \in t.range[path[i].page]
          /\ path[i].child = ChildIndex(ReadNode(path[i].page), key)
      BY <2>2 DEF PassedAbove
    <3>2. path[i].page # p
      BY <2>2, <3>1
    <3> QED BY <1>19, <3>1, <3>2
  <2> QED BY <2>1, <2>2 DEF PassedAbove
<1> HIDE DEF Q
<1>28. W[p] # Blank
  BY <1>9, <1>18
<1>32. StaysTorn(more, Q)
  <2>1. 2 .. (2 - 1) = {}
    OBVIOUS
  <2> QED BY <1>31, <2>1 DEF StaysTorn
<1>29. Pending(g, u, 0, key, path, Q)
  BY <1>3, <1>5, <1>14, <1>19, <1>22, <1>23, <1>24, <1>25, <1>26, <1>27, <1>28, <1>30, <1>32
     DEF Pending, W
<1> QED BY <1>29 DEF g, Q

-----------------------------------------------------------------------------
(* What an insert makes of the pairs *)

LEMMA DoneEnds ==
  ASSUME Holding(AnyPair), next_page_id \in Nat, NEW t, Standing(t),
         NEW p \in t.pages, t.level[p] = 0, NEW ks, NEW vs, PairedIn(ks, vs, AnyPair),
         Len(ks) <= MaxKeys, NEW next \in Int, LeafFits(t.range[p], ks),
         NextStays(View, t, p, next)
  PROVE  Final([Split(<<WriteNode(p, Leaf, ks, vs, next)>>, 0, 0, 0) EXCEPT !.done = TRUE],
               t, Refilled(PairsIn(View, t), t.range[p], ks, vs))
<1> DEFINE e == WriteNode(p, Leaf, ks, vs, next)
           effects == <<e>>
           s == Split(effects, 0, 0, 0)
           g == [s EXCEPT !.done = TRUE]
           Q == Refilled(PairsIn(View, t), t.range[p], ks, vs)
<1>1. /\ e \in Effects(AnyPair)
      /\ Tree(After(effects), root_page_id, t, t.range)
      /\ Extent(effects, t, root_page_id)
      /\ PairsIn(After(effects), t) = Q /\ Chained(After(effects), t)
  BY LeafWritten
<1>2. root_page_id \in Int /\ t \in Pictures
  BY StandingFacts DEF Standing
<1> HIDE DEF e, Q
<1>3. g \in Splits(AnyPair)
  BY <1>1, <1>2, DoneType
<1>4. Len(effects) = 1 /\ ~(1 > 1)
  OBVIOUS
<1>7. StaysTorn(effects, Q)
  <2>1. 2 .. (1 - 1) = {}
    OBVIOUS
  <2> HIDE DEF effects
  <2> QED BY <1>4, <2>1 DEF StaysTorn
<1> HIDE DEF effects
<1>5. g.effects = effects /\ g.done /\ g.root = root_page_id
  BY DEF Split
<1> HIDE DEF g
<1>6. Final(g, t, Q)
  BY <1>1, <1>2, <1>3, <1>4, <1>5, <1>7 DEF Final
<1> QED BY <1>6 DEF g, s, effects, e, Q

LEMMA FilledFacts ==
  ASSUME NEW t, Standing(t), NEW p \in t.pages, t.level[p] = 0, NEW key \in t.range[p],
         NEW val \in Int, NEW ks, NEW vs, HoldsWith(ks, vs, View[p], key, val)
  PROVE  Refilled(PairsIn(View, t), t.range[p], ks, vs) = With(PairsIn(View, t), key, val)
<1> DEFINE V == View
           Q == PairsIn(V, t)
           R == t.range[p]
<1>0. t \in Pictures /\ Tree(V, root_page_id, t, t.range)
  BY DEF Standing
<1> HIDE DEF V
<1>1. Q \subseteq AnyPair
  BY DEF PairsIn
<1>2. \A pr \in AnyPair : pr[1] \in R => (pr \in Q <=> Has(V[p], pr[1], pr[2]))
  BY <1>0, PairsAt
<1>3. \A pr \in AnyPair : Has(V[p], pr[1], pr[2]) => pr[1] \in R
  BY <1>0, HasInRange
<1>4. <<key, val>> \in AnyPair /\ key \in R
  BY <1>0, PictureFacts DEF AnyPair
<1>5. \A pr \in AnyPair : pr[1] = key /\ pr[2] = val <=> pr = <<key, val>>
  BY DEF AnyPair
<1> HIDE DEF Q, R
<1>6. ASSUME NEW pr \in AnyPair
      PROVE  pr \in Refilled(Q, R, ks, vs) <=> pr \in With(Q, key, val)
  BY <1>2, <1>3, <1>4, <1>5 DEF Refilled, With, HoldsWith, V
<1>7. Refilled(Q, R, ks, vs) \subseteq AnyPair /\ With(Q, key, val) \subseteq AnyPair
  BY <1>1, <1>4 DEF Refilled, With
<1> QED BY <1>6, <1>7 DEF V, Q, R

(* The leaf for a key: what it holds, and where the key is or would be. *)
LeafHolds(p, t, key) ==
  LET leaf == ReadNode(p)
      sr == BinarySearch(leaf.keys, key)
  IN  /\ p \in t.pages /\ t.level[p] = 0 /\ key \in t.range[p]
      /\ leaf \in NodesOver(AnyPair) /\ leaf.type = Leaf
      /\ PairedIn(leaf.keys, leaf.vals, AnyPair) /\ LeafFits(t.range[p], leaf.keys)
      /\ sr.index + 1 \in 1 .. Len(leaf.keys) + 1
      /\ sr.found => sr.index + 1 \in 1 .. Len(leaf.keys) /\ leaf.keys[sr.index + 1] = key
      /\ ~sr.found => /\ \A j \in 1 .. sr.index : leaf.keys[j] < key
                      /\ \A j \in (sr.index + 1) .. Len(leaf.keys) : key < leaf.keys[j]
                      /\ \A j \in 1 .. Len(leaf.keys) : leaf.keys[j] # key

LEMMA LeafKnown ==
  ASSUME Holding(AnyPair), next_page_id \in Nat, NEW t, Standing(t),
         NEW p \in t.pages, t.level[p] = 0, NEW key \in t.range[p],
         ReadNode(p).type = Leaf
  PROVE  LeafHolds(p, t, key)
<1> DEFINE leaf == ReadNode(p)
           ks == leaf.keys
           n == Len(ks)
           sr == BinarySearch(ks, key)
<1>1. t \in Pictures /\ p \in Int /\ key \in Keys /\ key \in Int
  BY PictureFacts, OrderFacts DEF Standing
<1>2. leaf \in NodesOver(AnyPair)
  BY ReadNodeType
<1>3. /\ ks \in Seq(Keys) /\ n \in Nat /\ DOMAIN ks = 1 .. n
      /\ PairedIn(ks, leaf.vals, AnyPair)
  BY <1>2, NodeFacts, LeafIsPaired
<1>4. LeafFits(t.range[p], ks) /\ Increasing(ks)
  <2>1. NodeFits(View, root_page_id, t, t.range, p) /\ View[p] = leaf
    BY <1>1 DEF Standing, Tree, View
  <2> QED BY <2>1 DEF NodeFits, LeafFits
<1>5. \A j \in 1 .. n : ks[j] \in Int
  BY <1>3, ElementOfSeq, OrderFacts
<1>6. sr \in Places(ks, key)
  BY <1>1, <1>3, BinarySearchFinds
<1> HIDE DEF sr, leaf, n
<1>7. /\ sr.index \in 0 .. n
      /\ sr.found => sr.index < n /\ ks[sr.index + 1] = key
      /\ \A j \in 1 .. sr.index : ks[j] < key
      /\ ~sr.found => \A j \in (sr.index + 1) .. n : key < ks[j]
  BY <1>4, <1>6 DEF Places, n
<1> DEFINE x == sr.index
<1> HIDE DEF x
<1>8. x \in 0 .. n /\ (sr.found => x < n) /\ sr.index = x
  BY <1>7 DEF x
<1>9. x + 1 \in 1 .. n + 1 /\ (sr.found => x + 1 \in 1 .. n)
  BY <1>3, <1>8
<1>10. ASSUME ~sr.found, NEW j \in 1 .. n PROVE ks[j] # key
  <2>1. j \in 1 .. x \/ j \in (x + 1) .. n
    BY <1>3, <1>8
  <2>2. ks[j] < key \/ key < ks[j]
    BY <1>7, <1>8, <1>10, <2>1
  <2> QED BY <1>1, <1>5, <2>2
<1> QED BY <1>2, <1>3, <1>4, <1>7, <1>8, <1>9, <1>10 DEF LeafHolds, leaf, sr, n

(* The three ways to fill a leaf with the new pair. *)
LEMMA LeafUpdated ==
  ASSUME NEW t, Standing(t), NEW p, NEW key, LeafHolds(p, t, key), NEW val \in Int,
         NEW i, i = BinarySearch(ReadNode(p).keys, key).index + 1,
         BinarySearch(ReadNode(p).keys, key).found
  PROVE  LET leaf == ReadNode(p)
             vs == ReplaceAt(leaf.vals, i, val)
         IN  /\ PairedIn(leaf.keys, vs, AnyPair)
             /\ Refilled(PairsIn(View, t), t.range[p], leaf.keys, vs)
                  = With(PairsIn(View, t), key, val)
<1> DEFINE leaf == ReadNode(p)
           ks == leaf.keys
           vs == ReplaceAt(leaf.vals, i, val)
<1>1. /\ t \in Pictures /\ Tree(View, root_page_id, t, t.range)
      /\ p \in t.pages /\ t.level[p] = 0 /\ key \in t.range[p]
      /\ PairedIn(ks, leaf.vals, AnyPair) /\ LeafFits(t.range[p], ks)
      /\ i \in 1 .. Len(ks) /\ ks[i] = key
  BY DEF LeafHolds, Standing
<1>2. p \in Int /\ key \in Keys /\ View[p] = leaf
  BY <1>1, PictureFacts DEF View
<1>3. /\ ks \in Seq(Keys) /\ leaf.vals \in Seq(Int) /\ Len(leaf.vals) = Len(ks)
      /\ i \in DOMAIN ks /\ Increasing(ks)
  BY <1>1, LenProperties DEF PairedIn, LeafFits
<1>4. PairedIn(ks, vs, AnyPair)
  <2>1. <<ks[i], val>> \in AnyPair
    BY <1>1, <1>2 DEF AnyPair
  <2> HIDE DEF leaf
  <2> QED BY <1>1, <2>1, PairReplaced
<1>5. ASSUME NEW pr \in AnyPair
      PROVE  HasIn(ks, vs, pr[1], pr[2]) <=>
               IF pr[1] = key THEN pr[2] = val ELSE Has(View[p], pr[1], pr[2])
  <2>1. HasIn(ks, vs, pr[1], pr[2]) <=>
          IF pr[1] = ks[i] THEN pr[2] = val ELSE HasIn(ks, leaf.vals, pr[1], pr[2])
    <3> HIDE DEF leaf
    <3> QED BY <1>3, ReplacedHas
  <2> QED BY <1>1, <1>2, <2>1 DEF Has, HasIn
<1>6. Refilled(PairsIn(View, t), t.range[p], ks, vs) = With(PairsIn(View, t), key, val)
  <2>0. HoldsWith(ks, vs, View[p], key, val)
    BY <1>5 DEF HoldsWith
  <2> HIDE DEF leaf, ks, vs
  <2>1. p \in t.pages /\ t.level[p] = 0 /\ key \in t.range[p]
    BY <1>1
  <2> QED BY <2>0, <2>1, FilledFacts
<1> QED BY <1>4, <1>6

LEMMA LeafExtended ==
  ASSUME NEW t, Standing(t), NEW p, NEW key, LeafHolds(p, t, key), NEW val \in Int,
         NEW i, i = BinarySearch(ReadNode(p).keys, key).index + 1,
         ~BinarySearch(ReadNode(p).keys, key).found
  PROVE  LET leaf == ReadNode(p)
             ks == InsertAt(leaf.keys, i, key)
             vs == InsertAt(leaf.vals, i, val)
         IN  /\ PairedIn(ks, vs, AnyPair) /\ LeafFits(t.range[p], ks)
             /\ Len(ks) = Len(leaf.keys) + 1
             /\ Refilled(PairsIn(View, t), t.range[p], ks, vs)
                  = With(PairsIn(View, t), key, val)
<1> DEFINE leaf == ReadNode(p)
           ls == leaf.keys
           ks == InsertAt(ls, i, key)
           vs == InsertAt(leaf.vals, i, val)
           x == BinarySearch(ls, key).index
<1>1. /\ t \in Pictures /\ Tree(View, root_page_id, t, t.range)
      /\ p \in t.pages /\ t.level[p] = 0 /\ key \in t.range[p]
      /\ PairedIn(ls, leaf.vals, AnyPair) /\ LeafFits(t.range[p], ls)
      /\ i \in 1 .. Len(ls) + 1 /\ i = x + 1
      /\ \A j \in 1 .. x : ls[j] < key
      /\ \A j \in (x + 1) .. Len(ls) : key < ls[j]
      /\ \A j \in 1 .. Len(ls) : ls[j] # key
      /\ leaf \in NodesOver(AnyPair)
  BY DEF LeafHolds, Standing
<1>2. p \in Int /\ key \in Keys /\ View[p] = leaf
  BY <1>1, PictureFacts DEF View
<1>3. /\ ls \in Seq(Keys) /\ leaf.vals \in Seq(Int) /\ Len(leaf.vals) = Len(ls)
      /\ DOMAIN ls = 1 .. Len(ls)
  BY <1>1, LenProperties DEF PairedIn
<1>4. PairedIn(ks, vs, AnyPair) /\ Len(ks) = Len(ls) + 1
  <2>1. <<key, val>> \in AnyPair
    BY <1>2 DEF AnyPair
  <2> HIDE DEF leaf
  <2> QED BY <1>1, <1>2, <2>1, PairInserted
<1>5. LeafFits(t.range[p], ks)
  <2>1. x \in Int
    <3>1. BinarySearch(ls, key) \in Places(ls, key)
      BY <1>2, <1>3, BinarySearchFinds
    <3> QED BY <3>1 DEF Places
  <2> HIDE DEF x, leaf
  <2>2. i - 1 = x
    BY <1>1, <2>1
  <2>3. /\ \A j \in 1 .. (i - 1) : ls[j] < key
        /\ \A j \in i .. Len(ls) : key < ls[j]
    BY <1>1, <2>2
  <2> QED BY <1>1, <1>2, <1>3, <2>3, InsertedFits
<1>6. ASSUME NEW pr \in AnyPair
      PROVE  HasIn(ks, vs, pr[1], pr[2]) <=>
               IF pr[1] = key THEN pr[2] = val ELSE Has(View[p], pr[1], pr[2])
  <2>1. HasIn(ks, vs, pr[1], pr[2]) <=>
          (pr[1] = key /\ pr[2] = val) \/ HasIn(ls, leaf.vals, pr[1], pr[2])
    <3>1. PICK k, v : k = pr[1] /\ v = pr[2]
      OBVIOUS
    <3> HIDE DEF leaf
    <3>2. HasIn(ks, vs, k, v) <=> (k = key /\ v = val) \/ HasIn(ls, leaf.vals, k, v)
      BY <1>1, <1>2, <1>3, InsertedHas
    <3> QED BY <3>1, <3>2
  <2>2. HasIn(ls, leaf.vals, pr[1], pr[2]) => pr[1] # key
    BY <1>1, <1>3 DEF HasIn
  <2>3. HasIn(ls, leaf.vals, pr[1], pr[2]) <=> Has(View[p], pr[1], pr[2])
    BY <1>2 DEF HasIn, Has
  <2> QED BY <2>1, <2>2, <2>3
<1>7. Refilled(PairsIn(View, t), t.range[p], ks, vs) = With(PairsIn(View, t), key, val)
  <2>0. HoldsWith(ks, vs, View[p], key, val)
    BY <1>6 DEF HoldsWith
  <2> HIDE DEF leaf, ks, vs
  <2>1. p \in t.pages /\ t.level[p] = 0 /\ key \in t.range[p]
    BY <1>1
  <2> QED BY <2>0, <2>1, FilledFacts
<1> QED BY <1>4, <1>5, <1>7

-----------------------------------------------------------------------------
(* Insert *)

(* The leaf that Insert finds. *)
LEMMA InsertDescends ==
  ASSUME Holding(AnyPair), next_page_id \in Nat, NEW t, Standing(t), NEW key \in Keys,
         ReadNode(root_page_id).type # "blank"
  PROVE  LET d == Descent(key, {Leaf})
         IN  /\ LeafHolds(d.page, t, key) /\ d.page \in Int
             /\ d.path \in Seq(PathEntries) /\ PassedAbove(d.path, key, t, 0)
             /\ d.ends
<1> DEFINE d == Descent(key, {Leaf})
           h == t.level[root_page_id]
<1>1. /\ t \in Pictures /\ root_page_id \in Int /\ root_page_id \in t.pages
      /\ Tree(View, root_page_id, t, t.range) /\ h <= MaxPageId + 2
  BY StandingFacts DEF Standing, Stands
<1>2. /\ d.ends /\ d.page \in t.pages /\ t.level[d.page] = 0 /\ key \in t.range[d.page]
      /\ Len(d.path) = h /\ Passed(d.path, key, t, h)
  <2>1. Leaf \in {Leaf} /\ Internal \notin {Leaf}
    BY DEF Leaf, Internal
  <2> QED BY <1>1, <2>1, DescentInTree
<1>3. /\ d \in Outcomes
      /\ d.ends => ReadNode(d.page).type \in {Leaf}
      /\ OnTheWay(d.path, key, {Leaf})
  BY <1>1, DescentFacts
<1> HIDE DEF d
<1>4. d.path \in Seq(PathEntries) /\ d.page \in Int /\ ReadNode(d.page).type = Leaf
  BY <1>2, <1>3 DEF Outcomes
<1>5. LeafHolds(d.page, t, key)
  BY <1>2, <1>4, LeafKnown
<1>6. PassedAbove(d.path, key, t, 0)
  <2>1. ASSUME NEW i \in DOMAIN d.path, Len(d.path) + 1 - i > 0
        PROVE  /\ d.path[i].page \in t.pages
               /\ t.level[d.path[i].page] = Len(d.path) + 1 - i
               /\ key \in t.range[d.path[i].page]
               /\ d.path[i].child = ChildIndex(ReadNode(d.path[i].page), key)
    BY <1>2, <1>3 DEF Passed, OnTheWay
  <2> QED BY <1>2, <2>1 DEF PassedAbove
<1> QED BY <1>2, <1>4, <1>5, <1>6 DEF d

LEMMA BlankRoot ==
  ASSUME NEW t, Standing(t), ReadNode(root_page_id).type = "blank"
  PROVE  /\ root_page_id \in t.pages /\ t.level[root_page_id] = 0
         /\ t.range[root_page_id] = Keys /\ View[root_page_id] = Blank
<1>1. /\ t \in Pictures /\ root_page_id \in t.pages /\ root_page_id \in Int
      /\ NodeFits(View, root_page_id, t, t.range, root_page_id)
      /\ t.range[root_page_id] = Keys
  BY PictureFacts DEF Standing, Tree
<1>2. View[root_page_id] = ReadNode(root_page_id)
  BY <1>1 DEF View
<1>3. t.level[root_page_id] = 0
  BY <1>1, <1>2 DEF NodeFits, Internal
<1> QED BY <1>1, <1>2, <1>3 DEF NodeFits, Leaf

(* The first pair of all. *)
LEMMA BlankFilled ==
  ASSUME NEW t, Standing(t), ReadNode(root_page_id).type = "blank",
         NEW key \in Keys, NEW val \in Int
  PROVE  /\ PairedIn(<<key>>, <<val>>, AnyPair) /\ LeafFits(t.range[root_page_id], <<key>>)
         /\ Len(<<key>>) <= MaxKeys
         /\ Refilled(PairsIn(View, t), t.range[root_page_id], <<key>>, <<val>>)
              = With(PairsIn(View, t), key, val)
<1> DEFINE ks == <<key>>
           vs == <<val>>
<1>1. /\ root_page_id \in t.pages /\ t.level[root_page_id] = 0
      /\ t.range[root_page_id] = Keys /\ View[root_page_id] = Blank
  BY BlankRoot
<1>2. /\ ks \in Seq(Keys) /\ vs \in Seq(Int) /\ Len(ks) = 1 /\ Len(vs) = 1
      /\ DOMAIN ks = 1 .. 1 /\ ks[1] = key /\ vs[1] = val
  OBVIOUS
<1> HIDE DEF ks, vs
<1>3. PairedIn(ks, vs, AnyPair)
  <2>1. \A i \in 1 .. 1 : i = 1
    OBVIOUS
  <2>2. <<key, val>> \in AnyPair
    BY DEF AnyPair
  <2> QED BY <1>2, <2>1, <2>2 DEF PairedIn
<1>4. LeafFits(Keys, ks)
  <2>1. \A i \in 1 .. 1 : i = 1
    OBVIOUS
  <2> QED BY <1>2, <2>1 DEF LeafFits, Increasing
<1>5. HoldsWith(ks, vs, View[root_page_id], key, val)
  <2>1. ASSUME NEW pr \in AnyPair
        PROVE  HasIn(ks, vs, pr[1], pr[2]) <=>
                 IF pr[1] = key THEN pr[2] = val ELSE Has(View[root_page_id], pr[1], pr[2])
    <3>1. \A i \in 1 .. 1 : i = 1
      OBVIOUS
    <3>2. HasIn(ks, vs, pr[1], pr[2]) <=> pr[1] = key /\ pr[2] = val
      BY <1>2, <3>1 DEF HasIn
    <3>3. ~Has(View[root_page_id], pr[1], pr[2])
      BY <1>1 DEF Has, Blank
    <3> QED BY <3>2, <3>3
  <2> QED BY <2>1 DEF HoldsWith
<1>6. key \in t.range[root_page_id]
  BY <1>1
<1>7. Refilled(PairsIn(View, t), t.range[root_page_id], ks, vs) = With(PairsIn(View, t), key, val)
  BY <1>1, <1>5, <1>6, FilledFacts
<1>8. Len(ks) <= MaxKeys
  BY <1>2, OrderFacts
<1> QED BY <1>1, <1>3, <1>4, <1>7, <1>8 DEF ks, vs

(* Insert leaves a tree with the old pairs and the new one. *)
LEMMA InsertPlanEnds ==
  ASSUME Holding(AnyPair), next_page_id \in Nat, NEW t, Standing(t), NEW key \in Keys,
         NEW val \in Int
  PROVE  \E u : Final(InsertPlan(key, val), u, With(PairsIn(View, t), key, val))
<1> DEFINE d == Descent(key, {Leaf})
           leaf == ReadNode(d.page)
           sr == BinarySearch(leaf.keys, key)
           ks == InsertAt(leaf.keys, sr.index + 1, key)
           vs == InsertAt(leaf.vals, sr.index + 1, val)
           Done(e) == [Split(<<e>>, 0, 0, 0) EXCEPT !.done = TRUE]
           plan == InsertPlan(key, val)
           blank == ReadNode(root_page_id).type = "blank"
           replaced == ReplaceAt(leaf.vals, sr.index + 1, val)
           Q == With(PairsIn(View, t), key, val)
<1>1. plan =
        IF blank
        THEN Done(WriteNode(root_page_id, Leaf, <<key>>, <<val>>, NoNext))
        ELSE IF sr.found
        THEN Done(WriteNode(d.page, Leaf, leaf.keys, replaced, leaf.next))
        ELSE IF ~Overflows(Len(ks))
        THEN Done(WriteNode(d.page, Leaf, ks, vs, leaf.next))
        ELSE IF d.path = << >>
        THEN GrowRoot(SplitLeaf(d.page, ks, vs))
        ELSE Climb(d.path, SplitLeaf(d.page, ks, vs))
  BY DEF InsertPlan
<1>2. t \in Pictures /\ root_page_id \in Int
  BY StandingFacts DEF Standing
<1>3. CASE blank
  <2> DEFINE k == <<key>>
             v == <<val>>
  <2>1. /\ root_page_id \in t.pages /\ t.level[root_page_id] = 0
        /\ PairedIn(k, v, AnyPair) /\ LeafFits(t.range[root_page_id], k)
        /\ Len(k) <= MaxKeys /\ NoNext \in Int
        /\ Refilled(PairsIn(View, t), t.range[root_page_id], k, v) = Q
        /\ NextStays(View, t, root_page_id, NoNext)
    BY <1>3, BlankRoot, BlankFilled DEF NoNext, NextStays
  <2> HIDE DEF k, v, Q
  <2>2. Final([Split(<<WriteNode(root_page_id, Leaf, k, v, NoNext)>>, 0, 0, 0) EXCEPT !.done = TRUE],
              t, Refilled(PairsIn(View, t), t.range[root_page_id], k, v))
    BY <2>1, DoneEnds
  <2>3. Final(Done(WriteNode(root_page_id, Leaf, k, v, NoNext)), t, Q)
    BY <2>1, <2>2
  <2> HIDE DEF Done, plan
  <2>4. Final(plan, t, Q)
    BY <1>1, <1>3, <2>3 DEF k, v
  <2> QED BY <2>4 DEF plan, Q
<1>4. CASE ~blank
  <2> DEFINE p == d.page
             i == sr.index + 1
  <2>1. /\ LeafHolds(p, t, key) /\ p \in Int
        /\ d.path \in Seq(PathEntries) /\ PassedAbove(d.path, key, t, 0)
    BY <1>4, InsertDescends
  <2>2. /\ p \in t.pages /\ t.level[p] = 0 /\ key \in t.range[p]
        /\ leaf \in NodesOver(AnyPair) /\ leaf.type = Leaf
        /\ PairedIn(leaf.keys, leaf.vals, AnyPair) /\ LeafFits(t.range[p], leaf.keys)
    BY <2>1 DEF LeafHolds
  <2>3. leaf.next \in Int /\ Len(leaf.keys) <= MaxKeys /\ Len(leaf.keys) \in Nat
    BY <2>2, NodeFacts
  <2>6. NextStays(View, t, p, leaf.next) /\ ReadNode(p).type = Leaf
    <3>1. View[p] = leaf
      BY <2>1 DEF View
    <3> QED BY <2>2, <3>1 DEF NextStays
  <2>4. CASE sr.found
    <3>1. /\ PairedIn(leaf.keys, replaced, AnyPair)
          /\ Refilled(PairsIn(View, t), t.range[p], leaf.keys, replaced) = Q
      <4>1. PICK j : j = i
        OBVIOUS
      <4>2. j = BinarySearch(ReadNode(p).keys, key).index + 1
            /\ BinarySearch(ReadNode(p).keys, key).found
        BY <2>4, <4>1
      <4> HIDE DEF d
      <4>3. /\ PairedIn(ReadNode(p).keys, ReplaceAt(ReadNode(p).vals, j, val), AnyPair)
            /\ Refilled(PairsIn(View, t), t.range[p], ReadNode(p).keys,
                        ReplaceAt(ReadNode(p).vals, j, val))
                 = With(PairsIn(View, t), key, val)
        <5> HIDE DEF p
        <5> QED BY <2>1, <4>2, LeafUpdated
      <4> QED BY <4>1, <4>3
    <3> DEFINE lk == leaf.keys
               next == leaf.next
    <3> HIDE DEF p, replaced, Q, leaf, lk, next
    <3>2. Final([Split(<<WriteNode(p, Leaf, lk, replaced, next)>>, 0, 0, 0) EXCEPT !.done = TRUE],
                t, Refilled(PairsIn(View, t), t.range[p], lk, replaced))
      BY <2>2, <2>3, <2>6, <3>1, DoneEnds DEF lk, next
    <3>3. Final(Done(WriteNode(p, Leaf, lk, replaced, next)), t, Q)
      BY <3>1, <3>2 DEF lk
    <3> HIDE DEF Done, plan, d
    <3>4. Final(plan, t, Q)
      BY <1>1, <1>4, <2>4, <3>3 DEF lk, next, p, leaf
    <3> QED BY <3>4 DEF plan, Q
  <2>5. CASE ~sr.found
    <3>1. /\ PairedIn(ks, vs, AnyPair) /\ LeafFits(t.range[p], ks)
          /\ Len(ks) = Len(leaf.keys) + 1
          /\ Refilled(PairsIn(View, t), t.range[p], ks, vs) = Q
      <4>1. PICK j : j = i
        OBVIOUS
      <4>2. j = BinarySearch(ReadNode(p).keys, key).index + 1
            /\ ~BinarySearch(ReadNode(p).keys, key).found
        BY <2>5, <4>1
      <4> HIDE DEF d
      <4>3. /\ PairedIn(InsertAt(ReadNode(p).keys, j, key), InsertAt(ReadNode(p).vals, j, val), AnyPair)
            /\ LeafFits(t.range[p], InsertAt(ReadNode(p).keys, j, key))
            /\ Len(InsertAt(ReadNode(p).keys, j, key)) = Len(ReadNode(p).keys) + 1
            /\ Refilled(PairsIn(View, t), t.range[p], InsertAt(ReadNode(p).keys, j, key),
                        InsertAt(ReadNode(p).vals, j, val))
                 = With(PairsIn(View, t), key, val)
        <5> HIDE DEF p
        <5> QED BY <2>1, <4>2, LeafExtended
      <4> QED BY <4>1, <4>3
    <3> HIDE DEF ks, vs, Q
    <3>2. CASE ~Overflows(Len(ks))
      <4> DEFINE next == leaf.next
      <4> HIDE DEF p, leaf, next
      <4>1. Len(ks) <= MaxKeys
        BY <2>3, <3>1, <3>2, OrderFacts DEF Overflows
      <4>2. Final([Split(<<WriteNode(p, Leaf, ks, vs, next)>>, 0, 0, 0) EXCEPT !.done = TRUE],
                  t, Refilled(PairsIn(View, t), t.range[p], ks, vs))
        BY <2>2, <2>3, <2>6, <3>1, <4>1, DoneEnds DEF next
      <4>3. Final(Done(WriteNode(p, Leaf, ks, vs, next)), t, Q)
        BY <3>1, <4>2
      <4> HIDE DEF Done, plan, d
      <4>4. Final(plan, t, Q)
        BY <1>1, <1>4, <2>5, <3>2, <4>3 DEF next, p, leaf
      <4> QED BY <4>4 DEF plan, Q
    <3>3. CASE Overflows(Len(ks))
      <4> DEFINE s == SplitLeaf(p, ks, vs)
                 path == d.path
      <4>1. Len(ks) = MaxKeys + 1
        <5> HIDE DEF leaf
        <5> QED BY <2>3, <3>1, <3>3, OrderFacts DEF Overflows
      <4>2. PICK u : Pending(s, u, 0, key, path, Q)
        <5> HIDE DEF p, path, s
        <5>1. path \in Seq(PathEntries) /\ PassedAbove(path, key, t, 0)
          BY <2>1 DEF path
        <5>2. \E u : Pending(SplitLeaf(p, ks, vs), u, 0, key, path,
                             Refilled(PairsIn(View, t), t.range[p], ks, vs))
          BY <2>2, <2>6, <3>1, <4>1, <5>1, LeafSplit
        <5> QED BY <3>1, <5>2 DEF s
      <4> HIDE DEF s
      <4>3. CASE path = << >>
        <5>1. u.level[root_page_id] = 0
          BY <4>2, <4>3 DEF Pending, PassedAbove
        <5>2. \E v : Final(GrowRoot(s), v, Q)
          <6> HIDE DEF path
          <6>1. PICK l : l = 0
            OBVIOUS
          <6>2. Pending(s, u, l, key, path, Q) /\ u.level[root_page_id] = l
            BY <4>2, <5>1, <6>1
          <6> QED BY <6>2, GrowRootEnds
        <5>3. plan = GrowRoot(s)
          <6> HIDE DEF Done, plan, leaf
          <6> QED BY <1>1, <1>4, <2>5, <3>3, <4>3 DEF s
        <5> QED BY <5>2, <5>3 DEF plan, Q
      <4>4. CASE path # << >>
        <5>1. \E v : Final(Climb(path, s), v, Q)
          <6> HIDE DEF path
          <6>1. path \in Seq(PathEntries)
            BY <2>1 DEF path
          <6> QED BY <1>2, <4>2, <4>4, <6>1, ClimbEnds
        <5>2. plan = Climb(path, s)
          <6> HIDE DEF Done, plan, leaf
          <6> QED BY <1>1, <1>4, <2>5, <3>3, <4>4 DEF s
        <5> QED BY <5>1, <5>2 DEF plan, Q
      <4> QED BY <4>3, <4>4
    <3> QED BY <3>2, <3>3
  <2> QED BY <2>4, <2>5
<1> QED BY <1>3, <1>4

-----------------------------------------------------------------------------
(* From one state to the next *)

(* What is left of the pages is a tree. *)
LEMMA StandingNext ==
  ASSUME NEW t, t \in Pictures, Tree(View', root_page_id', t, t.range), Chained(View', t),
         t.pages \subseteq PageIds,
         \A p \in t.pages : p < next_page_id' /\ t.level[p] <= t.level[root_page_id'],
         t.level[root_page_id'] + RootPage < next_page_id',
         next_page_id' - 1 \in PageIds
  PROVE  Standing(t)' /\ PairsIn(View, t)' = PairsIn(View', t)
BY DEF Standing

(* The effects make a tree, and are applied. *)
LEMMA StandingAfter ==
  ASSUME NEW effects, NEW t \in Pictures, NEW root, Tree(After(effects), root, t, t.range),
         Chained(After(effects), t), Extent(effects, t, root), Fits(effects), Apply(effects), root_page_id' = root
  PROVE  Standing(t)' /\ PairsIn(View, t)' = PairsIn(After(effects), t)
<1> DEFINE V == After(effects)
           W == View'
<1>1. PagesOf(effects) \subseteq PageIds
  BY DEF PagesOf, Fits
<1>2. t.pages \subseteq PageIds
  BY <1>1 DEF Extent
<1>3. \A p \in t.pages : W[p] = V[p]
  BY <1>2, ApplyShows
<1> HIDE DEF V, W
<1>4. Tree(W, root, t, t.range) /\ PairsIn(W, t) = PairsIn(V, t) /\ Chained(W, t)
  <2>1. Tree(V, root, t, t.range) /\ Chained(V, t)
    BY DEF V
  <2> QED BY <1>3, <2>1, TreeSame, ChainSame
<1>5. next_page_id' = NewPage(effects)
  BY DEF Apply, NewPage
<1>6. /\ \A p \in t.pages : p < next_page_id' /\ t.level[p] <= t.level[root]
      /\ t.level[root] + RootPage < next_page_id'
      /\ next_page_id' - 1 \in PageIds
  BY <1>1, <1>5 DEF Extent
<1>7. Standing(t)' /\ PairsIn(View, t)' = PairsIn(View', t)
  BY <1>2, <1>4, <1>6, StandingNext DEF W
<1> QED BY <1>4, <1>7 DEF V, W

(* Find in a tree, as a fact of every state. *)
Answers ==
  Holding(AnyPair) /\ next_page_id \in Nat =>
    \A t : Standing(t) =>
      \A key \in Keys :
        /\ \A val \in Int : <<key, val>> \in PairsIn(View, t) => Finds(key, val)
        /\ (\A val \in Int : <<key, val>> \notin PairsIn(View, t)) => Finds(key, NotFound)

LEMMA AlwaysAnswers == Answers
<1> SUFFICES ASSUME Holding(AnyPair), next_page_id \in Nat, NEW t, Standing(t), NEW key \in Keys
             PROVE  /\ \A val \in Int : <<key, val>> \in PairsIn(View, t) => Finds(key, val)
                    /\ (\A val \in Int : <<key, val>> \notin PairsIn(View, t)) => Finds(key, NotFound)
  BY DEF Answers
<1>1. Stands(t) /\ root_page_id \in Int
  BY StandingFacts
<1> QED BY <1>1, FindShows

LEMMA NextAnswers == TRUE => Answers'
BY AlwaysAnswers, PTL

(* Until Save overwrites one, a value is a natural number. *)
LEMMA PairsAreInputs ==
  ASSUME Holding(Inputs), NEW t, Standing(t)
  PROVE  PairsIn(View, t) \subseteq Inputs /\ Inputs \subseteq Keys \X Nat
<1>1. ASSUME NEW pr \in PairsIn(View, t) PROVE pr \in Inputs
  <2>1. pr \in AnyPair
    BY DEF PairsIn
  <2>2. PICK q \in t.pages : t.level[q] = 0 /\ Has(View[q], pr[1], pr[2])
    BY DEF PairsIn
  <2>3. t \in Pictures /\ q \in Int /\ Tree(View, root_page_id, t, t.range)
    BY PictureFacts DEF Standing
  <2>4. View[q].type = Leaf
    BY <2>2, <2>3, HasInRange
  <2>5. View[q] \in NodesOver(Inputs)
    BY <2>3, ViewType
  <2>6. \A i \in DOMAIN View[q].keys : <<View[q].keys[i], View[q].vals[i]>> \in Inputs
    BY <2>4, <2>5 DEF NodesOver
  <2>7. pr = <<pr[1], pr[2]>>
    BY <2>1 DEF AnyPair
  <2> QED BY <2>2, <2>6, <2>7 DEF Has
<1> QED BY <1>1, BTreeAssumption

(* Whether Insert counts the key: there was no pair with it. *)
LEMMA AddsKeyShows ==
  ASSUME Holding(AnyPair), next_page_id \in Nat, NEW t, Standing(t), NEW key \in Keys
  PROVE  AddsKey(key) <=> \A val \in Int : <<key, val>> \notin PairsIn(View, t)
<1>1. /\ t \in Pictures /\ Tree(View, root_page_id, t, t.range)
  BY DEF Standing
<1>2. CASE ReadNode(root_page_id).type = "blank"
  <2>1. AddsKey(key)
    BY <1>2 DEF AddsKey
  <2>2. ASSUME NEW val \in Int PROVE <<key, val>> \notin PairsIn(View, t)
    <3>1. /\ root_page_id \in t.pages /\ t.level[root_page_id] = 0
          /\ t.range[root_page_id] = Keys /\ View[root_page_id] = Blank
      BY <1>2, BlankRoot
    <3>2. PICK pr \in AnyPair : pr = <<key, val>>
      BY DEF AnyPair
    <3>3. pr[1] \in t.range[root_page_id]
      BY <3>1, <3>2
    <3>4. pr \in PairsIn(View, t) <=> Has(View[root_page_id], pr[1], pr[2])
      BY <1>1, <3>1, <3>3, PairsAt
    <3> QED BY <3>1, <3>2, <3>4 DEF Has, Blank
  <2> QED BY <2>1, <2>2
<1>3. CASE ReadNode(root_page_id).type # "blank"
  <2> DEFINE p == Descent(key, {Leaf}).page
             leaf == ReadNode(p)
             sr == BinarySearch(leaf.keys, key)
  <2>1. AddsKey(key) <=> ~sr.found
    BY <1>3 DEF AddsKey
  <2>2. LeafHolds(p, t, key) /\ p \in Int
    BY <1>3, InsertDescends
  <2> HIDE DEF p
  <2>3. /\ p \in t.pages /\ t.level[p] = 0 /\ key \in t.range[p]
        /\ PairedIn(leaf.keys, leaf.vals, AnyPair)
        /\ sr.found => sr.index + 1 \in 1 .. Len(leaf.keys) /\ leaf.keys[sr.index + 1] = key
        /\ ~sr.found => \A j \in 1 .. Len(leaf.keys) : leaf.keys[j] # key
    BY <2>2 DEF LeafHolds
  <2>4. /\ DOMAIN leaf.keys = 1 .. Len(leaf.keys)
        /\ \A j \in 1 .. Len(leaf.keys) : leaf.vals[j] \in Int
    BY <2>3, LenProperties, ElementOfSeq DEF PairedIn
  <2>5. View[p] = leaf
    BY <2>2 DEF View
  <2>6. ASSUME NEW val \in Int
        PROVE  <<key, val>> \in PairsIn(View, t) <=> Has(leaf, key, val)
    <3>1. PICK pr \in AnyPair : pr = <<key, val>>
      BY DEF AnyPair
    <3>2. pr[1] \in t.range[p]
      BY <2>3, <3>1
    <3>3. pr \in PairsIn(View, t) <=> Has(View[p], pr[1], pr[2])
      BY <1>1, <2>3, <3>2, PairsAt
    <3> QED BY <2>5, <3>1, <3>3
  <2> HIDE DEF leaf
  <2>7. CASE sr.found
    <3>1. PICK j \in 1 .. Len(leaf.keys) : leaf.keys[j] = key
      BY <2>3, <2>7
    <3>2. leaf.vals[j] \in Int /\ Has(leaf, key, leaf.vals[j])
      BY <2>4, <3>1 DEF Has
    <3> QED BY <2>1, <2>6, <2>7, <3>2
  <2>8. CASE ~sr.found
    <3>1. \A val \in Int : ~Has(leaf, key, val)
      BY <2>3, <2>4, <2>8 DEF Has
    <3> QED BY <2>1, <2>6, <2>8, <3>1
  <2> QED BY <2>7, <2>8
<1> QED BY <1>2, <1>3

-----------------------------------------------------------------------------
(* The map of the pairs *)

(* Find before and after a step that leaves the pairs Q. *)
LEMMA FindBecomes ==
  ASSUME Holding(Inputs), Holding(AnyPair), next_page_id \in Nat, NEW t, Standing(t),
         Holding(AnyPair)', next_page_id' \in Nat, NEW u, Standing(u)',
         NEW key \in Keys, NEW Q, PairsIn(View, u)' = Q
  PROVE  /\ (\A val \in Int : <<key, val>> \in PairsIn(View, t) <=> <<key, val>> \in Q)
              => Find(key)' = Find(key)
         /\ \A val \in Int : <<key, val>> \in Q => Find(key)' = val
         /\ (\A val \in Int : <<key, val>> \notin Q) => Find(key)' = NotFound
         /\ Find(key) = NotFound <=> \A val \in Int : <<key, val>> \notin PairsIn(View, t)
<1>1. /\ \A val \in Int : <<key, val>> \in PairsIn(View, t) => Find(key) = val
      /\ (\A val \in Int : <<key, val>> \notin PairsIn(View, t)) => Find(key) = NotFound
  BY AlwaysAnswers DEF Answers, Finds
<1>2. /\ \A val \in Int : <<key, val>> \in Q => Find(key)' = val
      /\ (\A val \in Int : <<key, val>> \notin Q) => Find(key)' = NotFound
  BY NextAnswers DEF Answers, Finds
<1>3. \A val \in Int : <<key, val>> \in PairsIn(View, t) => val # NotFound
  <2>1. \A val \in Int : <<key, val>> \in PairsIn(View, t) => val \in Nat
    BY PairsAreInputs
  <2>2. \A val \in Nat : val # NotFound
    BY DEF NotFound
  <2> QED BY <2>1, <2>2
<1>4. Find(key) = NotFound <=> \A val \in Int : <<key, val>> \notin PairsIn(View, t)
  BY <1>1, <1>3
<1>5. ASSUME \A val \in Int : <<key, val>> \in PairsIn(View, t) <=> <<key, val>> \in Q
      PROVE  Find(key)' = Find(key)
  BY <1>1, <1>2, <1>5
<1> QED BY <1>2, <1>4, <1>5

LEMMA MapSame ==
  ASSUME Holding(Inputs), Holding(AnyPair), next_page_id \in Nat, NEW t, Standing(t),
         Holding(AnyPair)', next_page_id' \in Nat, NEW u, Standing(u)',
         PairsIn(View, u)' = PairsIn(View, t), count' = count
  PROVE  UNCHANGED Map!mapVars
<1>1. \A key \in Keys : Find(key)' = Find(key)
  <2> DEFINE Q == PairsIn(View, t)
  <2>1. SUFFICES ASSUME NEW key \in Keys PROVE Find(key)' = Find(key)
    OBVIOUS
  <2>2. PairsIn(View, u)' = Q
    OBVIOUS
  <2>3. \A val \in Int : <<key, val>> \in PairsIn(View, t) <=> <<key, val>> \in Q
    OBVIOUS
  <2> HIDE DEF Q
  <2> QED BY <2>2, <2>3, FindBecomes
<1> QED BY <1>1 DEF Map!mapVars

LEMMA MapInserts ==
  ASSUME Holding(Inputs), Holding(AnyPair), next_page_id \in Nat, NEW t, Standing(t),
         Holding(AnyPair)', next_page_id' \in Nat, NEW u, Standing(u)',
         NEW key \in Keys, NEW val \in Int,
         PairsIn(View, u)' = With(PairsIn(View, t), key, val), count \in Int,
         count' = count + (IF \A v \in Int : <<key, v>> \notin PairsIn(View, t) THEN 1 ELSE 0)
  PROVE  Map!Insert(key, val)
<1> DEFINE Q == With(PairsIn(View, t), key, val)
<1>1. PairsIn(View, u)' = Q
  OBVIOUS
<1>2. Find(key)' = val
  <2>1. <<key, val>> \in Q
    BY DEF With
  <2> HIDE DEF Q
  <2> QED BY <1>1, <2>1, FindBecomes
<1>3. ASSUME NEW k \in Keys, k # key PROVE Find(k)' = Find(k)
  <2>1. \A v \in Int : <<k, v>> \in PairsIn(View, t) <=> <<k, v>> \in Q
    BY <1>3 DEF With
  <2> HIDE DEF Q
  <2> QED BY <1>1, <2>1, FindBecomes
<1>4. Find(key) = NotFound <=> \A v \in Int : <<key, v>> \notin PairsIn(View, t)
  <2> HIDE DEF Q
  <2> QED BY <1>1, FindBecomes
<1> DEFINE F == [k \in Keys |-> Find(k)]
           G == [k \in Keys |-> Find(k)']
<1>5. G = [F EXCEPT ![key] = val]
  BY <1>2, <1>3
<1>6. F[key] = Find(key)
  OBVIOUS
<1>7. count' = count + (IF F[key] = NotFound THEN 1 ELSE 0)
  BY <1>4, <1>6
<1> QED BY <1>5, <1>7 DEF Map!Insert

LEMMA MapRemoves ==
  ASSUME Holding(Inputs), Holding(AnyPair), next_page_id \in Nat, NEW t, Standing(t),
         Holding(AnyPair)', next_page_id' \in Nat, NEW u, Standing(u)',
         NEW key \in Keys, PairsIn(View, u)' = Without(PairsIn(View, t), key),
         Find(key) # NotFound, count' = count - 1
  PROVE  Map!Remove(key)
<1> DEFINE Q == Without(PairsIn(View, t), key)
<1>1. PairsIn(View, u)' = Q
  OBVIOUS
<1>2. Find(key)' = NotFound
  <2>1. \A v \in Int : <<key, v>> \notin Q
    BY DEF Without
  <2> HIDE DEF Q
  <2> QED BY <1>1, <2>1, FindBecomes
<1>3. ASSUME NEW k \in Keys, k # key PROVE Find(k)' = Find(k)
  <2>1. \A v \in Int : <<k, v>> \in PairsIn(View, t) <=> <<k, v>> \in Q
    BY <1>3 DEF Without
  <2> HIDE DEF Q
  <2> QED BY <1>1, <2>1, FindBecomes
<1> DEFINE F == [k \in Keys |-> Find(k)]
           G == [k \in Keys |-> Find(k)']
<1>4. G = [F EXCEPT ![key] = NotFound]
  BY <1>2, <1>3
<1>5. F[key] = Find(key)
  OBVIOUS
<1> QED BY <1>4, <1>5 DEF Map!Remove

-----------------------------------------------------------------------------
(* Every step is one of the map, or shows nothing *)

(* What a state without hazards is sure to have. *)
Sound ==
  /\ Holding(Inputs) /\ Holding(AnyPair)
  /\ next_page_id \in Nat /\ count \in Int /\ root_page_id \in Int

(* Without hazards the pages are a tree, and what Save left is what Load needs. *)
Ordered ==
  hazards = {} =>
    /\ \E t : Standing(t)
    /\ saved /\ root_page_id = RootPage => tail = <<RootPage, count>>

LEMMA Reordered ==
  ASSUME NEW u, Standing(u)', saved' = FALSE
  PROVE  Ordered'
BY DEF Ordered

LEMMA InsertFollows ==
  ASSUME Sound, Sound', NEW t, Standing(t), NEW key \in Keys, NEW val \in Int,
         Insert(key, val)
  PROVE  Ordered' /\ Map!Insert(key, val)
<1> DEFINE plan == InsertPlan(key, val)
           effects == plan.effects
           top == plan.root
           Q == With(PairsIn(View, t), key, val)
<1>1. PICK u : Final(plan, u, Q)
  BY InsertPlanEnds DEF Sound
<1>2. Fits(effects) /\ Apply(effects) /\ root_page_id' = top /\ saved' = FALSE
  BY DEF Insert
<1>3. count' = count + (IF AddsKey(key) THEN 1 ELSE 0)
  BY DEF Insert
<1>4. AddsKey(key) <=> \A v \in Int : <<key, v>> \notin PairsIn(View, t)
  BY AddsKeyShows DEF Sound
<1>5. count' = count + (IF \A v \in Int : <<key, v>> \notin PairsIn(View, t) THEN 1 ELSE 0)
  BY <1>3, <1>4
<1> HIDE DEF plan
<1>6. /\ u \in Pictures /\ Tree(After(effects), top, u, u.range)
      /\ Extent(effects, u, top) /\ PairsIn(After(effects), u) = Q
      /\ Chained(After(effects), u)
  BY <1>1 DEF Final
<1> HIDE DEF effects, top
<1>7. Standing(u)' /\ PairsIn(View, u)' = Q
  BY <1>2, <1>6, StandingAfter
<1>8. Ordered'
  BY <1>2, <1>7, Reordered
<1>9. Map!Insert(key, val)
  BY <1>5, <1>7, MapInserts DEF Sound
<1> QED BY <1>8, <1>9

(* A split that failed after its first write has filled a page of no tree. *)
LEMMA InsertFailsFollows ==
  ASSUME Sound, Sound', NEW t, Standing(t), NEW key \in Keys, NEW val \in Int,
         hazards' = {}, InsertFails(key, val)
  PROVE  Ordered' /\ UNCHANGED Map!mapVars
<1> DEFINE plan == InsertPlan(key, val)
           effects == plan.effects
           e == effects[1]
<1>1. \E u : Final(plan, u, With(PairsIn(View, t), key, val))
  BY InsertPlanEnds DEF Sound
<1>2. PICK n \in 1 .. (Len(effects) - 1) :
        /\ Apply(SubSeq(effects, 1, n))
        /\ hazards' = hazards \cup (IF n = 1 THEN {} ELSE {"half_split"})
  BY DEF InsertFails
<1>3. /\ Fits(effects) /\ saved' = FALSE /\ root_page_id' = root_page_id /\ count' = count
  BY DEF InsertFails
<1>4. n = 1
  BY <1>2
<1> HIDE DEF plan
<1>5. effects \in Seq(Effects(AnyPair)) /\ (Len(effects) > 1 => Opens(effects))
  BY <1>1 DEF Final, Splits
<1> HIDE DEF effects
<1>6. /\ Len(effects) \in Nat /\ Len(effects) > 1 /\ DOMAIN effects = 1 .. Len(effects)
      /\ 1 \in DOMAIN effects
  BY <1>2, <1>4, <1>5, LenProperties
<1>7. e \in Effects(AnyPair) /\ e.page = next_page_id /\ e.page \in PageIds
  BY <1>3, <1>5, <1>6, ElementOfSeq DEF Opens, Fits
<1>8. SubSeq(effects, 1, 1) = <<e>>
  <2> DEFINE s == SubSeq(effects, 1, 1)
  <2>1. 1 \in 1 .. Len(effects) + 1 /\ 1 \in (1 - 1) .. Len(effects)
    BY <1>6
  <2>2. s \in Seq(Effects(AnyPair)) /\ Len(s) = 1
    BY <1>5, <2>1, CutSeq
  <2>3. s[1] = e
    OBVIOUS
  <2> HIDE DEF s, e
  <2>4. s = <<e>>
    BY <2>2, <2>3
  <2> QED BY <2>4 DEF s
<1> HIDE DEF e
<1>9. Apply(<<e>>)
  BY <1>2, <1>4, <1>8
<1> DEFINE one == <<e>>
<1>10. /\ After(one) = [View EXCEPT ![e.page] = e.node]
       /\ NewPages(one) = IF e.new THEN 1 ELSE 0
       /\ PagesOf(one) = {e.page}
  BY <1>7, AfterOne
<1>11. Fits(one)
  BY <1>7 DEF Fits
<1>12. Apply(one)
  BY <1>9
<1> HIDE DEF one
<1>13. t \in Pictures /\ Tree(View, root_page_id, t, t.range) /\ Chained(View, t)
  BY DEF Standing
<1>14. ASSUME NEW p \in t.pages PROVE After(one)[p] = View[p]
  <2>1. p < next_page_id /\ p \in Int
    BY <1>13, PictureFacts DEF Standing
  <2>2. p # e.page
    BY <1>7, <2>1 DEF Sound
  <2> QED BY <1>10, <2>1, <2>2 DEF View
<1>15. /\ Tree(After(one), root_page_id, t, t.range) /\ Chained(After(one), t)
       /\ PairsIn(After(one), t) = PairsIn(View, t)
  BY <1>13, <1>14, TreeSame, ChainSame
<1>16. Extent(one, t, root_page_id)
  <2> DEFINE m == next_page_id
             k == NewPage(one)
             h == t.level[root_page_id]
  <2>1. k \in {m, m + 1} /\ m \in Nat /\ RootPage \in Nat
    BY <1>10, BTreeAssumption DEF NewPage, Sound
  <2>2. h \in Nat /\ h + RootPage < m
    BY <1>13, PictureFacts DEF Standing, Tree
  <2>3. \A p \in t.pages : p \in Int /\ p < m /\ t.level[p] <= h
    BY <1>13, PictureFacts DEF Standing
  <2>4. k - 1 \in PageIds
    <3>1. (m + 1) - 1 = m /\ m \in PageIds /\ m - 1 \in PageIds
      BY <1>7, <2>1 DEF Standing
    <3> HIDE DEF m, k
    <3> QED BY <2>1, <3>1
  <2>5. \A p \in t.pages : p < k
    <3> HIDE DEF m, k, h
    <3> QED BY <2>1, <2>3
  <2>6. h + RootPage < k
    <3> HIDE DEF m, k, h
    <3> QED BY <2>1, <2>2
  <2>7. t.pages \subseteq PageIds
    BY DEF Standing
  <2> QED BY <2>3, <2>4, <2>5, <2>6, <2>7 DEF Extent
<1>17. Standing(t)' /\ PairsIn(View, t)' = PairsIn(View, t)
  BY <1>3, <1>11, <1>12, <1>13, <1>15, <1>16, StandingAfter
<1>18. Ordered'
  BY <1>3, <1>17, Reordered
<1>19. UNCHANGED Map!mapVars
  BY <1>3, <1>17, MapSame DEF Sound
<1> QED BY <1>18, <1>19

(* The failure that makes the root a leaf does no harm to a root that was blank. *)
LEMMA InsertOverRootFollows ==
  ASSUME Sound, Sound', NEW t, Standing(t), NEW key \in Keys, NEW val \in Int,
         hazards' = {}, InsertOverRoot(key, val)
  PROVE  Ordered' /\ Map!Insert(key, val)
<1> DEFINE ks == <<key>>
           vs == <<val>>
           e == WriteNode(root_page_id, Leaf, ks, vs, NoNext)
           one == <<e>>
           Q == With(PairsIn(View, t), key, val)
<1>1. ReadNode(root_page_id).type = "blank"
  BY DEF InsertOverRoot
<1>2. /\ Apply(one) /\ saved' = FALSE /\ root_page_id' = root_page_id /\ count' = count + 1
      /\ root_page_id \in PageIds
  BY DEF InsertOverRoot
<1>3. /\ root_page_id \in t.pages /\ t.level[root_page_id] = 0
  BY <1>1, BlankRoot
<1>4. /\ PairedIn(ks, vs, AnyPair) /\ LeafFits(t.range[root_page_id], ks)
      /\ Len(ks) <= MaxKeys
      /\ Refilled(PairsIn(View, t), t.range[root_page_id], ks, vs) = Q
      /\ NextStays(View, t, root_page_id, NoNext)
  BY <1>1, BlankRoot, BlankFilled DEF NextStays
<1>5. AddsKey(key)
  BY <1>1 DEF AddsKey
<1>6. \A v \in Int : <<key, v>> \notin PairsIn(View, t)
  BY <1>5, AddsKeyShows DEF Sound
<1>7. count' = count + (IF \A v \in Int : <<key, v>> \notin PairsIn(View, t) THEN 1 ELSE 0)
  BY <1>2, <1>6
<1>8. Holding(AnyPair) /\ next_page_id \in Nat /\ NoNext \in Int
  BY DEF Sound, NoNext
<1> HIDE DEF ks, vs, Q
<1>9. /\ e.page = root_page_id
      /\ Tree(After(one), root_page_id, t, t.range) /\ Chained(After(one), t)
      /\ Extent(one, t, root_page_id)
      /\ PairsIn(After(one), t) = Q
  BY <1>3, <1>4, <1>8, LeafWritten
<1> HIDE DEF e
<1>10. Fits(one)
  BY <1>2, <1>9 DEF Fits
<1> HIDE DEF one
<1>11. t \in Pictures
  BY DEF Standing
<1>12. Standing(t)' /\ PairsIn(View, t)' = Q
  BY <1>2, <1>9, <1>10, <1>11, StandingAfter
<1>13. Ordered'
  BY <1>2, <1>12, Reordered
<1>14. PairsIn(View, t)' = With(PairsIn(View, t), key, val)
  BY <1>12 DEF Q
<1>15. Map!Insert(key, val)
  BY <1>7, <1>12, <1>14, MapInserts DEF Sound
<1> QED BY <1>13, <1>15

LEMMA EmptiedFacts ==
  ASSUME NEW t, Standing(t), NEW p \in t.pages, t.level[p] = 0, NEW key \in t.range[p],
         NEW ks, NEW vs, HoldsWithout(ks, vs, View[p], key)
  PROVE  Refilled(PairsIn(View, t), t.range[p], ks, vs) = Without(PairsIn(View, t), key)
<1> DEFINE Q == PairsIn(View, t)
           R == t.range[p]
<1>0. t \in Pictures /\ Tree(View, root_page_id, t, t.range)
  BY DEF Standing
<1>1. Q \subseteq AnyPair
  BY DEF PairsIn
<1>2. \A pr \in AnyPair : pr[1] \in R => (pr \in Q <=> Has(View[p], pr[1], pr[2]))
  BY <1>0, PairsAt
<1>3. \A pr \in AnyPair : Has(View[p], pr[1], pr[2]) => pr[1] \in R
  BY <1>0, HasInRange
<1>4. key \in R
  OBVIOUS
<1> HIDE DEF Q, R
<1>6. ASSUME NEW pr \in AnyPair
      PROVE  pr \in Refilled(Q, R, ks, vs) <=> pr \in Without(Q, key)
  BY <1>2, <1>3, <1>4 DEF Refilled, Without, HoldsWithout
<1>7. Refilled(Q, R, ks, vs) \subseteq AnyPair /\ Without(Q, key) \subseteq AnyPair
  BY <1>1 DEF Refilled, Without
<1> QED BY <1>6, <1>7 DEF Q, R

LEMMA RemoveFromLeafFollows ==
  ASSUME Shape, Sound, Sound', NEW t, Standing(t), NEW key \in Keys, RemoveFromLeaf(key)
  PROVE  Ordered' /\ Map!Remove(key)
<1> DEFINE p == Lookup(key).page
           leaf == ReadNode(p)
           lk == leaf.keys
           lv == leaf.vals
           next == leaf.next
           at == BinarySearch(lk, key).index + 1
           Q == Without(PairsIn(View, t), key)
<1>1. /\ Apply(<<WriteNode(p, Leaf, RemoveAt(lk, at), RemoveAt(lv, at), next)>>)
      /\ count' = count - 1 /\ saved' = FALSE /\ root_page_id' = root_page_id
      /\ Removable(key)
  BY DEF RemoveFromLeaf
<1>2. leaf.type = Leaf /\ at \in 1 .. Len(lk) /\ lk[at] = key /\ Find(key) # NotFound
  BY <1>1, RemovableFacts DEF Removable
<1>3. p \in t.pages /\ t.level[p] = 0 /\ key \in t.range[p]
  BY StandingFacts, SearchEndsAt DEF Sound
<1>4. LeafHolds(p, t, key)
  <2> HIDE DEF p
  <2> QED BY <1>2, <1>3, LeafKnown DEF Sound
<1>5. /\ leaf \in NodesOver(AnyPair) /\ PairedIn(lk, lv, AnyPair) /\ LeafFits(t.range[p], lk)
  BY <1>4 DEF LeafHolds
<1>6. next \in Int /\ Len(lk) \in Nat /\ Len(lk) <= MaxKeys /\ DOMAIN lk = 1 .. Len(lk)
  BY <1>5, NodeFacts
<1>7. View[p] = leaf /\ t \in Pictures /\ Tree(View, root_page_id, t, t.range) /\ p \in PageIds
  BY <1>3, PictureFacts DEF View, Standing
<1>8. PICK i \in 1 .. Len(lk) : i = at
  BY <1>2
<1>9. View[p].keys = lk /\ View[p].vals = lv
  BY <1>7
<1>22. NextStays(View, t, p, next)
  BY <1>2, <1>7 DEF NextStays
<1> HIDE DEF p, leaf, lk, lv, next, at, Q
<1> DEFINE ks == RemoveAt(lk, i)
           vs == RemoveAt(lv, i)
<1>10. PairedIn(ks, vs, AnyPair) /\ Len(ks) <= MaxKeys
  <2>1. PairedIn(ks, vs, AnyPair) /\ Len(ks) = Len(lk) - 1
    BY <1>5, PairRemoved
  <2> HIDE DEF ks
  <2> QED BY <1>6, <2>1, OrderFacts
<1>11. lk \in Seq(Keys) /\ lv \in Seq(Int) /\ Len(lv) = Len(lk) /\ i \in DOMAIN lk
  BY <1>5, <1>6, <1>8 DEF PairedIn
<1>12. LeafFits(t.range[p], ks)
  BY <1>5, <1>11, RemovedHas
<1>13. HoldsWithout(ks, vs, View[p], key)
  <2>1. ASSUME NEW pr \in AnyPair
        PROVE  HasIn(ks, vs, pr[1], pr[2]) <=> pr[1] # key /\ Has(View[p], pr[1], pr[2])
    <3>1. PICK k, v : k = pr[1] /\ v = pr[2]
      OBVIOUS
    <3>2. HasIn(ks, vs, k, v) <=> k # lk[i] /\ HasIn(lk, lv, k, v)
      BY <1>5, <1>11, RemovedHas
    <3>3. HasIn(lk, lv, k, v) <=> Has(View[p], k, v)
      BY <1>9 DEF HasIn, Has
    <3> QED BY <1>2, <1>8, <3>1, <3>2, <3>3
  <2> QED BY <2>1 DEF HoldsWithout
<1> DEFINE e == WriteNode(p, Leaf, ks, vs, next)
           one == <<e>>
<1>14. Apply(one)
  BY <1>1, <1>8
<1> HIDE DEF ks, vs
<1>15. Refilled(PairsIn(View, t), t.range[p], ks, vs) = Q
  BY <1>3, <1>13, EmptiedFacts DEF Q
<1>150. Holding(AnyPair) /\ next_page_id \in Nat
  BY DEF Sound
<1>151. next \in Int
  BY <1>6
<1>16. /\ e.page = p
       /\ Tree(After(one), root_page_id, t, t.range) /\ Chained(After(one), t)
       /\ Extent(one, t, root_page_id)
       /\ PairsIn(After(one), t) = Q
  BY <1>3, <1>10, <1>12, <1>15, <1>22, <1>150, <1>151, LeafWritten
<1> HIDE DEF e
<1>17. Fits(one)
  BY <1>7, <1>16 DEF Fits
<1> HIDE DEF one
<1>18. Standing(t)' /\ PairsIn(View, t)' = Q
  BY <1>1, <1>7, <1>14, <1>16, <1>17, StandingAfter
<1>19. Ordered'
  BY <1>1, <1>18, Reordered
<1>20. PairsIn(View, t)' = Without(PairsIn(View, t), key)
  BY <1>18 DEF Q
<1>21. Map!Remove(key)
  BY <1>1, <1>2, <1>18, <1>20, MapRemoves DEF Sound
<1> QED BY <1>19, <1>21

(* The root over two leaves divides the keys between them. *)
LEMMA TwoLeaves ==
  ASSUME Holding(AnyPair), NEW t, Standing(t), t.level[root_page_id] = 1,
         Len(ReadNode(root_page_id).keys) = 1
  PROVE  LET next == ReadNode(root_page_id).next
         IN  /\ next \in t.pages /\ t.level[next] = 0 /\ t.range[next] # {}
             /\ \E left \in t.pages :
                  /\ t.level[left] = 0
                  /\ \A k \in Keys : k \in t.range[left] \cup t.range[next]
                  /\ \A x \in t.range[left], y \in t.range[next] : x < y
<1> DEFINE node == ReadNode(root_page_id)
           ks == node.keys
           cs == Children(node)
           next == node.next
<1>1. /\ t \in Pictures /\ root_page_id \in t.pages /\ root_page_id \in Int
      /\ NodeFits(View, root_page_id, t, t.range, root_page_id)
      /\ t.range[root_page_id] = Keys
  BY PictureFacts DEF Standing, Tree
<1>2. View[root_page_id] = node /\ node \in NodesOver(AnyPair)
  BY <1>1, ReadNodeType DEF View
<1>3. Divides(Keys, 1 - 1, ks, cs, t, t.range)
  BY <1>1, <1>2 DEF NodeFits
<1>4. ks \in Seq(Keys) /\ node.vals \in Seq(Int) /\ Len(node.vals) = 1 /\ next \in Int
  BY <1>2, NodeFacts
<1>5. cs[2] = next
  <2> DEFINE vals == node.vals
  <2>1. vals \in Seq(Int) /\ Len(vals) = 1 /\ next \in Int
    BY <1>4
  <2> HIDE DEF vals, next
  <2> DEFINE c == Append(vals, next)
  <2>2. c[Len(vals) + 1] = next
    BY <2>1, AppendProperties
  <2>3. cs = c
    BY DEF Children, vals, next
  <2> HIDE DEF c
  <2>4. Len(vals) + 1 = 2
    BY <2>1
  <2>5. c[2] = next
    BY <2>2, <2>4
  <2> QED BY <2>3, <2>5 DEF next
<1> HIDE DEF cs, node, ks
<1>6. Len(ks) = 1
  BY DEF ks, node
<1>7. /\ 1 \in 1 .. Len(ks) + 1 /\ 2 \in 1 .. Len(ks) + 1 /\ 1 - 1 = 0
  BY <1>6
<1>8. /\ cs[1] \in t.pages /\ t.level[cs[1]] = 0 /\ t.range[cs[1]] = Slot(Keys, ks, 1)
      /\ cs[2] \in t.pages /\ t.level[cs[2]] = 0 /\ t.range[cs[2]] = Slot(Keys, ks, 2)
      /\ Slot(Keys, ks, 2) # {}
  BY <1>3, <1>7 DEF Divides
<1>10. ks[1] \in Int
  <2>1. 1 \in 1 .. Len(ks) /\ ks \in Seq(Keys)
    BY <1>4, <1>6
  <2>2. ks[1] \in Keys
    BY <2>1, ElementOfSeq
  <2> QED BY <2>2, OrderFacts
<1>9. ASSUME NEW k \in Keys PROVE k \in Slot(Keys, ks, 1) \/ k \in Slot(Keys, ks, 2)
  <2>1. ks[1] <= k \/ k < ks[1]
    BY <1>10, OrderFacts
  <2> QED BY <1>6, <2>1 DEF Slot
<1>11. ASSUME NEW x \in Slot(Keys, ks, 1), NEW y \in Slot(Keys, ks, 2) PROVE x < y
  <2>1. x \in Keys /\ y \in Keys /\ x < ks[1] /\ ks[1] <= y
    BY <1>6 DEF Slot
  <2>2. x \in Int /\ y \in Int
    BY <2>1, OrderFacts
  <2> QED BY <1>10, <2>1, <2>2
<1> QED BY <1>5, <1>8, <1>9, <1>11 DEF node, next

(* The root of two leaves goes, and the right one is the whole tree. *)
LEMMA RemoveRootLevelFollows ==
  ASSUME Shape, Sound, Sound', NEW t, Standing(t), NEW key \in Keys, hazards' = {},
         RemoveRootLevel(key)
  PROVE  Ordered' /\ Map!Remove(key)
<1> DEFINE d == Lookup(key)
           p == d.page
           path == d.path
           leaf == ReadNode(p)
           at == BinarySearch(leaf.keys, key).index + 1
           Q == Without(PairsIn(View, t), key)
<1>1. /\ Removable(key) /\ Len(path) = 1 /\ Len(leaf.keys) = 1
      /\ Len(ReadNode(Parent(key)).keys) = 1
      /\ root_page_id' = ReadNode(Parent(key)).next
      /\ count' = count - 1 /\ saved' = FALSE /\ pages' = pages /\ next_page_id' = next_page_id
      /\ p # ReadNode(Parent(key)).next
  BY DEF RemoveRootLevel, Empties
<1>2. /\ at \in 1 .. Len(leaf.keys) /\ leaf.keys[at] = key /\ Find(key) # NotFound
      /\ leaf.type = Leaf
  BY <1>1, RemovableFacts DEF Removable
<1>3. /\ p \in t.pages /\ t.level[p] = 0 /\ key \in t.range[p]
  BY StandingFacts, SearchEndsAt DEF Sound
<1>4. /\ t \in Pictures /\ Tree(View, root_page_id, t, t.range)
      /\ root_page_id \in t.pages /\ root_page_id \in Int
      /\ t.level[root_page_id] <= MaxPageId + 2
      /\ Disjoint(t) /\ t.range[root_page_id] = Keys /\ Chained(View, t)
  BY StandingFacts DEF Standing, Stands, Sound, Tree
<1>5. /\ t.level[root_page_id] = 1 /\ Parent(key) = root_page_id
  <2> DEFINE h == t.level[root_page_id]
             stop == {Leaf, "blank"}
  <2>1. Leaf \in stop /\ Internal \notin stop /\ "blank" \in stop
    BY DEF Leaf, Internal
  <2>2. d = Descent(key, stop)
    BY DEF Lookup
  <2> HIDE DEF d, stop
  <2>3. Len(path) = h /\ Passed(path, key, t, h)
    BY <1>4, <2>1, <2>2, DescentInTree DEF Sound
  <2>4. path \in Seq(PathEntries)
    <3>1. d \in Outcomes
      BY <2>2, DescentFacts DEF Sound
    <3> QED BY <3>1 DEF Outcomes
  <2>5. 1 \in DOMAIN path
    BY <1>1, <2>4, LenProperties
  <2> DEFINE q == path[1].page
  <2>6. q \in t.pages /\ t.level[q] = h + 1 - 1 /\ key \in t.range[q]
    BY <2>3, <2>5 DEF Passed
  <2>7. h = 1
    BY <1>1, <2>3
  <2>8. t.level[q] = t.level[root_page_id] /\ key \in t.range[root_page_id]
    BY <1>4, <2>6, <2>7
  <2>9. Parent(key) = q
    BY <1>1 DEF Parent, Last, d
  <2> HIDE DEF q
  <2>10. q = root_page_id
    BY <1>4, <2>6, <2>8, SamePage
  <2> QED BY <2>7, <2>9, <2>10
<1> DEFINE next == ReadNode(root_page_id).next
<1>6. root_page_id' = next /\ p # next /\ Len(ReadNode(root_page_id).keys) = 1
  BY <1>1, <1>5
<1>7. next \in t.pages /\ t.level[next] = 0 /\ t.range[next] # {}
  BY <1>5, <1>6, TwoLeaves DEF Sound
<1>8. PICK left \in t.pages :
        /\ t.level[left] = 0
        /\ \A k \in Keys : k \in t.range[left] \cup t.range[next]
        /\ \A x \in t.range[left], y \in t.range[next] : x < y
  BY <1>5, <1>6, TwoLeaves DEF Sound
<1> HIDE DEF d, p, at, Q, next
<1>9. key \notin t.range[next]
  <2>1. t.level[p] = t.level[next]
    BY <1>3, <1>7
  <2> QED BY <1>3, <1>4, <1>6, <1>7, <2>1, SamePage
<1>10. p = left
  <2>1. key \in t.range[left] /\ t.level[p] = t.level[left]
    BY <1>3, <1>8, <1>9
  <2> QED BY <1>3, <1>4, <2>1, SamePage
<1>110. PICK u : u = [pages |-> {next}, level |-> t.level,
                    range |-> [t.range EXCEPT ![next] = Keys]]
  OBVIOUS
<1>11. next \in Int
  BY <1>4, <1>7, PictureFacts
<1>12. u \in Pictures /\ u.pages = {next} /\ u.level[next] = 0 /\ u.range[next] = Keys
  BY <1>4, <1>7, <1>11, <1>110 DEF Pictures
<1>13. View[next].type = Leaf /\ LeafFits(Keys, View[next].keys)
  <2>1. NodeFits(View, root_page_id, t, t.range, next) /\ t.range[next] \subseteq Keys
    BY <1>4, <1>7, PictureFacts DEF Tree
  <2>2. next # root_page_id
    BY <1>5, <1>7
  <2> QED BY <1>7, <2>1, <2>2 DEF NodeFits, LeafFits
<1>130. Chained(View, u)
  <2>1. IsLeaf(View, t, next)
    BY <1>7, <1>13 DEF IsLeaf
  <2>2. View[next].next = NoNext
    BY <1>4, <1>8, <2>1, ChainEnds
  <2> QED BY <1>12, <2>2 DEF Chained, IsLast
<1>14. Tree(View, next, u, u.range)
  <2>1. Disjoint(u)
    BY <1>12 DEF Disjoint
  <2>2. NodeFits(View, next, u, u.range, next)
    BY <1>12, <1>13 DEF NodeFits
  <2> QED BY <1>12, <2>1, <2>2 DEF Tree
<1>15. PairsIn(View, u) = Q
  <2>1. ASSUME NEW pr \in AnyPair PROVE pr \in PairsIn(View, u) <=> pr \in Q
    <3>1. pr \in PairsIn(View, u) <=> Has(View[next], pr[1], pr[2])
      BY <1>12 DEF PairsIn
    <3>2. Has(View[next], pr[1], pr[2]) => pr \in PairsIn(View, t) /\ pr[1] \in t.range[next]
      BY <1>4, <1>7, HasInRange DEF PairsIn
    <3>3. pr[1] \in Keys
      BY DEF AnyPair
    <3>4. pr[1] \in t.range[next] /\ pr \in PairsIn(View, t) => Has(View[next], pr[1], pr[2])
      BY <1>4, <1>7, PairsAt
    <3>5. ASSUME pr[1] \in t.range[p], pr \in PairsIn(View, t) PROVE pr[1] = key
      <4>1. Has(View[p], pr[1], pr[2])
        BY <1>3, <1>4, <3>5, PairsAt
      <4>2. View[p] = leaf
        BY <1>3, <1>4, PictureFacts DEF View
      <4>3. leaf \in NodesOver(AnyPair)
        BY ReadNodeType DEF Sound
      <4>4. PICK i \in DOMAIN leaf.keys : leaf.keys[i] = pr[1]
        BY <4>1, <4>2 DEF Has
      <4>5. i \in 1 .. 1 /\ at \in 1 .. 1
        BY <1>1, <1>2, <4>3, NodeFacts
      <4>6. i = at
        BY <4>5
      <4> QED BY <1>2, <4>4, <4>6
    <3> QED BY <1>8, <1>9, <1>10, <3>1, <3>2, <3>3, <3>4, <3>5 DEF Q, Without
  <2>2. PairsIn(View, u) \subseteq AnyPair /\ Q \subseteq AnyPair
    BY DEF PairsIn, Q, Without
  <2> QED BY <2>1, <2>2
<1>16. View' = View
  BY <1>1 DEF View, ReadNode
<1> DEFINE W == View'
<1>17. W = View
  BY <1>16
<1> HIDE DEF W
<1>18. /\ Tree(W, next, u, u.range) /\ PairsIn(W, u) = Q /\ Chained(W, u)
  BY <1>14, <1>15, <1>17, <1>130
<1>19. /\ u.pages \subseteq PageIds /\ next < next_page_id /\ next_page_id - 1 \in PageIds
       /\ 0 + RootPage < next_page_id
  <2>1. next \in PageIds /\ next < next_page_id /\ next_page_id - 1 \in PageIds
        /\ 1 + RootPage < next_page_id
    BY <1>5, <1>7 DEF Standing
  <2>2. 0 + RootPage < next_page_id
    BY <2>1, BTreeAssumption DEF Sound
  <2> QED BY <1>12, <2>1, <2>2
<1>20. \A q \in u.pages : q < next_page_id' /\ u.level[q] <= u.level[root_page_id']
  BY <1>1, <1>6, <1>12, <1>19
<1>21. /\ u.level[root_page_id'] + RootPage < next_page_id'
       /\ next_page_id' - 1 \in PageIds /\ u.pages \subseteq PageIds
       /\ Tree(W, root_page_id', u, u.range) /\ Chained(W, u)
  BY <1>1, <1>6, <1>12, <1>18, <1>19
<1>22. Standing(u)' /\ PairsIn(View, u)' = Q
  <2>1. Standing(u)' /\ PairsIn(View, u)' = PairsIn(View', u)
    BY <1>12, <1>20, <1>21, StandingNext DEF W
  <2> QED BY <1>18, <2>1 DEF W
<1>23. Ordered'
  BY <1>1, <1>22, Reordered
<1>24. PairsIn(View, u)' = Without(PairsIn(View, t), key)
  BY <1>22 DEF Q
<1>25. Map!Remove(key)
  BY <1>1, <1>2, <1>22, <1>24, MapRemoves DEF Sound
<1> QED BY <1>23, <1>25

(* A step that moves no page and not the root. *)
LEMMA StillStanding ==
  ASSUME Sound, Sound', NEW t, Standing(t), pages' = pages, next_page_id' = next_page_id,
         root_page_id' = root_page_id, count' = count
  PROVE  Standing(t)' /\ UNCHANGED Map!mapVars
<1> DEFINE W == View'
<1>1. W = View
  BY DEF View, ReadNode
<1> HIDE DEF W
<1>2. /\ t \in Pictures /\ Tree(W, root_page_id', t, t.range) /\ Chained(W, t)
      /\ t.pages \subseteq PageIds
      /\ \A p \in t.pages : p < next_page_id' /\ t.level[p] <= t.level[root_page_id']
      /\ t.level[root_page_id'] + RootPage < next_page_id'
      /\ next_page_id' - 1 \in PageIds
      /\ PairsIn(W, t) = PairsIn(View, t)
  BY <1>1 DEF Standing
<1>3. Standing(t)' /\ PairsIn(View, t)' = PairsIn(View', t)
  BY <1>2, StandingNext DEF W
<1>4. PairsIn(View, t)' = PairsIn(View, t)
  BY <1>2, <1>3 DEF W
<1>5. UNCHANGED Map!mapVars
  BY <1>3, <1>4, MapSame DEF Sound
<1> QED BY <1>3, <1>5

LEMMA SaveFollows ==
  ASSUME Sound, Sound', NEW t, Standing(t), hazards' = {}, Save
  PROVE  Ordered' /\ UNCHANGED Map!mapVars
<1>1. ~Full(ReadNode(root_page_id))
  BY DEF Save
<1>2. /\ pages' = pages /\ next_page_id' = next_page_id
      /\ root_page_id' = root_page_id /\ count' = count
      /\ root_page_id = RootPage => tail' = <<root_page_id, count>>
  BY <1>1 DEF Save
<1>3. Standing(t)' /\ UNCHANGED Map!mapVars
  BY <1>2, StillStanding
<1>4. root_page_id' = RootPage => tail' = <<RootPage, count'>>
  BY <1>2
<1> QED BY <1>3, <1>4 DEF Ordered

(* Load finds the root and the count that Save left, where it looks for them. *)
LEMMA ReopenFollows ==
  ASSUME Sound, Sound', Ordered, hazards = {}, NEW t, Standing(t), hazards' = {}, Reopen
  PROVE  Ordered' /\ UNCHANGED Map!mapVars
<1>1. root_page_id = RootPage /\ saved
  BY DEF Reopen
<1>2. tail = <<RootPage, count>>
  BY <1>1 DEF Ordered
<1>3. tail[1] = RootPage /\ tail[2] = count /\ RootPage \notin {0, NoNext}
  BY <1>2, BTreeAssumption DEF NoNext
<1>4. root_page_id' = RootPage /\ count' = count
  BY <1>3 DEF Reopen
<1>5. pages' = pages /\ next_page_id' = next_page_id /\ tail' = tail
  BY DEF Reopen
<1>6. Standing(t)' /\ UNCHANGED Map!mapVars
  BY <1>1, <1>4, <1>5, StillStanding
<1>7. tail' = <<RootPage, count'>>
  BY <1>2, <1>4, <1>5
<1> QED BY <1>6, <1>7 DEF Ordered

LEMMA TreeIsSound ==
  ASSUME TreeInv, hazards = {}
  PROVE  Sound
BY DEF TreeInv, Shape, Sound

(* Every step, as long as nothing has happened that the code does not survive. *)
LEMMA StepFollows ==
  ASSUME TreeInv, TreeInv', Ordered, [Next]_vars, hazards' = {}
  PROVE  Ordered' /\ [Map!Next]_(Map!mapVars)
<1>1. Sound'
  BY DEF TreeInv, Shape, Sound
<1>2. hazards = {}
  BY DEF Next, vars, Insert, InsertFails, InsertOverRoot, RemoveFromLeaf, RemoveFromParent,
         RemoveRootLevel, RemoveUndefined, RemoveFails, Save, Reopen
<1>3. Shape /\ Sound
  BY <1>2, TreeIsSound DEF TreeInv
<1>4. PICK t : Standing(t)
  BY <1>2 DEF Ordered
<1>5. ASSUME NEW in \in Inputs,
             Insert(in[1], in[2]) \/ InsertFails(in[1], in[2]) \/ InsertOverRoot(in[1], in[2])
      PROVE  Ordered' /\ [Map!Next]_(Map!mapVars)
  <2>1. PICK key \in Keys, val \in Int : key = in[1] /\ val = in[2]
    BY InputFacts
  <2>2. CASE Insert(key, val)
    <3>1. Ordered' /\ Map!Insert(key, val)
      BY <1>1, <1>3, <1>4, <2>2, InsertFollows
    <3> QED BY <2>1, <3>1 DEF Map!Next
  <2>3. CASE InsertFails(key, val)
    BY <1>1, <1>3, <1>4, <2>3, InsertFailsFollows
  <2>4. CASE InsertOverRoot(key, val)
    <3>1. Ordered' /\ Map!Insert(key, val)
      BY <1>1, <1>3, <1>4, <2>4, InsertOverRootFollows
    <3> QED BY <2>1, <3>1 DEF Map!Next
  <2> QED BY <1>5, <2>1, <2>2, <2>3, <2>4
<1>6. ASSUME NEW key \in Keys, RemoveFromLeaf(key) \/ RemoveRootLevel(key)
      PROVE  Ordered' /\ [Map!Next]_(Map!mapVars)
  <2>1. Ordered' /\ Map!Remove(key)
    BY <1>1, <1>3, <1>4, <1>6, RemoveFromLeafFollows, RemoveRootLevelFollows
  <2> QED BY <2>1 DEF Map!Next
<1>7. ASSUME NEW key \in Keys,
             RemoveFromParent(key) \/ RemoveUndefined(key) \/ RemoveFails(key)
      PROVE  FALSE
  BY <1>7 DEF RemoveFromParent, RemoveUndefined, RemoveFails
<1>8. CASE Save
  BY <1>1, <1>3, <1>4, <1>8, SaveFollows
<1>9. CASE Reopen
  BY <1>1, <1>2, <1>3, <1>4, <1>9, ReopenFollows
<1>10. CASE UNCHANGED vars
  <2>1. /\ pages' = pages /\ next_page_id' = next_page_id
        /\ root_page_id' = root_page_id /\ count' = count /\ tail' = tail /\ saved' = saved
    BY <1>10 DEF vars
  <2>2. Standing(t)' /\ UNCHANGED Map!mapVars
    BY <1>1, <1>3, <1>4, <2>1, StillStanding
  <2>3. saved' /\ root_page_id' = RootPage => tail' = <<RootPage, count'>>
    BY <1>2, <2>1 DEF Ordered
  <2> QED BY <2>2, <2>3 DEF Ordered
<1> QED
  BY <1>5, <1>6, <1>7, <1>8, <1>9, <1>10 DEF Next

(* At the start the tree is a blank root, and has no pair. *)
LEMMA OrderedInit == Init => Ordered /\ Map!Init
<1> SUFFICES ASSUME Init PROVE Ordered /\ Map!Init
  OBVIOUS
<1> DEFINE zero == [p \in Int |-> 0]
           all == [p \in Int |-> Keys]
<1>1. PICK t : t = [pages |-> {RootPage}, level |-> zero, range |-> all]
  OBVIOUS
<1>2. /\ RootPage \in Nat /\ RootPage \in PageIds /\ (RootPage + 1) - 1 = RootPage
      /\ 0 + RootPage < RootPage + 1 /\ RootPage < RootPage + 1
  BY BTreeAssumption, OrderFacts
<1>3. /\ t \in Pictures /\ t.pages = {RootPage}
      /\ t.level[RootPage] = 0 /\ t.range[RootPage] = Keys
  BY <1>1, <1>2 DEF Pictures
<1>4. root_page_id = RootPage /\ next_page_id = RootPage + 1 /\ count = 0 /\ saved = FALSE
  BY DEF Init
<1>5. View[RootPage] = Blank
  BY <1>2 DEF Init, View, ReadNode
<1>6. Tree(View, RootPage, t, t.range)
  <2>1. LeafFits(Keys, << >>)
    BY DEF LeafFits, Increasing
  <2>2. View[RootPage].keys = << >>
    BY <1>5 DEF Blank
  <2>3. NodeFits(View, RootPage, t, t.range, RootPage)
    BY <1>3, <1>5, <2>1, <2>2 DEF NodeFits
  <2>4. Disjoint(t)
    BY <1>3 DEF Disjoint
  <2> QED BY <1>3, <2>3, <2>4 DEF Tree
<1>13. Chained(View, t)
  BY <1>3, <1>5 DEF Chained, IsLeaf, Blank, Leaf
<1>7. Standing(t)
  BY <1>2, <1>3, <1>4, <1>6, <1>13 DEF Standing
<1>8. Ordered
  BY <1>4, <1>7 DEF Ordered
<1>9. PairsIn(View, t) = {}
  BY <1>3, <1>5 DEF PairsIn, Has, Blank
<1>10. Holding(AnyPair) /\ next_page_id \in Nat
  BY TreeInit DEF TreeInv, Shape
<1>11. ASSUME NEW key \in Keys PROVE Find(key) = NotFound
  <2>1. \A val \in Int : <<key, val>> \notin PairsIn(View, t)
    BY <1>9
  <2> QED BY <1>7, <1>10, <2>1, AlwaysAnswers DEF Answers, Finds
<1>12. Map!Init
  BY <1>4, <1>11 DEF Map!Init
<1> QED BY <1>8, <1>12

LEMMA OrderedNext ==
  TreeInv /\ TreeInv' /\ Ordered /\ [Next]_vars
    => Ordered' /\ (hazards' = {} => [Map!Next]_(Map!mapVars))
<1>1. CASE hazards' = {}
  BY <1>1, StepFollows
<1>2. CASE hazards' # {}
  BY <1>2 DEF Ordered
<1> QED BY <1>1, <1>2

LEMMA OrderedCorrect == Spec => []Ordered
BY OrderedInit, OrderedNext, TreeCorrect, PTL DEF Spec

(* Until one of the hazards happens, the tree is the map that btree.h promises:
   whatever the splits, over however many levels, the splits that fail after the
   first page, the removals from a leaf or of the root's level, Save and Reopen
   do, what Find and Count show changes only as the map does. *)
THEOREM TreeImplementsMap == Spec => ImplementsOrderedMap
<1>1. Init => Map!Init
  BY OrderedInit
<1> QED
  BY <1>1, OrderedNext, OrderedCorrect, TreeCorrect, PTL DEF Spec, ImplementsOrderedMap

-----------------------------------------------------------------------------
(* The walk of RangeQuery *)

WalkEnds(end) ==
  {w \in Walks : \/ w.page = NoNext \/ w.left = 0
                 \/ /\ ~(w.i > Len(ReadNode(w.page).keys))
                    /\ ReadNode(w.page).keys[w.i] > end}

WalkOut == [w \in Walks |-> w.out]

Stepped(w, start) ==
  LET node == ReadNode(w.page)
  IN  IF w.i > Len(node.keys)
      THEN [page |-> node.next, i |-> 1, left |-> w.left - 1, out |-> w.out]
      ELSE [w EXCEPT !.i = @ + 1,
                     !.out = IF node.keys[w.i] < start THEN @
                             ELSE Append(@, <<node.keys[w.i], node.vals[w.i]>>)]

WalkNext(start, end) == [w \in Walks \ WalkEnds(end) |-> Stepped(w, start)]

(* What is left of the walk: the pages, then the keys of this page. *)
WalkSize ==
  [w \in Walks |->
     LET n == Len(ReadNode(w.page).keys)
     IN  w.left * (MaxKeys + 2) + (IF w.i > n THEN 0 ELSE n + 1 - w.i)]

(* A key of a leaf and its value. *)
LEMMA PairType ==
  ASSUME NEW P, NEW node \in NodesOver(P), NEW i \in 1 .. Len(node.keys)
  PROVE  /\ node.keys[i] \in Keys /\ node.vals[i] \in Int
         /\ <<node.keys[i], node.vals[i]>> \in Keys \X Int
<1>1. /\ node.keys \in Seq(Keys) /\ node.vals \in Seq(Int) /\ Len(node.vals) = Len(node.keys)
      /\ i \in DOMAIN node.keys /\ i \in DOMAIN node.vals
  BY NodeFacts, LenProperties
<1>2. node.keys[i] \in Keys /\ node.vals[i] \in Int
  BY <1>1, ElementOfSeq
<1> QED BY <1>2

LEMMA SteppedType ==
  ASSUME Holding(AnyPair), NEW start \in Keys, NEW end \in Keys,
         NEW w \in Walks, w \notin WalkEnds(end)
  PROVE  /\ Stepped(w, start) \in Walks
         /\ WalkSize[w] \in Nat
         /\ WalkSize[Stepped(w, start)] < WalkSize[w]
<1> DEFINE node == ReadNode(w.page)
           n == Len(node.keys)
           c == MaxKeys + 2
           v == Stepped(w, start)
           m == Len(ReadNode(v.page).keys)
<1>1. /\ w.page \in Int /\ w.i \in Nat /\ w.i >= 1 /\ w.left \in Nat /\ w.left # 0
      /\ w.left \in 0 .. MaxPageId + 2 /\ w.out \in Seq(Keys \X Int)
      /\ w = [page |-> w.page, i |-> w.i, left |-> w.left, out |-> w.out]
  BY BTreeAssumption DEF Walks, WalkEnds
<1>2. c \in Nat /\ c >= 2 /\ MaxPageId \in Nat
  BY OrderFacts, BTreeAssumption
<1>3. node \in NodesOver(AnyPair) /\ n \in Nat /\ n + 2 <= c /\ node.next \in Int
  BY <1>1, ReadNodeType, NodeFacts, OrderFacts
<1>4. WalkSize[w] = w.left * c + (IF w.i > n THEN 0 ELSE n + 1 - w.i)
  BY DEF WalkSize
<1>5. v \in Walks
  <2>1. CASE w.i > n
    <3>1. v = [page |-> node.next, i |-> 1, left |-> w.left - 1, out |-> w.out]
      BY <2>1 DEF Stepped
    <3>2. w.left - 1 \in 0 .. MaxPageId + 2
      BY <1>1, <1>2
    <3> HIDE DEF v, node
    <3> QED BY <1>1, <1>3, <3>1, <3>2 DEF Walks
  <2>2. CASE ~(w.i > n)
    <3> DEFINE out == IF node.keys[w.i] < start THEN w.out
                      ELSE Append(w.out, <<node.keys[w.i], node.vals[w.i]>>)
    <3>1. v = [w EXCEPT !.i = w.i + 1, !.out = out]
      BY <2>2 DEF Stepped
    <3>2. w.i \in 1 .. n
      BY <1>1, <1>3, <2>2
    <3>3. <<node.keys[w.i], node.vals[w.i]>> \in Keys \X Int
      BY <1>3, <3>2, PairType
    <3>4. out \in Seq(Keys \X Int)
      BY <1>1, <3>3, AppendProperties
    <3>5. w.i + 1 \in Nat \ {0}
      BY <1>1
    <3> HIDE DEF v, node, out, n
    <3> QED BY <1>1, <3>1, <3>4, <3>5 DEF Walks
  <2> QED BY <2>1, <2>2
<1>6. WalkSize[v] = v.left * c + (IF v.i > m THEN 0 ELSE m + 1 - v.i)
  BY <1>5 DEF WalkSize
<1>7. m \in Nat /\ m + 2 <= c
  <2>1. v.page \in Int
    BY <1>5 DEF Walks
  <2>2. ReadNode(v.page) \in NodesOver(AnyPair)
    BY <2>1, ReadNodeType
  <2> QED BY <2>2, NodeFacts, OrderFacts
<1>8. w.left * c \in Nat /\ (w.left - 1) * c = w.left * c - c
  <2> DEFINE a == w.left
  <2>1. a \in Nat
    BY <1>1
  <2> HIDE DEF a, c
  <2>2. a * c \in Nat /\ (a - 1) * c = a * c - c
    BY <1>2, <2>1
  <2> QED BY <2>2 DEF a
<1>9. WalkSize[v] < WalkSize[w] /\ WalkSize[w] \in Nat
  <2> DEFINE a == w.left * c
  <2>1. a \in Nat /\ (w.left - 1) * c = a - c
    BY <1>8
  <2>2. CASE w.i > n
    <3>1. v.left = w.left - 1 /\ v.i = 1
      BY <2>2 DEF Stepped
    <3>2. WalkSize[w] = a
      BY <1>1, <1>4, <2>1, <2>2
    <3>3. WalkSize[v] = a - c + (IF 1 > m THEN 0 ELSE m + 1 - 1)
      BY <1>6, <2>1, <3>1
    <3> HIDE DEF a, c, m, v
    <3> QED BY <1>2, <1>7, <2>1, <3>2, <3>3
  <2>3. CASE ~(w.i > n)
    <3>1. v.left = w.left /\ v.i = w.i + 1 /\ v.page = w.page
      BY <1>1, <2>3 DEF Stepped
    <3>2. m = n
      BY <3>1
    <3>3. WalkSize[w] = a + (n + 1 - w.i)
      BY <1>4, <2>3
    <3>4. WalkSize[v] = a + (IF w.i + 1 > n THEN 0 ELSE n + 1 - (w.i + 1))
      BY <1>6, <3>1, <3>2
    <3> DEFINE i == w.i
    <3>5. i \in Nat /\ i >= 1 /\ ~(i > n)
      BY <1>1, <2>3
    <3> HIDE DEF a, c, m, v, n, i
    <3>6. WalkSize[v] = a + (n - i) /\ WalkSize[w] = a + (n - i) + 1
      <4>1. WalkSize[v] = a + (IF i + 1 > n THEN 0 ELSE n + 1 - (i + 1))
        BY <3>4 DEF i
      <4>2. WalkSize[w] = a + (n + 1 - i)
        BY <3>3 DEF i
      <4> QED BY <1>3, <2>1, <3>5, <4>1, <4>2
    <3> QED BY <1>3, <2>1, <3>5, <3>6
  <2> QED BY <2>2, <2>3
<1> QED
  BY <1>5, <1>9

LEMMA WalkLoop ==
  ASSUME Holding(AnyPair), NEW start \in Keys, NEW end \in Keys, root_page_id \in Int
  PROVE  /\ WalkSize \in [Walks -> Nat]
         /\ Shrinks(WalkSize, Walks \ WalkEnds(end), WalkNext(start, end))
         /\ \E f : /\ LoopOf(f, Walks, WalkEnds(end), WalkOut, WalkNext(start, end))
                   /\ RangeQuery(start, end) =
                        IF ReadNode(LeafFor(start)).type = Leaf
                        THEN f[[page |-> LeafFor(start), i |-> 1,
                                left |-> MaxPageId + 2, out |-> << >>]]
                        ELSE << >>
<1> DEFINE S == Walks
           done == WalkEnds(end)
           next == WalkNext(start, end)
           T == Seq(Keys \X Int)
           body(k, w) ==
             LET node == ReadNode(w.page)
             IN  IF w.page = NoNext \/ w.left = 0 THEN w.out
                 ELSE IF w.i > Len(node.keys)
                 THEN k[[page |-> node.next, i |-> 1, left |-> w.left - 1, out |-> w.out]]
                 ELSE IF node.keys[w.i] > end THEN w.out
                 ELSE k[[w EXCEPT
                        !.i = @ + 1,
                        !.out = IF node.keys[w.i] < start THEN @
                                ELSE Append(@, <<node.keys[w.i], node.vals[w.i]>>)]]
<1>1. WalkSize \in [S -> Nat]
  <2>1. ASSUME NEW w \in S PROVE WalkSize[w] \in Nat
    <3> DEFINE n == Len(ReadNode(w.page).keys)
               c == MaxKeys + 2
               a == w.left
    <3>1. w.page \in Int /\ w.i \in Nat /\ a \in Nat
      BY BTreeAssumption DEF Walks
    <3>2. n \in Nat /\ c \in Nat
      BY <3>1, ReadNodeType, NodeFacts, OrderFacts
    <3>3. WalkSize[w] = a * c + (IF w.i > n THEN 0 ELSE n + 1 - w.i)
      BY DEF WalkSize
    <3> HIDE DEF a, c, n
    <3>4. a * c \in Nat
      BY <3>1, <3>2
    <3> QED BY <3>1, <3>2, <3>3, <3>4
  <2> QED BY <2>1 DEF WalkSize
<1>2. Shrinks(WalkSize, S \ done, next)
  <2>1. ASSUME NEW w \in S \ done PROVE WalkSize[next[w]] < WalkSize[w]
    <3>1. next[w] = Stepped(w, start)
      BY DEF WalkNext
    <3> QED BY <3>1, SteppedType
  <2> QED BY <2>1 DEF Shrinks
<1>3. done \in SUBSET S /\ WalkOut \in [S -> T] /\ next \in [S \ done -> S]
  <2>1. done \in SUBSET S
    BY DEF WalkEnds
  <2>2. WalkOut \in [S -> T]
    BY DEF WalkOut, Walks
  <2>3. \A w \in S \ done : Stepped(w, start) \in S
    BY SteppedType
  <2> QED BY <2>1, <2>2, <2>3 DEF WalkNext
<1>4. PICK f \in [S -> T] : LoopOf(f, S, done, WalkOut, next)
  <2> HIDE DEF done, next, S, T
  <2> QED BY <1>1, <1>2, <1>3, LoopExists
<1>5. ASSUME NEW k, NEW w \in S
      PROVE  (IF w \in done THEN WalkOut[w] ELSE k[next[w]]) = body(k, w)
  <2>1. CASE w \in done
    BY <2>1 DEF WalkEnds, WalkOut
  <2>2. CASE w \notin done
    <3>1. next[w] = Stepped(w, start)
      BY <2>2 DEF WalkNext
    <3>2. ~(w.page = NoNext \/ w.left = 0)
          /\ (w.i > Len(ReadNode(w.page).keys) \/ ~(ReadNode(w.page).keys[w.i] > end))
      BY <2>2 DEF WalkEnds
    <3> QED BY <2>2, <3>1, <3>2 DEF Stepped
  <2> QED BY <2>1, <2>2
<1>6. f = [w \in S |-> body(f, w)]
  <2>1. \A w \in S : f[w] = body(f, w)
    <3> HIDE DEF body, S, done, next
    <3> QED BY <1>4, <1>5 DEF LoopOf
  <2>2. f = [w \in S |-> f[w]]
    OBVIOUS
  <2> HIDE DEF S, body
  <2> QED BY <2>1, <2>2
<1> DEFINE walk == CHOOSE k : k = [w \in S |-> body(k, w)]
<1>7. walk = [w \in S |-> body(walk, w)]
  <2> HIDE DEF S, body
  <2> QED BY <1>6
<1>8. RangeQuery(start, end) =
        IF ReadNode(LeafFor(start)).type = Leaf
        THEN walk[[page |-> LeafFor(start), i |-> 1, left |-> MaxPageId + 2, out |-> << >>]]
        ELSE << >>
  BY Zenon DEF RangeQuery
<1> HIDE DEF walk
<1>9. LoopOf(walk, S, done, WalkOut, next)
  <2>1. walk = [w \in S |-> IF w \in done THEN WalkOut[w] ELSE walk[next[w]]]
    <3> HIDE DEF body, S, done, next
    <3> QED BY <1>5, <1>7
  <2> QED BY <2>1 DEF LoopOf
<1> HIDE DEF S, done, next
<1> QED
  BY <1>1, <1>2, <1>8, <1>9 DEF S, done, next

LeavesFit(V, t) ==
  /\ Disjoint(t)
  /\ \A p \in t.pages : t.level[p] = 0 => LeafFits(t.range[p], V[p].keys)

(* The pages ahead of a walk that is at leaf p, with p. *)
Rest(t, p) ==
  {q \in t.pages : /\ t.level[q] = 0
                   /\ \E x \in t.range[q], y \in t.range[p] : y <= x}

(* The walk is past key k when it is at key i of leaf p. *)
Behind(V, t, p, i, k) ==
  (\A y \in t.range[p] : k < y) \/ (\E j \in 1 .. (i - 1) : V[p].keys[j] = k)

Hits(V, t, start, end) ==
  {pr \in PairsIn(V, t) : start <= pr[1] /\ pr[1] <= end}

Ascending(out) == \A a, b \in DOMAIN out : a < b => out[a][1] < out[b][1]

(* The pairs up to where the walk is have been put out. *)
Walking(V, t, start, end, w) ==
  /\ Ascending(w.out)
  /\ IF w.page = NoNext THEN ToSet(w.out) = Hits(V, t, start, end)
     ELSE /\ IsLeaf(V, t, w.page)
          /\ w.i <= Len(V[w.page].keys) + 1
          /\ Cardinality(Rest(t, w.page)) <= w.left
          /\ ToSet(w.out) = {pr \in Hits(V, t, start, end) : Behind(V, t, w.page, w.i, pr[1])}

(* A pair is in the leaf that its key leads to. *)
LEMMA LeafHas ==
  ASSUME NEW V, NEW t \in Pictures, LeavesFit(V, t), NEW p \in t.pages, t.level[p] = 0,
         NEW pr \in PairsIn(V, t)
  PROVE  /\ pr[1] \in Keys /\ pr[2] \in Int /\ pr = <<pr[1], pr[2]>>
         /\ \E q \in t.pages : pr[1] \in t.range[q]
         /\ pr[1] \in t.range[p] => Has(V[p], pr[1], pr[2])
<1>1. pr \in AnyPair /\ \E q \in t.pages : t.level[q] = 0 /\ Has(V[q], pr[1], pr[2])
  BY DEF PairsIn
<1>2. PICK q \in t.pages : t.level[q] = 0 /\ Has(V[q], pr[1], pr[2])
  BY <1>1
<1>3. pr[1] \in t.range[q]
  BY <1>2 DEF LeavesFit, LeafFits, Has
<1>4. pr[1] \in t.range[p] => q = p
  BY <1>2, <1>3, SamePage DEF LeavesFit
<1> QED
  BY <1>1, <1>2, <1>3, <1>4 DEF AnyPair

(* What Append does, place by place. *)
Appended(r, s, e) ==
  /\ Len(s) \in Nat /\ DOMAIN s = 1 .. Len(s) /\ DOMAIN r = 1 .. Len(s) + 1
  /\ \A i \in 1 .. Len(s) : r[i] = s[i]
  /\ r[Len(s) + 1] = e

LEMMA AppendParts ==
  ASSUME NEW S, NEW s \in Seq(S), NEW e \in S
  PROVE  Appended(Append(s, e), s, e)
BY LenProperties, AppendProperties DEF Appended

(* The walk takes the next key of the leaf. *)
LEMMA WalkTakesKey ==
  ASSUME Holding(AnyPair), NEW t \in Pictures, LeavesFit(View, t), Chained(View, t),
         t.pages \subseteq PageIds,
         NEW start \in Keys, NEW end \in Keys, NEW w \in Walks, w \notin WalkEnds(end),
         Walking(View, t, start, end, w), w.i <= Len(ReadNode(w.page).keys)
  PROVE  Walking(View, t, start, end, Stepped(w, start))
<1> DEFINE p == w.page
           i == w.i
           node == ReadNode(p)
           n == Len(node.keys)
           k == node.keys[i]
           e == <<k, node.vals[i]>>
           v == Stepped(w, start)
           H == Hits(View, t, start, end)
           B(j, x) == Behind(View, t, p, j, x)
<1>1. /\ p # NoNext /\ p \in Int /\ i \in Nat /\ i >= 1 /\ w.out \in Seq(Keys \X Int)
      /\ View[p] = node
  BY DEF Walks, WalkEnds, View
<1>2. /\ IsLeaf(View, t, p) /\ Cardinality(Rest(t, p)) <= w.left
      /\ ToSet(w.out) = {pr \in H : B(i, pr[1])}
      /\ Ascending(w.out)
  BY <1>1 DEF Walking
<1>3. node \in NodesOver(AnyPair) /\ n \in Nat /\ i \in 1 .. n /\ DOMAIN node.keys = 1 .. n
  BY <1>1, ReadNodeType, NodeFacts
<1>4. k \in Keys /\ k \in Int /\ e \in Keys \X Int /\ start \in Int /\ end \in Int
  BY <1>3, PairType, OrderFacts
<1>5. k <= end
  <2>1. ~(k > end)
    BY <1>3 DEF WalkEnds
  <2> QED BY <1>4, <2>1
<1>6. p \in t.pages /\ t.level[p] = 0 /\ LeafFits(t.range[p], node.keys)
  BY <1>1, <1>2 DEF IsLeaf, LeavesFit
<1>7. k \in t.range[p] /\ Has(node, k, node.vals[i])
  BY <1>3, <1>6 DEF LeafFits, Has
<1>8. e \in PairsIn(View, t) /\ e[1] = k /\ e[2] = node.vals[i]
  BY <1>1, <1>4, <1>6, <1>7 DEF PairsIn, AnyPair
<1>9. v.page = p /\ v.i = i + 1 /\ v.left = w.left
      /\ v.out = IF k < start THEN w.out ELSE Append(w.out, e)
  <2>1. ~(i > n)
    BY <1>1, <1>3
  <2>2. w \in [page : Int, i : Nat \ {0}, left : 0 .. MaxPageId + 2, out : Seq(Keys \X Int)]
    BY DEF Walks
  <2> QED BY <2>1, <2>2 DEF Stepped
<1>10. ASSUME NEW pr \in H
       PROVE  B(i + 1, pr[1]) <=> B(i, pr[1]) \/ pr = e
  <2>1. pr \in PairsIn(View, t)
    BY DEF Hits
  <2>2. /\ pr[1] \in Keys /\ pr[2] \in Int /\ pr = <<pr[1], pr[2]>>
        /\ pr[1] \in t.range[p] => Has(View[p], pr[1], pr[2])
    BY <1>6, <2>1, LeafHas
  <2>3. ASSUME pr[1] = k PROVE pr = e
    <3>1. PICK j \in DOMAIN node.keys : node.keys[j] = pr[1] /\ node.vals[j] = pr[2]
      BY <1>1, <1>7, <2>2, <2>3 DEF Has
    <3>2. j = i
      <4>1. j \in Int /\ i \in Int /\ i \in DOMAIN node.keys
        BY <1>3
      <4>2. ~(j < i) /\ ~(i < j)
        BY <1>4, <1>6, <2>3, <3>1, <4>1 DEF LeafFits, Increasing
      <4> QED BY <4>1, <4>2
    <3> QED BY <2>2, <2>3, <3>1, <3>2
  <2>4. \A j \in 1 .. ((i + 1) - 1) : j \in 1 .. (i - 1) \/ j = i
    BY <1>1
  <2>5. 1 .. (i - 1) \subseteq 1 .. ((i + 1) - 1) /\ i \in 1 .. ((i + 1) - 1)
    BY <1>1
  <2>6. B(i + 1, pr[1]) => B(i, pr[1]) \/ pr[1] = k
    BY <1>1, <2>4 DEF Behind
  <2>7. B(i, pr[1]) \/ pr[1] = k => B(i + 1, pr[1])
    BY <1>1, <2>5 DEF Behind
  <2> QED BY <1>8, <2>3, <2>6, <2>7
<1>11. e \in H <=> ~(k < start)
  BY <1>4, <1>5, <1>8 DEF Hits
<1>12. \A x \in Keys : B(i, x) => x < k
  <2>1. SUFFICES ASSUME NEW x \in Keys, B(i, x) PROVE x < k
    OBVIOUS
  <2>2. CASE \A y \in t.range[p] : x < y
    BY <1>7, <2>2
  <2>3. CASE \E j \in 1 .. (i - 1) : View[p].keys[j] = x
    <3>1. PICK j \in 1 .. (i - 1) : node.keys[j] = x
      BY <1>1, <2>3
    <3>2. j \in DOMAIN node.keys /\ i \in DOMAIN node.keys /\ j < i
      BY <1>3
    <3> QED BY <1>6, <3>1, <3>2 DEF LeafFits, Increasing
  <2> QED BY <2>1, <2>2, <2>3 DEF Behind
<1>13. ToSet(v.out) = {pr \in H : B(i + 1, pr[1])}
  <2>1. CASE k < start
    BY <1>2, <1>9, <1>10, <1>11, <2>1
  <2>2. CASE ~(k < start)
    <3>1. ToSet(v.out) = ToSet(w.out) \cup {e}
      <4> DEFINE s == w.out
      <4>1. v.out = Append(s, e) /\ s \in Seq(Keys \X Int) /\ e \in Keys \X Int
        BY <1>1, <1>4, <1>9, <2>2
      <4> HIDE DEF s, e, v
      <4>2. ToSet(Append(s, e)) = ToSet(s) \cup {e}
        BY <4>1, AppendElements
      <4> QED BY <4>1, <4>2 DEF s
    <3> HIDE DEF H, B, v, e
    <3> QED BY <1>2, <1>10, <1>11, <2>2, <3>1
  <2> QED BY <2>1, <2>2
<1>14. Ascending(v.out)
  <2>1. CASE k < start
    BY <1>2, <1>9, <2>1
  <2>2. CASE ~(k < start)
    <3> DEFINE s == w.out
               r == Append(s, e)
               m == Len(s)
    <3>1. v.out = r
      BY <1>9, <2>2
    <3>2. /\ m \in Nat /\ DOMAIN s = 1 .. m /\ DOMAIN r = 1 .. m + 1
          /\ \A a \in 1 .. m : r[a] = s[a]
          /\ r[m + 1] = e
      <4>1. s \in Seq(Keys \X Int) /\ e \in Keys \X Int
        BY <1>1, <1>4
      <4> HIDE DEF s, e
      <4> QED BY <4>1, AppendParts DEF Appended
    <3>3. \A a \in 1 .. m : s[a][1] < k
      <4>1. SUFFICES ASSUME NEW a \in 1 .. m PROVE s[a][1] < k
        OBVIOUS
      <4>2. s[a] \in ToSet(s)
        BY <3>2 DEF ToSet
      <4>3. B(i, s[a][1]) /\ s[a] \in H
        BY <1>2, <4>2
      <4>4. s[a] \in PairsIn(View, t)
        BY <4>3 DEF Hits
      <4>5. s[a][1] \in Keys
        BY <1>6, <4>4, LeafHas
      <4> HIDE DEF B, H
      <4> QED BY <1>12, <4>3, <4>5
    <3>4. ASSUME NEW a \in DOMAIN r, NEW b \in DOMAIN r, a < b PROVE r[a][1] < r[b][1]
      <4>1. a \in 1 .. m
        BY <3>2, <3>4
      <4>2. CASE b \in 1 .. m
        BY <1>2, <3>2, <3>4, <4>1, <4>2 DEF Ascending
      <4>3. CASE b \notin 1 .. m
        <5>1. b = m + 1
          BY <3>2, <4>3
        <5> QED BY <1>8, <3>2, <3>3, <4>1, <5>1
      <4> QED BY <4>2, <4>3
    <3> QED BY <3>1, <3>4 DEF Ascending
  <2> QED BY <2>1, <2>2
<1>15. i + 1 <= Len(View[p].keys) + 1
  BY <1>1, <1>3
<1>16. /\ v.page # NoNext /\ IsLeaf(View, t, v.page) /\ v.i <= Len(View[v.page].keys) + 1
       /\ Cardinality(Rest(t, v.page)) <= v.left
  <2> HIDE DEF v
  <2> QED BY <1>1, <1>2, <1>9, <1>15
<1>17. ToSet(v.out) = {pr \in H : Behind(View, t, v.page, v.i, pr[1])}
  <2> HIDE DEF v
  <2> QED BY <1>9, <1>13
<1> HIDE DEF v
<1>18. Walking(View, t, start, end, v)
  BY <1>14, <1>16, <1>17 DEF Walking
<1> QED
  BY <1>18 DEF v

LEMMA RestFacts ==
  ASSUME NEW t \in Pictures, t.pages \subseteq PageIds, NEW p
  PROVE  /\ IsFiniteSet(Rest(t, p)) /\ Cardinality(Rest(t, p)) \in Nat
         /\ Cardinality(Rest(t, p)) <= MaxPageId + 2
<1>1. /\ IsFiniteSet(PageIds) /\ Cardinality(PageIds) = MaxPageId + 1
      /\ MaxPageId \in Nat
  <2>1. MaxPageId \in Nat /\ 0 \in Int /\ MaxPageId \in Int /\ 0 <= MaxPageId
    BY BTreeAssumption
  <2>2. IsFiniteSet(0 .. MaxPageId) /\ Cardinality(0 .. MaxPageId) = (MaxPageId - 0) + 1
    BY <2>1, FS_Interval
  <2> QED BY <2>1, <2>2 DEF PageIds
<1>2. Rest(t, p) \subseteq PageIds
  BY DEF Rest
<1>3. IsFiniteSet(Rest(t, p)) /\ Cardinality(Rest(t, p)) <= Cardinality(PageIds)
  BY <1>1, <1>2, FS_Subset
<1>4. Cardinality(Rest(t, p)) \in Nat
  BY <1>3, FS_CardinalityType
<1> QED BY <1>1, <1>3, <1>4

(* The pages ahead grow fewer from leaf to leaf. *)
LEMMA RestShrinks ==
  ASSUME NEW V, NEW t \in Pictures, t.pages \subseteq PageIds, NEW p, IsLeaf(V, t, p),
         NEW q, Follows(t, p, q)
  PROVE  Cardinality(Rest(t, q)) < Cardinality(Rest(t, p))
<1>1. p \in t.pages /\ t.level[p] = 0 /\ t.range[p] \subseteq Int /\ t.range[p] # {}
      /\ q \in t.pages /\ t.range[q] \subseteq Int
  BY RangeOrder DEF IsLeaf, Follows
<1>2. PICK z \in t.range[p] : TRUE
  BY <1>1
<1>3. p \in Rest(t, p)
  <2>1. z <= z
    BY <1>1, <1>2
  <2> QED BY <1>1, <2>1 DEF Rest
<1>4. p \notin Rest(t, q)
  <2>1. SUFFICES ASSUME NEW x \in t.range[p], NEW y \in t.range[q], y <= x PROVE FALSE
    BY DEF Rest
  <2>2. x < y /\ x \in Int /\ y \in Int
    BY <1>1 DEF Follows
  <2> QED BY <2>1, <2>2
<1>5. Rest(t, q) \subseteq Rest(t, p)
  <2>1. SUFFICES ASSUME NEW r \in Rest(t, q) PROVE r \in Rest(t, p)
    OBVIOUS
  <2>2. PICK x \in t.range[r], y \in t.range[q] : y <= x
    BY DEF Rest
  <2>3. z < y /\ z \in Int /\ y \in Int /\ x \in Int
    BY <1>1, <1>2, RangeOrder DEF Follows, Rest
  <2>4. z <= x
    BY <2>2, <2>3
  <2> QED BY <1>2, <2>1, <2>2, <2>4 DEF Rest
<1>6. Rest(t, q) \subseteq Rest(t, p) \ {p}
  BY <1>4, <1>5
<1>7. IsFiniteSet(Rest(t, p)) /\ Cardinality(Rest(t, p)) \in Nat /\ Cardinality(Rest(t, q)) \in Nat
  BY RestFacts
<1>8. IsFiniteSet(Rest(t, p) \ {p}) /\ Cardinality(Rest(t, p) \ {p}) = Cardinality(Rest(t, p)) - 1
  BY <1>3, <1>7, FS_RemoveElement
<1>9. Cardinality(Rest(t, q)) <= Cardinality(Rest(t, p) \ {p})
  BY <1>6, <1>8, FS_Subset
<1> QED BY <1>7, <1>8, <1>9

(* At the end of a leaf, the walk is past the keys below it and in it. *)
LEMMA BehindLeaf ==
  ASSUME NEW V, NEW t \in Pictures, LeavesFit(V, t), NEW p, IsLeaf(V, t, p),
         Len(V[p].keys) \in Nat, DOMAIN V[p].keys = 1 .. Len(V[p].keys),
         NEW pr \in PairsIn(V, t)
  PROVE  Behind(V, t, p, Len(V[p].keys) + 1, pr[1])
           <=> (\A y \in t.range[p] : pr[1] < y) \/ pr[1] \in t.range[p]
<1> DEFINE ks == V[p].keys
           n == Len(ks)
           k == pr[1]
<1>1. p \in t.pages /\ t.level[p] = 0 /\ LeafFits(t.range[p], ks)
  BY DEF IsLeaf, LeavesFit
<1>2. 1 .. ((n + 1) - 1) = DOMAIN ks
  OBVIOUS
<1>3. k \in t.range[p] => \E j \in DOMAIN ks : ks[j] = k
  BY <1>1, LeafHas DEF Has
<1>4. \A j \in DOMAIN ks : ks[j] = k => k \in t.range[p]
  BY <1>1 DEF LeafFits
<1> HIDE DEF ks, n, k
<1>5. Behind(V, t, p, n + 1, k) <=> (\A y \in t.range[p] : k < y) \/ \E j \in DOMAIN ks : ks[j] = k
  BY <1>2 DEF Behind, ks
<1>6. Behind(V, t, p, n + 1, k) <=> (\A y \in t.range[p] : k < y) \/ k \in t.range[p]
  BY <1>3, <1>4, <1>5
<1> QED
  BY <1>6 DEF ks, n, k

(* The walk goes on to the next leaf. *)
LEMMA WalkTurnsPage ==
  ASSUME Holding(AnyPair), NEW t \in Pictures, LeavesFit(View, t), Chained(View, t),
         t.pages \subseteq PageIds,
         NEW start \in Keys, NEW end \in Keys, NEW w \in Walks, w \notin WalkEnds(end),
         Walking(View, t, start, end, w), w.i > Len(ReadNode(w.page).keys)
  PROVE  Walking(View, t, start, end, Stepped(w, start))
<1> DEFINE p == w.page
           node == ReadNode(p)
           n == Len(node.keys)
           q == node.next
           v == Stepped(w, start)
           H == Hits(View, t, start, end)
<1>1. /\ p # NoNext /\ p \in Int /\ w.i \in Nat /\ View[p] = node
      /\ w.left \in Nat
  BY BTreeAssumption DEF Walks, WalkEnds, View
<1>2. /\ IsLeaf(View, t, p) /\ Cardinality(Rest(t, p)) <= w.left
      /\ w.i <= n + 1
      /\ ToSet(w.out) = {pr \in H : Behind(View, t, p, w.i, pr[1])}
      /\ Ascending(w.out)
  BY <1>1 DEF Walking
<1>3. node \in NodesOver(AnyPair) /\ n \in Nat /\ DOMAIN node.keys = 1 .. n
  BY <1>1, ReadNodeType, NodeFacts
<1>4. w.i = n + 1
  BY <1>1, <1>2, <1>3
<1>5. v.page = q /\ v.i = 1 /\ v.left = w.left - 1 /\ v.out = w.out
  BY DEF Stepped
<1>6. p \in t.pages /\ t.level[p] = 0 /\ t.range[p] # {} /\ t.range[p] \subseteq Int
  BY <1>2, RangeOrder DEF IsLeaf
<1>7. ASSUME NEW pr \in H
      PROVE  /\ pr \in PairsIn(View, t) /\ pr[1] \in Keys /\ pr[1] \in Int
             /\ Behind(View, t, p, w.i, pr[1])
                  <=> (\A y \in t.range[p] : pr[1] < y) \/ pr[1] \in t.range[p]
  <2>1. pr \in PairsIn(View, t)
    BY DEF Hits
  <2>2. pr[1] \in Keys /\ pr[1] \in Int
    BY <1>6, <2>1, LeafHas, OrderFacts
  <2> HIDE DEF H
  <2>3. Behind(View, t, p, n + 1, pr[1])
           <=> (\A y \in t.range[p] : pr[1] < y) \/ pr[1] \in t.range[p]
    BY <1>1, <1>2, <1>3, <2>1, BehindLeaf
  <2> QED BY <1>4, <2>1, <2>2, <2>3
<1>8. CASE q = NoNext
  <2>1. IsLast(t, p)
    BY <1>1, <1>2, <1>6, <1>8 DEF Chained
  <2>2. ASSUME NEW pr \in H PROVE Behind(View, t, p, w.i, pr[1])
    <3>1. SUFFICES ASSUME ~(\A y \in t.range[p] : pr[1] < y), pr[1] \notin t.range[p]
                   PROVE FALSE
      BY <1>7
    <3>2. PICK y \in t.range[p] : ~(pr[1] < y)
      BY <3>1
    <3>3. y < pr[1]
      BY <1>6, <1>7, <3>1, <3>2
    <3> QED BY <1>7, <2>1, <3>1, <3>3 DEF IsLast
  <2>3. ToSet(v.out) = H
    <3> HIDE DEF H, v
    <3> QED BY <1>2, <1>5, <2>2
  <2> HIDE DEF v
  <2>4. Walking(View, t, start, end, v)
    BY <1>2, <1>5, <1>8, <2>3 DEF Walking
  <2> QED BY <2>4 DEF v
<1>9. CASE q # NoNext
  <2>1. Follows(t, p, q) /\ View[q].type = Leaf
    BY <1>1, <1>2, <1>6, <1>9 DEF Chained
  <2>2. IsLeaf(View, t, q) /\ t.range[q] \subseteq Int
    BY <2>1, RangeOrder DEF IsLeaf, Follows
  <2>3. Cardinality(Rest(t, q)) <= v.left
    <3>1. Cardinality(Rest(t, q)) < Cardinality(Rest(t, p))
      BY <1>2, <2>1, RestShrinks
    <3>2. Cardinality(Rest(t, q)) \in Nat /\ Cardinality(Rest(t, p)) \in Nat
      BY RestFacts
    <3> HIDE DEF v, q, p
    <3> QED BY <1>1, <1>2, <1>5, <3>1, <3>2
  <2>4. v.i <= Len(View[q].keys) + 1
    <3>1. View[q] \in NodesOver(AnyPair)
      <4>1. q \in Int
        BY <1>3, NodeFacts
      <4> QED BY <4>1, ReadNodeType DEF View
    <3>2. Len(View[q].keys) \in Nat
      BY <3>1, NodeFacts
    <3> HIDE DEF v, q
    <3> QED BY <1>5, <3>2
  <2>5. ASSUME NEW pr \in H
        PROVE  Behind(View, t, p, w.i, pr[1]) <=> Behind(View, t, q, 1, pr[1])
    <3> DEFINE k == pr[1]
    <3>1. k \in Keys /\ k \in Int
      BY <1>7
    <3>2. Behind(View, t, q, 1, k) <=> \A y \in t.range[q] : k < y
      <4>1. 1 .. (1 - 1) = {}
        OBVIOUS
      <4> QED BY <4>1 DEF Behind
    <3>3. Behind(View, t, p, w.i, k) <=> (\A y \in t.range[p] : k < y) \/ k \in t.range[p]
      BY <1>7
    <3> HIDE DEF k, q, p
    <3>4. ASSUME k \in t.range[p] PROVE \A y \in t.range[q] : k < y
      BY <2>1, <3>4 DEF Follows
    <3>5. ASSUME \A y \in t.range[p] : k < y PROVE \A y \in t.range[q] : k < y
      <4>1. PICK x \in t.range[p] : TRUE
        BY <1>6
      <4>2. ASSUME NEW y \in t.range[q] PROVE k < y
        <5>1. k < x /\ x < y /\ x \in Int /\ y \in Int
          BY <1>6, <2>1, <2>2, <3>5, <4>1 DEF Follows
        <5> QED BY <3>1, <5>1
      <4> QED BY <4>2
    <3>6. ASSUME \A y \in t.range[q] : k < y, k \notin t.range[p]
          PROVE  \A y \in t.range[p] : k < y
      <4>1. SUFFICES ASSUME NEW x \in t.range[p], ~(k < x) PROVE FALSE
        OBVIOUS
      <4>2. x < k /\ k \in Keys \ t.range[p]
        BY <1>6, <3>1, <3>6, <4>1
      <4>3. PICK y \in t.range[q] : y <= k
        BY <2>1, <4>2 DEF Follows
      <4>4. k < y /\ y \in Int
        BY <2>2, <3>6
      <4> QED BY <3>1, <4>3, <4>4
    <3>7. Behind(View, t, p, w.i, k) <=> Behind(View, t, q, 1, k)
      BY <3>2, <3>3, <3>4, <3>5, <3>6
    <3> QED BY <3>7 DEF k
  <2>6. ToSet(v.out) = {pr \in H : Behind(View, t, v.page, v.i, pr[1])}
    <3> HIDE DEF H, v, q, p
    <3> QED BY <1>2, <1>5, <2>5
  <2> HIDE DEF v, q
  <2>7. Walking(View, t, start, end, v)
    BY <1>2, <1>5, <1>9, <2>2, <2>3, <2>4, <2>6 DEF Walking
  <2> QED BY <2>7 DEF v
<1> QED BY <1>8, <1>9

(* Where the walk ends, all pairs of the range have been put out. *)
LEMMA WalkEndsRight ==
  ASSUME Holding(AnyPair), NEW t \in Pictures, LeavesFit(View, t), Chained(View, t),
         t.pages \subseteq PageIds,
         NEW start \in Keys, NEW end \in Keys, NEW w \in WalkEnds(end),
         Walking(View, t, start, end, w)
  PROVE  Ascending(w.out) /\ ToSet(w.out) = Hits(View, t, start, end)
<1> DEFINE p == w.page
           i == w.i
           node == ReadNode(p)
           n == Len(node.keys)
           H == Hits(View, t, start, end)
<1>1. /\ w \in Walks /\ p \in Int /\ i \in Nat /\ i >= 1 /\ w.left \in Nat /\ View[p] = node
      /\ Ascending(w.out)
  BY BTreeAssumption DEF WalkEnds, Walks, View, Walking
<1>2. CASE p = NoNext
  BY <1>1, <1>2 DEF Walking
<1>3. CASE p # NoNext
  <2>1. /\ IsLeaf(View, t, p) /\ Cardinality(Rest(t, p)) <= w.left /\ i <= n + 1
        /\ ToSet(w.out) = {pr \in H : Behind(View, t, p, i, pr[1])}
    BY <1>1, <1>3 DEF Walking
  <2>2. p \in t.pages /\ t.level[p] = 0 /\ t.range[p] # {} /\ t.range[p] \subseteq Int
        /\ LeafFits(t.range[p], node.keys)
    BY <1>1, <2>1, RangeOrder DEF IsLeaf, LeavesFit
  <2>3. node \in NodesOver(AnyPair) /\ n \in Nat /\ DOMAIN node.keys = 1 .. n
    BY <1>1, ReadNodeType, NodeFacts
  <2>4. w.left # 0
    <3>1. SUFFICES ASSUME w.left = 0 PROVE FALSE
      OBVIOUS
    <3>2. PICK z \in t.range[p] : TRUE
      BY <2>2
    <3>3. p \in Rest(t, p)
      <4>1. z <= z
        BY <2>2, <3>2
      <4> QED BY <2>2, <3>2, <4>1 DEF Rest
    <3>4. IsFiniteSet(Rest(t, p)) /\ Cardinality(Rest(t, p)) \in Nat
      BY RestFacts
    <3>5. Cardinality(Rest(t, p)) = 0
      BY <2>1, <3>1, <3>4
    <3>6. Rest(t, p) = {}
      BY <3>4, <3>5, FS_EmptySet
    <3> QED BY <3>3, <3>6
  <2>5. ~(i > n) /\ node.keys[i] > end
    BY <1>3, <2>4 DEF WalkEnds
  <2>6. i \in 1 .. n
    BY <1>1, <2>3, <2>5
  <2>7. node.keys[i] \in Keys /\ node.keys[i] \in Int /\ end \in Int /\ node.keys[i] \in t.range[p]
    BY <2>2, <2>3, <2>6, PairType, OrderFacts DEF LeafFits
  <2>8. ASSUME NEW pr \in H PROVE Behind(View, t, p, i, pr[1])
    <3> DEFINE k == pr[1]
    <3>1. pr \in PairsIn(View, t) /\ start <= k /\ k <= end
      BY DEF Hits
    <3>2. /\ k \in Keys /\ k \in Int
          /\ k \in t.range[p] => Has(View[p], k, pr[2])
      BY <2>2, <3>1, LeafHas, OrderFacts
    <3> HIDE DEF k
    <3>3. k < node.keys[i]
      BY <2>5, <2>7, <3>1, <3>2
    <3>4. CASE k \in t.range[p]
      <4>1. PICK j \in DOMAIN node.keys : node.keys[j] = k
        BY <1>1, <3>2, <3>4 DEF Has
      <4>2. j \in Int /\ i \in Int /\ i \in DOMAIN node.keys /\ j \in 1 .. n
        BY <2>3, <2>6, <4>1
      <4>3. j < i
        <5>1. i < j => node.keys[i] < node.keys[j]
          BY <2>2, <4>2 DEF LeafFits, Increasing
        <5> QED BY <2>7, <3>2, <3>3, <4>1, <4>2, <5>1
      <4>4. j \in 1 .. (i - 1)
        BY <4>2, <4>3
      <4> QED BY <1>1, <4>1, <4>4 DEF Behind, k
    <3>5. CASE k \notin t.range[p]
      <4>1. ASSUME NEW y \in t.range[p], ~(k < y) PROVE FALSE
        <5>1. y < k /\ y \in Int
          BY <2>2, <3>2, <3>5, <4>1
        <5> QED BY <2>1, <2>7, <3>2, <3>3, <3>5, <5>1, LeafIsWhole
      <4> QED BY <4>1 DEF Behind, k
    <3> QED BY <3>4, <3>5
  <2> HIDE DEF H
  <2> QED BY <1>1, <2>1, <2>8 DEF H
<1> QED BY <1>2, <1>3

(* RangeQuery returns the pairs of its range, if it starts at a leaf that is not
   beyond the first of them. *)
LEMMA WalkFinds ==
  ASSUME Holding(AnyPair), root_page_id \in Int,
         NEW t \in Pictures, LeavesFit(View, t), Chained(View, t), t.pages \subseteq PageIds,
         NEW start \in Keys, NEW end \in Keys,
         IsLeaf(View, t, LeafFor(start)), \E y \in t.range[LeafFor(start)] : y <= start
  PROVE  /\ Ascending(RangeQuery(start, end))
         /\ ToSet(RangeQuery(start, end)) = Hits(View, t, start, end)
<1> DEFINE p == LeafFor(start)
           s == [page |-> p, i |-> 1, left |-> MaxPageId + 2, out |-> << >>]
           I == {w \in Walks : Walking(View, t, start, end, w)}
           done == WalkEnds(end)
           next == WalkNext(start, end)
<1>1. /\ WalkSize \in [Walks -> Nat] /\ Shrinks(WalkSize, Walks \ done, next)
      /\ \E f : /\ LoopOf(f, Walks, done, WalkOut, next)
                /\ RangeQuery(start, end) = IF ReadNode(p).type = Leaf THEN f[s] ELSE << >>
  BY WalkLoop
<1>2. /\ p \in t.pages /\ p \in Int /\ p \in PageIds /\ View[p] = ReadNode(p)
      /\ ReadNode(p).type = Leaf /\ t.range[p] # {} /\ t.range[p] \subseteq Int /\ t.level[p] = 0
  BY PictureFacts, RangeOrder DEF IsLeaf, View
<1>3. PICK f : /\ LoopOf(f, Walks, done, WalkOut, next)
               /\ RangeQuery(start, end) = f[s]
  <2> HIDE DEF done, next, s, p
  <2> QED BY <1>1, <1>2
<1>4. s \in I
  <2>1. s \in Walks
    <3>1. MaxPageId + 2 \in 0 .. MaxPageId + 2 /\ << >> \in Seq(Keys \X Int)
      BY BTreeAssumption
    <3> HIDE DEF p
    <3> QED BY <1>2, <3>1 DEF Walks
  <2>2. p # NoNext
    BY <1>2, BTreeAssumption DEF PageIds, NoNext
  <2>3. Len(View[p].keys) \in Nat
    BY <1>2, ReadNodeType, NodeFacts
  <2>4. Cardinality(Rest(t, p)) <= MaxPageId + 2
    BY RestFacts
  <2>5. ASSUME NEW pr \in Hits(View, t, start, end), Behind(View, t, p, 1, pr[1]) PROVE FALSE
    <3>1. pr \in PairsIn(View, t) /\ start <= pr[1]
      BY DEF Hits
    <3>2. pr[1] \in Int /\ start \in Int
      BY <1>2, <3>1, LeafHas, OrderFacts
    <3>3. PICK y \in t.range[p] : y <= start
      OBVIOUS
    <3>4. 1 .. (1 - 1) = {}
      OBVIOUS
    <3>5. pr[1] < y
      BY <2>5, <3>3, <3>4 DEF Behind
    <3>6. y \in Int
      BY <1>2, <3>3
    <3> QED BY <3>1, <3>2, <3>3, <3>5, <3>6
  <2> HIDE DEF p
  <2>6. {pr \in Hits(View, t, start, end) : Behind(View, t, p, 1, pr[1])} = {}
    BY <2>5
  <2>7. ToSet(<< >>) = {} /\ Ascending(<< >>)
    BY DEF ToSet, Ascending
  <2>8. IsLeaf(View, t, p)
    BY DEF p
  <2>9. 1 <= Len(View[p].keys) + 1
    BY <2>3
  <2>10. s.page = p /\ s.i = 1 /\ s.left = MaxPageId + 2 /\ s.out = << >>
    OBVIOUS
  <2> HIDE DEF s
  <2>11. Walking(View, t, start, end, s)
    BY <2>2, <2>4, <2>6, <2>7, <2>8, <2>9, <2>10 DEF Walking
  <2> QED BY <2>1, <2>11
<1>5. ASSUME NEW w \in I \ done PROVE next[w] \in I
  <2>1. w \in Walks /\ w \notin done /\ Walking(View, t, start, end, w)
    OBVIOUS
  <2>2. next[w] = Stepped(w, start) /\ Stepped(w, start) \in Walks
    BY <2>1, SteppedType DEF WalkNext
  <2>3. w.i \in Int /\ Len(ReadNode(w.page).keys) \in Int
    <3>1. w.page \in Int /\ w.i \in Int
      BY <2>1 DEF Walks
    <3> QED BY <3>1, ReadNodeType, NodeFacts
  <2>4. Walking(View, t, start, end, Stepped(w, start))
    <3>1. w.i <= Len(ReadNode(w.page).keys) \/ w.i > Len(ReadNode(w.page).keys)
      BY <2>3
    <3> QED BY <2>1, <3>1, WalkTakesKey, WalkTurnsPage
  <2> QED BY <2>2, <2>4
<1>6. I \in SUBSET Walks /\ done \in SUBSET Walks
  BY DEF WalkEnds
<1>7. Shrinks(WalkSize, I \ done, next)
  BY <1>1, <1>6 DEF Shrinks
<1>8. f[s] \in {WalkOut[w] : w \in I \cap done}
  <2> HIDE DEF I, done, next, s
  <2> QED BY <1>1, <1>3, <1>4, <1>5, <1>6, <1>7, LoopEnds
<1>9. PICK w \in I \cap done : f[s] = WalkOut[w]
  <2> HIDE DEF I, done, s
  <2> QED BY <1>8
<1>10. w \in Walks /\ w \in done /\ Walking(View, t, start, end, w) /\ WalkOut[w] = w.out
  BY DEF WalkOut
<1>11. Ascending(w.out) /\ ToSet(w.out) = Hits(View, t, start, end)
  <2> HIDE DEF I
  <2> QED BY <1>10, WalkEndsRight
<1> HIDE DEF s
<1> QED BY <1>3, <1>9, <1>10, <1>11

(* RangeQuery finds the pairs of its range, in ascending order. *)
LEMMA RangeFinds ==
  ASSUME Holding(AnyPair), next_page_id \in Nat, NEW t, Standing(t),
         NEW lo \in Keys, NEW hi \in Keys
  PROVE  /\ Ascending(RangeQuery(lo, hi))
         /\ ToSet(RangeQuery(lo, hi)) = Hits(View, t, lo, hi)
<1> DEFINE p == LeafFor(lo)
<1>1. /\ t \in Pictures /\ Tree(View, root_page_id, t, t.range) /\ Chained(View, t)
      /\ t.pages \subseteq PageIds
  BY DEF Standing
<1>2. Stands(t) /\ root_page_id \in Int
  BY StandingFacts
<1>3. p \in t.pages /\ t.level[p] = 0 /\ lo \in t.range[p]
  BY <1>2, SearchEndsAt
<1>4. p \in Int /\ View[p] = ReadNode(p) /\ NodeFits(View, root_page_id, t, t.range, p)
  BY <1>1, <1>3, PictureFacts DEF View, Tree
<1> HIDE DEF p
<1>5. CASE View[p].type = Leaf
  <2>1. LeavesFit(View, t)
    BY <1>1 DEF LeavesFit, Tree, NodeFits
  <2>2. IsLeaf(View, t, p)
    BY <1>3, <1>5 DEF IsLeaf
  <2>3. lo <= lo
    BY OrderFacts
  <2>4. \E y \in t.range[p] : y <= lo
    BY <1>3, <2>3
  <2> QED BY <1>1, <1>2, <2>1, <2>2, <2>4, WalkFinds DEF p
<1>6. CASE View[p].type # Leaf
  <2>1. p = root_page_id /\ View[p] = Blank
    BY <1>3, <1>4, <1>6 DEF NodeFits
  <2>2. RangeQuery(lo, hi) = << >>
    BY <1>2, <1>4, <1>6, WalkLoop DEF p
  <2>3. ReadNode(root_page_id).type = "blank"
    BY <1>4, <2>1 DEF Blank
  <2>4. t.range[p] = Keys
    BY <2>1, <2>3, BlankRoot
  <2>5. ASSUME NEW pr \in PairsIn(View, t) PROVE FALSE
    <3>1. PICK q \in t.pages : t.level[q] = 0 /\ Has(View[q], pr[1], pr[2])
      BY DEF PairsIn
    <3>2. View[q].type = Leaf /\ pr[1] \in t.range[q]
      BY <1>1, <3>1, HasInRange
    <3>3. pr[1] \in t.range[p]
      BY <1>1, <2>4, <3>1, <3>2, PictureFacts
    <3>4. q = p
      BY <1>1, <1>3, <3>1, <3>2, <3>3, SamePage DEF Tree
    <3> QED BY <1>6, <3>2, <3>4
  <2>6. Hits(View, t, lo, hi) = {}
    BY <2>5 DEF Hits
  <2>7. Ascending(<< >>) /\ ToSet(<< >>) = {}
    BY DEF Ascending, ToSet
  <2> QED BY <2>2, <2>6, <2>7
<1> QED BY <1>5, <1>6

(* The pairs of the tree are what Find returns for its keys. *)
LEMMA PairsAreFound ==
  ASSUME Holding(AnyPair), Holding(Inputs), next_page_id \in Nat, NEW t, Standing(t)
  PROVE  PairsIn(View, t) = {<<k, Find(k)>> : k \in {x \in Keys : Find(x) # NotFound}}
<1> DEFINE Q == PairsIn(View, t)
           F(k) == Find(k)
<1>1. Q \subseteq Keys \X Nat
  BY PairsAreInputs
<1>2. \A k \in Keys : /\ \A val \in Int : <<k, val>> \in Q => F(k) = val
                      /\ (\A val \in Int : <<k, val>> \notin Q) => F(k) = NotFound
  BY AlwaysAnswers DEF Answers, Finds
<1> HIDE DEF Q, F
<1>3. ASSUME NEW pr \in Q
      PROVE  pr[1] \in Keys /\ F(pr[1]) # NotFound /\ pr = <<pr[1], F(pr[1])>>
  <2>1. pr[1] \in Keys /\ pr[2] \in Nat /\ pr = <<pr[1], pr[2]>>
    BY <1>1
  <2>2. F(pr[1]) = pr[2]
    BY <1>2, <2>1
  <2> QED BY <2>1, <2>2 DEF NotFound
<1>4. ASSUME NEW k \in Keys, F(k) # NotFound PROVE <<k, F(k)>> \in Q
  BY <1>2, <1>4
<1>5. Q = {<<k, F(k)>> : k \in {x \in Keys : F(x) # NotFound}}
  BY <1>3, <1>4
<1> QED BY <1>5 DEF Q, F

(* Until one of the hazards happens, the chain of leaves is whole: a range query
   returns the pairs that Find finds, in ascending order, and nothing else. *)
THEOREM RangesAgree == Spec => []RangeAgreesWithFind
<1>1. TreeInv /\ Ordered => RangeAgreesWithFind
  <2> DEFINE found == {<<k, Find(k)>> : k \in {x \in Keys : Find(x) # NotFound}}
  <2> SUFFICES ASSUME TreeInv, Ordered, hazards = {}, NEW lo \in Keys, NEW hi \in Keys
               PROVE  LET out == RangeQuery(lo, hi)
                      IN  /\ \A i, j \in DOMAIN out : i < j => out[i][1] < out[j][1]
                          /\ ToSet(out) = {pair \in found : lo <= pair[1] /\ pair[1] <= hi}
    BY DEF RangeAgreesWithFind
  <2>1. Holding(AnyPair) /\ next_page_id \in Nat /\ Holding(Inputs)
    BY DEF TreeInv, Shape
  <2>2. PICK t : Standing(t)
    BY DEF Ordered
  <2>3. /\ Ascending(RangeQuery(lo, hi))
        /\ ToSet(RangeQuery(lo, hi)) = Hits(View, t, lo, hi)
    BY <2>1, <2>2, RangeFinds
  <2>4. PairsIn(View, t) = found
    BY <2>1, <2>2, PairsAreFound
  <2> HIDE DEF found
  <2> QED BY <2>3, <2>4 DEF Ascending, Hits
<1> QED BY <1>1, OrderedCorrect, TreeCorrect, PTL

-----------------------------------------------------------------------------
(* A split that has failed half way *)

(* The keys R begin at key or before it. *)
Reaches(R, key) == \E y \in R : y <= key

(* The child for a key that the node may not have in its range begins no later. *)
LEMMA ChildReaches ==
  ASSUME NEW node \in NodesOver(AnyPair), NEW R, R \subseteq Keys, NEW l, NEW t, NEW wide,
         Divides(R, l, node.keys, Children(node), t, wide),
         NEW key \in Keys, Reaches(R, key)
  PROVE  LET c == Child(node, key)
         IN  c \in t.pages /\ t.level[c] = l /\ Reaches(wide[c], key)
<1> DEFINE ks == node.keys
           cs == Children(node)
           i == ChildIndex(node, key) + 1
<1>1. /\ LeafFits(R, ks)
      /\ \A j \in 1 .. Len(ks) + 1 :
           cs[j] \in t.pages /\ t.level[cs[j]] = l /\ wide[cs[j]] = Slot(R, ks, j)
  BY DEF Divides
<1>2. i \in 1 .. Len(ks) + 1 /\ key \in Slot(Keys, ks, i)
  BY <1>1, ChildSlot DEF LeafFits
<1>3. Child(node, key) = cs[i]
  BY DEF Child
<1>4. ks \in Seq(Keys) /\ Len(ks) \in Nat /\ DOMAIN ks = 1 .. Len(ks)
  BY NodeFacts
<1>5. \A j \in 1 .. Len(ks) : ks[j] \in Int /\ ks[j] \in R
  BY <1>1, <1>4, ElementOfSeq, OrderFacts DEF LeafFits
<1> HIDE DEF i, cs, ks
<1>6. key \in Int /\ R \subseteq Int /\ i \in Nat
  BY <1>2, <1>4, OrderFacts
<1>7. Reaches(Slot(R, ks, i), key)
  <2>1. CASE i > 1
    <3>1. i - 1 \in 1 .. Len(ks) /\ ks[i - 1] <= key /\ ks[i - 1] \in R
      BY <1>2, <1>4, <1>5, <1>6, <2>1 DEF Slot
    <3>2. i <= Len(ks) => ks[i - 1] < ks[i]
      <4>1. i <= Len(ks) => i \in DOMAIN ks /\ i - 1 \in DOMAIN ks /\ i - 1 < i
        BY <1>4, <1>6, <3>1
      <4> QED BY <1>1, <4>1 DEF LeafFits, Increasing
    <3>3. ks[i - 1] <= ks[i - 1]
      BY <1>5, <3>1
    <3>4. ks[i - 1] \in Slot(R, ks, i)
      BY <3>1, <3>2, <3>3 DEF Slot
    <3> QED BY <3>1, <3>4 DEF Reaches
  <2>2. CASE ~(i > 1)
    <3>1. PICK y \in R : y <= key
      BY DEF Reaches
    <3>2. i <= Len(ks) => y < ks[i]
      <4>1. i <= Len(ks) => key < ks[i] /\ ks[i] \in Int
        BY <1>2, <1>4, <1>5, <1>6 DEF Slot
      <4> QED BY <1>6, <3>1, <4>1
    <3>3. y \in Slot(R, ks, i)
      BY <2>2, <3>2 DEF Slot
    <3> QED BY <3>1, <3>3 DEF Reaches
  <2> QED BY <2>1, <2>2
<1> QED BY <1>1, <1>2, <1>3, <1>7

(* Where a search arrives at a page that is being divided, it is the left half, and
   that one begins no later than both. *)
LEMMA NarrowReaches ==
  ASSUME NEW t \in Pictures, NEW left, NEW right, NEW promote, NEW l,
         Halves(t, left, right, promote, l), NEW q \in t.pages, NEW key \in Keys,
         Reaches(Wide(t, left, right)[q], key)
  PROVE  Reaches(t.range[q], key)
<1>1. /\ left # right /\ promote \in Keys
      /\ Wide(t, left, right)[left] = t.range[left] \cup t.range[right]
      /\ Wide(t, left, right)[right] = {}
      /\ \A c \in t.pages \ {left, right} : Wide(t, left, right)[c] = t.range[c]
  BY DividingFacts
<1>2. CASE q = right
  BY <1>1, <1>2 DEF Reaches
<1>3. CASE q = left
  <2>1. PICK y \in t.range[left] \cup t.range[right] : y <= key
    BY <1>1, <1>3 DEF Reaches
  <2>2. CASE y \in t.range[left]
    BY <1>3, <2>1, <2>2 DEF Reaches
  <2>3. CASE y \in t.range[right]
    <3>1. PICK x \in t.range[left] : x < promote
      BY DEF Halves
    <3>2. promote <= y
      BY <2>3 DEF Halves
    <3>3. x \in Int /\ y \in Int /\ promote \in Int /\ key \in Int
      <4>1. left \in t.pages /\ right \in t.pages
        BY DEF Halves
      <4> QED BY <1>1, <2>3, <4>1, RangeOrder, OrderFacts
    <3>4. x <= key
      BY <2>1, <3>1, <3>2, <3>3
    <3> QED BY <1>3, <3>4 DEF Reaches
  <2> QED BY <2>1, <2>2, <2>3
<1>4. CASE q \notin {left, right}
  BY <1>1, <1>4
<1> QED BY <1>2, <1>3, <1>4

(* A tree in which a page has been divided and the levels above do not know. *)
Hanging(t, Q) ==
  \E left, right, promote, l :
    /\ t \in Pictures
    /\ Dividing(View, root_page_id, t, left, right, promote, l)
    /\ View[left] # Blank
    /\ Chained(View, t) /\ PairsIn(View, t) = Q
    /\ t.pages \subseteq PageIds
    /\ t.level[root_page_id] <= MaxPageId + 2
    /\ \A p \in t.pages : t.level[p] <= t.level[root_page_id]

(* Every page of it is written. *)
LEMMA HangingNode ==
  ASSUME NEW t \in Pictures, NEW left, NEW right, NEW promote, NEW l,
         Dividing(View, root_page_id, t, left, right, promote, l), View[left] # Blank,
         t.level[left] <= t.level[root_page_id], NEW p \in t.pages
  PROVE  IF t.level[p] = 0 THEN View[p].type = Leaf
         ELSE /\ View[p].type = Internal
              /\ Divides(t.range[p], t.level[p] - 1, View[p].keys, Children(View[p]), t,
                         Wide(t, left, right))
<1> DEFINE root == root_page_id
           wide == Wide(t, left, right)
<1>1. /\ Halves(t, left, right, promote, l) /\ wide[root] = Keys /\ Disjoint(t)
      /\ NodeFits(View, root, t, wide, p) /\ root \in t.pages
  BY DEF Dividing, Tree
<1>2. /\ wide[right] = {} /\ left \in t.pages /\ t.range[left] # {}
      /\ \A c \in t.pages \ {left, right} : wide[c] = t.range[c]
  BY <1>1, DividingFacts DEF Halves
<1>3. t.range[left] \subseteq Keys
  BY <1>2, RangeOrder
<1> HIDE DEF wide
<1>4. CASE t.level[p] = 0
  <2>1. SUFFICES ASSUME p = root, View[p] = Blank PROVE FALSE
    BY <1>1, <1>4 DEF NodeFits
  <2>2. root # left /\ root # right
    BY <1>1, <1>2, <1>3, <2>1
  <2>3. t.range[root] = Keys
    BY <1>1, <1>2, <2>2
  <2>4. t.level[left] = 0
    BY <1>2, <1>4, <2>1, PictureFacts
  <2>5. t.range[root] \cap t.range[left] = {}
    BY <1>1, <1>2, <1>4, <2>1, <2>2, <2>4 DEF Disjoint
  <2> QED BY <1>2, <1>3, <2>3, <2>5
<1>5. CASE t.level[p] # 0
  BY <1>1, <1>5 DEF NodeFits, wide
<1> QED BY <1>4, <1>5

(* A search in it ends at a leaf that begins no later than the key. *)
LEMMA DescentHanging ==
  ASSUME Holding(AnyPair), root_page_id \in Int, NEW t, NEW Q, Hanging(t, Q), NEW key \in Keys
  PROVE  IsLeaf(View, t, LeafFor(key)) /\ Reaches(t.range[LeafFor(key)], key)
<1> DEFINE h == t.level[root_page_id]
           N == MaxPageId + 2
           stop == {Leaf, "blank"}
           Good(d) == /\ d.page \in t.pages /\ Reaches(t.range[d.page], key)
                      /\ t.level[d.page] <= d.left
           Fine(o) == /\ o.ends /\ IsLeaf(View, t, o.page) /\ Reaches(t.range[o.page], key)
<1>0. PICK left, right, promote, l :
        /\ t \in Pictures /\ t.level[left] <= h
        /\ Dividing(View, root_page_id, t, left, right, promote, l)
        /\ View[left] # Blank /\ h <= N
  <2>1. PICK left, right, promote, l :
          /\ t \in Pictures
          /\ Dividing(View, root_page_id, t, left, right, promote, l)
          /\ View[left] # Blank /\ h <= N
          /\ \A p \in t.pages : t.level[p] <= h
    BY DEF Hanging
  <2>2. left \in t.pages
    BY <2>1 DEF Dividing, Halves
  <2> QED BY <2>1, <2>2
<1>1. PICK f : DeepestAt(f, key, stop) /\ Descent(key, stop) = f[Start]
  BY DescentLoop
<1> DEFINE S == {k \in 0 .. N : \A d \in Descents : d.left = k /\ Good(d) => Fine(f[d])}
           wide == Wide(t, left, right)
<1>2. N \in Nat /\ h \in Nat /\ root_page_id \in t.pages /\ Halves(t, left, right, promote, l)
      /\ wide[root_page_id] = Keys
  BY <1>0, BTreeAssumption, PictureFacts DEF Dividing, Tree
<1>3. ASSUME NEW d \in Descents, Good(d)
      PROVE  /\ d.left \in Nat /\ d.page \in Int /\ t.level[d.page] \in Nat
             /\ (t.level[d.page] = 0) <=> Ends(d, stop)
             /\ t.level[d.page] = 0 => ReadNode(d.page).type = Leaf
             /\ t.level[d.page] # 0 =>
                  Divides(t.range[d.page], t.level[d.page] - 1, ReadNode(d.page).keys,
                          Children(ReadNode(d.page)), t, wide)
  <2>1. d.left \in Nat /\ d.page \in Int
    BY <1>2 DEF Descents
  <2>2. t.level[d.page] \in Nat /\ View[d.page] = ReadNode(d.page)
    BY <1>0, <1>3, <2>1, PictureFacts DEF View
  <2> DEFINE p == d.page
  <2>3. p \in t.pages
    BY <1>3
  <2> HIDE DEF p, wide, h
  <2>4. IF t.level[p] = 0 THEN View[p].type = Leaf
        ELSE /\ View[p].type = Internal
             /\ Divides(t.range[p], t.level[p] - 1, View[p].keys, Children(View[p]), t,
                        Wide(t, left, right))
    BY <1>0, <2>3, HangingNode DEF h
  <2> QED BY <2>1, <2>2, <2>4 DEF Ends, Leaf, Internal, p, wide
<1>4. ASSUME NEW d \in Descents, Good(d), Ends(d, stop) PROVE Fine(f[d])
  <2>1. t.level[d.page] = 0 /\ ReadNode(d.page).type = Leaf /\ d.page \in Int
    BY <1>3, <1>4
  <2>2. f[d] = Outcome(d, stop)
    BY <1>1, <1>4 DEF DeepestAt
  <2>3. f[d].ends /\ f[d].page = d.page
    BY <1>4, <2>2 DEF Outcome
  <2>4. IsLeaf(View, t, d.page)
    BY <1>4, <2>1 DEF IsLeaf, View, Reaches
  <2> QED BY <1>4, <2>3, <2>4
<1>5. ASSUME NEW d \in Descents, Good(d), ~Ends(d, stop)
      PROVE  d.left # 0 /\ Good(Deeper(d, key))
  <2> DEFINE node == ReadNode(d.page)
             c == Child(node, key)
             R == t.range[d.page]
             a == t.level[d.page]
  <2>1. /\ d.left \in Nat /\ d.page \in Int /\ a \in Nat /\ a # 0 /\ a <= d.left
        /\ Divides(R, a - 1, node.keys, Children(node), t, wide)
    BY <1>3, <1>5
  <2>2. d.left # 0
    <3> HIDE DEF a
    <3> QED BY <2>1
  <2>3. node \in NodesOver(AnyPair) /\ R \subseteq Keys /\ Reaches(R, key)
    BY <1>0, <1>5, <2>1, ReadNodeType, RangeOrder
  <2>4. Deeper(d, key).page = c /\ Deeper(d, key).left = d.left - 1
    BY DEF Deeper
  <2>5. c \in t.pages /\ t.level[c] = a - 1 /\ Reaches(wide[c], key)
    <3> HIDE DEF node, R, a, wide
    <3> QED BY <2>1, <2>3, ChildReaches
  <2> HIDE DEF c
  <2>6. Reaches(t.range[c], key)
    BY <1>0, <1>2, <2>5, NarrowReaches
  <2>7. t.level[c] <= d.left - 1
    <3> HIDE DEF a
    <3> QED BY <2>1, <2>5
  <2> QED BY <2>2, <2>4, <2>5, <2>6, <2>7
<1> HIDE DEF Good, Fine
<1>6. 0 \in S
  <2>1. ASSUME NEW d \in Descents, d.left = 0, Good(d) PROVE Fine(f[d])
    BY <1>4, <1>5, <2>1
  <2>2. 0 \in 0 .. N
    BY <1>2
  <2> QED BY <2>1, <2>2
<1>7. ASSUME NEW k \in 1 .. N, k - 1 \in S PROVE k \in S
  <2>1. ASSUME NEW d \in Descents, d.left = k, Good(d), ~Ends(d, stop) PROVE Fine(f[d])
    <3>1. d.left # 0 /\ Good(Deeper(d, key))
      BY <1>5, <2>1
    <3>2. /\ f[d] = f[Deeper(d, key)]
          /\ Deeper(d, key) \in Descents /\ Deeper(d, key).left = k - 1
      BY <1>1, <2>1, <3>1, DeeperType DEF DeepestAt
    <3> QED BY <1>7, <3>1, <3>2
  <2>2. k \in 0 .. N
    OBVIOUS
  <2> QED BY <1>4, <2>1, <2>2
<1>8. N \in S
  <2>1. 0 .. N \subseteq S
    <3> HIDE DEF S, N
    <3> QED BY <1>2, <1>6, <1>7, UpTo
  <2> QED BY <1>2, <2>1
<1>9. Start \in Descents /\ Start.left = N /\ Good(Start)
  <2>1. Start \in Descents /\ Start.left = N /\ Start.page = root_page_id
    BY StartType DEF Start
  <2>2. key <= key
    BY OrderFacts
  <2>3. Reaches(wide[root_page_id], key)
    BY <1>2, <2>2 DEF Reaches
  <2>4. Reaches(t.range[root_page_id], key)
    BY <1>0, <1>2, <2>3, NarrowReaches
  <2> QED BY <1>0, <1>2, <2>1, <2>4 DEF Good
<1>10. Fine(f[Start])
  BY <1>8, <1>9
<1>11. Lookup(key) = f[Start]
  BY <1>1 DEF Lookup
<1>12. LeafFor(key) = f[Start].page
  BY <1>10, <1>11, LeafForIsLookup DEF Fine
<1> QED
  BY <1>10, <1>12 DEF Fine

(* RangeQuery in it, as a fact of every state. *)
HangingAnswers ==
  Holding(AnyPair) /\ root_page_id \in Int =>
    \A t, Q : Hanging(t, Q) =>
      \A lo, hi \in Keys :
        ToSet(RangeQuery(lo, hi)) = {pr \in Q : lo <= pr[1] /\ pr[1] <= hi}

LEMMA AlwaysHangingAnswers == HangingAnswers
<1> SUFFICES ASSUME Holding(AnyPair), root_page_id \in Int, NEW t, NEW Q, Hanging(t, Q),
                    NEW lo \in Keys, NEW hi \in Keys
             PROVE  ToSet(RangeQuery(lo, hi)) = {pr \in Q : lo <= pr[1] /\ pr[1] <= hi}
  BY DEF HangingAnswers
<1>1. IsLeaf(View, t, LeafFor(lo)) /\ Reaches(t.range[LeafFor(lo)], lo)
  BY DescentHanging
<1>2. PICK left, right, promote, l :
        /\ t \in Pictures
        /\ Dividing(View, root_page_id, t, left, right, promote, l)
        /\ Chained(View, t) /\ PairsIn(View, t) = Q /\ t.pages \subseteq PageIds
  BY DEF Hanging
<1>3. LeavesFit(View, t)
  BY <1>2 DEF LeavesFit, Dividing, Tree, NodeFits
<1>4. \E y \in t.range[LeafFor(lo)] : y <= lo
  BY <1>1 DEF Reaches
<1>5. ToSet(RangeQuery(lo, hi)) = Hits(View, t, lo, hi)
  BY <1>1, <1>2, <1>3, <1>4, WalkFinds
<1> QED BY <1>2, <1>5 DEF Hits

LEMMA NextHangingAnswers == TRUE => HangingAnswers'
BY AlwaysHangingAnswers, PTL

LEMMA HangingNext ==
  ASSUME NEW u, NEW Q, NEW left, NEW right, NEW promote, NEW l,
         u \in Pictures, Dividing(View', root_page_id', u, left, right, promote, l),
         View'[left] # Blank, Chained(View', u), PairsIn(View', u) = Q, u.pages \subseteq PageIds,
         u.level[root_page_id'] <= MaxPageId + 2,
         \A p \in u.pages : u.level[p] <= u.level[root_page_id']
  PROVE  Hanging(u, Q)'
BY DEF Hanging

(* What is left of the pages when only a part of the effects is applied. *)
LEMMA TornHangs ==
  ASSUME next_page_id \in Nat, NEW effects \in Seq(Effects(AnyPair)), NEW Q, Torn(effects, Q),
         Fits(effects), Apply(effects), root_page_id' = root_page_id
  PROVE  \E u : Hanging(u, Q)'
<1> DEFINE V == After(effects)
           W == View'
<1>1. PICK u, left, right, promote, l :
        /\ u \in Pictures
        /\ Dividing(V, root_page_id, u, left, right, promote, l)
        /\ V[left] # Blank
        /\ Extent(effects, u, root_page_id)
        /\ PairsIn(V, u) = Q /\ Chained(V, u)
  BY DEF Torn
<1>2. PagesOf(effects) \subseteq PageIds
  BY DEF PagesOf, Fits
<1>3. u.pages \subseteq PageIds
  BY <1>1, <1>2 DEF Extent
<1>4. \A p \in u.pages : W[p] = V[p]
  BY <1>3, ApplyShows
<1>5. left \in u.pages /\ root_page_id \in u.pages
  BY <1>1 DEF Dividing, Halves, Tree
<1> HIDE DEF V, W
<1>6. Dividing(W, root_page_id, u, left, right, promote, l) /\ W[left] # Blank
      /\ PairsIn(W, u) = Q /\ Chained(W, u)
  BY <1>1, <1>4, <1>5, TreeSame, ChainSame DEF Dividing
<1>7. u.level[root_page_id] <= MaxPageId + 2
  <2> DEFINE h == u.level[root_page_id]
             m == NewPage(effects)
  <2>1. h \in Nat /\ m \in Nat /\ h + RootPage < m /\ m - 1 \in PageIds
    BY <1>1, <1>2, <1>5, PictureFacts, NewPageType DEF Extent
  <2> HIDE DEF h, m
  <2>2. h <= MaxPageId + 2
    BY <2>1, BTreeAssumption DEF PageIds
  <2> QED BY <2>2 DEF h
<1>8. Hanging(u, Q)'
  BY <1>1, <1>3, <1>6, <1>7, HangingNext DEF Extent, W
<1> QED BY <1>8

(* An insert with several effects has a key that was not there. *)
LEMMA SplitAddsKey ==
  ASSUME NEW key, NEW val, Len(InsertPlan(key, val).effects) > 1
  PROVE  AddsKey(key)
<1> DEFINE leaf == ReadNode(Descent(key, {Leaf}).page)
           blank == ReadNode(root_page_id).type = "blank"
           found == BinarySearch(leaf.keys, key).found
           plan == InsertPlan(key, val)
           Done(e) == [Split(<<e>>, 0, 0, 0) EXCEPT !.done = TRUE]
<1>1. SUFFICES ASSUME ~blank, found PROVE FALSE
  BY DEF AddsKey
<1>2. PICK e : plan = Done(e)
  BY <1>1 DEF InsertPlan
<1> HIDE DEF plan
<1>3. plan.effects = <<e>>
  BY <1>2 DEF Split
<1>4. Len(plan.effects) = 1
  BY <1>3
<1> QED BY <1>4 DEF plan

LEMMA InsertFailsTears ==
  ASSUME Sound, Holding(AnyPair)', NEW t, Standing(t), NEW key \in Keys, NEW val \in Int,
         InsertFails(key, val), hazards = {}, hazards' # {},
         NEW lo \in Keys, NEW k \in Keys, lo <= k, Find(k) # NotFound
  PROVE  <<k, Find(k)>> \in ToSet(RangeQuery(lo, k)')
<1> DEFINE plan == InsertPlan(key, val)
           effects == plan.effects
<1>0. PICK Q, pr : Q = With(PairsIn(View, t), key, val) /\ pr = <<k, Find(k)>>
  OBVIOUS
<1>1. PICK v : Final(plan, v, Q)
  BY <1>0, InsertPlanEnds DEF Sound
<1>2. PICK n \in 1 .. (Len(effects) - 1) :
        /\ Apply(SubSeq(effects, 1, n))
        /\ hazards' = hazards \cup (IF n = 1 THEN {} ELSE {"half_split"})
  BY DEF InsertFails
<1>3. Fits(effects) /\ root_page_id' = root_page_id
  BY DEF InsertFails
<1>4. n # 1
  BY <1>2
<1>5. AddsKey(key)
  <2>1. effects \in Seq(Effects(AnyPair))
    BY <1>1 DEF Final, Splits
  <2>2. Len(effects) \in Nat
    BY <2>1, LenProperties
  <2> HIDE DEF plan
  <2>3. Len(effects) > 1
    BY <1>2, <2>2
  <2> QED BY <2>3, SplitAddsKey DEF plan
<1> HIDE DEF plan
<1>6. effects \in Seq(Effects(AnyPair)) /\ StaysTorn(effects, Q)
  BY <1>1 DEF Final, Splits
<1> HIDE DEF effects
<1> DEFINE some == SubSeq(effects, 1, n)
<1>7. Len(effects) \in Nat /\ n \in 2 .. (Len(effects) - 1) /\ DOMAIN effects = 1 .. Len(effects)
  BY <1>2, <1>4, <1>6, LenProperties
<1>8. /\ some \in Seq(Effects(AnyPair)) /\ Len(some) = n
      /\ \A i \in 1 .. n : some[i] = effects[i]
  <2>1. 1 \in 1 .. Len(effects) + 1 /\ n \in (1 - 1) .. Len(effects) /\ n - 1 + 1 = n
        /\ \A i \in 1 .. n : 1 + i - 1 = i
    BY <1>7
  <2> HIDE DEF some
  <2>2. /\ SubSeq(effects, 1, n) \in Seq(Effects(AnyPair)) /\ Len(SubSeq(effects, 1, n)) = n - 1 + 1
        /\ \A i \in 1 .. (n - 1 + 1) : SubSeq(effects, 1, n)[i] = effects[1 + i - 1]
    BY <1>6, <2>1, CutSeq
  <2> QED BY <2>1, <2>2 DEF some
<1>9. Torn(some, Q)
  BY <1>6, <1>7 DEF StaysTorn
<1>10. Apply(some)
  BY <1>2
<1> HIDE DEF some
<1>11. Fits(some)
  <2>1. \A i \in DOMAIN some : i \in DOMAIN effects /\ some[i] = effects[i]
    BY <1>7, <1>8, LenProperties
  <2> QED BY <1>3, <2>1 DEF Fits
<1>12. PICK u : Hanging(u, Q)'
  BY <1>3, <1>8, <1>9, <1>10, <1>11, TornHangs DEF Sound
<1>13. pr \in Q /\ lo <= pr[1] /\ pr[1] <= k
  <2>1. pr \in PairsIn(View, t) /\ pr = <<pr[1], pr[2]>>
    BY <1>0, PairsAreFound DEF Sound
  <2>2. \A x \in Int : <<key, x>> \notin PairsIn(View, t)
    BY <1>5, AddsKeyShows DEF Sound
  <2>3. pr[2] \in Int
    BY <2>1, PairsAreInputs DEF Sound
  <2>4. pr[1] = k /\ k <= k /\ pr[1] # key
    BY <1>0, <2>1, <2>2, <2>3, OrderFacts
  <2> QED BY <1>0, <2>1, <2>4 DEF With
<1>14. root_page_id' \in Int
  BY <1>3 DEF Sound
<1>15. ToSet(RangeQuery(lo, k)') = {x \in Q : lo <= x[1] /\ x[1] <= k}
  BY <1>12, <1>14, NextHangingAnswers DEF HangingAnswers
<1>16. pr \in ToSet(RangeQuery(lo, k)')
  BY <1>13, <1>15
<1> QED BY <1>16, <1>0

(* A split that fails half way loses no key from the chain of leaves: a range query
   still returns every pair that Find found before. *)
THEOREM SplitKeepsChain == Spec => FailedSplitKeepsChain
<1> DEFINE kept ==
      hazards = {} /\ hazards' = {"half_split"} =>
        \A lo, k \in Keys :
          lo <= k /\ Find(k) # NotFound => <<k, Find(k)>> \in ToSet(RangeQuery(lo, k)')
<1>1. TreeInv /\ TreeInv' /\ Ordered /\ [Next]_vars => kept
  <2> SUFFICES ASSUME TreeInv, TreeInv', Ordered, [Next]_vars, hazards = {},
                      hazards' = {"half_split"}, NEW lo \in Keys, NEW k \in Keys, lo <= k,
                      Find(k) # NotFound
               PROVE  <<k, Find(k)>> \in ToSet(RangeQuery(lo, k)')
    OBVIOUS
  <2>1. Sound /\ Holding(AnyPair)'
    BY TreeIsSound DEF TreeInv, Shape
  <2>2. PICK t : Standing(t)
    BY DEF Ordered
  <2>3. PICK in \in Inputs : InsertFails(in[1], in[2])
    BY DEF Next, vars, Insert, InsertOverRoot, RemoveFromLeaf, RemoveFromParent,
           RemoveRootLevel, RemoveUndefined, RemoveFails, Save, Reopen
  <2>4. PICK key \in Keys, val \in Int : key = in[1] /\ val = in[2]
    BY InputFacts
  <2>5. InsertFails(key, val) /\ hazards' # {}
    BY <2>3, <2>4
  <2> QED BY <2>1, <2>2, <2>5, InsertFailsTears
<1>2. TreeInv /\ TreeInv' /\ Ordered /\ [Next]_vars => [kept]_vars
  BY <1>1
<1> HIDE DEF kept
<1>3. Spec => [][kept]_vars
  BY <1>2, OrderedCorrect, TreeCorrect, PTL DEF Spec
<1> QED BY <1>3 DEF kept, FailedSplitKeepsChain
=============================================================================
