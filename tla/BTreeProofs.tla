---------------------------- MODULE BTreeProofs -----------------------------
(***************************************************************************)
(* The B+ tree keeps its types, and its leaves hold no pair that was not   *)
(* inserted.                                                               *)
(*                                                                         *)
(* The invariant is about every page, reachable or not, so it needs no     *)
(* picture of the tree: NodesOver(P) are the nodes whose leaves have pairs *)
(* of P only, and each operation is shown to write such nodes over such    *)
(* nodes for every P.  With all pairs for P that is type correctness, with *)
(* the pairs that callers insert it is that no value goes astray.          *)
(*                                                                         *)
(* What the operations write follows from what they read: BinarySearch     *)
(* and the descent are loops, and LoopExists of SequenceFacts gives the    *)
(* functions that they are defined by.                                     *)
(***************************************************************************)
EXTENDS MCBTree, SequenceFacts

-----------------------------------------------------------------------------
(* Nodes *)

Types == {Leaf, Internal, "blank"}
AnyPair == Keys \X Int

(* The nodes whose leaves have pairs of P only. *)
NodesOver(P) ==
  {n \in [type : Types, keys : Seq(Keys), vals : Seq(Int), next : Int] :
     /\ Len(n.keys) <= MaxKeys
     /\ Len(n.vals) = Len(n.keys)
     /\ n.type = Leaf => \A i \in DOMAIN n.keys : <<n.keys[i], n.vals[i]>> \in P}

Increasing(keys) == \A i, j \in DOMAIN keys : i < j => keys[i] < keys[j]

LEMMA OrderFacts ==
  /\ MaxKeys \in Nat /\ MaxKeys >= 2
  /\ Keys \subseteq Int
  /\ Inputs \subseteq AnyPair
  /\ \A p \in PageIds : p \in Int
  /\ RootPage \in PageIds
BY BTreeAssumption DEF MaxKeys, AnyPair, PageIds

-----------------------------------------------------------------------------
(* Searching in a node *)

(* What a search may return: where the key is, or how many smaller keys there are. *)
Places(keys, key) ==
  {sr \in [index : 0 .. Len(keys), found : BOOLEAN] :
     /\ sr.found => sr.index < Len(keys) /\ keys[sr.index + 1] = key
     /\ Increasing(keys) =>
          /\ \A i \in 1 .. sr.index : keys[i] < key
          /\ ~sr.found => \A i \in (sr.index + 1) .. Len(keys) : key < keys[i]}

LEMMA MiddleFacts ==
  ASSUME NEW a \in Nat, NEW b \in Nat, a < b
  PROVE  (a + b) \div 2 \in a .. (b - 1)
<1> DEFINE m == (a + b) \div 2
<1>1. m \in Int /\ 2 * m <= a + b /\ a + b < 2 * m + 2
  OBVIOUS
<1> HIDE DEF m
<1>2. m \in a .. (b - 1)
  BY <1>1
<1> QED BY <1>2 DEF m

LEMMA BinarySearchFinds ==
  ASSUME NEW keys \in Seq(Keys), NEW key \in Keys
  PROVE  BinarySearch(keys, key) \in Places(keys, key)
<1> DEFINE n == Len(keys)
           S == (0 .. n) \X (0 .. n)
           mid(r) == (r[1] + r[2]) \div 2
           apart(r) == r[2] - r[1]
           done == {r \in S : r[1] >= r[2] \/ keys[mid(r) + 1] = key}
           size == [r \in S |-> IF r[1] >= r[2] THEN 0 ELSE apart(r)]
           out == [r \in S |-> IF r[1] >= r[2] THEN [index |-> r[1], found |-> FALSE]
                               ELSE [index |-> mid(r), found |-> TRUE]]
           half(r) == IF keys[mid(r) + 1] < key THEN <<mid(r) + 1, r[2]>> ELSE <<r[1], mid(r)>>
           next == [r \in S \ done |-> half(r)]
           T == [index : Int, found : BOOLEAN]
<1>1. n \in Nat /\ DOMAIN keys = 1 .. n /\ \A i \in 1 .. n : keys[i] \in Keys /\ keys[i] \in Int
  BY LenProperties, ElementOfSeq, OrderFacts
<1>2. key \in Int
  BY OrderFacts
<1> HIDE DEF n
<1>3. \A r \in S : r[1] \in 0 .. n /\ r[2] \in 0 .. n /\ r = <<r[1], r[2]>>
  OBVIOUS
<1>4. ASSUME NEW r \in S, r[1] < r[2] PROVE mid(r) \in r[1] .. (r[2] - 1)
  BY <1>1, <1>3, <1>4, MiddleFacts
<1>5. ASSUME NEW r \in S, r \notin done
      PROVE  /\ r[1] < r[2] /\ mid(r) \in r[1] .. (r[2] - 1)
             /\ mid(r) + 1 \in 1 .. n /\ mid(r) \in 0 .. n
             /\ keys[mid(r) + 1] # key
  <2>1. r[1] < r[2] /\ keys[mid(r) + 1] # key
    BY <1>1, <1>3, <1>5
  <2>2. mid(r) \in r[1] .. (r[2] - 1)
    BY <1>4, <2>1
  <2> HIDE DEF mid
  <2> QED BY <1>1, <1>3, <2>1, <2>2
<1>6. /\ size \in [S -> Nat] /\ done \in SUBSET S
      /\ out \in [S -> T] /\ next \in [S \ done -> S]
  <2>1. size \in [S -> Nat]
    BY <1>1, <1>3
  <2>2. ASSUME NEW r \in S PROVE out[r] \in T
    BY <1>3, <1>4
  <2>3. ASSUME NEW r \in S \ done PROVE next[r] \in S
    <3>1. mid(r) + 1 \in 0 .. n /\ mid(r) \in 0 .. n
      BY <1>5
    <3> HIDE DEF mid
    <3> QED BY <1>3, <3>1
  <2> HIDE DEF size, done, out, half, S, T
  <2>4. out \in [S -> T]
    BY <2>2 DEF out
  <2>5. next \in [S \ done -> S]
    BY <2>3
  <2>6. done \in SUBSET S
    BY DEF done
  <2> QED BY <2>1, <2>4, <2>5, <2>6
<1>7. Shrinks(size, S \ done, next)
  <2>1. ASSUME NEW r \in S \ done PROVE size[next[r]] < size[r]
    <3>1. r[1] < r[2] /\ mid(r) \in r[1] .. (r[2] - 1) /\ next[r] \in S /\ next[r] = half(r)
      BY <1>5, <1>6
    <3>2. size[r] = apart(r)
      BY <1>3, <3>1
    <3>3. /\ next[r] = <<mid(r) + 1, r[2]>> \/ next[r] = <<r[1], mid(r)>>
          /\ next[r] \in S
      BY <3>1
    <3>4. CASE next[r] = <<mid(r) + 1, r[2]>>
      <4>1. size[next[r]] = IF mid(r) + 1 >= r[2] THEN 0 ELSE r[2] - (mid(r) + 1)
        BY <3>3, <3>4
      <4> HIDE DEF size, next, S, mid, half
      <4> QED BY <1>1, <1>3, <3>1, <3>2, <4>1
    <3>5. CASE next[r] = <<r[1], mid(r)>>
      <4>1. size[next[r]] = IF r[1] >= mid(r) THEN 0 ELSE mid(r) - r[1]
        BY <3>3, <3>5
      <4> HIDE DEF size, next, S, mid, half
      <4> QED BY <1>1, <1>3, <3>1, <3>2, <4>1
    <3> QED BY <3>3, <3>4, <3>5
  <2> QED BY <2>1 DEF Shrinks
<1>8. \E f \in [S -> T] : LoopOf(f, S, done, out, next)
  <2> HIDE DEF size, done, out, next, S, T
  <2> QED BY <1>6, <1>7, LoopExists
<1> DEFINE body(k, r) == IF r[1] >= r[2] THEN [index |-> r[1], found |-> FALSE]
                         ELSE IF keys[mid(r) + 1] = key THEN [index |-> mid(r), found |-> TRUE]
                         ELSE k[half(r)]
<1>9. PICK h : h = [r \in S |-> body(h, r)]
  <2>1. PICK f \in [S -> T] : LoopOf(f, S, done, out, next)
    BY <1>8
  <2>2. ASSUME NEW r \in S PROVE f[r] = body(f, r)
    <3>1. f[r] = IF r \in done THEN out[r] ELSE f[next[r]]
      BY <2>1 DEF LoopOf
    <3> HIDE DEF S
    <3> QED BY <3>1
  <2>3. f = [r \in S |-> f[r]]
    OBVIOUS
  <2>4. f = [r \in S |-> body(f, r)]
    <3> HIDE DEF S, body
    <3> QED BY <2>2, <2>3
  <2> QED BY <2>4
<1> DEFINE find == CHOOSE k : k = [r \in S |-> body(k, r)]
<1>10. find = [r \in S |-> body(find, r)]
  <2> HIDE DEF S, body
  <2> QED BY <1>9
<1>11. BinarySearch(keys, key) = find[<<0, n>>]
  BY Zenon DEF BinarySearch, n
<1> HIDE DEF find
<1>12. LoopOf(find, S, done, out, next)
  <2>1. ASSUME NEW r \in S PROVE find[r] = IF r \in done THEN out[r] ELSE find[next[r]]
    <3>1. find[r] = body(find, r)
      <4> HIDE DEF S, body
      <4> QED BY <1>10
    <3> HIDE DEF S
    <3> QED BY <3>1
  <2>2. find = [r \in S |-> find[r]]
    <3> HIDE DEF S, body
    <3> QED BY <1>10
  <2> HIDE DEF S, done, out, next
  <2> QED BY <2>1, <2>2 DEF LoopOf
<1> DEFINE I == {r \in S : /\ r[1] <= r[2]
                           /\ Increasing(keys) =>
                                /\ \A i \in 1 .. r[1] : keys[i] < key
                                /\ \A i \in (r[2] + 1) .. n : key < keys[i]}
<1>13. <<0, n>> \in I
  BY <1>1
<1>14. ASSUME NEW r \in I \ done PROVE next[r] \in I
  <2> DEFINE m == mid(r)
  <2>1. /\ r[1] < r[2] /\ m \in r[1] .. (r[2] - 1) /\ m + 1 \in 1 .. n /\ keys[m + 1] # key
        /\ next[r] = half(r) /\ r[1] \in 0 .. n /\ r[2] \in 0 .. n /\ next[r] \in S
    BY <1>3, <1>5, <1>6
  <2>2. Increasing(keys) => /\ \A i \in 1 .. r[1] : keys[i] < key
                            /\ \A i \in (r[2] + 1) .. n : key < keys[i]
    OBVIOUS
  <2>3. half(r) = IF keys[m + 1] < key THEN <<m + 1, r[2]>> ELSE <<r[1], m>>
    OBVIOUS
  <2> HIDE DEF m, mid, half
  <2>4. CASE keys[m + 1] < key
    <3>1. next[r] = <<m + 1, r[2]>>
      BY <2>1, <2>3, <2>4
    <3>2. ASSUME Increasing(keys), NEW i \in 1 .. (m + 1) PROVE keys[i] < key
      <4>0. i \in DOMAIN keys /\ m + 1 \in DOMAIN keys /\ (i = m + 1 \/ i < m + 1)
        BY <1>1, <2>1
      <4>1. i = m + 1 \/ (i \in 1 .. n /\ keys[i] < keys[m + 1])
        BY <1>1, <3>2, <4>0 DEF Increasing
      <4>2. keys[i] \in Int /\ keys[m + 1] \in Int
        BY <1>1, <2>1, <4>1
      <4> QED BY <1>2, <2>4, <4>1, <4>2
    <3>3. m + 1 <= r[2]
      BY <1>1, <2>1
    <3> HIDE DEF next, done, S
    <3>4. next[r][1] = m + 1 /\ next[r][2] = r[2]
      BY <3>1
    <3> QED BY <2>1, <2>2, <3>2, <3>3, <3>4
  <2>5. CASE ~(keys[m + 1] < key)
    <3>1. next[r] = <<r[1], m>>
      BY <2>1, <2>3, <2>5
    <3>2. ASSUME Increasing(keys), NEW i \in (m + 1) .. n PROVE key < keys[i]
      <4>0. i \in DOMAIN keys /\ m + 1 \in DOMAIN keys /\ (i = m + 1 \/ m + 1 < i)
        BY <1>1, <2>1
      <4>1. i \in 1 .. n /\ (i = m + 1 \/ keys[m + 1] < keys[i])
        BY <1>1, <3>2, <4>0 DEF Increasing
      <4>2. keys[i] \in Int /\ keys[m + 1] \in Int
        BY <1>1, <2>1, <4>1
      <4>3. key < keys[m + 1]
        BY <1>2, <2>1, <2>5, <4>2
      <4> QED BY <1>2, <4>1, <4>2, <4>3
    <3>3. r[1] <= m
      BY <1>1, <2>1
    <3> HIDE DEF next, done, S
    <3>4. next[r][1] = r[1] /\ next[r][2] = m
      BY <3>1
    <3> QED BY <2>1, <2>2, <3>2, <3>3, <3>4
  <2> QED BY <2>4, <2>5
<1>15. find[<<0, n>>] \in {out[r] : r \in I \cap done}
  <2>1. I \in SUBSET S
    OBVIOUS
  <2>2. Shrinks(size, I \ done, next)
    <3> HIDE DEF I, size, next, done
    <3> QED BY <1>7, <2>1 DEF Shrinks
  <2> DEFINE start == <<0, n>>
  <2>3. start \in I
    BY <1>13
  <2>4. size \in [S -> Nat] /\ done \in SUBSET S
    BY <1>6
  <2> HIDE DEF size, done, out, next, S, I, start
  <2>5. find[start] \in {out[r] : r \in I \cap done}
    BY <1>12, <1>14, <2>1, <2>2, <2>3, <2>4, LoopEnds
  <2> QED BY <2>5 DEF start
<1>16. ASSUME NEW r \in I \cap done PROVE out[r] \in Places(keys, key)
  <2> DEFINE m == mid(r)
  <2>1. /\ r[1] <= r[2] /\ r[1] \in 0 .. n /\ r[2] \in 0 .. n
        /\ Increasing(keys) => /\ \A i \in 1 .. r[1] : keys[i] < key
                               /\ \A i \in (r[2] + 1) .. n : key < keys[i]
    BY <1>3
  <2>2. CASE r[1] >= r[2]
    <3>1. out[r] = [index |-> r[1], found |-> FALSE] /\ r[1] = r[2]
      BY <1>1, <2>1, <2>2
    <3> HIDE DEF out, I, done, S
    <3> QED BY <2>1, <3>1 DEF Places, n
  <2>3. CASE r[1] < r[2]
    <3>1. out[r] = [index |-> m, found |-> TRUE] /\ keys[m + 1] = key
      BY <1>1, <1>3, <2>3
    <3>2. m \in r[1] .. (r[2] - 1)
      BY <1>4, <2>3
    <3> HIDE DEF out, I, done, S, mid, m
    <3>3. m \in 0 .. n /\ m < n /\ m + 1 \in 1 .. n
      BY <1>1, <2>1, <3>2
    <3>4. ASSUME Increasing(keys), NEW i \in 1 .. m PROVE keys[i] < key
      <4>1. i \in DOMAIN keys /\ m + 1 \in DOMAIN keys /\ i < m + 1
        BY <1>1, <3>3
      <4> QED BY <3>1, <3>4, <4>1 DEF Increasing
    <3> QED BY <3>1, <3>3, <3>4 DEF Places, n
  <2> QED BY <1>1, <2>1, <2>2, <2>3
<1> QED
  BY <1>11, <1>15, <1>16

(* The pages hold nodes, and the leaves among them pairs of P only. *)
Holding(P) == pages \in [PageIds -> NodesOver(P)]

LEMMA NodeFacts ==
  ASSUME NEW P, NEW node \in NodesOver(P)
  PROVE  /\ node.keys \in Seq(Keys) /\ node.vals \in Seq(Int) /\ node.next \in Int
         /\ Len(node.keys) \in Nat /\ Len(node.keys) <= MaxKeys
         /\ Len(node.vals) = Len(node.keys)
         /\ DOMAIN node.keys = 1 .. Len(node.keys) /\ DOMAIN node.vals = 1 .. Len(node.keys)
         /\ node.type \in Types
BY LenProperties DEF NodesOver

LEMMA ReadNodeType ==
  ASSUME NEW P, Holding(P), NEW p
  PROVE  ReadNode(p) \in NodesOver(P)
<1>1. Blank \in NodesOver(P)
  BY OrderFacts DEF Blank, NodesOver, Types, Leaf
<1> QED
  BY <1>1 DEF ReadNode, Holding

LEMMA ChildFacts ==
  ASSUME NEW P, NEW node \in NodesOver(P), NEW key \in Keys
  PROVE  /\ Children(node) \in Seq(Int)
         /\ Len(Children(node)) = Len(node.keys) + 1
         /\ \A i \in 1 .. Len(node.keys) : Children(node)[i] = node.vals[i]
         /\ Children(node)[Len(node.keys) + 1] = node.next
         /\ ChildIndex(node, key) \in 0 .. Len(node.keys)
         /\ Child(node, key) \in Int
<1>1. /\ node.keys \in Seq(Keys) /\ node.vals \in Seq(Int) /\ node.next \in Int
      /\ Len(node.keys) \in Nat /\ Len(node.vals) = Len(node.keys)
  BY NodeFacts
<1>2. /\ Children(node) \in Seq(Int)
      /\ Len(Children(node)) = Len(node.keys) + 1
      /\ \A i \in 1 .. Len(node.keys) : Children(node)[i] = node.vals[i]
      /\ Children(node)[Len(node.keys) + 1] = node.next
  BY <1>1, AppendProperties DEF Children
<1>3. BinarySearch(node.keys, key) \in Places(node.keys, key)
  BY <1>1, BinarySearchFinds
<1>4. ChildIndex(node, key) \in 0 .. Len(node.keys)
  BY <1>1, <1>3 DEF ChildIndex, Places
<1>5. Child(node, key) \in Int
  <2>1. ChildIndex(node, key) + 1 \in 1 .. Len(Children(node))
    BY <1>1, <1>2, <1>4
  <2> QED BY <1>2, <2>1, ElementOfSeq DEF Child
<1> QED
  BY <1>2, <1>4, <1>5

-----------------------------------------------------------------------------
(* The descent *)

Descents == [path : Seq(PathEntries), page : Int, left : 0 .. MaxPageId + 2]
Outcomes == [path : Seq(PathEntries), page : Int, ends : BOOLEAN]
Start == [path |-> << >>, page |-> root_page_id, left |-> MaxPageId + 2]

Ends(d, stop) == ReadNode(d.page).type \in stop

Outcome(d, stop) == [path |-> d.path, page |-> d.page, ends |-> Ends(d, stop)]

DeepestAt(f, key, stop) ==
  \A d \in Descents :
    f[d] = IF Ends(d, stop) \/ d.left = 0 THEN Outcome(d, stop) ELSE f[Deeper(d, key)]

LEMMA DeeperType ==
  ASSUME Holding(AnyPair), NEW key \in Keys, NEW d \in Descents, d.left # 0
  PROVE  Deeper(d, key) \in Descents /\ Deeper(d, key).left = d.left - 1
<1> DEFINE node == ReadNode(d.page)
           entry == [page |-> d.page, child |-> ChildIndex(node, key)]
<1>1. node \in NodesOver(AnyPair)
  BY ReadNodeType
<1> HIDE DEF node
<1>2. /\ ChildIndex(node, key) \in 0 .. Len(node.keys) /\ Child(node, key) \in Int
      /\ Len(node.keys) \in Nat
  BY <1>1, ChildFacts, NodeFacts
<1>3. d.path \in Seq(PathEntries) /\ d.page \in Int /\ d.left \in 0 .. MaxPageId + 2
  BY DEF Descents
<1>4. entry \in PathEntries
  BY <1>2, <1>3 DEF PathEntries
<1> HIDE DEF entry
<1>5. Append(d.path, entry) \in Seq(PathEntries)
  BY <1>3, <1>4, AppendProperties
<1>6. Deeper(d, key) = [path |-> Append(d.path, entry), page |-> Child(node, key),
                        left |-> d.left - 1]
  BY DEF Deeper, Child, entry, node
<1>7. d.left - 1 \in 0 .. MaxPageId + 2
  BY <1>3, BTreeAssumption
<1> QED
  BY <1>2, <1>5, <1>6, <1>7 DEF Descents

LEMMA DescentLoop ==
  ASSUME Holding(AnyPair), NEW key \in Keys, NEW stop
  PROVE  \E f : DeepestAt(f, key, stop) /\ Descent(key, stop) = f[Start]
<1> DEFINE S == Descents
           size == [d \in S |-> d.left]
           done == {d \in S : Ends(d, stop) \/ d.left = 0}
           out == [d \in S |-> Outcome(d, stop)]
           next == [d \in S \ done |-> Deeper(d, key)]
           body(k, d) == IF Ends(d, stop) \/ d.left = 0 THEN Outcome(d, stop)
                         ELSE k[Deeper(d, key)]
<1>1. /\ size \in [S -> Nat] /\ done \in SUBSET S
      /\ out \in [S -> Outcomes] /\ next \in [S \ done -> S]
  <2>1. size \in [S -> Nat]
    BY BTreeAssumption DEF Descents
  <2>2. \A d \in S : out[d] \in Outcomes
    BY DEF Descents, Outcomes, Outcome, Ends
  <2>3. \A d \in S \ done : next[d] \in S
    BY DeeperType
  <2> HIDE DEF S
  <2> QED BY <2>1, <2>2, <2>3
<1>2. Shrinks(size, S \ done, next)
  <2>1. ASSUME NEW d \in S \ done PROVE size[next[d]] < size[d]
    <3>1. Deeper(d, key) \in S /\ Deeper(d, key).left = d.left - 1 /\ d.left \in Int
      BY DeeperType DEF Descents
    <3> HIDE DEF S
    <3> QED BY <3>1
  <2> QED BY <2>1 DEF Shrinks
<1>3. PICK f \in [S -> Outcomes] : LoopOf(f, S, done, out, next)
  <2> HIDE DEF size, done, out, next, S
  <2> QED BY <1>1, <1>2, LoopExists
<1>4. f = [d \in S |-> body(f, d)]
  <2>1. ASSUME NEW d \in S PROVE f[d] = body(f, d)
    <3>1. f[d] = IF d \in done THEN out[d] ELSE f[next[d]]
      BY <1>3 DEF LoopOf
    <3> HIDE DEF S
    <3> QED BY <3>1
  <2>2. f = [d \in S |-> f[d]]
    OBVIOUS
  <2> HIDE DEF S, body
  <2> QED BY <2>1, <2>2
<1> DEFINE down == CHOOSE k : k = [d \in S |-> body(k, d)]
<1>5. down = [d \in S |-> body(down, d)]
  <2> HIDE DEF S, body
  <2> QED BY <1>4
<1>6. Descent(key, stop) = down[Start]
  BY Zenon DEF Descent, Descents, Start, Ends, Outcome
<1> HIDE DEF down
<1>7. DeepestAt(down, key, stop)
  <2>1. ASSUME NEW d \in S PROVE down[d] = body(down, d)
    <3> HIDE DEF S, body
    <3> QED BY <1>5
  <2> QED BY <2>1 DEF DeepestAt
<1> QED
  BY <1>6, <1>7

(* What is known of the pages on the way: none of them ends the descent, and the
   child taken is the one for the key. *)
OnTheWay(path, key, stop) ==
  \A i \in DOMAIN path :
    /\ ReadNode(path[i].page).type \notin stop
    /\ path[i].child = ChildIndex(ReadNode(path[i].page), key)

LEMMA StartType ==
  ASSUME root_page_id \in Int
  PROVE  Start \in Descents
<1>1. << >> \in Seq(PathEntries)
  OBVIOUS
<1> QED BY <1>1, BTreeAssumption DEF Start, Descents

LEMMA DescentFacts ==
  ASSUME Holding(AnyPair), root_page_id \in Int, NEW key \in Keys, NEW stop
  PROVE  LET d == Descent(key, stop)
         IN  /\ d \in Outcomes
             /\ d.ends => ReadNode(d.page).type \in stop
             /\ OnTheWay(d.path, key, stop)
<1>1. PICK f : DeepestAt(f, key, stop) /\ Descent(key, stop) = f[Start]
  BY DescentLoop
<1> DEFINE N == MaxPageId + 2
           Good(d) == OnTheWay(d.path, key, stop)
           Fine(o) == /\ o \in Outcomes
                      /\ o.ends => ReadNode(o.page).type \in stop
                      /\ Good(o)
           P == {k \in 0 .. N : \A d \in Descents : d.left = k /\ Good(d) => Fine(f[d])}
<1>2. N \in Nat
  BY BTreeAssumption
<1>3. ASSUME NEW d \in Descents, Good(d) PROVE Fine(Outcome(d, stop))
  <2> DEFINE o == Outcome(d, stop)
  <2>1. o.path = d.path /\ o.page = d.page /\ o.ends = Ends(d, stop)
    BY DEF Outcome
  <2>2. o \in Outcomes
    BY DEF Outcome, Outcomes, Descents, Ends
  <2>3. o.ends => ReadNode(o.page).type \in stop
    BY <2>1 DEF Ends
  <2> HIDE DEF o
  <2>4. Good(o)
    BY <1>3, <2>1
  <2> QED BY <2>2, <2>3, <2>4 DEF o
<1>4. ASSUME NEW d \in Descents, Good(d), d.left # 0, ~Ends(d, stop) PROVE Good(Deeper(d, key))
  <2> DEFINE e == [page |-> d.page, child |-> ChildIndex(ReadNode(d.page), key)]
             r == Append(d.path, e)
  <2>1. Deeper(d, key).path = r
    BY DEF Deeper
  <2>2. d.path \in Seq(PathEntries) /\ e \in PathEntries
    <3>1. ReadNode(d.page) \in NodesOver(AnyPair)
      BY ReadNodeType
    <3>2. ChildIndex(ReadNode(d.page), key) \in Nat
      BY <3>1, ChildFacts, NodeFacts
    <3> QED BY <3>2 DEF Descents, PathEntries
  <2>3. /\ DOMAIN d.path = 1 .. Len(d.path) /\ DOMAIN r = 1 .. (Len(d.path) + 1)
        /\ Len(d.path) \in Nat
        /\ \A i \in 1 .. Len(d.path) : r[i] = d.path[i]
        /\ r[Len(d.path) + 1] = e
    <3> HIDE DEF e
    <3> QED BY <2>2, AppendProperties, LenProperties
  <2>4. e.page = d.page /\ e.child = ChildIndex(ReadNode(d.page), key)
    OBVIOUS
  <2> HIDE DEF e, r
  <2>5. ReadNode(e.page).type \notin stop /\ e.child = ChildIndex(ReadNode(e.page), key)
    BY <1>4, <2>4 DEF Ends
  <2>6. OnTheWay(r, key, stop)
    <3>1. ASSUME NEW i \in DOMAIN r
          PROVE  /\ ReadNode(r[i].page).type \notin stop
                 /\ r[i].child = ChildIndex(ReadNode(r[i].page), key)
      <4>1. CASE i = Len(d.path) + 1
        BY <2>3, <2>5, <4>1
      <4>2. CASE i # Len(d.path) + 1
        <5>1. i \in DOMAIN d.path /\ r[i] = d.path[i]
          BY <2>3, <4>2
        <5> QED BY <1>4, <5>1 DEF OnTheWay
      <4> QED BY <4>1, <4>2
    <3> QED BY <3>1 DEF OnTheWay
  <2> QED BY <2>1, <2>6
<1> HIDE DEF Good, Fine
<1>5. 0 \in P
  BY <1>1, <1>2, <1>3 DEF DeepestAt
<1>6. ASSUME NEW k \in 1 .. N, k - 1 \in P PROVE k \in P
  <2>1. ASSUME NEW d \in Descents, d.left = k, Good(d) PROVE Fine(f[d])
    <3>1. CASE Ends(d, stop)
      BY <1>1, <1>3, <2>1, <3>1 DEF DeepestAt
    <3>2. CASE ~Ends(d, stop)
      <4>1. d.left # 0
        BY <2>1
      <4>2. /\ f[d] = f[Deeper(d, key)] /\ Good(Deeper(d, key))
            /\ Deeper(d, key) \in Descents /\ Deeper(d, key).left = k - 1
        BY <1>1, <1>4, <2>1, <3>2, <4>1, DeeperType DEF DeepestAt
      <4> QED BY <1>6, <4>2
    <3> QED BY <3>1, <3>2
  <2>2. k \in 0 .. N
    OBVIOUS
  <2> QED BY <2>1, <2>2
<1>7. N \in P
  <2>1. 0 .. N \subseteq P
    <3> HIDE DEF P, N
    <3> QED BY <1>2, <1>5, <1>6, UpTo
  <2> QED BY <1>2, <2>1
<1>8. Start \in Descents /\ Start.left = N /\ Good(Start)
  BY StartType DEF Start, OnTheWay, Good
<1>9. Fine(f[Start])
  BY <1>7, <1>8
<1> QED
  BY <1>1, <1>9 DEF Fine, Good

(* Find walks to the page that Remove finds. *)
LEMMA LeafForIsLookup ==
  ASSUME Holding(AnyPair), root_page_id \in Int, NEW key \in Keys
  PROVE  LeafFor(key) = IF Lookup(key).ends THEN Lookup(key).page ELSE NoNext
<1> DEFINE stop == {Leaf, "blank"}
           N == MaxPageId + 2
           S == Int \X (0 .. N)
           at(p) == ReadNode(p).type # Internal
           child(p) == Child(ReadNode(p), key)
           done == {r \in S : at(r[1]) \/ r[2] = 0}
           size == [r \in S |-> r[2]]
           out == [r \in S |-> IF at(r[1]) THEN r[1] ELSE NoNext]
           next == [r \in S \ done |-> <<child(r[1]), r[2] - 1>>]
           body(k, r) == IF at(r[1]) THEN r[1] ELSE IF r[2] = 0 THEN NoNext
                         ELSE k[<<child(r[1]), r[2] - 1>>]
<1>1. N \in Nat
  BY BTreeAssumption
<1>2. \A p \in Int : child(p) \in Int
  BY ReadNodeType, ChildFacts
<1>3. \A p \in Int : at(p) <=> ReadNode(p).type \in stop
  <2>1. \A p \in Int : ReadNode(p).type \in Types
    BY ReadNodeType, NodeFacts
  <2> QED BY <2>1 DEF Types, Leaf, Internal
<1> HIDE DEF N, child, at
<1>4. /\ size \in [S -> Nat] /\ done \in SUBSET S
      /\ out \in [S -> Int] /\ next \in [S \ done -> S]
  <2>1. size \in [S -> Nat] /\ out \in [S -> Int]
    BY <1>1 DEF NoNext
  <2>2. ASSUME NEW r \in S \ done PROVE next[r] \in S
    <3>1. r[1] \in Int /\ r[2] \in 0 .. N /\ r[2] # 0
      OBVIOUS
    <3>2. child(r[1]) \in Int /\ r[2] - 1 \in 0 .. N
      BY <1>1, <1>2, <3>1
    <3> QED BY <3>2
  <2>3. next \in [S \ done -> S]
    <3> HIDE DEF S, done
    <3> QED BY <2>2
  <2> QED BY <2>1, <2>3
<1>5. Shrinks(size, S \ done, next)
  <2>1. ASSUME NEW r \in S \ done PROVE size[next[r]] < size[r]
    BY <1>1, <1>4
  <2> QED BY <2>1 DEF Shrinks
<1>6. PICK f \in [S -> Int] : LoopOf(f, S, done, out, next)
  <2> HIDE DEF size, done, out, next, S
  <2> QED BY <1>4, <1>5, LoopExists
<1>7. f = [r \in S |-> body(f, r)]
  <2>1. ASSUME NEW r \in S PROVE f[r] = body(f, r)
    <3>1. f[r] = IF r \in done THEN out[r] ELSE f[next[r]]
      BY <1>6 DEF LoopOf
    <3> HIDE DEF S
    <3> QED BY <3>1
  <2>2. f = [r \in S |-> f[r]]
    OBVIOUS
  <2> HIDE DEF S, body
  <2> QED BY <2>1, <2>2
<1> DEFINE down == CHOOSE k : k = [r \in S |-> body(k, r)]
<1>8. down = [r \in S |-> body(down, r)]
  <2> HIDE DEF S, body
  <2> QED BY <1>7
<1>9. LeafFor(key) = down[<<root_page_id, N>>]
  BY Zenon DEF LeafFor, N, at, child
<1> HIDE DEF down
<1>10. ASSUME NEW r \in S PROVE down[r] = body(down, r)
  <2> HIDE DEF S, body
  <2> QED BY <1>8
<1>11. PICK g : DeepestAt(g, key, stop) /\ Lookup(key) = g[Start]
  BY DescentLoop DEF Lookup
<1> DEFINE Same(v, o) == v = IF o.ends THEN o.page ELSE NoNext
           P == {k \in 0 .. N : \A d \in Descents :
                   d.left = k => Same(down[<<d.page, k>>], g[d])}
<1>12. ASSUME NEW d \in Descents
       PROVE  /\ d.page \in Int /\ d.left \in 0 .. N
              /\ <<d.page, d.left>> \in S
              /\ Ends(d, stop) <=> at(d.page)
              /\ Ends(d, stop) => Same(down[<<d.page, d.left>>], g[d])
  <2>1. d.page \in Int /\ d.left \in 0 .. N
    BY DEF Descents, N
  <2>2. Ends(d, stop) <=> at(d.page)
    BY <1>3, <2>1 DEF Ends
  <2>3. ASSUME Ends(d, stop) PROVE Same(down[<<d.page, d.left>>], g[d])
    <3>1. down[<<d.page, d.left>>] = d.page
      BY <1>10, <2>1, <2>2, <2>3
    <3>2. g[d] = Outcome(d, stop)
      BY <1>11, <2>3 DEF DeepestAt
    <3> QED BY <2>3, <3>1, <3>2 DEF Outcome
  <2> QED BY <2>1, <2>2, <2>3
<1>13. 0 \in P
  <2>1. ASSUME NEW d \in Descents, d.left = 0, ~Ends(d, stop)
        PROVE  Same(down[<<d.page, 0>>], g[d])
    <3>1. down[<<d.page, 0>>] = NoNext
      BY <1>10, <1>12, <2>1
    <3>2. g[d] = Outcome(d, stop)
      BY <1>11, <2>1 DEF DeepestAt
    <3> QED BY <2>1, <3>1, <3>2 DEF Outcome
  <2>2. 0 \in 0 .. N
    BY <1>1
  <2> HIDE DEF Same
  <2> QED BY <1>12, <2>1, <2>2
<1>14. ASSUME NEW k \in 1 .. N, k - 1 \in P PROVE k \in P
  <2>1. ASSUME NEW d \in Descents, d.left = k, ~Ends(d, stop)
        PROVE  Same(down[<<d.page, k>>], g[d])
    <3> DEFINE e == Deeper(d, key)
    <3>1. e \in Descents /\ e.left = k - 1 /\ e.page = child(d.page)
      BY <2>1, DeeperType DEF Deeper, Child, child
    <3>2. g[d] = g[e]
      BY <1>11, <2>1 DEF DeepestAt
    <3>3. down[<<d.page, k>>] = down[<<child(d.page), k - 1>>]
      <4>1. <<d.page, k>> \in S /\ ~at(d.page) /\ k # 0
        BY <1>12, <2>1
      <4> HIDE DEF S
      <4> QED BY <1>10, <4>1
    <3>4. Same(down[<<e.page, k - 1>>], g[e])
      <4> HIDE DEF Same, e
      <4> QED BY <1>14, <3>1
    <3> HIDE DEF e
    <3> QED BY <3>1, <3>2, <3>3, <3>4
  <2>2. k \in 0 .. N
    OBVIOUS
  <2> HIDE DEF Same
  <2> QED BY <1>12, <2>1, <2>2
<1>15. N \in P
  <2>1. 0 .. N \subseteq P
    <3> HIDE DEF P
    <3> QED BY <1>1, <1>13, <1>14, UpTo
  <2> QED BY <1>1, <2>1
<1>16. Start \in Descents /\ Start.left = N /\ Start.page = root_page_id
  BY StartType DEF Start, N
<1>17. Same(down[<<root_page_id, N>>], g[Start])
  <2> HIDE DEF Same
  <2> QED BY <1>15, <1>16
<1> QED
  BY <1>9, <1>11, <1>17

-----------------------------------------------------------------------------
(* Parts of sequences *)

LEMMA CutSeq ==
  ASSUME NEW S, NEW s \in Seq(S), NEW a \in 1 .. Len(s) + 1, NEW b \in (a - 1) .. Len(s)
  PROVE  /\ SubSeq(s, a, b) \in Seq(S)
         /\ Len(SubSeq(s, a, b)) = b - a + 1
         /\ \A i \in 1 .. (b - a + 1) : SubSeq(s, a, b)[i] = s[a + i - 1]
<1> DEFINE t == SubSeq(s, a, b)
<1>1. Len(s) \in Nat /\ a \in Int /\ b \in Int /\ 1 <= a /\ a - 1 <= b /\ b <= Len(s)
  BY LenProperties
<1>2. \A i \in a .. b : s[i] \in S
  <2>1. \A i \in 1 .. Len(s) : s[i] \in S
    BY ElementOfSeq
  <2> QED BY <1>1, <2>1
<1>3. /\ t \in Seq(S) /\ Len(t) = IF a <= b THEN b - a + 1 ELSE 0
      /\ \A i \in 1 .. b - a + 1 : t[i] = s[a + i - 1]
  BY <1>1, <1>2, SubSeqProperties
<1> HIDE DEF t
<1>4. Len(t) = b - a + 1
  BY <1>1, <1>3
<1> QED
  BY <1>3, <1>4 DEF t

(* t is s with x inserted at i; t is s with x at i instead of what was there. *)
Inserted(t, s, i, x) ==
  /\ Len(t) = Len(s) + 1
  /\ \A j \in 1 .. Len(s) + 1 : t[j] = IF j < i THEN s[j] ELSE IF j = i THEN x ELSE s[j - 1]

Replaced(t, s, i, x) ==
  /\ Len(t) = Len(s)
  /\ \A j \in 1 .. Len(s) : t[j] = IF j = i THEN x ELSE s[j]

LEMMA InsertAtInserts ==
  ASSUME NEW S, NEW s \in Seq(S), NEW i \in 1 .. Len(s) + 1, NEW x \in S
  PROVE  InsertAt(s, i, x) \in Seq(S) /\ Inserted(InsertAt(s, i, x), s, i, x)
BY InsertAtFacts DEF Inserted

LEMMA ReplaceAtFacts ==
  ASSUME NEW S, NEW s \in Seq(S), NEW i \in 1 .. Len(s), NEW x \in S
  PROVE  ReplaceAt(s, i, x) \in Seq(S) /\ Replaced(ReplaceAt(s, i, x), s, i, x)
<1>1. DOMAIN s = 1 .. Len(s) /\ Len(s) \in Nat
  BY LenProperties
<1>2. ReplaceAt(s, i, x) \in Seq(S) /\ Len(ReplaceAt(s, i, x)) = Len(s)
  BY <1>1, ExceptSeq DEF ReplaceAt
<1>3. \A j \in 1 .. Len(s) : ReplaceAt(s, i, x)[j] = IF j = i THEN x ELSE s[j]
  BY <1>1 DEF ReplaceAt
<1> QED
  BY <1>2, <1>3 DEF Replaced

-----------------------------------------------------------------------------
(* Pairs of a leaf *)

(* Two lists of the same length, whose pairs are of P. *)
PairedIn(ks, vs, P) ==
  /\ ks \in Seq(Keys) /\ vs \in Seq(Int) /\ Len(vs) = Len(ks)
  /\ \A i \in 1 .. Len(ks) : <<ks[i], vs[i]>> \in P

LEMMA LeafIsPaired ==
  ASSUME NEW P, NEW leaf \in NodesOver(P), leaf.type = Leaf
  PROVE  PairedIn(leaf.keys, leaf.vals, P)
BY NodeFacts DEF PairedIn, NodesOver

LEMMA PairedIsLeaf ==
  ASSUME NEW P, NEW ks, NEW vs, PairedIn(ks, vs, P), Len(ks) <= MaxKeys, NEW next \in Int
  PROVE  Node(Leaf, ks, vs, next) \in NodesOver(P)
BY LenProperties DEF PairedIn, Node, NodesOver, Types

LEMMA PairInserted ==
  ASSUME NEW P, NEW ks, NEW vs, PairedIn(ks, vs, P), NEW i \in 1 .. Len(ks) + 1,
         NEW key \in Keys, NEW val \in Int, <<key, val>> \in P
  PROVE  /\ PairedIn(InsertAt(ks, i, key), InsertAt(vs, i, val), P)
         /\ Len(InsertAt(ks, i, key)) = Len(ks) + 1
<1> DEFINE k == InsertAt(ks, i, key)
           v == InsertAt(vs, i, val)
           n == Len(ks)
<1>1. /\ k \in Seq(Keys) /\ Len(k) = n + 1
      /\ \A j \in 1 .. n + 1 : k[j] = IF j < i THEN ks[j] ELSE IF j = i THEN key ELSE ks[j - 1]
  <2>1. k \in Seq(Keys) /\ Inserted(k, ks, i, key)
    BY InsertAtInserts DEF PairedIn
  <2> HIDE DEF k
  <2> QED BY <2>1 DEF Inserted
<1>2. /\ v \in Seq(Int) /\ Len(v) = n + 1
      /\ \A j \in 1 .. n + 1 : v[j] = IF j < i THEN vs[j] ELSE IF j = i THEN val ELSE vs[j - 1]
  <2>1. vs \in Seq(Int) /\ i \in 1 .. Len(vs) + 1 /\ Len(vs) = n
    BY DEF PairedIn
  <2> HIDE DEF n
  <2>2. v \in Seq(Int) /\ Inserted(v, vs, i, val)
    BY <2>1, InsertAtInserts
  <2> HIDE DEF v
  <2> QED BY <2>1, <2>2 DEF Inserted
<1>3. n \in Nat /\ \A j \in 1 .. n : <<ks[j], vs[j]>> \in P
  BY LenProperties DEF PairedIn
<1> HIDE DEF k, v, n
<1>4. ASSUME NEW j \in 1 .. n + 1 PROVE <<k[j], v[j]>> \in P
  <2>1. CASE j < i
    <3>1. j \in 1 .. n /\ k[j] = ks[j] /\ v[j] = vs[j]
      BY <1>1, <1>2, <1>3, <2>1 DEF n
    <3> QED BY <1>3, <3>1
  <2>2. CASE j = i
    <3>1. k[j] = key /\ v[j] = val
      BY <1>1, <1>2, <2>2 DEF n
    <3> QED BY <3>1
  <2>3. CASE j > i
    <3>1. j - 1 \in 1 .. n /\ k[j] = ks[j - 1] /\ v[j] = vs[j - 1]
      BY <1>1, <1>2, <1>3, <2>3 DEF n
    <3> QED BY <1>3, <3>1
  <2> QED BY <1>3, <2>1, <2>2, <2>3 DEF n
<1>5. PairedIn(k, v, P)
  BY <1>1, <1>2, <1>4 DEF PairedIn
<1> QED
  BY <1>1, <1>5 DEF k, v, n

LEMMA PairReplaced ==
  ASSUME NEW P, NEW ks, NEW vs, PairedIn(ks, vs, P), NEW i \in 1 .. Len(ks),
         NEW val \in Int, <<ks[i], val>> \in P
  PROVE  PairedIn(ks, ReplaceAt(vs, i, val), P)
<1> DEFINE v == ReplaceAt(vs, i, val)
<1>1. vs \in Seq(Int) /\ i \in 1 .. Len(vs) /\ Len(vs) = Len(ks)
  BY DEF PairedIn
<1>2. /\ v \in Seq(Int) /\ Len(v) = Len(vs)
      /\ \A j \in 1 .. Len(vs) : v[j] = IF j = i THEN val ELSE vs[j]
  <2>1. v \in Seq(Int) /\ Replaced(v, vs, i, val)
    BY <1>1, ReplaceAtFacts
  <2> HIDE DEF v
  <2> QED BY <2>1 DEF Replaced
<1> HIDE DEF v
<1>3. PairedIn(ks, v, P)
  BY <1>1, <1>2 DEF PairedIn
<1> QED BY <1>3 DEF v

LEMMA PairRemoved ==
  ASSUME NEW P, NEW ks, NEW vs, PairedIn(ks, vs, P), NEW i \in 1 .. Len(ks)
  PROVE  /\ PairedIn(RemoveAt(ks, i), RemoveAt(vs, i), P)
         /\ Len(RemoveAt(ks, i)) = Len(ks) - 1
<1> DEFINE k == RemoveAt(ks, i)
           v == RemoveAt(vs, i)
           n == Len(ks)
<1>1. ks \in Seq(Keys) /\ vs \in Seq(Int) /\ Len(vs) = n /\ i \in DOMAIN ks /\ i \in DOMAIN vs
  BY LenProperties DEF PairedIn
<1>2. /\ k \in Seq(Keys) /\ Len(k) = n - 1
      /\ \A j \in 1 .. (n - 1) : k[j] = IF j < i THEN ks[j] ELSE ks[j + 1]
  BY <1>1, RemoveAtElements
<1>3. /\ v \in Seq(Int) /\ Len(v) = n - 1
      /\ \A j \in 1 .. (n - 1) : v[j] = IF j < i THEN vs[j] ELSE vs[j + 1]
  <2>1. /\ v \in Seq(Int) /\ Len(v) = Len(vs) - 1
        /\ \A j \in 1 .. (Len(vs) - 1) : v[j] = IF j < i THEN vs[j] ELSE vs[j + 1]
    BY <1>1, RemoveAtElements
  <2> HIDE DEF v
  <2> QED BY <1>1, <2>1
<1>4. n \in Nat /\ \A j \in 1 .. n : <<ks[j], vs[j]>> \in P
  BY LenProperties DEF PairedIn
<1> HIDE DEF k, v, n
<1>5. ASSUME NEW j \in 1 .. (n - 1) PROVE <<k[j], v[j]>> \in P
  <2>1. j \in 1 .. n /\ j + 1 \in 1 .. n
    BY <1>4
  <2>2. \/ k[j] = ks[j] /\ v[j] = vs[j]
        \/ k[j] = ks[j + 1] /\ v[j] = vs[j + 1]
    BY <1>2, <1>3
  <2> QED BY <1>4, <2>1, <2>2
<1>6. PairedIn(k, v, P)
  BY <1>2, <1>3, <1>5 DEF PairedIn
<1> QED
  BY <1>2, <1>6 DEF k, v, n

LEMMA PairsCut ==
  ASSUME NEW P, NEW ks, NEW vs, PairedIn(ks, vs, P),
         NEW a \in 1 .. Len(ks) + 1, NEW b \in (a - 1) .. Len(ks)
  PROVE  /\ PairedIn(SubSeq(ks, a, b), SubSeq(vs, a, b), P)
         /\ Len(SubSeq(ks, a, b)) = b - a + 1
<1> DEFINE k == SubSeq(ks, a, b)
           v == SubSeq(vs, a, b)
           n == Len(ks)
<1>1. ks \in Seq(Keys) /\ vs \in Seq(Int) /\ Len(vs) = n /\ n \in Nat
  BY LenProperties DEF PairedIn
<1>2. /\ k \in Seq(Keys) /\ Len(k) = b - a + 1
      /\ \A i \in 1 .. (b - a + 1) : k[i] = ks[a + i - 1]
  BY <1>1, CutSeq
<1>3. /\ v \in Seq(Int) /\ Len(v) = b - a + 1
      /\ \A i \in 1 .. (b - a + 1) : v[i] = vs[a + i - 1]
  <2>1. a \in 1 .. Len(vs) + 1 /\ b \in (a - 1) .. Len(vs)
    BY <1>1
  <2> QED BY <1>1, <2>1, CutSeq
<1>4. \A i \in 1 .. n : <<ks[i], vs[i]>> \in P
  BY DEF PairedIn
<1> HIDE DEF k, v
<1>5. ASSUME NEW i \in 1 .. (b - a + 1) PROVE <<k[i], v[i]>> \in P
  <2>1. a + i - 1 \in 1 .. n
    BY <1>1
  <2> HIDE DEF n
  <2> QED BY <1>2, <1>3, <1>4, <2>1
<1>6. PairedIn(k, v, P)
  BY <1>2, <1>3, <1>5 DEF PairedIn
<1> QED
  BY <1>2, <1>6 DEF k, v

(* A node that is no leaf. *)
LEMMA InternalNode ==
  ASSUME NEW P, NEW ks \in Seq(Keys), NEW cs \in Seq(Int), Len(cs) = Len(ks),
         Len(ks) <= MaxKeys, NEW next \in Int
  PROVE  Node(Internal, ks, cs, next) \in NodesOver(P)
BY DEF Node, NodesOver, Types, Internal, Leaf

-----------------------------------------------------------------------------
(* Effects *)

Effects(P) == [page : Int, node : NodesOver(P), new : BOOLEAN]

LEMMA EffectType ==
  ASSUME NEW P, NEW p \in Int, NEW type, NEW ks, NEW vs, NEW next,
         Node(type, ks, vs, next) \in NodesOver(P)
  PROVE  WriteNode(p, type, ks, vs, next) \in Effects(P) /\ AllocNode(p, type, ks, vs, next) \in Effects(P)
BY DEF WriteNode, AllocNode, Effects

LEMMA NewPagesType ==
  ASSUME NEW P, NEW effects \in Seq(Effects(P))
  PROVE  NewPages(effects) \in Nat
<1>1. DOMAIN effects = 1 .. Len(effects) /\ Len(effects) \in Nat
  BY LenProperties
<1>2. IsFiniteSet(1 .. Len(effects))
  BY <1>1, FS_Interval
<1>3. IsFiniteSet({i \in DOMAIN effects : effects[i].new})
  BY <1>1, <1>2, FS_Subset
<1> QED
  BY <1>3, FS_CardinalityType DEF NewPages

LEMMA TailUnderType ==
  ASSUME NEW P, NEW node \in NodesOver(P), tail \in Int \X Int
  PROVE  TailUnder(node) \in Int \X Int
<1>1. CASE Full(node)
  <2>1. Len(node.vals) \in 1 .. Len(node.vals) /\ node.next \in Int /\ node.vals \in Seq(Int)
    BY <1>1, OrderFacts, NodeFacts DEF Full
  <2>2. Last(node.vals) \in Int
    BY <2>1, ElementOfSeq DEF Last
  <2> QED BY <1>1, <2>1, <2>2 DEF TailUnder
<1>2. CASE ~Full(node)
  BY <1>2 DEF TailUnder
<1> QED BY <1>1, <1>2

(* Nodes are written over nodes. *)
LEMMA ApplyKeeps ==
  ASSUME NEW P, Holding(P), NEW effects \in Seq(Effects(P)), Apply(effects),
         next_page_id \in Nat, tail \in Int \X Int
  PROVE  Holding(P)' /\ next_page_id' \in Nat /\ (tail \in Int \X Int)'
<1>1. DOMAIN effects = 1 .. Len(effects) /\ Len(effects) \in Nat
  BY LenProperties
<1> DEFINE at(p) == {i \in DOMAIN effects : effects[i].page = p}
<1>2. ASSUME NEW p \in PageIds, at(p) # {} PROVE effects[Max(at(p))].node \in NodesOver(P)
  <2>1. at(p) \in SUBSET (0 .. Len(effects))
    BY <1>1
  <2>2. Max(at(p)) \in at(p)
    <3> HIDE DEF at
    <3> QED BY <1>1, <1>2, <2>1, MaxOf
  <2>3. Max(at(p)) \in 1 .. Len(effects)
    <3>1. at(p) \subseteq 1 .. Len(effects)
      BY <1>1
    <3> HIDE DEF at
    <3> QED BY <2>2, <3>1
  <2> HIDE DEF at
  <2>4. effects[Max(at(p))] \in Effects(P)
    BY <2>3, ElementOfSeq
  <2> QED BY <2>4 DEF Effects
<1>3. pages' = [p \in PageIds |-> IF at(p) = {} THEN pages[p] ELSE effects[Max(at(p))].node]
  BY DEF Apply
<1> HIDE DEF at
<1>4. \A p \in PageIds : pages[p] \in NodesOver(P)
  BY DEF Holding
<1>5. pages' \in [PageIds -> NodesOver(P)]
  <2>1. \A p \in PageIds :
          (IF at(p) = {} THEN pages[p] ELSE effects[Max(at(p))].node) \in NodesOver(P)
    BY <1>2, <1>4
  <2> QED BY <1>3, <2>1
<1>6. next_page_id' \in Nat
  BY NewPagesType DEF Apply
<1>7. tail' \in Int \X Int
  <2>1. pages'[RootPage] \in NodesOver(P)
    BY <1>5, OrderFacts
  <2>2. TailUnder(pages'[RootPage]) \in Int \X Int
    BY <2>1, TailUnderType
  <2> QED BY <2>2 DEF Apply
<1> QED
  BY <1>5, <1>6, <1>7 DEF Holding, NodesOver, Types, Leaf, Internal, MaxKeys

-----------------------------------------------------------------------------
(* Splits *)

(* What an insert has done so far: nodes to be written, and, unless it is done,
   a key for the parent. *)
Splits(P) ==
  {s \in [effects : Seq(Effects(P)), promote : Int, left : Int, right : Int,
          done : BOOLEAN, root : Int] : ~s.done => s.promote \in Keys}

LEMMA DoneType ==
  ASSUME NEW P, NEW e \in Effects(P), root_page_id \in Int
  PROVE  [Split(<<e>>, 0, 0, 0) EXCEPT !.done = TRUE] \in Splits(P)
<1>1. <<e>> \in Seq(Effects(P))
  OBVIOUS
<1> DEFINE s == Split(<<e>>, 0, 0, 0)
<1>2. s \in [effects : Seq(Effects(P)), promote : Int, left : Int, right : Int,
             done : BOOLEAN, root : Int]
  BY <1>1 DEF Split
<1> HIDE DEF s
<1>3. [s EXCEPT !.done = TRUE] \in Splits(P)
  BY <1>2 DEF Splits
<1> QED BY <1>3 DEF s

LEMMA GrowRootType ==
  ASSUME NEW P, NEW s \in Splits(P), s.promote \in Keys, next_page_id \in Nat
  PROVE  GrowRoot(s) \in Splits(P)
<1> DEFINE new == next_page_id + NewPages(s.effects)
           ks == <<s.promote>>
           cs == <<s.left>>
           e == AllocNode(new, Internal, ks, cs, s.right)
<1>1. /\ s.effects \in Seq(Effects(P)) /\ s.left \in Int /\ s.right \in Int
      /\ s.promote \in Int /\ s.done \in BOOLEAN
  BY DEF Splits
<1>2. new \in Int
  BY <1>1, NewPagesType
<1>3. ks \in Seq(Keys) /\ cs \in Seq(Int) /\ Len(ks) = 1 /\ Len(cs) = 1
  BY <1>1
<1> HIDE DEF ks, cs, new
<1>4. Node(Internal, ks, cs, s.right) \in NodesOver(P)
  <2>1. Len(ks) <= MaxKeys /\ Len(cs) = Len(ks)
    BY <1>3, OrderFacts
  <2> QED BY <1>1, <1>3, <2>1, InternalNode
<1>5. e \in Effects(P)
  BY <1>2, <1>4, EffectType
<1> HIDE DEF e
<1>6. Append(s.effects, e) \in Seq(Effects(P))
  BY <1>1, <1>5, AppendProperties
<1>7. GrowRoot(s) = [s EXCEPT !.effects = Append(s.effects, e), !.root = new, !.done = TRUE]
  BY DEF GrowRoot, e, ks, cs, new
<1>8. [s EXCEPT !.effects = Append(s.effects, e), !.root = new, !.done = TRUE] \in Splits(P)
  BY <1>1, <1>2, <1>6 DEF Splits
<1> QED
  BY <1>7, <1>8

(* The middle of the keys of a node that overflows. *)
LEMMA HalfFacts ==
  ASSUME NEW n \in Nat, n >= 2
  PROVE  n \div 2 \in 1 .. (n - 1)
<1> DEFINE m == n \div 2
<1>1. m \in Int /\ 2 * m <= n /\ n < 2 * m + 2
  OBVIOUS
<1> HIDE DEF m
<1>2. m \in 1 .. (n - 1)
  BY <1>1
<1> QED BY <1>2 DEF m

LEMMA SplitLeafType ==
  ASSUME NEW P, Holding(P), NEW p \in Int, NEW ks, NEW vs, PairedIn(ks, vs, P),
         Len(ks) = MaxKeys + 1, next_page_id \in Nat, root_page_id \in Int
  PROVE  SplitLeaf(p, ks, vs) \in Splits(P) /\ SplitLeaf(p, ks, vs).promote \in Keys
<1> DEFINE n == Len(ks)
           mid == n \div 2
           new == next_page_id
           next == ReadNode(p).next
           hk == SubSeq(ks, mid + 1, n)
           hv == SubSeq(vs, mid + 1, n)
           lk == SubSeq(ks, 1, mid)
           lv == SubSeq(vs, 1, mid)
           a == AllocNode(new, Leaf, hk, hv, next)
           w == WriteNode(p, Leaf, lk, lv, new)
<1>8. SplitLeaf(p, ks, vs) = Split(<<a, w>>, ks[mid + 1], p, new)
  <2>1. Len(vs) = Len(ks)
    BY DEF PairedIn
  <2> QED BY <2>1 DEF SplitLeaf
<1>1. n \in Nat /\ n >= 3 /\ n = MaxKeys + 1 /\ MaxKeys \in Nat
  BY OrderFacts
<1>2. mid \in 1 .. (n - 1)
  <2> HIDE DEF n
  <2> QED BY <1>1, HalfFacts
<1> HIDE DEF mid
<1>3. next \in Int
  BY ReadNodeType, NodeFacts
<1>4. PairedIn(hk, hv, P) /\ Len(hk) <= MaxKeys
  <2>1. mid + 1 \in 1 .. Len(ks) + 1 /\ n \in ((mid + 1) - 1) .. Len(ks)
    BY <1>1, <1>2
  <2>2. PICK i \in 1 .. Len(ks) + 1 : i = mid + 1
    BY <2>1
  <2>3. n \in (i - 1) .. Len(ks)
    BY <2>1, <2>2
  <2>4. PairedIn(SubSeq(ks, i, n), SubSeq(vs, i, n), P) /\ Len(SubSeq(ks, i, n)) = n - i + 1
    <3> HIDE DEF n
    <3> QED BY <2>3, PairsCut
  <2> HIDE DEF n
  <2> QED BY <1>1, <1>2, <2>2, <2>4
<1>5. PairedIn(lk, lv, P) /\ Len(lk) <= MaxKeys
  <2>1. 1 \in 1 .. Len(ks) + 1 /\ mid \in (1 - 1) .. Len(ks)
    BY <1>1, <1>2
  <2>2. PairedIn(lk, lv, P) /\ Len(lk) = mid - 1 + 1
    BY <2>1, PairsCut
  <2> HIDE DEF n
  <2> QED BY <1>1, <1>2, <2>2
<1> HIDE DEF hk, hv, lk, lv, next
<1>6. a \in Effects(P) /\ w \in Effects(P)
  <2>1. Node(Leaf, hk, hv, next) \in NodesOver(P) /\ Node(Leaf, lk, lv, new) \in NodesOver(P)
    BY <1>3, <1>4, <1>5, PairedIsLeaf
  <2> QED BY <2>1, EffectType
<1>7. ks[mid + 1] \in Keys /\ ks[mid + 1] \in Int
  <2>1. mid + 1 \in 1 .. Len(ks) /\ ks \in Seq(Keys)
    BY <1>1, <1>2 DEF PairedIn
  <2> QED BY <2>1, ElementOfSeq, OrderFacts
<1> HIDE DEF a, w
<1>9. <<a, w>> \in Seq(Effects(P))
  BY <1>6
<1> QED
  BY <1>7, <1>8, <1>9 DEF Split, Splits

(* The parent, too, stays a node, or becomes two. *)
LEMMA InsertIntoParentType ==
  ASSUME NEW P, Holding(P), NEW entry \in PathEntries, NEW s \in Splits(P), s.promote \in Keys,
         entry.child \in 0 .. Len(ReadNode(entry.page).keys),
         next_page_id \in Nat, root_page_id \in Int, NEW top
  PROVE  InsertIntoParent(entry, s, top) \in Splits(P)
<1> DEFINE parent == ReadNode(entry.page)
           ci == entry.child
           m == Len(parent.keys)
           ks == InsertAt(parent.keys, ci + 1, s.promote)
           rs == ReplaceAt(Children(parent), ci + 1, s.left)
           cs == InsertAt(rs, ci + 2, s.right)
           n == Len(ks)
           smid == n \div 2
           new == next_page_id + NewPages(s.effects)
<1>1. parent \in NodesOver(P)
  BY ReadNodeType
<1>2. /\ parent.keys \in Seq(Keys) /\ m \in Nat /\ m <= MaxKeys
      /\ Children(parent) \in Seq(Int) /\ Len(Children(parent)) = m + 1
  <2> HIDE DEF parent
  <2>1. parent.keys \in Seq(Keys) /\ m \in Nat /\ m <= MaxKeys
    BY <1>1, NodeFacts
  <2>2. parent.vals \in Seq(Int) /\ parent.next \in Int /\ Len(parent.vals) = m
    BY <1>1, NodeFacts
  <2> QED BY <2>1, <2>2, AppendProperties DEF Children
<1>3. /\ s.effects \in Seq(Effects(P)) /\ s.left \in Int /\ s.right \in Int /\ s.promote \in Int
      /\ s.root \in Int /\ s.done \in BOOLEAN
  BY DEF Splits
<1>4. new \in Int
  BY <1>3, NewPagesType
<1>5. entry.page \in Int /\ ci \in 0 .. m
  BY DEF PathEntries
<1> HIDE DEF parent
<1>6. ks \in Seq(Keys) /\ n = m + 1
  <2>1. PICK i \in 1 .. Len(parent.keys) + 1 : i = ci + 1
    BY <1>2, <1>5
  <2>2. InsertAt(parent.keys, i, s.promote) \in Seq(Keys)
        /\ Inserted(InsertAt(parent.keys, i, s.promote), parent.keys, i, s.promote)
    BY <1>2, InsertAtInserts
  <2> QED BY <2>1, <2>2 DEF Inserted
<1> HIDE DEF ks
<1>7. rs \in Seq(Int) /\ Len(rs) = m + 1
  <2>1. PICK i \in 1 .. Len(Children(parent)) : i = ci + 1
    BY <1>2, <1>5
  <2>2. PICK c \in Seq(Int), x \in Int : c = Children(parent) /\ x = s.left
    BY <1>2, <1>3
  <2>3. i \in 1 .. Len(c)
    BY <2>1, <2>2
  <2>4. ReplaceAt(c, i, x) \in Seq(Int) /\ Replaced(ReplaceAt(c, i, x), c, i, x)
    BY <2>3, ReplaceAtFacts
  <2> QED BY <1>2, <2>1, <2>2, <2>4 DEF Replaced
<1> HIDE DEF rs
<1>8. cs \in Seq(Int) /\ Len(cs) = m + 2
  <2>1. PICK i \in 1 .. Len(rs) + 1 : i = ci + 2
    <3> HIDE DEF m, ci
    <3> QED BY <1>2, <1>5, <1>7
  <2>2. InsertAt(rs, i, s.right) \in Seq(Int) /\ Inserted(InsertAt(rs, i, s.right), rs, i, s.right)
    BY <1>3, <1>7, InsertAtInserts
  <2>3. Len(InsertAt(rs, i, s.right)) = m + 2
    BY <1>2, <1>7, <2>2 DEF Inserted
  <2> QED BY <2>1, <2>2, <2>3
<1> HIDE DEF cs, new
<1>9. \A i \in 1 .. m + 2 : cs[i] \in Int
  BY <1>8, ElementOfSeq
<1>10. n \in Nat /\ n >= 1 /\ m \in Nat
  BY <1>2, <1>6
<1> HIDE DEF n, m
<1>11. ASSUME ~Overflows(n)
       PROVE [s EXCEPT !.effects = Append(s.effects, WriteNode(entry.page, Internal, ks,
                                             SubSeq(cs, 1, n), cs[n + 1])),
                       !.done = TRUE] \in Splits(P)
  <2> DEFINE c == SubSeq(cs, 1, n)
             e == WriteNode(entry.page, Internal, ks, c, cs[n + 1])
  <2>1. c \in Seq(Int) /\ Len(c) = n
    <3>1. 1 \in 1 .. Len(cs) + 1 /\ n \in (1 - 1) .. Len(cs)
      BY <1>6, <1>8, <1>10
    <3>2. SubSeq(cs, 1, n) \in Seq(Int) /\ Len(SubSeq(cs, 1, n)) = n - 1 + 1
      BY <1>8, <3>1, CutSeq
    <3> QED BY <1>10, <3>2
  <2>2. Len(ks) = n /\ n <= MaxKeys /\ cs[n + 1] \in Int
    BY <1>6, <1>9, <1>10, <1>11, OrderFacts DEF Overflows, n
  <2> HIDE DEF c
  <2>3. Node(Internal, ks, c, cs[n + 1]) \in NodesOver(P)
    BY <1>6, <2>1, <2>2, InternalNode
  <2>4. e \in Effects(P)
    BY <1>5, <2>3, EffectType
  <2> HIDE DEF e
  <2>5. Append(s.effects, e) \in Seq(Effects(P))
    BY <1>3, <2>4, AppendProperties
  <2>6. [s EXCEPT !.effects = Append(s.effects, e), !.done = TRUE] \in Splits(P)
    BY <1>3, <2>5 DEF Splits
  <2> QED BY <2>6 DEF e, c
<1> DEFINE hk == SubSeq(ks, smid + 2, n)
           hc == SubSeq(cs, smid + 2, n)
           lk == SubSeq(ks, 1, smid)
           lc == SubSeq(cs, 1, smid)
           a == AllocNode(new, Internal, hk, hc, cs[n + 1])
           w == WriteNode(entry.page, Internal, lk, lc, cs[smid + 1])
           split == Split(s.effects \o <<a, w>>, ks[smid + 1], entry.page, new)
<1>12. ASSUME Overflows(n) PROVE split \in Splits(P) /\ split.promote \in Keys
  <2>1. n = MaxKeys + 1 /\ n >= 3 /\ Len(ks) = n /\ Len(cs) = n + 1
    BY <1>2, <1>6, <1>8, <1>10, <1>12, OrderFacts DEF Overflows, n
  <2>2. smid \in 1 .. (n - 1)
    BY <1>10, <2>1, HalfFacts
  <2> HIDE DEF smid
  <2>3. PICK h \in 1 .. n + 1 : h = smid + 2
    BY <2>1, <2>2
  <2>4. hk \in Seq(Keys) /\ Len(hk) = n - h + 1
    <3>1. h \in 1 .. Len(ks) + 1 /\ n \in (h - 1) .. Len(ks)
      BY <1>10, <2>1, <2>2, <2>3
    <3>2. SubSeq(ks, h, n) \in Seq(Keys) /\ Len(SubSeq(ks, h, n)) = n - h + 1
      BY <1>6, <3>1, CutSeq
    <3> QED BY <2>3, <3>2
  <2>5. hc \in Seq(Int) /\ Len(hc) = n - h + 1
    <3>1. h \in 1 .. Len(cs) + 1 /\ n \in (h - 1) .. Len(cs)
      BY <1>10, <2>1, <2>2, <2>3
    <3>2. SubSeq(cs, h, n) \in Seq(Int) /\ Len(SubSeq(cs, h, n)) = n - h + 1
      BY <1>8, <3>1, CutSeq
    <3> QED BY <2>3, <3>2
  <2>6. lk \in Seq(Keys) /\ Len(lk) = smid
    <3>1. 1 \in 1 .. Len(ks) + 1 /\ smid \in (1 - 1) .. Len(ks)
      BY <1>10, <2>1, <2>2
    <3>2. lk \in Seq(Keys) /\ Len(lk) = smid - 1 + 1
      BY <1>6, <3>1, CutSeq
    <3> QED BY <2>2, <3>2
  <2>7. lc \in Seq(Int) /\ Len(lc) = smid
    <3>1. 1 \in 1 .. Len(cs) + 1 /\ smid \in (1 - 1) .. Len(cs)
      BY <1>10, <2>1, <2>2
    <3>2. lc \in Seq(Int) /\ Len(lc) = smid - 1 + 1
      BY <1>8, <3>1, CutSeq
    <3> QED BY <2>2, <3>2
  <2>8. cs[n + 1] \in Int /\ cs[smid + 1] \in Int /\ smid + 1 \in 1 .. Len(ks)
    <3>1. n + 1 \in 1 .. m + 2 /\ smid + 1 \in 1 .. m + 2
      BY <1>6, <1>10, <2>1, <2>2
    <3> QED BY <1>9, <1>10, <2>1, <2>2, <3>1
  <2>9. ks[smid + 1] \in Keys /\ ks[smid + 1] \in Int
    BY <1>6, <2>8, ElementOfSeq, OrderFacts
  <2>10. Len(hk) <= MaxKeys /\ Len(lk) <= MaxKeys /\ MaxKeys \in Nat
    BY <1>10, <2>1, <2>2, <2>3, <2>4, <2>6, OrderFacts
  <2> HIDE DEF hk, hc, lk, lc
  <2>11. /\ Node(Internal, hk, hc, cs[n + 1]) \in NodesOver(P)
         /\ Node(Internal, lk, lc, cs[smid + 1]) \in NodesOver(P)
    BY <2>4, <2>5, <2>6, <2>7, <2>8, <2>10, InternalNode
  <2>12. a \in Effects(P) /\ w \in Effects(P)
    BY <1>4, <1>5, <2>11, EffectType
  <2> HIDE DEF a, w
  <2>13. <<a, w>> \in Seq(Effects(P))
    BY <2>12
  <2>14. s.effects \o <<a, w>> \in Seq(Effects(P))
    BY <1>3, <2>13, ConcatProperties
  <2> QED BY <1>4, <1>5, <2>9, <2>14 DEF Split, Splits
<1>13. InsertIntoParent(entry, s, top) =
         IF ~Overflows(n)
         THEN [s EXCEPT !.effects = Append(s.effects, WriteNode(entry.page, Internal, ks,
                                             SubSeq(cs, 1, n), cs[n + 1])),
                        !.done = TRUE]
         ELSE IF top THEN GrowRoot(split) ELSE split
  BY DEF InsertIntoParent, parent, ks, rs, cs, n, new
<1> HIDE DEF split, smid
<1>14. CASE ~Overflows(n)
  BY <1>11, <1>13, <1>14
<1>15. CASE Overflows(n)
  <2>1. split \in Splits(P) /\ split.promote \in Keys
    BY <1>12, <1>15
  <2>2. GrowRoot(split) \in Splits(P)
    BY <2>1, GrowRootType
  <2> QED BY <1>13, <1>15, <2>1, <2>2
<1> QED
  BY <1>14, <1>15

(* The climb, one level at a time. *)
ClimbOf(g, path, split, P) ==
  LET n == Len(path)
  IN  /\ g \in [0 .. n -> Splits(P)]
      /\ g[0] = split
      /\ \A j \in 1 .. n :
           g[j] = IF g[j - 1].done THEN g[j - 1]
                  ELSE InsertIntoParent(path[n - j + 1], g[j - 1], n - j + 1 = 1)
      /\ Climb(path, split) = g[n]

LEMMA ClimbSteps ==
  ASSUME NEW P, Holding(P), next_page_id \in Nat, root_page_id \in Int,
         NEW path \in Seq(PathEntries),
         \A i \in DOMAIN path : path[i].child \in 0 .. Len(ReadNode(path[i].page).keys),
         NEW split \in Splits(P)
  PROVE  \E g : ClimbOf(g, path, split, P)
<1> DEFINE S == Splits(P)
           list == Reverse([i \in DOMAIN path |-> i])
           n == Len(path)
           Up(s, i) == IF s.done THEN s ELSE InsertIntoParent(path[i], s, i = 1)
<1>1. n \in Nat /\ DOMAIN path = 1 .. n
  BY LenProperties
<1>2. DOMAIN list = 1 .. n /\ \A i \in 1 .. n : list[i] = n - i + 1 /\ list[i] \in 1 .. n
  <2> DEFINE id == [i \in 1 .. n |-> i]
  <2>1. id \in Seq(1 .. n) /\ Len(id) = n
    BY <1>1
  <2>2. list = [i \in 1 .. Len(id) |-> id[(Len(id) - i) + 1]]
    BY <1>1 DEF Reverse
  <2>3. \A i \in 1 .. n : (n - i) + 1 \in 1 .. n
    BY <1>1
  <2> HIDE DEF n, list
  <2> QED BY <2>1, <2>2, <2>3
<1> HIDE DEF list, n
<1>3. ASSUME NEW s \in S, NEW i \in 1 .. n PROVE Up(s, i) \in S
  <2>1. path[i] \in PathEntries
    BY <1>1, ElementOfSeq DEF n
  <2>2. path[i].child \in 0 .. Len(ReadNode(path[i].page).keys)
    BY <1>1
  <2>3. ASSUME ~s.done PROVE InsertIntoParent(path[i], s, i = 1) \in S
    <3>1. s.promote \in Keys
      BY <2>3 DEF Splits
    <3> QED BY <2>1, <2>2, <3>1, InsertIntoParentType
  <2> QED BY <2>3
<1> DEFINE op == [p \in S \X (1 .. n) |-> Up(p[1], list[p[2]])]
<1>4. op \in [S \X (1 .. n) -> S]
  <2>1. \A s \in S, i \in 1 .. n : Up(s, list[i]) \in S
    BY <1>2, <1>3
  <2> HIDE DEF Up, S
  <2> QED BY <2>1
<1>5. PICK it \in [SUBSET (1 .. n) -> S] : FoldOf(it, n, split, op)
  <2> HIDE DEF op, S
  <2>1. split \in S
    BY DEF S
  <2> QED BY <1>1, <1>4, <2>1, FoldExists
<1>6. it = [s \in SUBSET DOMAIN list |->
              IF s = {} THEN split ELSE Up(it[s \ {Max(s)}], list[Max(s)])]
  <2>1. ASSUME NEW s \in SUBSET (1 .. n), s # {}
        PROVE it[s] = Up(it[s \ {Max(s)}], list[Max(s)])
    <3>1. s \in SUBSET (0 .. n)
      OBVIOUS
    <3>2. Max(s) \in 1 .. n
      BY <1>1, <2>1, <3>1, MaxOf
    <3>3. it[s \ {Max(s)}] \in S
      OBVIOUS
    <3>4. it[s] = op[<<it[s \ {Max(s)}], Max(s)>>]
      BY <1>5, <2>1 DEF FoldOf
    <3> HIDE DEF Up, S
    <3> QED BY <3>2, <3>3, <3>4
  <2>2. it[{}] = split
    BY <1>5 DEF FoldOf
  <2> HIDE DEF op, Up, S
  <2> QED BY <1>2, <2>1, <2>2
<1> HIDE DEF op
<1> DEFINE f == CHOOSE k : k = [s \in SUBSET DOMAIN list |->
                  IF s = {} THEN split ELSE Up(k[s \ {Max(s)}], list[Max(s)])]
<1>7. f = [s \in SUBSET DOMAIN list |->
             IF s = {} THEN split ELSE Up(f[s \ {Max(s)}], list[Max(s)])]
  <2> HIDE DEF Up
  <2> QED BY <1>6
<1>8. Climb(path, split) = f[DOMAIN list]
  BY Zenon DEF Climb, FoldLeft, MapThenFoldSet, list
<1> HIDE DEF f
<1>9. f[1 .. 0] = split
  BY <1>1, <1>2, <1>7
<1>10. ASSUME NEW i \in 1 .. n PROVE f[1 .. i] = Up(f[1 .. (i - 1)], list[i])
  <2>1. /\ 1 .. i \in SUBSET (1 .. n) /\ 1 .. i # {}
        /\ Max(1 .. i) = i /\ (1 .. i) \ {i} = 1 .. (i - 1)
    BY <1>1, IntervalTop
  <2> HIDE DEF Up
  <2> QED BY <1>1, <1>2, <1>7, <2>1
<1> DEFINE Q == {i \in 0 .. n : f[1 .. i] \in S}
<1> HIDE DEF Up, S
<1>11. 0 \in Q
  <2>1. split \in S /\ 0 \in 0 .. n
    BY <1>1 DEF S
  <2> QED BY <1>9, <2>1
<1>12. ASSUME NEW i \in 1 .. n, i - 1 \in Q PROVE i \in Q
  <2>1. f[1 .. (i - 1)] \in S /\ list[i] \in 1 .. n /\ i \in 0 .. n
    BY <1>2, <1>12
  <2>2. Up(f[1 .. (i - 1)], list[i]) \in S
    BY <1>3, <2>1
  <2> QED BY <1>10, <2>1, <2>2
<1>13. 0 .. n \subseteq Q
  <2> HIDE DEF Q
  <2> QED BY <1>1, <1>11, <1>12, UpTo
<1> DEFINE g == [j \in 0 .. n |-> f[1 .. j]]
<1>14. g \in [0 .. n -> S]
  BY <1>13
<1>15. g[0] = split
  BY <1>1, <1>9
<1>16. ASSUME NEW j \in 1 .. n PROVE g[j] = Up(g[j - 1], n - j + 1)
  <2>1. j \in 0 .. n /\ j - 1 \in 0 .. n
    BY <1>1
  <2>2. g[j] = f[1 .. j] /\ g[j - 1] = f[1 .. (j - 1)]
    BY <2>1
  <2> QED BY <1>2, <1>10, <2>2
<1>17. Climb(path, split) = g[n]
  <2>1. n \in 0 .. n
    BY <1>1
  <2> QED BY <1>2, <1>8, <2>1
<1> HIDE DEF g
<1>18. ClimbOf(g, path, split, P)
  BY <1>14, <1>15, <1>16, <1>17 DEF ClimbOf, S, Up, n
<1> QED BY <1>18

(* From the leaf to the root, a split stays one. *)
LEMMA ClimbType ==
  ASSUME NEW P, Holding(P), next_page_id \in Nat, root_page_id \in Int,
         NEW path \in Seq(PathEntries),
         \A i \in DOMAIN path : path[i].child \in 0 .. Len(ReadNode(path[i].page).keys),
         NEW split \in Splits(P)
  PROVE  Climb(path, split) \in Splits(P)
<1>1. PICK g : ClimbOf(g, path, split, P)
  BY ClimbSteps
<1>2. Len(path) \in 0 .. Len(path)
  BY LenProperties
<1> QED
  BY <1>1, <1>2 DEF ClimbOf

LEMMA HoldingWider ==
  ASSUME NEW P, P \subseteq AnyPair, Holding(P)
  PROVE  Holding(AnyPair)
<1>1. NodesOver(P) \subseteq NodesOver(AnyPair)
  BY DEF NodesOver
<1> QED
  BY <1>1 DEF Holding

(* What an insert writes are nodes, whose leaves have the old pairs and the new one. *)
LEMMA InsertPlanType ==
  ASSUME NEW P, P \subseteq AnyPair, Holding(P), next_page_id \in Nat, root_page_id \in Int,
         NEW key \in Keys, NEW val \in Int, <<key, val>> \in P, InsertEnds(key)
  PROVE  InsertPlan(key, val) \in Splits(P)
<1> DEFINE d == Descent(key, {Leaf})
           leaf == ReadNode(d.page)
           sr == BinarySearch(leaf.keys, key)
           ks == InsertAt(leaf.keys, sr.index + 1, key)
           vs == InsertAt(leaf.vals, sr.index + 1, val)
           Done(e) == [Split(<<e>>, 0, 0, 0) EXCEPT !.done = TRUE]
           plan == InsertPlan(key, val)
           blank == ReadNode(root_page_id).type = "blank"
           replaced == ReplaceAt(leaf.vals, sr.index + 1, val)
<1>1. plan =
        IF blank
        THEN Done(WriteNode(root_page_id, Leaf, <<key>>, <<val>>, NoNext))
        ELSE IF sr.found
        THEN Done(WriteNode(d.page, Leaf, leaf.keys, replaced, leaf.next))
        ELSE IF ~Overflows(Len(ks))
        THEN Done(WriteNode(d.page, Leaf, ks, vs, leaf.next))
        ELSE IF d.path = << >>
        THEN GrowRoot(SplitLeaf(d.page, ks, vs))
        ELSE Climb(d.path, SplitLeaf(d.page, ks, vs))
  BY DEF InsertPlan
<1>2. Holding(AnyPair)
  BY HoldingWider
<1>3. /\ d \in Outcomes
      /\ d.ends => ReadNode(d.page).type \in {Leaf}
      /\ OnTheWay(d.path, key, {Leaf})
  BY <1>2, DescentFacts
<1>4. leaf \in NodesOver(P)
  BY ReadNodeType
<1>5. sr \in Places(leaf.keys, key)
  <2>1. leaf.keys \in Seq(Keys)
    BY <1>4, NodeFacts
  <2> QED BY <2>1, BinarySearchFinds
<1>6. \A e \in Effects(P) : Done(e) \in Splits(P)
  BY DoneType
<1>7. d.page \in Int /\ d.path \in Seq(PathEntries)
  BY <1>3 DEF Outcomes
<1>8. InsertEnds(key) => blank \/ d.ends
  BY DEF InsertEnds
<1> HIDE DEF d, leaf, sr, ks, vs, Done, plan, blank, replaced
<1>9. CASE blank
  <2> DEFINE k == <<key>>
             v == <<val>>
             e == WriteNode(root_page_id, Leaf, k, v, NoNext)
  <2>1. PairedIn(k, v, P) /\ Len(k) <= MaxKeys
    BY OrderFacts DEF PairedIn
  <2> HIDE DEF k, v
  <2>2. Node(Leaf, k, v, NoNext) \in NodesOver(P)
    BY <2>1, PairedIsLeaf DEF NoNext
  <2>3. e \in Effects(P)
    BY <2>2, EffectType
  <2>4. Done(e) \in Splits(P)
    BY <1>6, <2>3
  <2> QED BY <1>1, <1>9, <2>4 DEF plan, e, k, v
<1>10. CASE ~blank
  <2>1. leaf.type = Leaf
    BY <1>3, <1>8, <1>10 DEF leaf
  <2>2. /\ PairedIn(leaf.keys, leaf.vals, P) /\ leaf.next \in Int
        /\ Len(leaf.keys) \in Nat /\ Len(leaf.keys) <= MaxKeys
    BY <1>4, <2>1, LeafIsPaired, NodeFacts
  <2>3. CASE sr.found
    <3> DEFINE e == WriteNode(d.page, Leaf, leaf.keys, replaced, leaf.next)
    <3>1. PICK i \in 1 .. Len(leaf.keys) : i = sr.index + 1 /\ leaf.keys[i] = key
      BY <1>5, <2>2, <2>3 DEF Places
    <3>2. PairedIn(leaf.keys, ReplaceAt(leaf.vals, i, val), P)
      BY <2>2, <3>1, PairReplaced
    <3>3. PairedIn(leaf.keys, replaced, P)
      BY <3>1, <3>2 DEF replaced
    <3>4. Node(Leaf, leaf.keys, replaced, leaf.next) \in NodesOver(P)
      BY <2>2, <3>3, PairedIsLeaf
    <3>5. e \in Effects(P)
      BY <1>7, <3>4, EffectType
    <3>6. Done(e) \in Splits(P)
      BY <1>6, <3>5
    <3> QED BY <1>1, <1>10, <2>3, <3>6 DEF plan, e
  <2>4. CASE ~sr.found
    <3>1. PairedIn(ks, vs, P) /\ Len(ks) = Len(leaf.keys) + 1
      <4>1. PICK i \in 1 .. Len(leaf.keys) + 1 : i = sr.index + 1
        BY <1>5, <2>2 DEF Places
      <4>2. /\ PairedIn(InsertAt(leaf.keys, i, key), InsertAt(leaf.vals, i, val), P)
            /\ Len(InsertAt(leaf.keys, i, key)) = Len(leaf.keys) + 1
        BY <2>2, PairInserted
      <4> QED BY <4>1, <4>2 DEF ks, vs
    <3>2. CASE ~Overflows(Len(ks))
      <4> DEFINE e == WriteNode(d.page, Leaf, ks, vs, leaf.next)
      <4>1. Len(ks) <= MaxKeys
        BY <2>2, <3>1, <3>2, OrderFacts DEF Overflows
      <4>2. Node(Leaf, ks, vs, leaf.next) \in NodesOver(P)
        BY <2>2, <3>1, <4>1, PairedIsLeaf
      <4>3. e \in Effects(P)
        BY <1>7, <4>2, EffectType
      <4>4. Done(e) \in Splits(P)
        BY <1>6, <4>3
      <4> QED BY <1>1, <1>10, <2>4, <3>2, <4>4 DEF plan, e
    <3>3. CASE Overflows(Len(ks))
      <4>1. Len(ks) = MaxKeys + 1
        BY <2>2, <3>1, <3>3, OrderFacts DEF Overflows
      <4> DEFINE s == SplitLeaf(d.page, ks, vs)
      <4>2. s \in Splits(P) /\ s.promote \in Keys
        BY <1>7, <3>1, <4>1, SplitLeafType
      <4> HIDE DEF s
      <4>3. GrowRoot(s) \in Splits(P)
        BY <4>2, GrowRootType
      <4>4. Climb(d.path, s) \in Splits(P)
        <5>1. ASSUME NEW i \in DOMAIN d.path
              PROVE d.path[i].child \in 0 .. Len(ReadNode(d.path[i].page).keys)
          <6>1. d.path[i].child = ChildIndex(ReadNode(d.path[i].page), key)
            BY <1>3 DEF OnTheWay
          <6>2. ReadNode(d.path[i].page) \in NodesOver(P)
            BY ReadNodeType
          <6> QED BY <6>1, <6>2, ChildFacts
        <5> QED BY <1>7, <4>2, <5>1, ClimbType
      <4> QED BY <1>1, <1>10, <2>4, <3>3, <4>3, <4>4 DEF plan, s
    <3> QED BY <3>2, <3>3
  <2> QED BY <2>3, <2>4
<1> QED
  BY <1>9, <1>10 DEF plan

-----------------------------------------------------------------------------
(* The invariant *)

(* TypeOK, and that the pages are a function and their fields numbers. *)
Shape ==
  /\ Holding(AnyPair)
  /\ next_page_id \in Nat
  /\ tail \in Int \X Int
  /\ root_page_id \in Int
  /\ count \in Int
  /\ saved \in BOOLEAN
  /\ hazards \subseteq Hazards

(* A leaf has no pair but those that were inserted, until Save overwrites a value. *)
TreeInv ==
  /\ Shape
  /\ "save_full" \notin hazards => Holding(Inputs)

LEMMA TreeInit == Init => TreeInv
<1> SUFFICES ASSUME Init PROVE TreeInv
  OBVIOUS
<1>1. Holding(AnyPair) /\ Holding(Inputs)
  <2>1. ASSUME NEW P PROVE Blank \in NodesOver(P)
    BY OrderFacts DEF Blank, NodesOver, Types, Leaf
  <2> QED BY <2>1 DEF Init, Holding
<1>2. /\ next_page_id = RootPage + 1 /\ root_page_id = RootPage /\ count = 0 /\ saved = FALSE
      /\ RootPage \in Nat
  BY BTreeAssumption DEF Init
<1>3. tail \in Int \X Int
  BY DEF Init
<1>4. hazards \subseteq Hazards
  BY DEF Init
<1>5. next_page_id \in Nat /\ root_page_id \in Int /\ count \in Int
  BY <1>2
<1>6. saved \in BOOLEAN
  BY <1>2
<1> QED
  BY <1>1, <1>3, <1>4, <1>5, <1>6, Zenon DEF TreeInv, Shape

(* An operation that writes nodes over pairs of P, whatever P is. *)
Writes(P) == \E effects \in Seq(Effects(P)) : Apply(effects)

(* The other variables stay of their types, and no pair is overwritten. *)
OthersKeep ==
  /\ root_page_id' \in Int /\ count' \in Int /\ saved' \in BOOLEAN
  /\ hazards' \subseteq Hazards
  /\ "save_full" \in hazards => "save_full" \in hazards'

LEMMA WritesKeep ==
  ASSUME TreeInv, OthersKeep, Writes(AnyPair), Holding(Inputs) => Writes(Inputs)
  PROVE  TreeInv'
<1>1. Holding(AnyPair)' /\ next_page_id' \in Nat /\ (tail \in Int \X Int)'
  BY ApplyKeeps DEF TreeInv, Shape, Writes
<1>2. "save_full" \notin hazards' => Holding(Inputs)'
  BY ApplyKeeps DEF TreeInv, Shape, Writes, OthersKeep
<1> QED
  BY <1>1, <1>2 DEF TreeInv, Shape, OthersKeep

LEMMA InputFacts ==
  ASSUME NEW in \in Inputs
  PROVE  /\ in[1] \in Keys /\ in[2] \in Int /\ <<in[1], in[2]>> \in Inputs
         /\ <<in[1], in[2]>> \in AnyPair
BY BTreeAssumption DEF AnyPair

LEMMA InsertKeeps ==
  ASSUME TreeInv, NEW in \in Inputs, Insert(in[1], in[2])
  PROVE  TreeInv'
<1> DEFINE plan == InsertPlan(in[1], in[2])
<1>1. ASSUME NEW P, P \subseteq AnyPair, Inputs \subseteq P, Holding(P)
      PROVE plan \in Splits(P) /\ Writes(P)
  <2>1. /\ in[1] \in Keys /\ in[2] \in Int /\ <<in[1], in[2]>> \in P /\ InsertEnds(in[1])
        /\ next_page_id \in Nat /\ root_page_id \in Int
    BY <1>1, InputFacts DEF Insert, TreeInv, Shape
  <2>2. plan \in Splits(P)
    BY <1>1, <2>1, InsertPlanType
  <2>3. plan.effects \in Seq(Effects(P)) /\ Apply(plan.effects)
    BY <2>2 DEF Splits, Insert
  <2> QED BY <2>2, <2>3 DEF Writes
<1>2. plan \in Splits(AnyPair) /\ Writes(AnyPair) /\ (Holding(Inputs) => Writes(Inputs))
  BY <1>1, OrderFacts DEF TreeInv, Shape
<1>3. OthersKeep
  <2>1. root_page_id' = plan.root /\ plan.root \in Int
    BY <1>2 DEF Insert, Splits
  <2>2. count' \in Int
    <3>1. count \in Int /\ count' = count + (IF AddsKey(in[1]) THEN 1 ELSE 0)
      BY DEF Insert, TreeInv, Shape
    <3> QED BY <3>1
  <2>3. saved' \in BOOLEAN /\ hazards' = hazards /\ hazards \subseteq Hazards
    BY DEF Insert, TreeInv, Shape
  <2> QED BY <2>1, <2>2, <2>3 DEF OthersKeep
<1> QED
  BY <1>2, <1>3, WritesKeep

LEMMA InsertFailsKeeps ==
  ASSUME TreeInv, NEW in \in Inputs, InsertFails(in[1], in[2])
  PROVE  TreeInv'
<1> DEFINE effects == InsertPlan(in[1], in[2]).effects
<1>1. PICK n \in 1 .. (Len(effects) - 1) :
        /\ Apply(SubSeq(effects, 1, n))
        /\ hazards' = hazards \cup (IF n = 1 THEN {} ELSE {"half_split"})
  BY DEF InsertFails
<1>2. ASSUME NEW P, P \subseteq AnyPair, Inputs \subseteq P, Holding(P)
      PROVE Writes(P)
  <2>1. /\ in[1] \in Keys /\ in[2] \in Int /\ <<in[1], in[2]>> \in P /\ InsertEnds(in[1])
        /\ next_page_id \in Nat /\ root_page_id \in Int
    BY <1>2, InputFacts DEF InsertFails, TreeInv, Shape
  <2>2. effects \in Seq(Effects(P))
    BY <1>2, <2>1, InsertPlanType DEF Splits
  <2> HIDE DEF effects
  <2>3. 1 \in 1 .. Len(effects) + 1 /\ n \in (1 - 1) .. Len(effects)
    BY <2>2, LenProperties
  <2>4. SubSeq(effects, 1, n) \in Seq(Effects(P))
    BY <2>2, <2>3, CutSeq
  <2> QED BY <1>1, <2>4 DEF Writes
<1>3. Writes(AnyPair) /\ (Holding(Inputs) => Writes(Inputs))
  BY <1>2, OrderFacts DEF TreeInv, Shape
<1>4. OthersKeep
  BY <1>1 DEF InsertFails, OthersKeep, TreeInv, Shape, Hazards
<1> QED
  BY <1>3, <1>4, WritesKeep

LEMMA InsertOverRootKeeps ==
  ASSUME TreeInv, NEW in \in Inputs, InsertOverRoot(in[1], in[2])
  PROVE  TreeInv'
<1> DEFINE ks == <<in[1]>>
           vs == <<in[2]>>
           e == WriteNode(root_page_id, Leaf, ks, vs, NoNext)
<1>1. ASSUME NEW P, Inputs \subseteq P PROVE Writes(P)
  <2>1. PairedIn(ks, vs, P) /\ Len(ks) <= MaxKeys
    <3>1. PICK key \in Keys, val \in Int :
            key = in[1] /\ val = in[2] /\ <<key, val>> \in P
      BY <1>1, InputFacts
    <3>2. PairedIn(<<key>>, <<val>>, P) /\ Len(<<key>>) <= MaxKeys
      BY <3>1, OrderFacts DEF PairedIn
    <3> QED BY <3>1, <3>2
  <2>2. Apply(<<e>>)
    BY DEF InsertOverRoot
  <2> HIDE DEF ks, vs
  <2>3. e \in Effects(P)
    BY <2>1, PairedIsLeaf, EffectType DEF NoNext, TreeInv, Shape
  <2> HIDE DEF e
  <2>4. <<e>> \in Seq(Effects(P))
    BY <2>3
  <2> QED BY <2>2, <2>4 DEF Writes
<1>2. Writes(AnyPair) /\ Writes(Inputs)
  BY <1>1, OrderFacts
<1>3. OthersKeep
  <2>1. root_page_id' \in Int /\ count' \in Int
    BY DEF InsertOverRoot, TreeInv, Shape
  <2>4. saved' \in BOOLEAN
    BY DEF InsertOverRoot
  <2>2. hazards' = hazards \cup {} \/ hazards' = hazards \cup {"root_lost"}
    BY DEF InsertOverRoot
  <2>3. hazards \subseteq Hazards /\ "root_lost" \in Hazards
    BY DEF TreeInv, Shape, Hazards
  <2>5. hazards' \subseteq Hazards /\ ("save_full" \in hazards => "save_full" \in hazards')
    BY <2>2, <2>3
  <2> QED BY <2>1, <2>4, <2>5, Zenon DEF OthersKeep
<1> QED
  BY <1>2, <1>3, WritesKeep

(* What is found is at a place of a leaf. *)
LEMMA RemovableFacts ==
  ASSUME Shape, NEW key \in Keys, Removable(key)
  PROVE  LET d == Lookup(key)
             leaf == ReadNode(d.page)
             i == BinarySearch(leaf.keys, key).index + 1
         IN  /\ d \in Outcomes /\ d.ends /\ OnTheWay(d.path, key, {Leaf, "blank"})
             /\ leaf.type = Leaf
             /\ i \in 1 .. Len(leaf.keys) /\ leaf.keys[i] = key /\ Find(key) = leaf.vals[i]
<1> DEFINE d == Lookup(key)
           leaf == ReadNode(LeafFor(key))
           sr == BinarySearch(leaf.keys, key)
<1>1. d \in Outcomes /\ OnTheWay(d.path, key, {Leaf, "blank"})
  BY DescentFacts DEF Lookup, Shape
<1>2. leaf \in NodesOver(AnyPair)
  BY ReadNodeType DEF Shape
<1>3. leaf.type = Leaf /\ sr.found /\ Find(key) = leaf.vals[sr.index + 1]
  BY DEF Removable, Find, ValueIn
<1>4. LeafFor(key) = IF d.ends THEN d.page ELSE NoNext
  BY LeafForIsLookup DEF Shape
<1>5. d.ends
  <2>1. ReadNode(NoNext).type # Leaf
    BY DEF ReadNode, NoNext, PageIds, Blank, Leaf
  <2> QED BY <1>3, <1>4, <2>1
<1>6. sr \in Places(leaf.keys, key) /\ Len(leaf.keys) \in Nat
  BY <1>2, NodeFacts, BinarySearchFinds
<1>7. sr.index + 1 \in 1 .. Len(leaf.keys) /\ leaf.keys[sr.index + 1] = key
  <2> HIDE DEF sr, leaf
  <2> QED BY <1>3, <1>6 DEF Places
<1> QED
  BY <1>1, <1>3, <1>4, <1>5, <1>7

(* Remove writes at most one node: a leaf without the pair, or the parent without
   a key and a child. *)
LEMMA RemoveFromLeafKeeps ==
  ASSUME TreeInv, NEW key \in Keys, RemoveFromLeaf(key)
  PROVE  TreeInv'
<1> DEFINE d == Lookup(key)
           leaf == ReadNode(d.page)
           at == BinarySearch(leaf.keys, key).index + 1
           ks == RemoveAt(leaf.keys, at)
           vs == RemoveAt(leaf.vals, at)
           e == WriteNode(d.page, Leaf, ks, vs, leaf.next)
<1>1. /\ d \in Outcomes /\ leaf.type = Leaf
      /\ at \in 1 .. Len(leaf.keys)
  BY RemovableFacts DEF RemoveFromLeaf, TreeInv
<1>2. Apply(<<e>>)
  BY DEF RemoveFromLeaf
<1>3. ASSUME NEW P, Holding(P) PROVE Writes(P)
  <2>1. leaf \in NodesOver(P)
    BY <1>3, ReadNodeType
  <2> HIDE DEF leaf
  <2>2. PairedIn(leaf.keys, leaf.vals, P) /\ Len(leaf.keys) \in Nat /\ Len(leaf.keys) <= MaxKeys
        /\ leaf.next \in Int
    BY <1>1, <2>1, LeafIsPaired, NodeFacts
  <2>3. PICK i \in 1 .. Len(leaf.keys) : i = at
    BY <1>1
  <2>4. PairedIn(RemoveAt(leaf.keys, i), RemoveAt(leaf.vals, i), P)
        /\ Len(RemoveAt(leaf.keys, i)) = Len(leaf.keys) - 1
    BY <2>2, PairRemoved
  <2>5. PairedIn(ks, vs, P) /\ Len(ks) <= MaxKeys
    BY <2>2, <2>3, <2>4, OrderFacts
  <2>6. d.page \in Int
    BY <1>1 DEF Outcomes
  <2> HIDE DEF ks, vs, d
  <2>7. e \in Effects(P)
    BY <2>2, <2>5, <2>6, PairedIsLeaf, EffectType
  <2> HIDE DEF e
  <2>8. <<e>> \in Seq(Effects(P))
    BY <2>7
  <2> QED BY <1>2, <2>8 DEF Writes
<1>4. OthersKeep
  <2>1. root_page_id' \in Int /\ count' \in Int
    BY DEF RemoveFromLeaf, TreeInv, Shape
  <2>2. saved' \in BOOLEAN /\ hazards' = hazards
    BY DEF RemoveFromLeaf
  <2>3. hazards \subseteq Hazards
    BY DEF TreeInv, Shape
  <2> QED BY <2>1, <2>2, <2>3, Zenon DEF OthersKeep
<1>5. Writes(AnyPair) /\ (Holding(Inputs) => Writes(Inputs))
  BY <1>3 DEF TreeInv, Shape
<1> QED
  BY <1>4, <1>5, WritesKeep

LEMMA ParentFacts ==
  ASSUME Shape, NEW key \in Keys, Empties(key)
  PROVE  Parent(key) \in Int /\ ReadNode(Parent(key)).next \in Int
<1> DEFINE path == Lookup(key).path
<1>1. path \in Seq(PathEntries) /\ path # << >>
  <2>1. Lookup(key) \in Outcomes
    BY DescentFacts DEF Lookup, Shape
  <2> QED BY <2>1 DEF Outcomes, Empties
<1> HIDE DEF path
<1>2. Len(path) \in 1 .. Len(path)
  BY <1>1, LenProperties, EmptySeq
<1>3. path[Len(path)] \in PathEntries
  BY <1>1, <1>2, ElementOfSeq
<1>4. Parent(key) = path[Len(path)].page
  BY DEF Parent, Last, path
<1>5. Parent(key) \in Int
  BY <1>3, <1>4 DEF PathEntries
<1>6. ReadNode(Parent(key)) \in NodesOver(AnyPair)
  BY ReadNodeType DEF Shape
<1> QED
  BY <1>5, <1>6, NodeFacts

LEMMA RemoveFromParentKeeps ==
  ASSUME TreeInv, NEW key \in Keys, RemoveFromParent(key)
  PROVE  TreeInv'
<1> DEFINE parent == ReadNode(Parent(key))
           n == Len(parent.keys)
           at == RemovedIndex(parent, key) + 1
           ks == RemoveAt(parent.keys, at)
           cs == Front(parent.vals)
           e == WriteNode(Parent(key), Internal, ks, cs, parent.next)
<1>1. Parent(key) \in Int /\ n > 0 /\ Apply(<<e>>)
  BY ParentFacts DEF RemoveFromParent, TreeInv
<1>2. ASSUME NEW P, Holding(P) PROVE Writes(P)
  <2>1. parent \in NodesOver(P)
    BY <1>2, ReadNodeType
  <2>0. Parent(key) \in Int
    BY <1>1
  <2> HIDE DEF parent
  <2>2. /\ parent.keys \in Seq(Keys) /\ parent.vals \in Seq(Int) /\ parent.next \in Int
        /\ n \in Nat /\ n <= MaxKeys /\ Len(parent.vals) = n
    BY <2>1, NodeFacts
  <2>3. BinarySearch(parent.keys, key) \in Places(parent.keys, key)
    BY <2>2, BinarySearchFinds
  <2>4. PICK i \in DOMAIN parent.keys : i = at
    <3>1. BinarySearch(parent.keys, key).index \in 0 .. n
      BY <2>3 DEF Places
    <3>2. at \in 1 .. n
      BY <1>1, <2>2, <3>1 DEF RemovedIndex
    <3> QED BY <2>2, <3>2, LenProperties
  <2>5. RemoveAt(parent.keys, i) \in Seq(Keys) /\ Len(RemoveAt(parent.keys, i)) = n - 1
    BY <2>2, <2>4, RemoveAtElements
  <2>6. ks \in Seq(Keys) /\ Len(ks) = n - 1
    BY <2>4, <2>5
  <2>7. cs \in Seq(Int) /\ Len(cs) = n - 1
    <3>1. 1 \in 1 .. Len(parent.vals) + 1 /\ n - 1 \in (1 - 1) .. Len(parent.vals)
      BY <1>1, <2>2
    <3>2. SubSeq(parent.vals, 1, n - 1) \in Seq(Int)
          /\ Len(SubSeq(parent.vals, 1, n - 1)) = (n - 1) - 1 + 1
      BY <2>2, <3>1, CutSeq
    <3>3. cs = SubSeq(parent.vals, 1, n - 1)
      BY <2>2 DEF Front
    <3> QED BY <2>2, <3>2, <3>3
  <2>8. Len(ks) <= MaxKeys /\ Len(cs) = Len(ks)
    BY <1>1, <2>2, <2>6, <2>7, OrderFacts
  <2> HIDE DEF ks, cs
  <2>9. e \in Effects(P)
    BY <2>0, <2>2, <2>6, <2>7, <2>8, InternalNode, EffectType
  <2> HIDE DEF e
  <2>10. <<e>> \in Seq(Effects(P))
    BY <2>9
  <2> QED BY <1>1, <2>10 DEF Writes
<1>3. OthersKeep
  <2>1. root_page_id' \in Int /\ count' \in Int
    BY DEF RemoveFromParent, TreeInv, Shape
  <2>2. saved' \in BOOLEAN /\ hazards' = hazards \cup {"underflow"}
    BY DEF RemoveFromParent
  <2>3. hazards' \subseteq Hazards
    BY <2>2 DEF TreeInv, Shape, Hazards
  <2>4. "save_full" \in hazards => "save_full" \in hazards'
    BY <2>2
  <2> QED BY <2>1, <2>2, <2>3, <2>4, Zenon DEF OthersKeep
<1>4. Writes(AnyPair) /\ (Holding(Inputs) => Writes(Inputs))
  BY <1>2 DEF TreeInv, Shape
<1> QED
  BY <1>3, <1>4, WritesKeep

(* An operation that writes no page. *)
LEMMA NoWriteKeeps ==
  ASSUME TreeInv, UNCHANGED <<pages, next_page_id, tail>>, OthersKeep
  PROVE  TreeInv'
<1>1. Holding(AnyPair)' /\ next_page_id' \in Nat /\ tail' \in Int \X Int
  BY DEF TreeInv, Shape, Holding, NodesOver, AnyPair, Types, Leaf, Internal, MaxKeys
<1>2. "save_full" \notin hazards' => Holding(Inputs)'
  BY DEF TreeInv, OthersKeep, Holding, NodesOver, Types, Leaf, Internal, MaxKeys
<1> QED
  BY <1>1, <1>2, Zenon DEF TreeInv, Shape, OthersKeep

LEMMA RemoveElseKeeps ==
  ASSUME TreeInv, NEW key \in Keys,
         RemoveRootLevel(key) \/ RemoveUndefined(key) \/ RemoveFails(key)
  PROVE  TreeInv'
<1>1. UNCHANGED <<pages, next_page_id, tail>>
  BY DEF RemoveRootLevel, RemoveUndefined, RemoveFails
<1>2. root_page_id' \in Int
  <2>1. CASE RemoveRootLevel(key)
    BY <2>1, ParentFacts DEF RemoveRootLevel, TreeInv
  <2>2. CASE RemoveUndefined(key) \/ RemoveFails(key)
    BY <2>2 DEF RemoveUndefined, RemoveFails, TreeInv, Shape
  <2> QED BY <2>1, <2>2
<1>3. count' \in Int
  BY DEF RemoveRootLevel, RemoveUndefined, RemoveFails, TreeInv, Shape
<1>4. saved' \in BOOLEAN
  BY Zenon DEF RemoveRootLevel, RemoveUndefined, RemoveFails, TreeInv, Shape
<1>5. hazards' \subseteq Hazards /\ hazards \subseteq hazards'
  <2>1. hazards' \in {hazards, hazards \cup {"underflow"}, hazards \cup {"undefined"},
                      hazards \cup {"miscount"}}
    BY DEF RemoveRootLevel, RemoveUndefined, RemoveFails
  <2> QED BY <2>1 DEF TreeInv, Shape, Hazards
<1>6. OthersKeep
  BY <1>2, <1>3, <1>4, <1>5, Zenon DEF OthersKeep
<1> QED
  BY <1>1, <1>6, NoWriteKeeps

(* Save overwrites a value and the next pointer of a full root, and says so. *)
LEMMA SaveKeeps ==
  ASSUME TreeInv, Save
  PROVE  TreeInv'
<1> DEFINE node == ReadNode(root_page_id)
           vs == Append(Front(node.vals), root_page_id)
           m == [node EXCEPT !.vals = vs, !.next = count]
<1>1. root_page_id \in Int /\ count \in Int /\ root_page_id \in PageIds /\ next_page_id \in Nat
  BY DEF Save, TreeInv, Shape
<1>2. node \in NodesOver(AnyPair) /\ node = pages[root_page_id] /\ pages \in [PageIds -> NodesOver(AnyPair)]
  BY <1>1, ReadNodeType DEF TreeInv, Shape, ReadNode, Holding
<1>3. Full(node) => pages' = [pages EXCEPT ![root_page_id] = m]
  <2>1. Full(node) => pages' = [pages EXCEPT ![root_page_id].vals = Append(Front(@), root_page_id),
                                             ![root_page_id].next = count]
    BY DEF Save
  <2> QED BY <1>2, <2>1
<1> HIDE DEF node
<1>4. ASSUME Full(node) PROVE m \in NodesOver(AnyPair)
  <2>1. /\ node.keys \in Seq(Keys) /\ node.vals \in Seq(Int)
        /\ Len(node.keys) = MaxKeys /\ Len(node.vals) = MaxKeys
    BY <1>2, <1>4, NodeFacts DEF Full
  <2>2. vs \in Seq(Int) /\ Len(vs) = MaxKeys
    <3> DEFINE f == SubSeq(node.vals, 1, MaxKeys - 1)
    <3>1. 1 \in 1 .. Len(node.vals) + 1 /\ MaxKeys - 1 \in (1 - 1) .. Len(node.vals)
      BY <2>1, OrderFacts
    <3>2. f \in Seq(Int) /\ Len(f) = (MaxKeys - 1) - 1 + 1
      BY <2>1, <3>1, CutSeq
    <3>3. vs = Append(f, root_page_id)
      BY <2>1 DEF Front
    <3> HIDE DEF f
    <3>4. Append(f, root_page_id) \in Seq(Int) /\ Len(Append(f, root_page_id)) = Len(f) + 1
      BY <1>1, <3>2, AppendProperties
    <3> QED BY <3>2, <3>3, <3>4, OrderFacts
  <2> HIDE DEF vs
  <2>3. /\ m.type = node.type /\ m.keys = node.keys /\ m.vals = vs /\ m.next = count
        /\ m \in [type : Types, keys : Seq(Keys), vals : Seq(Int), next : Int]
    BY <1>1, <1>2, <2>2 DEF NodesOver
  <2> HIDE DEF m
  <2>4. ASSUME NEW i \in DOMAIN m.keys PROVE <<m.keys[i], m.vals[i]>> \in AnyPair
    <3>1. i \in 1 .. Len(m.keys) /\ i \in 1 .. Len(m.vals)
      BY <2>1, <2>2, <2>3, LenProperties
    <3>2. m.keys[i] \in Keys /\ m.vals[i] \in Int
      BY <2>1, <2>2, <2>3, <3>1, ElementOfSeq
    <3> QED BY <3>2 DEF AnyPair
  <2>5. Len(m.keys) <= MaxKeys /\ Len(m.vals) = Len(m.keys)
    BY <2>1, <2>2, <2>3, OrderFacts
  <2> QED BY <2>3, <2>4, <2>5 DEF NodesOver
<1> HIDE DEF m
<1>5. pages' \in [PageIds -> NodesOver(AnyPair)]
  BY <1>2, <1>3, <1>4 DEF Save, node
<1>6. Holding(AnyPair)' /\ next_page_id' \in Nat /\ root_page_id' \in Int /\ count' \in Int
  BY <1>1, <1>5 DEF Save, Holding, NodesOver, AnyPair, Types, Leaf, Internal, MaxKeys
<1>7. tail' \in Int \X Int
  BY <1>1 DEF Save, TreeInv, Shape
<1>8. saved' \in BOOLEAN
  BY DEF Save
<1>9. hazards' = hazards \cup (IF Full(node) THEN {"save_full"} ELSE {})
  BY DEF Save, node
<1>10. hazards' \subseteq Hazards
  <2>1. hazards' = hazards \/ hazards' = hazards \cup {"save_full"}
    BY <1>9
  <2> QED BY <2>1 DEF TreeInv, Shape, Hazards
<1>11. "save_full" \notin hazards' => Holding(Inputs)'
  <2>1. SUFFICES ASSUME "save_full" \notin hazards' PROVE Holding(Inputs)'
    OBVIOUS
  <2>2. ~Full(node) /\ "save_full" \notin hazards
    BY <1>9, <2>1
  <2>3. pages' = pages /\ Holding(Inputs)
    BY <2>2 DEF Save, TreeInv, node
  <2> QED BY <2>3 DEF Holding, NodesOver, Types, Leaf, Internal, MaxKeys
<1> QED
  BY <1>6, <1>7, <1>8, <1>10, <1>11, Zenon DEF TreeInv, Shape

LEMMA ReopenKeeps ==
  ASSUME TreeInv, Reopen
  PROVE  TreeInv'
<1>1. UNCHANGED <<pages, next_page_id, tail>> /\ saved' = saved
  BY DEF Reopen
<1>2. tail[1] \in Int /\ tail[2] \in Int /\ RootPage \in Int
  BY BTreeAssumption DEF TreeInv, Shape
<1>3. root_page_id' \in Int /\ count' \in Int
  <2>1. root_page_id' \in {tail[1], RootPage} /\ count' \in {tail[2], 0}
    BY DEF Reopen
  <2> QED BY <1>2, <2>1
<1>4. hazards' \subseteq Hazards /\ hazards \subseteq hazards'
  <2>1. hazards' = hazards \/ hazards' = hazards \cup {"root_moved"}
    BY DEF Reopen
  <2> QED BY <2>1 DEF TreeInv, Shape, Hazards
<1>5. OthersKeep
  BY <1>1, <1>3, <1>4, Zenon DEF OthersKeep, TreeInv, Shape
<1> QED
  BY <1>1, <1>5, NoWriteKeeps

LEMMA TreeNext ==
  ASSUME TreeInv, [Next]_vars
  PROVE  TreeInv'
<1>1. ASSUME NEW in \in Inputs, Insert(in[1], in[2]) PROVE TreeInv'
  BY <1>1, InsertKeeps
<1>2. ASSUME NEW in \in Inputs, InsertFails(in[1], in[2]) PROVE TreeInv'
  BY <1>2, InsertFailsKeeps
<1>3. ASSUME NEW in \in Inputs, InsertOverRoot(in[1], in[2]) PROVE TreeInv'
  BY <1>3, InsertOverRootKeeps
<1>4. ASSUME NEW key \in Keys, RemoveFromLeaf(key) PROVE TreeInv'
  BY <1>4, RemoveFromLeafKeeps
<1>5. ASSUME NEW key \in Keys, RemoveFromParent(key) PROVE TreeInv'
  BY <1>5, RemoveFromParentKeeps
<1>6. ASSUME NEW key \in Keys, RemoveRootLevel(key) \/ RemoveUndefined(key) \/ RemoveFails(key)
      PROVE  TreeInv'
  BY <1>6, RemoveElseKeeps
<1>7. CASE Save
  BY <1>7, SaveKeeps
<1>8. CASE Reopen
  BY <1>8, ReopenKeeps
<1>9. CASE UNCHANGED vars
  <2>1. UNCHANGED <<pages, next_page_id, tail, root_page_id, count, saved, hazards>>
    BY <1>9 DEF vars
  <2>2. OthersKeep
    BY <2>1, Zenon DEF OthersKeep, TreeInv, Shape
  <2> QED BY <2>1, <2>2, NoWriteKeeps
<1> QED
  BY <1>1, <1>2, <1>3, <1>4, <1>5, <1>6, <1>7, <1>8, <1>9 DEF Next

LEMMA TreeCorrect == Spec => []TreeInv
<1> QED
  BY TreeInit, TreeNext, PTL DEF Spec

(* The variables keep their types: whatever the calls, their failures and the
   hazards do, a page holds a node with as many values as keys and no more than
   fit, and a node that is cut in two does not leave a half too large. *)
THEOREM TreeTypeCorrect == Spec => []TypeOK
<1>1. TreeInv => TypeOK
  <2> SUFFICES ASSUME TreeInv PROVE TypeOK
    OBVIOUS
  <2>1. ASSUME NEW p \in PageIds
        PROVE /\ pages[p].type \in {Leaf, Internal, "blank"}
              /\ pages[p].keys \in Seq(Keys) /\ Len(pages[p].keys) <= MaxKeys
              /\ Len(pages[p].vals) = Len(pages[p].keys)
    <3>1. pages[p] \in NodesOver(AnyPair)
      BY DEF TreeInv, Shape, Holding
    <3> QED BY <3>1 DEF NodesOver, Types
  <2>2. next_page_id \in Nat /\ tail \in Int \X Int /\ count \in Int
    BY DEF TreeInv, Shape
  <2>3. saved \in BOOLEAN /\ hazards \subseteq Hazards
    BY Zenon DEF TreeInv, Shape
  <2> QED BY <2>1, <2>2, <2>3, Zenon DEF TypeOK
<1> QED
  BY <1>1, TreeCorrect, PTL

(* Find never returns a value that was inserted under another key, as long as Save
   and Load have been safe: not after a split, a removal that went wrong, or a call
   that failed half way through. *)
THEOREM NoForeignPairs == Spec => []NoForeignValue
<1>1. TreeInv => NoForeignValue
  <2> SUFFICES ASSUME TreeInv, hazards \cap {"save_full", "root_moved", "undefined"} = {},
                      NEW key \in Keys, Find(key) # NotFound
               PROVE  <<key, Find(key)>> \in Inputs
    BY DEF NoForeignValue
  <2> DEFINE leaf == ReadNode(LeafFor(key))
             sr == BinarySearch(leaf.keys, key)
  <2>1. Holding(Inputs)
    BY DEF TreeInv
  <2>2. leaf \in NodesOver(Inputs)
    BY <2>1, ReadNodeType
  <2>3. leaf.type = Leaf /\ sr.found /\ Find(key) = leaf.vals[sr.index + 1]
    BY DEF Find, ValueIn
  <2> HIDE DEF leaf
  <2>4. sr \in Places(leaf.keys, key) /\ DOMAIN leaf.keys = 1 .. Len(leaf.keys)
        /\ Len(leaf.keys) \in Nat
    BY <2>2, NodeFacts, BinarySearchFinds
  <2> HIDE DEF sr
  <2>5. PICK i \in DOMAIN leaf.keys : i = sr.index + 1 /\ leaf.keys[i] = key
    BY <2>3, <2>4 DEF Places
  <2>6. <<leaf.keys[i], leaf.vals[i]>> \in Inputs
    BY <2>2, <2>3 DEF NodesOver
  <2> QED BY <2>3, <2>5, <2>6
<1> QED
  BY <1>1, TreeCorrect, PTL
=============================================================================
