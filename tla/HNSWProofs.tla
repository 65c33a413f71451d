----------------------------- MODULE HNSWProofs ------------------------------
(***************************************************************************)
(* Proofs about the HNSW index: its types, the structure of its graph, what *)
(* its searches return, that it keeps the vectors it is given, and when its *)
(* searches are exact.                                                      *)
(***************************************************************************)
EXTENDS MCHNSW, SequenceFacts

-----------------------------------------------------------------------------
(* Sorted lists of pairs *)

Pairs == Nat \X Nat

Ordered(s) == \A i, j \in DOMAIN s : i < j => Before(s[i], s[j])

(* The order of std::pair is total and strict. *)
LEMMA BeforeOrder ==
  /\ \A a, b \in Pairs : Before(a, b) \/ a = b \/ Before(b, a)
  /\ \A a \in Pairs : ~Before(a, a)
  /\ \A a, b, c \in Pairs : Before(a, b) /\ Before(b, c) => Before(a, c)
<1>1. \A a \in Pairs : a[1] \in Nat /\ a[2] \in Nat /\ a = <<a[1], a[2]>>
  BY DEF Pairs
<1>2. \A a, b \in Pairs : a[1] = b[1] /\ a[2] = b[2] => a = b
  BY <1>1
<1>3. ASSUME NEW a \in Pairs, NEW b \in Pairs PROVE Before(a, b) \/ a = b \/ Before(b, a)
  BY <1>1, <1>2 DEF Before
<1>4. ASSUME NEW a \in Pairs PROVE ~Before(a, a)
  BY <1>1 DEF Before
<1>5. ASSUME NEW a \in Pairs, NEW b \in Pairs, NEW c \in Pairs, Before(a, b), Before(b, c)
      PROVE Before(a, c)
  BY <1>1, <1>5 DEF Before
<1> QED
  BY <1>3, <1>4, <1>5

LEMMA TakeFacts ==
  ASSUME NEW S, NEW s \in Seq(S), NEW n \in Nat
  PROVE  /\ Take(s, n) \in Seq(S)
         /\ Len(Take(s, n)) = IF n <= Len(s) THEN n ELSE Len(s)
         /\ \A i \in 1 .. Len(Take(s, n)) : Take(s, n)[i] = s[i]
         /\ ToSet(Take(s, n)) \subseteq ToSet(s)
<1> DEFINE k == Min({n, Len(s)})
           t == SubSeq(s, 1, k)
<1>1. Len(s) \in Nat /\ DOMAIN s = 1 .. Len(s)
  BY LenProperties
<1>2. k = IF n <= Len(s) THEN n ELSE Len(s)
  BY <1>1, MinOfTwo
<1>3. k \in Nat /\ k <= Len(s)
  BY <1>1, <1>2
<1> HIDE DEF k
<1>4. \A i \in 1 .. k : i \in 1 .. Len(s) /\ s[i] \in S
  BY <1>1, <1>3, ElementOfSeq
<1>5. /\ t \in Seq(S)
      /\ Len(t) = IF 1 <= k THEN k - 1 + 1 ELSE 0
      /\ \A i \in 1 .. k - 1 + 1 : t[i] = s[1 + i - 1]
  BY <1>3, <1>4, SubSeqProperties
<1> HIDE DEF t
<1>6. Len(t) = k
  BY <1>3, <1>5
<1>7. \A i \in 1 .. Len(t) : t[i] = s[i]
  BY <1>3, <1>5, <1>6
<1>8. ToSet(t) \subseteq ToSet(s)
  <2>1. DOMAIN t = 1 .. k
    BY <1>5, <1>6, LenProperties
  <2> QED BY <1>1, <1>4, <1>6, <1>7, <2>1 DEF ToSet
<1>9. Take(s, n) = t
  BY DEF Take, t, k
<1> QED
  BY <1>2, <1>5, <1>6, <1>7, <1>8, <1>9

(* A set of positions that goes on from 1 without a gap. *)
LEMMA FirstPositions ==
  ASSUME NEW n \in Nat, NEW P \in SUBSET (1 .. n), \A i \in P : \A j \in 1 .. i : j \in P
  PROVE  P = 1 .. Cardinality(P) /\ Cardinality(P) \in 0 .. n
<1>1. CASE P = {}
  <2>1. Cardinality(P) = 0
    BY <1>1, FS_EmptySet
  <2> QED BY <1>1, <2>1
<1>2. CASE P # {}
  <2>1. P \in SUBSET (0 .. n)
    OBVIOUS
  <2>2. PICK m \in P : \A i \in P : i <= m
    BY <1>2, <2>1, Greatest
  <2>3. P = 1 .. m
    <3>1. m \in 1 .. n /\ \A i \in P : i \in 1 .. n
      OBVIOUS
    <3>2. \A i \in P : i \in 1 .. m
      BY <2>2, <3>1
    <3>3. \A i \in 1 .. m : i \in P
      OBVIOUS
    <3> QED BY <3>2, <3>3
  <2>4. Cardinality(1 .. m) = m
    <3>1. 1 \in Int /\ m \in Int /\ 1 <= m
      OBVIOUS
    <3>2. Cardinality(1 .. m) = IF 1 > m THEN 0 ELSE m - 1 + 1
      BY <3>1, FS_Interval
    <3> QED BY <3>1, <3>2
  <2> QED BY <2>3, <2>4
<1> QED
  BY <1>1, <1>2

(* The pair goes behind those that come before it: a list that was sorted stays so. *)
LEMMA InSortedFacts ==
  ASSUME NEW S \in SUBSET Pairs, NEW s \in Seq(S), NEW x \in S
  PROVE  /\ InSorted(s, x) \in Seq(S)
         /\ Len(InSorted(s, x)) = Len(s) + 1
         /\ ToSet(InSorted(s, x)) = ToSet(s) \cup {x}
         /\ Ordered(s) /\ x \notin ToSet(s) => Ordered(InSorted(s, x))
<1> DEFINE P == {i \in DOMAIN s : Before(s[i], x)}
           k == Cardinality(P)
<1>1. Len(s) \in Nat /\ DOMAIN s = 1 .. Len(s) /\ \A j \in 1 .. Len(s) : s[j] \in S
  BY LenProperties, ElementOfSeq
<1>2. IsFiniteSet(P) /\ k \in Nat /\ k <= Len(s)
  <2>1. IsFiniteSet(1 .. Len(s)) /\ Cardinality(1 .. Len(s)) = Len(s)
    <3>1. Cardinality(1 .. Len(s)) = IF 1 > Len(s) THEN 0 ELSE Len(s) - 1 + 1
      BY <1>1, FS_Interval
    <3>2. IsFiniteSet(1 .. Len(s))
      BY <1>1, FS_Interval
    <3> QED BY <1>1, <3>1, <3>2
  <2>2. P \in SUBSET (1 .. Len(s))
    BY <1>1
  <2> HIDE DEF P
  <2>3. IsFiniteSet(P) /\ k <= Len(s)
    BY <2>1, <2>2, FS_Subset
  <2> QED BY <2>3, FS_CardinalityType
<1>3. k + 1 \in 1 .. Len(s) + 1
  <2> HIDE DEF k
  <2> QED BY <1>1, <1>2
<1>4. InSorted(s, x) = InsertAt(s, k + 1, x)
  BY DEF InSorted
<1> DEFINE r == InsertAt(s, k + 1, x)
<1>5. /\ r \in Seq(S) /\ Len(r) = Len(s) + 1
      /\ \A j \in 1 .. Len(s) + 1 :
           r[j] = IF j < k + 1 THEN s[j] ELSE IF j = k + 1 THEN x ELSE s[j - 1]
      /\ ToSet(r) = ToSet(s) \cup {x}
  <2>1. PICK i \in 1 .. Len(s) + 1 : i = k + 1
    BY <1>3
  <2>2. /\ InsertAt(s, i, x) \in Seq(S)
        /\ Len(InsertAt(s, i, x)) = Len(s) + 1
        /\ \A j \in 1 .. Len(s) + 1 :
             InsertAt(s, i, x)[j] = IF j < i THEN s[j] ELSE IF j = i THEN x ELSE s[j - 1]
        /\ ToSet(InsertAt(s, i, x)) = ToSet(s) \cup {x}
    BY InsertAtFacts
  <2> HIDE DEF k
  <2> QED BY <2>1, <2>2
<1>6. ASSUME Ordered(s), x \notin ToSet(s) PROVE Ordered(r)
  <2>1. \A j \in 1 .. Len(s) : s[j] \in Pairs /\ x \in Pairs /\ s[j] # x
    BY <1>1, <1>6 DEF ToSet
  <2>2. P = 1 .. k
    <3>1. ASSUME NEW i \in P, NEW j \in 1 .. i PROVE j \in P
      <4>1. i \in 1 .. Len(s) /\ j \in 1 .. Len(s) /\ Before(s[i], x)
        BY <1>1
      <4>2. CASE j = i
        BY <4>2
      <4>3. CASE j < i
        <5>1. Before(s[j], s[i])
          BY <1>1, <1>6, <4>1, <4>3 DEF Ordered
        <5>2. Before(s[j], x)
          BY <2>1, <4>1, <5>1, BeforeOrder
        <5> QED BY <1>1, <4>1, <5>2
      <4> QED BY <4>1, <4>2, <4>3
    <3>2. P \in SUBSET (1 .. Len(s))
      BY <1>1
    <3> HIDE DEF P
    <3> QED BY <1>1, <3>1, <3>2, FirstPositions
  <2> HIDE DEF k, r
  <2>3. DOMAIN r = 1 .. Len(s) + 1
    BY <1>5, LenProperties
  <2>4. \A j \in 1 .. Len(s) : j <= k => Before(s[j], x)
    BY <1>1, <1>2, <2>2
  <2>5. \A j \in 1 .. Len(s) : ~(j <= k) => Before(x, s[j])
    <3>1. ASSUME NEW j \in 1 .. Len(s), ~(j <= k) PROVE Before(x, s[j])
      <4>1. j \notin P
        BY <1>2, <2>2, <3>1
      <4>2. ~Before(s[j], x)
        BY <1>1, <4>1
      <4> QED BY <2>1, <4>2, BeforeOrder
    <3> QED BY <3>1
  <2>6. ASSUME NEW a \in DOMAIN r, NEW b \in DOMAIN r, a < b PROVE Before(r[a], r[b])
    <3>1. a \in 1 .. Len(s) + 1 /\ b \in 1 .. Len(s) + 1 /\ a \in Nat /\ b \in Nat
      BY <1>1, <2>3
    <3>2. CASE b < k + 1
      <4>1. a \in DOMAIN s /\ b \in DOMAIN s /\ a < k + 1
        BY <1>1, <1>2, <2>6, <3>1, <3>2
      <4>2. r[a] = s[a] /\ r[b] = s[b]
        BY <1>5, <3>1, <3>2, <4>1
      <4> QED BY <1>6, <2>6, <4>1, <4>2 DEF Ordered
    <3>3. CASE b = k + 1
      <4>1. a \in 1 .. Len(s) /\ a <= k /\ a < k + 1
        BY <1>1, <1>2, <2>6, <3>1, <3>3
      <4>2. r[a] = s[a]
        BY <1>5, <3>1, <4>1
      <4>3. r[b] = x
        BY <1>2, <1>5, <3>1, <3>3
      <4> QED BY <2>4, <4>1, <4>2, <4>3
    <3>4. CASE b > k + 1
      <4>1. r[b] = s[b - 1] /\ b - 1 \in 1 .. Len(s) /\ b - 1 \in DOMAIN s /\ ~(b - 1 <= k)
        <5>1. ~(b < k + 1) /\ b # k + 1
          BY <1>2, <3>1, <3>4
        <5>2. b - 1 \in 1 .. Len(s) /\ ~(b - 1 <= k)
          BY <1>1, <1>2, <3>1, <3>4
        <5> QED BY <1>1, <1>5, <3>1, <5>1, <5>2
      <4>2. CASE a < k + 1
        <5>1. r[a] = s[a] /\ a \in DOMAIN s /\ a < b - 1
          <6>1. a \in 1 .. Len(s) /\ a < b - 1
            BY <1>1, <1>2, <3>1, <3>4, <4>2
          <6>2. r[a] = s[a]
            BY <1>5, <3>1, <4>2
          <6> QED BY <1>1, <6>1, <6>2
        <5> QED BY <1>6, <4>1, <5>1 DEF Ordered
      <4>3. CASE a = k + 1
        <5>1. r[a] = x
          BY <1>2, <1>5, <3>1, <4>3
        <5> QED BY <2>5, <4>1, <5>1
      <4>4. CASE a > k + 1
        <5>1. ~(a < k + 1) /\ a # k + 1
          BY <1>2, <3>1, <4>4
        <5>2. a - 1 \in DOMAIN s /\ a - 1 < b - 1
          BY <1>1, <1>2, <2>6, <3>1, <4>4
        <5>3. r[a] = s[a - 1]
          BY <1>5, <3>1, <5>1
        <5> QED BY <1>6, <4>1, <5>2, <5>3 DEF Ordered
      <4> QED BY <1>2, <3>1, <4>2, <4>3, <4>4
    <3> QED BY <1>2, <3>1, <3>2, <3>3, <3>4
  <2> QED BY <2>6 DEF Ordered
<1> HIDE DEF r, k
<1> QED
  BY <1>4, <1>5, <1>6 DEF r

(* A list that was cut is as sorted as before. *)
LEMMA OrderedTake ==
  ASSUME NEW S, NEW s \in Seq(S), NEW n \in Nat, Ordered(s)
  PROVE  Ordered(Take(s, n))
<1> DEFINE t == Take(s, n)
<1>1. /\ t \in Seq(S) /\ Len(t) = IF n <= Len(s) THEN n ELSE Len(s)
      /\ \A i \in 1 .. Len(t) : t[i] = s[i]
  BY TakeFacts
<1>2. Len(s) \in Nat /\ DOMAIN s = 1 .. Len(s) /\ DOMAIN t = 1 .. Len(t) /\ Len(t) \in Nat
  BY <1>1, LenProperties
<1> HIDE DEF t
<1>3. \A i \in DOMAIN t : i \in DOMAIN s /\ t[i] = s[i]
  BY <1>1, <1>2
<1>4. Ordered(t)
  BY <1>3 DEF Ordered
<1> QED
  BY <1>4 DEF t

-----------------------------------------------------------------------------
(* Walking on a graph *)

Numbered(S) == \E n \in Nat : S = 0 .. (n - 1)

Nodes(D) == [vec : Vecs, deleted : BOOLEAN, nbrs : Seq(Seq(D))]

(* What the type invariant says of the nodes. *)
Graph(g) ==
  /\ Numbered(DOMAIN g)
  /\ g \in [DOMAIN g -> Nodes(DOMAIN g)]
  /\ \A id \in DOMAIN g : Level(g[id]) \in 0 .. MaxLevel

LEMMA GraphNode ==
  ASSUME NEW g, Graph(g), NEW id \in DOMAIN g
  PROVE  /\ g[id] \in Nodes(DOMAIN g)
         /\ g[id].vec \in Vecs
         /\ g[id].deleted \in BOOLEAN
         /\ g[id].nbrs \in Seq(Seq(DOMAIN g))
         /\ Len(g[id].nbrs) \in Nat
         /\ Level(g[id]) \in 0 .. MaxLevel /\ Level(g[id]) \in Nat
         /\ Len(g[id].nbrs) = Level(g[id]) + 1
<1>1. g[id] \in Nodes(DOMAIN g) /\ Level(g[id]) \in 0 .. MaxLevel
  BY DEF Graph
<1>2. /\ g[id].vec \in Vecs /\ g[id].deleted \in BOOLEAN
      /\ g[id].nbrs \in Seq(Seq(DOMAIN g))
  BY <1>1 DEF Nodes
<1>3. Len(g[id].nbrs) \in Nat
  BY <1>2, LenProperties
<1> QED
  BY <1>1, <1>2, <1>3, HNSWAssumption DEF Level

(* No link leads out of D. *)
Closed(g, D) ==
  /\ D \subseteq DOMAIN g
  /\ \A id \in D : \A l \in Nat : ToSet(Links(g, id, l)) \subseteq D

LEMMA LinksType ==
  ASSUME NEW g, Graph(g), NEW id \in DOMAIN g, NEW l \in Nat
  PROVE  Links(g, id, l) \in Seq(DOMAIN g)
<1>1. CASE l > Level(g[id])
  BY <1>1 DEF Links
<1>2. CASE ~(l > Level(g[id]))
  <2>1. g[id].nbrs \in Seq(Seq(DOMAIN g)) /\ Len(g[id].nbrs) \in Nat
    BY GraphNode
  <2>2. l + 1 \in 1 .. Len(g[id].nbrs)
    BY <1>2, <2>1 DEF Level
  <2> QED BY <1>2, <2>1, <2>2, ElementOfSeq DEF Links
<1> QED
  BY <1>1, <1>2

LEMMA WholeGraphClosed ==
  ASSUME NEW g, Graph(g)
  PROVE  Closed(g, DOMAIN g)
<1>1. ASSUME NEW id \in DOMAIN g, NEW l \in Nat PROVE ToSet(Links(g, id, l)) \subseteq DOMAIN g
  <2>1. Links(g, id, l) \in Seq(DOMAIN g)
    BY LinksType
  <2> QED BY <2>1, LenProperties DEF ToSet
<1> QED
  BY <1>1 DEF Closed

LEMMA ClosedLinks ==
  ASSUME NEW g, Graph(g), NEW D, Closed(g, D), NEW id \in D, NEW l \in Nat
  PROVE  /\ Links(g, id, l) \in Seq(D)
         /\ Len(Links(g, id, l)) \in Nat
         /\ DOMAIN Links(g, id, l) = 1 .. Len(Links(g, id, l))
         /\ \A i \in 1 .. Len(Links(g, id, l)) : Links(g, id, l)[i] \in D
<1> DEFINE s == Links(g, id, l)
<1>1. s \in Seq(DOMAIN g)
  BY LinksType DEF Closed
<1>2. Len(s) \in Nat /\ DOMAIN s = 1 .. Len(s) /\ s = [i \in 1 .. Len(s) |-> s[i]]
  BY <1>1, LenProperties
<1>3. \A i \in DOMAIN s : s[i] \in D
  BY DEF Closed, ToSet
<1> HIDE DEF s
<1>4. s \in Seq(D)
  BY <1>2, <1>3
<1> QED
  BY <1>2, <1>3, <1>4 DEF s

LEMMA DistanceType ==
  ASSUME NEW g, Graph(g), NEW q \in Vecs, NEW id \in DOMAIN g
  PROVE  Distance(g, q, id) \in Nat /\ PairOf(g, q, id) \in Nat \X DOMAIN g
         /\ PairOf(g, q, id) = <<Distance(g, q, id), id>>
<1>1. g[id].vec \in Vecs
  BY GraphNode
<1>2. Distance(g, q, id) \in Nat
  BY <1>1, HNSWAssumption DEF Distance
<1> QED
  BY <1>2 DEF PairOf

(* One look at the links ends at the node itself or at one that is nearer. *)
LEMMA NearestLinkIsNearer ==
  ASSUME NEW g, Graph(g), NEW D, Closed(g, D), NEW q \in Vecs, NEW cur \in D, NEW layer \in Nat
  PROVE  LET best == NearestLink(g, q, cur, layer)
         IN  best \in D /\ (best = cur \/ Distance(g, q, best) < Distance(g, q, cur))
<1> DEFINE list == Links(g, cur, layer)
           n == Len(list)
<1>1. n \in Nat /\ DOMAIN list = 1 .. n /\ \A i \in 1 .. n : list[i] \in D
  BY ClosedLinks
<1> HIDE DEF list, n
<1> DEFINE op == [p \in D \X (1 .. n) |-> Nearer(g, q, p[1], list[p[2]])]
<1>2. op \in [D \X (1 .. n) -> D]
  BY <1>1 DEF Nearer
<1>3. PICK it \in [SUBSET (1 .. n) -> D] : FoldOf(it, n, cur, op)
  <2> HIDE DEF op
  <2> QED BY <1>1, <1>2, FoldExists
<1>4. it = [s \in SUBSET DOMAIN list |->
              IF s = {} THEN cur ELSE Nearer(g, q, it[s \ {Max(s)}], list[Max(s)])]
  <2>1. ASSUME NEW s \in SUBSET (1 .. n), s # {}
        PROVE it[s] = Nearer(g, q, it[s \ {Max(s)}], list[Max(s)])
    <3>1. s \in SUBSET (0 .. n)
      OBVIOUS
    <3>2. Max(s) \in 1 .. n
      BY <1>1, <2>1, <3>1, MaxOf
    <3>3. it[s \ {Max(s)}] \in D
      OBVIOUS
    <3>4. it[s] = op[<<it[s \ {Max(s)}], Max(s)>>]
      BY <1>3, <2>1 DEF FoldOf
    <3> QED BY <3>2, <3>3, <3>4
  <2>2. it[{}] = cur
    BY <1>3 DEF FoldOf
  <2> HIDE DEF op
  <2> QED BY <1>1, <2>1, <2>2
<1> HIDE DEF op
<1> DEFINE f == CHOOSE k : k = [s \in SUBSET DOMAIN list |->
                  IF s = {} THEN cur ELSE Nearer(g, q, k[s \ {Max(s)}], list[Max(s)])]
<1>5. f = [s \in SUBSET DOMAIN list |->
             IF s = {} THEN cur ELSE Nearer(g, q, f[s \ {Max(s)}], list[Max(s)])]
  BY <1>4
<1>6. NearestLink(g, q, cur, layer) = f[DOMAIN list]
  BY Zenon DEF NearestLink, FoldLeft, MapThenFoldSet, list
<1> HIDE DEF f
<1>7. f[1 .. 0] = cur
  BY <1>1, <1>5
<1>8. ASSUME NEW i \in 1 .. n PROVE f[1 .. i] = Nearer(g, q, f[1 .. (i - 1)], list[i])
  <2>1. /\ 1 .. i \in SUBSET (1 .. n) /\ 1 .. i # {}
        /\ Max(1 .. i) = i /\ (1 .. i) \ {i} = 1 .. (i - 1)
    BY <1>1, IntervalTop
  <2> QED BY <1>1, <1>5, <2>1
<1> DEFINE Inv(v) == v \in D /\ (v = cur \/ Distance(g, q, v) < Distance(g, q, cur))
           P == {i \in 0 .. n : Inv(f[1 .. i])}
<1>9. 0 \in P
  BY <1>1, <1>7
<1>10. ASSUME NEW i \in 1 .. n, i - 1 \in P PROVE i \in P
  <2> DEFINE v == f[1 .. (i - 1)]
             w == f[1 .. i]
  <2>1. Inv(v) /\ w = Nearer(g, q, v, list[i]) /\ list[i] \in D
    BY <1>1, <1>8, <1>10
  <2> HIDE DEF v, w
  <2>2. \A d \in D : Distance(g, q, d) \in Nat
    BY DistanceType DEF Closed
  <2>3. Inv(w)
    <3>1. CASE w = v
      BY <2>1, <3>1
    <3>2. CASE w = list[i] /\ Distance(g, q, list[i]) < Distance(g, q, v)
      BY <2>1, <2>2, <3>2
    <3> QED BY <2>1, <3>1, <3>2 DEF Nearer
  <2>4. i \in 0 .. n
    OBVIOUS
  <2> QED BY <2>3, <2>4 DEF w
<1>11. n \in P
  <2>1. 0 .. n \subseteq P
    <3> HIDE DEF P
    <3> QED BY <1>1, <1>9, <1>10, UpTo
  <2> QED BY <1>1, <2>1
<1> QED
  BY <1>1, <1>6, <1>11

(* The descent on a layer ends at a node of the graph, for each step is nearer. *)
LEMMA GreedySearchStays ==
  ASSUME NEW g, Graph(g), NEW D, Closed(g, D), NEW q \in Vecs, NEW entry \in D, NEW layer \in Nat
  PROVE  GreedySearch(g, q, entry, layer) \in D
<1> DEFINE S == DOMAIN g
           best(cur) == NearestLink(g, q, cur, layer)
           size == [cur \in S |-> Distance(g, q, cur)]
           done == {cur \in S : best(cur) = cur}
           out == [cur \in S |-> cur]
           next == [cur \in S \ done |-> best(cur)]
<1>1. \A cur \in S : best(cur) \in S
  BY WholeGraphClosed, NearestLinkIsNearer
<1>2. \A cur \in S : best(cur) = cur \/ Distance(g, q, best(cur)) < Distance(g, q, cur)
  BY WholeGraphClosed, NearestLinkIsNearer
<1>3. \A cur \in D : best(cur) \in D /\ cur \in S
  BY NearestLinkIsNearer DEF Closed
<1> HIDE DEF best
<1>4. /\ size \in [S -> Nat] /\ done \in SUBSET S
      /\ out \in [S -> S] /\ next \in [S \ done -> S]
  BY <1>1, DistanceType
<1>5. Shrinks(size, S \ done, next)
  BY <1>1, <1>2 DEF Shrinks
<1>6. \A cur \in D \ done : next[cur] \in D
  BY <1>3
<1>7. \E f \in [S -> S] : LoopOf(f, S, done, out, next)
  <2> HIDE DEF size, done, out, next, S
  <2> QED BY <1>4, <1>5, LoopExists
<1>8. PICK h : h = [cur \in S |-> IF best(cur) = cur THEN cur ELSE h[best(cur)]]
  <2>1. PICK f \in [S -> S] : LoopOf(f, S, done, out, next)
    BY <1>7
  <2>2. ASSUME NEW cur \in S PROVE f[cur] = IF best(cur) = cur THEN cur ELSE f[best(cur)]
    <3>1. f[cur] = IF cur \in done THEN out[cur] ELSE f[next[cur]]
      BY <2>1 DEF LoopOf
    <3> QED BY <3>1
  <2>3. f = [cur \in S |-> f[cur]]
    OBVIOUS
  <2>4. f = [cur \in S |-> IF best(cur) = cur THEN cur ELSE f[best(cur)]]
    <3> HIDE DEF S, done, out, next
    <3> QED BY <2>2, <2>3
  <2> QED BY <2>4
<1> DEFINE from == CHOOSE k : k = [cur \in S |-> IF best(cur) = cur THEN cur ELSE k[best(cur)]]
<1>9. from = [cur \in S |-> IF best(cur) = cur THEN cur ELSE from[best(cur)]]
  BY <1>8
<1>10. GreedySearch(g, q, entry, layer) = from[entry]
  BY Zenon DEF GreedySearch, best
<1> HIDE DEF from
<1>11. LoopOf(from, S, done, out, next)
  <2>1. \A cur \in S : from[cur] = IF cur \in done THEN out[cur] ELSE from[next[cur]]
    BY <1>9
  <2>2. from = [cur \in S |-> from[cur]]
    BY <1>9
  <2> HIDE DEF S, done, out, next
  <2> QED BY <2>1, <2>2 DEF LoopOf
<1>12. from[entry] \in {out[s] : s \in D \cap done}
  <2>1. D \in SUBSET S
    BY DEF Closed
  <2>2. Shrinks(size, D \ done, next)
    BY <1>5, <2>1 DEF Shrinks
  <2> HIDE DEF size, done, out, next, S
  <2> QED BY <1>4, <1>6, <1>11, <2>1, <2>2, LoopEnds
<1> QED
  BY <1>10, <1>12

-----------------------------------------------------------------------------
(* The search of a layer *)

LEMMA MarkedAlone ==
  ASSUME NEW g, Graph(g), NEW id \in DOMAIN g
  PROVE  Marked(g, id) = {id}
<1>1. PICK n \in Nat : DOMAIN g = 0 .. (n - 1)
  BY DEF Graph, Numbered
<1>2. Cardinality(0 .. (n - 1)) = n
  <2>1. Cardinality(0 .. (n - 1)) = IF 0 > n - 1 THEN 0 ELSE (n - 1) - 0 + 1
    BY FS_Interval
  <2> QED BY <2>1
<1>3. id < 4 * n
  BY <1>1
<1> QED
  BY <1>1, <1>2, <1>3 DEF Marked

LEMMA FiniteGraph ==
  ASSUME NEW g, Graph(g)
  PROVE  IsFiniteSet(DOMAIN g) /\ Cardinality(DOMAIN g) \in Nat
<1>1. PICK n \in Nat : DOMAIN g = 0 .. (n - 1)
  BY DEF Graph, Numbered
<1>2. IsFiniteSet(0 .. (n - 1))
  BY FS_Interval
<1> QED
  BY <1>1, <1>2, FS_CardinalityType

(* What grows smaller with each candidate that is followed. *)
Size(g, s) == Len(s.candidates) + Cardinality(DOMAIN g \ s.visited)

LEMMA SizeType ==
  ASSUME NEW g, Graph(g), NEW s \in SearchStates(g)
  PROVE  /\ Size(g, s) \in Nat
         /\ Len(s.candidates) \in Nat
         /\ IsFiniteSet(DOMAIN g \ s.visited) /\ Cardinality(DOMAIN g \ s.visited) \in Nat
<1>1. s.candidates \in Seq(Nat \X DOMAIN g)
  BY DEF SearchStates
<1>2. Len(s.candidates) \in Nat
  BY <1>1, LenProperties
<1>3. IsFiniteSet(DOMAIN g \ s.visited)
  BY FiniteGraph, FS_Difference
<1>4. Cardinality(DOMAIN g \ s.visited) \in Nat
  BY <1>3, FS_CardinalityType
<1> QED
  BY <1>2, <1>3, <1>4 DEF Size

(* What the search keeps true: it holds nodes of D alone, its results are live nodes
   that it has visited, at their distance, each once and in order. *)
Finds(g, q, D, ef, result) ==
  /\ result \in Seq(Nat \X DOMAIN g)
  /\ Ordered(result)
  /\ Len(result) <= ef
  /\ \A x \in ToSet(result) : x[2] \in D /\ ~g[x[2]].deleted /\ x = PairOf(g, q, x[2])

Searching(g, q, D, ef, s) ==
  /\ s \in SearchStates(g)
  /\ \A x \in ToSet(s.candidates) : x[2] \in D
  /\ Finds(g, q, D, ef, s.result)
  /\ \A x \in ToSet(s.result) : x[2] \in s.visited

LEMMA GraphPairs ==
  ASSUME NEW g, Graph(g)
  PROVE  Nat \X DOMAIN g \in SUBSET Pairs
<1>1. PICK n \in Nat : DOMAIN g = 0 .. (n - 1)
  BY DEF Graph, Numbered
<1>2. DOMAIN g \subseteq Nat
  BY <1>1
<1> QED
  BY <1>2 DEF Pairs

LEMMA KeptFacts ==
  ASSUME NEW S \in SUBSET Pairs, NEW s \in Seq(S), NEW x \in S, NEW n \in Nat
  PROVE  /\ Kept(s, x, n) \in Seq(S)
         /\ Len(Kept(s, x, n)) <= n
         /\ ToSet(Kept(s, x, n)) \subseteq ToSet(s) \cup {x}
         /\ Ordered(s) /\ x \notin ToSet(s) => Ordered(Kept(s, x, n))
<1> DEFINE t == InSorted(s, x)
<1>1. /\ t \in Seq(S) /\ ToSet(t) = ToSet(s) \cup {x}
      /\ Ordered(s) /\ x \notin ToSet(s) => Ordered(t)
  BY InSortedFacts
<1>2. Len(t) \in Nat
  BY <1>1, LenProperties
<1> HIDE DEF t
<1>3. /\ Take(t, n) \in Seq(S) /\ Len(Take(t, n)) = IF n <= Len(t) THEN n ELSE Len(t)
      /\ ToSet(Take(t, n)) \subseteq ToSet(t)
  BY <1>1, TakeFacts
<1>4. Ordered(t) => Ordered(Take(t, n))
  BY <1>1, OrderedTake
<1>5. Len(Take(t, n)) <= n
  BY <1>2, <1>3
<1> QED
  BY <1>1, <1>3, <1>4, <1>5 DEF Kept, t

(* Looking at a link keeps what the search keeps, and makes nothing larger. *)
LEMMA LookedKeeps ==
  ASSUME NEW g, Graph(g), NEW q \in Vecs, NEW ef \in Nat, NEW s \in SearchStates(g),
         NEW nb \in DOMAIN g
  PROVE  LET t == Looked(g, q, ef, s, nb)
         IN  /\ t \in SearchStates(g)
             /\ Size(g, t) <= Size(g, s)
             /\ \A D : nb \in D /\ Searching(g, q, D, ef, s) => Searching(g, q, D, ef, t)
<1> DEFINE x == PairOf(g, q, nb)
           seen == [s EXCEPT !.visited = @ \cup Marked(g, nb)]
           kept == [seen EXCEPT !.candidates = InSorted(@, x), !.result = Kept(@, x, ef)]
           t == Looked(g, q, ef, s, nb)
<1>1. Nat \X DOMAIN g \in SUBSET Pairs /\ x \in Nat \X DOMAIN g /\ x[2] = nb
  BY GraphPairs, DistanceType
<1>2. Marked(g, nb) = {nb}
  BY MarkedAlone
<1>3. /\ s.candidates \in Seq(Nat \X DOMAIN g) /\ s.result \in Seq(Nat \X DOMAIN g)
      /\ s.visited \in SUBSET DOMAIN g
  BY DEF SearchStates
<1>4. Size(g, s) \in Nat /\ IsFiniteSet(DOMAIN g \ s.visited)
      /\ Cardinality(DOMAIN g \ s.visited) \in Nat /\ Len(s.candidates) \in Nat
  BY SizeType
<1> HIDE DEF x
<1>5. CASE nb \in s.visited
  <2>1. t = s
    BY <1>5 DEF Looked, x
  <2> QED BY <1>4, <2>1
<1>6. CASE nb \notin s.visited
  <2>1. /\ seen \in SearchStates(g)
        /\ seen.candidates = s.candidates /\ seen.result = s.result
        /\ seen.visited = s.visited \cup {nb}
    BY <1>2, <1>3 DEF SearchStates
  <2> HIDE DEF seen
  <2> DEFINE cand == InSorted(s.candidates, x)
             res == Kept(s.result, x, ef)
  <2>2. /\ cand \in Seq(Nat \X DOMAIN g)
        /\ Len(cand) = Len(s.candidates) + 1
        /\ ToSet(cand) = ToSet(s.candidates) \cup {x}
    BY <1>1, <1>3, InSortedFacts
  <2>3. /\ res \in Seq(Nat \X DOMAIN g)
        /\ Len(res) <= ef
        /\ ToSet(res) \subseteq ToSet(s.result) \cup {x}
        /\ Ordered(s.result) /\ x \notin ToSet(s.result) => Ordered(res)
    BY <1>1, <1>3, KeptFacts
  <2>4. /\ kept \in SearchStates(g)
        /\ kept.candidates = cand /\ kept.result = res /\ kept.visited = s.visited \cup {nb}
    <3> HIDE DEF cand, res
    <3>1. /\ kept = [seen EXCEPT !.candidates = cand, !.result = res]
      BY <2>1 DEF cand, res
    <3> HIDE DEF kept
    <3>2. /\ seen.visited \in SUBSET DOMAIN g
      BY <2>1 DEF SearchStates
    <3> QED BY <2>1, <2>2, <2>3, <3>1, <3>2 DEF SearchStates
  <2> HIDE DEF kept, cand, res
  <2>5. Cardinality(DOMAIN g \ (s.visited \cup {nb})) = Cardinality(DOMAIN g \ s.visited) - 1
    <3> DEFINE rest == DOMAIN g \ s.visited
    <3>1. DOMAIN g \ (s.visited \cup {nb}) = rest \ {nb} /\ nb \in rest
      BY <1>6
    <3>2. Cardinality(rest \ {nb}) = IF nb \in rest THEN Cardinality(rest) - 1 ELSE Cardinality(rest)
      BY <1>4, FS_RemoveElement
    <3> QED BY <3>1, <3>2
  <2>6. Size(g, seen) <= Size(g, s) /\ Size(g, kept) <= Size(g, s)
    BY <1>4, <2>1, <2>2, <2>4, <2>5 DEF Size
  <2>7. ASSUME NEW D, nb \in D, Searching(g, q, D, ef, s)
        PROVE Searching(g, q, D, ef, seen)
    BY <2>1, <2>7 DEF Searching
  <2>8. ASSUME NEW D, nb \in D, Searching(g, q, D, ef, s), ~g[nb].deleted
        PROVE Searching(g, q, D, ef, kept)
    <3>1. x \notin ToSet(s.result)
      BY <1>1, <1>6, <2>8 DEF Searching
    <3>2. \A y \in ToSet(cand) : y[2] \in D
      BY <1>1, <2>2, <2>8 DEF Searching
    <3>3. Ordered(res)
      BY <2>3, <2>8, <3>1 DEF Searching, Finds
    <3>4. ASSUME NEW y \in ToSet(res)
          PROVE  y[2] \in D /\ ~g[y[2]].deleted /\ y = PairOf(g, q, y[2])
                 /\ y[2] \in s.visited \cup {nb}
      <4>1. CASE y = x
        <5>1. x = PairOf(g, q, x[2])
          BY <1>1 DEF x
        <5> QED BY <1>1, <2>8, <4>1, <5>1
      <4>2. CASE y \in ToSet(s.result)
        BY <2>8, <4>2 DEF Searching, Finds
      <4> QED BY <2>3, <4>1, <4>2
    <3>5. Finds(g, q, D, ef, res)
      BY <2>3, <3>3, <3>4 DEF Finds
    <3> QED BY <2>4, <3>2, <3>4, <3>5 DEF Searching
  <2>9. t = seen \/ (t = kept /\ ~g[nb].deleted)
    BY <1>6 DEF Looked, seen, kept, x
  <2>10. /\ t \in SearchStates(g)
         /\ Size(g, t) <= Size(g, s)
         /\ \A D : nb \in D /\ Searching(g, q, D, ef, s) => Searching(g, q, D, ef, t)
    <3> HIDE DEF t
    <3>1. CASE t = seen
      BY <2>1, <2>6, <2>7, <3>1
    <3>2. CASE t = kept /\ ~g[nb].deleted
      BY <2>4, <2>6, <2>8, <3>2
    <3> QED BY <2>9, <3>1, <3>2
  <2> QED BY <2>10
<1> QED
  BY <1>5, <1>6

(* A candidate is followed link by link. *)
FollowsLinks(g, q, ef, s, layer, list, st) ==
  /\ st \in [0 .. Len(list) -> SearchStates(g)]
  /\ st[0] = [s EXCEPT !.candidates = Tail(@)]
  /\ \A i \in 1 .. Len(list) : st[i] = Looked(g, q, ef, st[i - 1], list[i])
  /\ Followed(g, q, ef, s, layer) = st[Len(list)]

LEMMA FollowedSteps ==
  ASSUME NEW g, Graph(g), NEW q \in Vecs, NEW ef \in Nat, NEW s \in SearchStates(g),
         s.candidates # << >>, NEW layer \in Nat
  PROVE  \E st : FollowsLinks(g, q, ef, s, layer, Links(g, Head(s.candidates)[2], layer), st)
<1> DEFINE S == SearchStates(g)
           from == Head(s.candidates)[2]
           base == [s EXCEPT !.candidates = Tail(@)]
           list == Links(g, from, layer)
           n == Len(list)
<1>1. /\ s.candidates \in Seq(Nat \X DOMAIN g) /\ s.result \in Seq(Nat \X DOMAIN g)
      /\ s.visited \in SUBSET DOMAIN g
  BY DEF SearchStates
<1>2. /\ Head(s.candidates) \in Nat \X DOMAIN g
      /\ Tail(s.candidates) \in Seq(Nat \X DOMAIN g)
  BY <1>1, HeadTailProperties
<1>3. base \in S
  BY <1>1, <1>2 DEF SearchStates
<1>4. from \in DOMAIN g
  BY <1>2
<1> HIDE DEF base
<1>5. n \in Nat /\ DOMAIN list = 1 .. n /\ \A i \in 1 .. n : list[i] \in DOMAIN g
  <2> HIDE DEF from
  <2> QED BY <1>4, WholeGraphClosed, ClosedLinks
<1> HIDE DEF list, n, S
<1> DEFINE op == [p \in S \X (1 .. n) |-> Looked(g, q, ef, p[1], list[p[2]])]
<1>6. op \in [S \X (1 .. n) -> S]
  <2>1. \A t \in S, i \in 1 .. n : Looked(g, q, ef, t, list[i]) \in S
    BY <1>5, LookedKeeps DEF S
  <2> QED BY <2>1
<1>7. PICK it \in [SUBSET (1 .. n) -> S] : FoldOf(it, n, base, op)
  <2> HIDE DEF op
  <2> QED BY <1>3, <1>5, <1>6, FoldExists
<1>8. it = [u \in SUBSET DOMAIN list |->
              IF u = {} THEN base ELSE Looked(g, q, ef, it[u \ {Max(u)}], list[Max(u)])]
  <2>1. ASSUME NEW u \in SUBSET (1 .. n), u # {}
        PROVE it[u] = Looked(g, q, ef, it[u \ {Max(u)}], list[Max(u)])
    <3>1. u \in SUBSET (0 .. n)
      OBVIOUS
    <3>2. Max(u) \in 1 .. n
      BY <1>5, <2>1, <3>1, MaxOf
    <3>3. it[u \ {Max(u)}] \in S
      OBVIOUS
    <3>4. it[u] = op[<<it[u \ {Max(u)}], Max(u)>>]
      BY <1>7, <2>1 DEF FoldOf
    <3> QED BY <3>2, <3>3, <3>4
  <2>2. it[{}] = base
    BY <1>7 DEF FoldOf
  <2> HIDE DEF op
  <2> QED BY <1>5, <2>1, <2>2
<1> HIDE DEF op
<1> DEFINE f == CHOOSE k : k = [u \in SUBSET DOMAIN list |->
                  IF u = {} THEN base ELSE Looked(g, q, ef, k[u \ {Max(u)}], list[Max(u)])]
<1>9. f = [u \in SUBSET DOMAIN list |->
             IF u = {} THEN base ELSE Looked(g, q, ef, f[u \ {Max(u)}], list[Max(u)])]
  BY <1>8
<1>10. Followed(g, q, ef, s, layer) = f[DOMAIN list]
  BY Zenon DEF Followed, FoldLeft, MapThenFoldSet, list, base, from
<1> HIDE DEF f
<1>11. f[1 .. 0] = base
  BY <1>5, <1>9
<1>12. ASSUME NEW i \in 1 .. n PROVE f[1 .. i] = Looked(g, q, ef, f[1 .. (i - 1)], list[i])
  <2>1. /\ 1 .. i \in SUBSET (1 .. n) /\ 1 .. i # {}
        /\ Max(1 .. i) = i /\ (1 .. i) \ {i} = 1 .. (i - 1)
    BY <1>5, IntervalTop
  <2> QED BY <1>5, <1>9, <2>1
<1> DEFINE P == {i \in 0 .. n : f[1 .. i] \in S}
<1>13. 0 \in P
  BY <1>3, <1>5, <1>11
<1>14. ASSUME NEW i \in 1 .. n, i - 1 \in P PROVE i \in P
  <2>1. f[1 .. (i - 1)] \in S /\ list[i] \in DOMAIN g /\ i \in 0 .. n
    BY <1>5, <1>14
  <2>2. f[1 .. i] \in S
    BY <1>12, <2>1, LookedKeeps DEF S
  <2> QED BY <2>1, <2>2
<1>15. \A i \in 0 .. n : f[1 .. i] \in S
  <2>1. 0 .. n \subseteq P
    <3> HIDE DEF P
    <3> QED BY <1>5, <1>13, <1>14, UpTo
  <2> QED BY <2>1
<1> DEFINE st == [i \in 0 .. n |-> f[1 .. i]]
<1>16. /\ st \in [0 .. n -> S] /\ st[0] = base /\ st[n] = f[DOMAIN list]
       /\ \A i \in 1 .. n : st[i] = Looked(g, q, ef, st[i - 1], list[i])
  BY <1>5, <1>11, <1>12, <1>15
<1> HIDE DEF st
<1>17. FollowsLinks(g, q, ef, s, layer, list, st)
  BY <1>10, <1>16 DEF FollowsLinks, n, S, base
<1> QED
  BY <1>17 DEF list, from

(* Following a candidate: what the search keeps holds on, and one candidate is gone. *)
LEMMA FollowedKeeps ==
  ASSUME NEW g, Graph(g), NEW q \in Vecs, NEW ef \in Nat, NEW s \in SearchStates(g),
         s.candidates # << >>, NEW layer \in Nat
  PROVE  LET t == Followed(g, q, ef, s, layer)
         IN  /\ t \in SearchStates(g)
             /\ Size(g, t) < Size(g, s)
             /\ \A D : Closed(g, D) /\ Searching(g, q, D, ef, s) => Searching(g, q, D, ef, t)
<1> DEFINE S == SearchStates(g)
           from == Head(s.candidates)[2]
           base == [s EXCEPT !.candidates = Tail(@)]
           list == Links(g, from, layer)
           n == Len(list)
<1>1. /\ s.candidates \in Seq(Nat \X DOMAIN g) /\ s.result \in Seq(Nat \X DOMAIN g)
      /\ s.visited \in SUBSET DOMAIN g
  BY DEF SearchStates
<1>2. /\ Head(s.candidates) \in Nat \X DOMAIN g
      /\ Tail(s.candidates) \in Seq(Nat \X DOMAIN g)
      /\ Len(Tail(s.candidates)) = Len(s.candidates) - 1
      /\ \A i \in 1 .. Len(Tail(s.candidates)) : Tail(s.candidates)[i] = s.candidates[i + 1]
  BY <1>1, HeadTailProperties
<1>3. Len(s.candidates) \in Nat /\ DOMAIN s.candidates = 1 .. Len(s.candidates)
      /\ Len(s.candidates) >= 1 /\ Head(s.candidates) = s.candidates[1]
      /\ DOMAIN Tail(s.candidates) = 1 .. Len(Tail(s.candidates))
  <2>1. Len(s.candidates) \in Nat /\ DOMAIN s.candidates = 1 .. Len(s.candidates)
    BY <1>1, LenProperties
  <2>2. Len(s.candidates) >= 1
    BY <1>1, <2>1, EmptySeq
  <2>3. DOMAIN Tail(s.candidates) = 1 .. Len(Tail(s.candidates))
    BY <1>2, LenProperties
  <2>4. Head(s.candidates) = s.candidates[1]
    BY <1>1
  <2> QED BY <2>1, <2>2, <2>3, <2>4
<1>4. /\ base \in S
      /\ base.candidates = Tail(s.candidates)
      /\ base.result = s.result /\ base.visited = s.visited
  BY <1>1, <1>2 DEF SearchStates
<1>5. Size(g, base) = Size(g, s) - 1 /\ Size(g, base) \in Nat /\ Size(g, s) \in Nat
  <2>1. Size(g, s) \in Nat /\ Cardinality(DOMAIN g \ s.visited) \in Nat
    BY SizeType
  <2>2. Size(g, base) \in Nat
    <3> HIDE DEF base
    <3> QED BY <1>4, SizeType
  <2> HIDE DEF base
  <2> QED BY <1>2, <1>3, <1>4, <2>1, <2>2 DEF Size
<1>6. ASSUME NEW D, Closed(g, D), Searching(g, q, D, ef, s)
      PROVE  Searching(g, q, D, ef, base) /\ from \in D
  <2>1. s.candidates[1] \in ToSet(s.candidates)
    BY <1>3 DEF ToSet
  <2>2. from \in D
    BY <1>3, <1>6, <2>1 DEF Searching
  <2>3. ASSUME NEW x \in ToSet(base.candidates) PROVE x[2] \in D
    <3>1. PICK i \in 1 .. Len(Tail(s.candidates)) : x = Tail(s.candidates)[i]
      BY <1>3, <1>4 DEF ToSet
    <3>2. x = s.candidates[i + 1] /\ i + 1 \in DOMAIN s.candidates
      BY <1>2, <1>3, <3>1
    <3> QED BY <1>6, <3>2 DEF Searching, ToSet
  <2> HIDE DEF base
  <2> QED BY <1>4, <1>6, <2>2, <2>3 DEF Searching
<1> HIDE DEF base
<1>7. from \in DOMAIN g
  BY <1>2
<1>8. n \in Nat /\ DOMAIN list = 1 .. n /\ \A i \in 1 .. n : list[i] \in DOMAIN g
  <2> HIDE DEF from
  <2> QED BY <1>7, WholeGraphClosed, ClosedLinks
<1>9. ASSUME NEW D, Closed(g, D), Searching(g, q, D, ef, s), NEW i \in 1 .. n PROVE list[i] \in D
  <2>1. from \in D
    BY <1>6, <1>9
  <2> HIDE DEF from
  <2> QED BY <1>9, <2>1, ClosedLinks
<1>10. PICK st : FollowsLinks(g, q, ef, s, layer, list, st)
  BY FollowedSteps
<1> HIDE DEF list, S
<1>11. /\ st[0] = base /\ Followed(g, q, ef, s, layer) = st[n]
       /\ \A i \in 1 .. n : st[i] = Looked(g, q, ef, st[i - 1], list[i])
  BY <1>10 DEF FollowsLinks, base
<1> HIDE DEF n
<1> DEFINE Inv(v) ==
             /\ v \in SearchStates(g)
             /\ Size(g, v) <= Size(g, base)
             /\ \A D : Closed(g, D) /\ Searching(g, q, D, ef, s) => Searching(g, q, D, ef, v)
           P == {i \in 0 .. n : Inv(st[i])}
<1>12. 0 \in P
  <2>1. Inv(base)
    BY <1>4, <1>5, <1>6 DEF S
  <2>2. 0 \in 0 .. n
    BY <1>8
  <2> HIDE DEF Inv
  <2> QED BY <1>11, <2>1, <2>2
<1>13. ASSUME NEW i \in 1 .. n, i - 1 \in P PROVE i \in P
  <2> DEFINE v == st[i - 1]
             w == st[i]
  <2>1. Inv(v)
    BY <1>13
  <2>2. w = Looked(g, q, ef, v, list[i]) /\ list[i] \in DOMAIN g
    BY <1>8, <1>11
  <2> HIDE DEF v, w
  <2>3. /\ w \in SearchStates(g) /\ Size(g, w) <= Size(g, v)
        /\ \A D : list[i] \in D /\ Searching(g, q, D, ef, v) => Searching(g, q, D, ef, w)
    BY <2>1, <2>2, LookedKeeps
  <2>4. Size(g, v) \in Nat /\ Size(g, w) \in Nat
    BY <2>1, <2>3, SizeType
  <2>5. Inv(w)
    <3>1. Size(g, w) <= Size(g, base)
      BY <1>5, <2>1, <2>3, <2>4
    <3>2. ASSUME NEW D, Closed(g, D), Searching(g, q, D, ef, s) PROVE Searching(g, q, D, ef, w)
      <4>1. list[i] \in D
        BY <1>9, <3>2
      <4>2. Searching(g, q, D, ef, v)
        BY <2>1, <3>2
      <4> QED BY <2>3, <4>1, <4>2
    <3> QED BY <2>3, <3>1, <3>2
  <2>6. i \in 0 .. n
    OBVIOUS
  <2> HIDE DEF Inv
  <2> QED BY <2>5, <2>6 DEF w
<1>14. n \in P
  <2>1. 0 .. n \subseteq P
    <3> HIDE DEF P
    <3> QED BY <1>8, <1>12, <1>13, UpTo
  <2> HIDE DEF Inv
  <2> QED BY <1>8, <2>1
<1>15. Inv(st[n])
  <2> HIDE DEF Inv
  <2> QED BY <1>8, <1>14
<1>16. Size(g, st[n]) \in Nat
  BY <1>15, SizeType
<1> QED
  BY <1>5, <1>11, <1>15, <1>16

(* Where the search of a layer starts. *)
Start(g, q, entry) ==
  LET e == <<PairOf(g, q, entry)>>
  IN  [candidates |-> e,
       result |-> IF g[entry].deleted THEN << >> ELSE e,
       visited |-> Marked(g, entry)]

(* A search of a layer ends, in a state that has what every candidate followed keeps. *)
LEMMA SearchLayerEnds ==
  ASSUME NEW g, Graph(g), NEW q \in Vecs, NEW entry \in DOMAIN g, NEW ef \in Nat \ {0},
         NEW layer \in Nat, NEW I \in SUBSET SearchStates(g), Start(g, q, entry) \in I,
         \A s \in I : ~NoneLeft(s) => Followed(g, q, ef, s, layer) \in I
  PROVE  \E s \in I : NoneLeft(s) /\ SearchLayer(g, q, entry, ef, layer) = s.result
<1> DEFINE S == SearchStates(g)
           T == Seq(Nat \X DOMAIN g)
           to(s) == Followed(g, q, ef, s, layer)
           size == [s \in S |-> Size(g, s)]
           done == {s \in S : NoneLeft(s)}
           out == [s \in S |-> s.result]
           next == [s \in S \ done |-> to(s)]
           e == <<PairOf(g, q, entry)>>
           start == [candidates |-> e,
                     result |-> IF g[entry].deleted THEN << >> ELSE e,
                     visited |-> Marked(g, entry)]
<1>1. ASSUME NEW s \in S, ~NoneLeft(s)
      PROVE  /\ to(s) \in S /\ Size(g, to(s)) < Size(g, s)
  <2>1. s.candidates # << >>
    BY <1>1 DEF NoneLeft
  <2> QED BY <2>1, FollowedKeeps
<1> HIDE DEF to
<1>2. /\ size \in [S -> Nat] /\ done \in SUBSET S
      /\ out \in [S -> T] /\ next \in [S \ done -> S]
  <2>1. size \in [S -> Nat]
    BY SizeType
  <2>2. out \in [S -> T]
    BY DEF SearchStates
  <2>3. next \in [S \ done -> S]
    BY <1>1
  <2> QED BY <2>1, <2>2, <2>3
<1>3. Shrinks(size, S \ done, next)
  BY <1>1 DEF Shrinks
<1>4. I \in SUBSET S /\ \A s \in I \ done : next[s] \in I
  BY DEF to
<1>5. \E f \in [S -> T] : LoopOf(f, S, done, out, next)
  <2> HIDE DEF size, done, out, next, S, T
  <2> QED BY <1>2, <1>3, LoopExists
<1>6. PICK h : h = [s \in S |-> IF NoneLeft(s) THEN s.result ELSE h[to(s)]]
  <2>1. PICK f \in [S -> T] : LoopOf(f, S, done, out, next)
    BY <1>5
  <2>2. ASSUME NEW s \in S PROVE f[s] = IF NoneLeft(s) THEN s.result ELSE f[to(s)]
    <3>1. f[s] = IF s \in done THEN out[s] ELSE f[next[s]]
      BY <2>1 DEF LoopOf
    <3> QED BY <3>1
  <2>3. f = [s \in S |-> f[s]]
    OBVIOUS
  <2>4. f = [s \in S |-> IF NoneLeft(s) THEN s.result ELSE f[to(s)]]
    <3> HIDE DEF S, T, done, out, next
    <3> QED BY <2>2, <2>3
  <2> QED BY <2>4
<1> DEFINE walk == CHOOSE k : k = [s \in S |-> IF NoneLeft(s) THEN s.result ELSE k[to(s)]]
<1>7. walk = [s \in S |-> IF NoneLeft(s) THEN s.result ELSE walk[to(s)]]
  BY <1>6
<1>8. SearchLayer(g, q, entry, ef, layer) = walk[start]
  BY Zenon DEF SearchLayer, to
<1> HIDE DEF walk
<1>9. LoopOf(walk, S, done, out, next)
  <2>1. \A s \in S : walk[s] = IF s \in done THEN out[s] ELSE walk[next[s]]
    BY <1>7
  <2>2. walk = [s \in S |-> walk[s]]
    BY <1>7
  <2> HIDE DEF S, done, out, next
  <2> QED BY <2>1, <2>2 DEF LoopOf
<1>10. start \in I
  BY DEF Start
<1>11. walk[start] \in {out[s] : s \in I \cap done}
  <2>1. Shrinks(size, I \ done, next)
    BY <1>3, <1>4 DEF Shrinks
  <2> HIDE DEF size, done, out, next, S, T, start
  <2> QED BY <1>2, <1>4, <1>9, <1>10, <2>1, LoopEnds
<1>12. PICK s \in I : NoneLeft(s) /\ walk[start] = s.result
  BY <1>11
<1> QED
  BY <1>8, <1>12

(* A search of a layer ends, with live nodes of D at their distance, each once and in
   order, and no more than ef. *)
LEMMA SearchLayerFinds ==
  ASSUME NEW g, Graph(g), NEW D, Closed(g, D), NEW q \in Vecs, NEW entry \in D,
         NEW ef \in Nat \ {0}, NEW layer \in Nat
  PROVE  Finds(g, q, D, ef, SearchLayer(g, q, entry, ef, layer))
<1> DEFINE I == {s \in SearchStates(g) : Searching(g, q, D, ef, s)}
           e == <<PairOf(g, q, entry)>>
           start == [candidates |-> e,
                     result |-> IF g[entry].deleted THEN << >> ELSE e,
                     visited |-> Marked(g, entry)]
<1>1. start \in I
  <2>1. entry \in DOMAIN g /\ PairOf(g, q, entry) \in Nat \X DOMAIN g
        /\ PairOf(g, q, entry)[2] = entry
    BY DistanceType DEF Closed
  <2>2. Marked(g, entry) = {entry}
    BY <2>1, MarkedAlone
  <2>3. /\ e \in Seq(Nat \X DOMAIN g) /\ Len(e) = 1 /\ DOMAIN e = 1 .. 1
        /\ e[1] = PairOf(g, q, entry)
    BY <2>1
  <2>4. ToSet(e) = {PairOf(g, q, entry)}
    BY <2>3 DEF ToSet
  <2> HIDE DEF e
  <2>5. /\ start.candidates = e /\ start.visited = {entry}
        /\ start.result = IF g[entry].deleted THEN << >> ELSE e
        /\ start \in SearchStates(g)
    BY <2>1, <2>2, <2>3 DEF SearchStates
  <2> HIDE DEF start
  <2>6. \A x \in ToSet(start.candidates) : x[2] \in D
    BY <2>1, <2>4, <2>5
  <2>7. Finds(g, q, D, ef, start.result) /\ \A x \in ToSet(start.result) : x[2] \in start.visited
    <3>1. CASE g[entry].deleted
      <4>1. start.result = << >> /\ Len(<< >>) = 0 /\ ToSet(<< >>) = {}
        BY <2>5, <3>1 DEF ToSet
      <4> QED BY <4>1 DEF Finds, Ordered
    <3>2. CASE ~g[entry].deleted
      <4>1. start.result = e
        BY <2>5, <3>2
      <4>2. Ordered(e)
        BY <2>3 DEF Ordered
      <4> QED BY <2>1, <2>3, <2>4, <2>5, <3>2, <4>1, <4>2 DEF Finds
    <3> QED BY <3>1, <3>2
  <2> QED BY <2>5, <2>6, <2>7 DEF Searching
<1>2. Start(g, q, entry) \in I
  BY <1>1 DEF Start
<1>3. ASSUME NEW s \in I, ~NoneLeft(s) PROVE Followed(g, q, ef, s, layer) \in I
  <2>1. s.candidates # << >>
    BY <1>3 DEF NoneLeft
  <2> QED BY <2>1, FollowedKeeps
<1>4. entry \in DOMAIN g /\ I \in SUBSET SearchStates(g)
  BY DEF Closed
<1> HIDE DEF I
<1>5. PICK s \in I : SearchLayer(g, q, entry, ef, layer) = s.result
  BY <1>2, <1>3, <1>4, SearchLayerEnds
<1> QED
  BY <1>5 DEF Searching, I

-----------------------------------------------------------------------------
(* What the search of a layer leaves out *)

LEMMA TakeAll ==
  ASSUME NEW S, NEW s \in Seq(S), NEW n \in Nat, Len(s) <= n
  PROVE  Take(s, n) = s
<1>1. /\ Take(s, n) \in Seq(S)
      /\ Len(Take(s, n)) = IF n <= Len(s) THEN n ELSE Len(s)
      /\ \A i \in 1 .. Len(Take(s, n)) : Take(s, n)[i] = s[i]
  BY TakeFacts
<1>2. PICK t \in Seq(S) : t = Take(s, n)
  BY <1>1
<1>3. Len(s) \in Nat /\ Len(t) = Len(s)
  BY <1>1, <1>2, LenProperties
<1>4. /\ DOMAIN s = 1 .. Len(s) /\ s = [i \in 1 .. Len(s) |-> s[i]]
      /\ DOMAIN t = 1 .. Len(t) /\ t = [i \in 1 .. Len(t) |-> t[i]]
  BY LenProperties
<1>5. \A i \in 1 .. Len(s) : t[i] = s[i]
  BY <1>1, <1>2, <1>3
<1> QED
  BY <1>2, <1>3, <1>4, <1>5

(* As long as there is room, what is kept is all there was, and x; x or another pair
   is kept in any case. *)
LEMMA KeptWithRoom ==
  ASSUME NEW S \in SUBSET Pairs, NEW s \in Seq(S), NEW x \in S, NEW n \in Nat
  PROVE  /\ Len(s) < n => Kept(s, x, n) = InSorted(s, x)
         /\ n # 0 => Len(Kept(s, x, n)) >= 1
<1> DEFINE t == InSorted(s, x)
<1>1. t \in Seq(S) /\ Len(t) = Len(s) + 1 /\ Len(s) \in Nat
  BY InSortedFacts, LenProperties
<1> HIDE DEF t
<1>2. Len(s) < n => Take(t, n) = t
  <2>1. Len(s) < n => Len(t) <= n
    BY <1>1
  <2> QED BY <1>1, <2>1, TakeAll
<1>3. Len(Take(t, n)) = IF n <= Len(t) THEN n ELSE Len(t)
  BY <1>1, TakeFacts
<1> QED
  BY <1>1, <1>2, <1>3 DEF Kept, t

AllLive(g) == \A id \in DOMAIN g : ~g[id].deleted

PairsOf(g, q, D) == {PairOf(g, q, id) : id \in D}

(* With room for all nodes: every node that was visited is a result, and every
   candidate is one. *)
Visits(g, q, entry, s) ==
  /\ s \in SearchStates(g)
  /\ entry \in s.visited
  /\ Ordered(s.result)
  /\ Len(s.result) = Cardinality(s.visited)
  /\ ToSet(s.result) = PairsOf(g, q, s.visited)
  /\ ToSet(s.candidates) \subseteq ToSet(s.result)

(* Looking at a link with room for all: the node is visited, and if it was not before,
   it is a candidate. *)
LEMMA LookedVisits ==
  ASSUME NEW g, Graph(g), AllLive(g), NEW q \in Vecs, NEW ef \in Nat,
         Cardinality(DOMAIN g) <= ef, NEW entry, NEW s, Visits(g, q, entry, s),
         NEW nb \in DOMAIN g
  PROVE  LET t == Looked(g, q, ef, s, nb)
         IN  /\ Visits(g, q, entry, t)
             /\ t.visited = s.visited \cup {nb}
             /\ ToSet(s.candidates) \subseteq ToSet(t.candidates)
             /\ \A id \in t.visited \ s.visited : PairOf(g, q, id) \in ToSet(t.candidates)
<1> DEFINE x == PairOf(g, q, nb)
           seen == [s EXCEPT !.visited = @ \cup Marked(g, nb)]
           kept == [seen EXCEPT !.candidates = InSorted(@, x), !.result = Kept(@, x, ef)]
           t == Looked(g, q, ef, s, nb)
           S == Nat \X DOMAIN g
<1>1. S \in SUBSET Pairs /\ x \in S /\ x[2] = nb
  BY GraphPairs, DistanceType
<1>2. Marked(g, nb) = {nb} /\ ~g[nb].deleted
  BY MarkedAlone DEF AllLive
<1>3. /\ s \in SearchStates(g)
      /\ s.candidates \in Seq(S) /\ s.result \in Seq(S)
      /\ s.visited \in SUBSET DOMAIN g
  BY DEF Visits, SearchStates
<1>4. CASE nb \in s.visited
  <2>1. t = s /\ s.visited = s.visited \cup {nb}
    BY <1>4 DEF Looked
  <2> HIDE DEF t
  <2> QED BY <2>1 DEF t
<1>5. CASE nb \notin s.visited
  <2>1. /\ IsFiniteSet(DOMAIN g) /\ Cardinality(DOMAIN g) \in Nat
        /\ IsFiniteSet(s.visited) /\ Cardinality(s.visited) \in Nat
        /\ s.visited \cup {nb} \in SUBSET DOMAIN g
        /\ Cardinality(s.visited \cup {nb}) = Cardinality(s.visited) + 1
        /\ Cardinality(s.visited \cup {nb}) <= Cardinality(DOMAIN g)
    <3>1. IsFiniteSet(DOMAIN g) /\ Cardinality(DOMAIN g) \in Nat
      BY FiniteGraph
    <3>2. IsFiniteSet(s.visited)
      BY <1>3, <3>1, FS_Subset
    <3>3. Cardinality(s.visited) \in Nat
      BY <3>2, FS_CardinalityType
    <3>4. s.visited \cup {nb} \in SUBSET DOMAIN g
      BY <1>3
    <3>5. Cardinality(s.visited \cup {nb}) = Cardinality(s.visited) + 1
      BY <1>5, <3>2, FS_AddElement
    <3>6. Cardinality(s.visited \cup {nb}) <= Cardinality(DOMAIN g)
      BY <3>1, <3>4, FS_Subset
    <3> QED BY <3>1, <3>2, <3>3, <3>4, <3>5, <3>6
  <2>2. Len(s.result) < ef
    BY <2>1 DEF Visits
  <2>3. NearEnough(s, x, ef)
    BY <2>2 DEF NearEnough
  <2>4. t = kept
    BY <1>2, <1>5, <2>3 DEF Looked
  <2> DEFINE cand == InSorted(s.candidates, x)
             res == InSorted(s.result, x)
  <2>5. Kept(s.result, x, ef) = res
    BY <1>1, <1>3, <2>2, KeptWithRoom
  <2>6. x \notin ToSet(s.result)
    <3>1. SUFFICES ASSUME x \in ToSet(s.result) PROVE FALSE
      OBVIOUS
    <3>2. PICK id \in s.visited : x = PairOf(g, q, id)
      BY <3>1 DEF Visits, PairsOf
    <3>3. x[2] = id
      BY <1>3, <3>2, DistanceType
    <3> QED BY <1>1, <1>5, <3>3
  <2>7. /\ cand \in Seq(S) /\ ToSet(cand) = ToSet(s.candidates) \cup {x}
    BY <1>1, <1>3, InSortedFacts
  <2>8. /\ res \in Seq(S) /\ ToSet(res) = ToSet(s.result) \cup {x}
        /\ Ordered(res) /\ Len(res) = Len(s.result) + 1
    <3>1. Ordered(s.result)
      BY DEF Visits
    <3>2. PICK old \in Seq(S) : old = s.result
      BY <1>3
    <3>3. PICK y \in S : y = x
      BY <1>1
    <3> HIDE DEF S
    <3>4. /\ InSorted(old, y) \in Seq(S) /\ ToSet(InSorted(old, y)) = ToSet(old) \cup {y}
          /\ Len(InSorted(old, y)) = Len(old) + 1
          /\ Ordered(old) /\ y \notin ToSet(old) => Ordered(InSorted(old, y))
      BY <1>1, InSortedFacts
    <3> QED BY <2>6, <3>1, <3>2, <3>3, <3>4
  <2> HIDE DEF cand, res
  <2>9. /\ kept \in SearchStates(g)
        /\ kept.candidates = cand /\ kept.result = res /\ kept.visited = s.visited \cup {nb}
    <3>1. /\ seen \in SearchStates(g)
          /\ seen.candidates = s.candidates /\ seen.result = s.result
          /\ seen.visited = s.visited \cup {nb}
      BY <1>2, <1>3, <2>1 DEF SearchStates
    <3> HIDE DEF seen
    <3>2. kept = [seen EXCEPT !.candidates = cand, !.result = res]
      BY <2>5, <3>1 DEF cand
    <3> HIDE DEF kept
    <3>3. seen.visited \in SUBSET DOMAIN g
      BY <3>1 DEF SearchStates
    <3> QED BY <2>7, <2>8, <3>1, <3>2, <3>3 DEF SearchStates
  <2> HIDE DEF kept
  <2>10. PairsOf(g, q, s.visited \cup {nb}) = PairsOf(g, q, s.visited) \cup {x}
    BY DEF PairsOf
  <2> HIDE DEF x
  <2>11. Visits(g, q, entry, kept)
    <3>1. ToSet(kept.result) = PairsOf(g, q, kept.visited)
      BY <2>8, <2>9, <2>10 DEF Visits
    <3>2. ToSet(kept.candidates) \subseteq ToSet(kept.result)
      BY <2>7, <2>8, <2>9 DEF Visits
    <3>3. Len(kept.result) = Cardinality(kept.visited)
      BY <2>1, <2>8, <2>9 DEF Visits
    <3>4. entry \in kept.visited /\ Ordered(kept.result)
      BY <2>8, <2>9 DEF Visits
    <3> QED BY <2>9, <3>1, <3>2, <3>3, <3>4 DEF Visits
  <2>12. \A id \in kept.visited \ s.visited : PairOf(g, q, id) \in ToSet(kept.candidates)
    BY <2>7, <2>9 DEF x
  <2>13. ToSet(s.candidates) \subseteq ToSet(kept.candidates)
    BY <2>7, <2>9
  <2> QED BY <2>4, <2>9, <2>11, <2>12, <2>13
<1> QED
  BY <1>4, <1>5

(* Each node that was visited is still to be followed, or its links have been. *)
Covers(g, q, entry, layer, s) ==
  /\ Visits(g, q, entry, s)
  /\ \A id \in s.visited : \/ PairOf(g, q, id) \in ToSet(s.candidates)
                           \/ ToSet(Links(g, id, layer)) \subseteq s.visited

LEMMA FollowedCovers ==
  ASSUME NEW g, Graph(g), AllLive(g), NEW q \in Vecs, NEW ef \in Nat,
         Cardinality(DOMAIN g) <= ef, NEW entry, NEW layer \in Nat, NEW s,
         Covers(g, q, entry, layer, s), s.candidates # << >>
  PROVE  Covers(g, q, entry, layer, Followed(g, q, ef, s, layer))
<1> DEFINE S == Nat \X DOMAIN g
           from == Head(s.candidates)[2]
           base == [s EXCEPT !.candidates = Tail(@)]
           list == Links(g, from, layer)
           n == Len(list)
<1>1. /\ s \in SearchStates(g)
      /\ s.candidates \in Seq(S) /\ s.result \in Seq(S)
      /\ s.visited \in SUBSET DOMAIN g
  BY DEF Covers, Visits, SearchStates
<1>2. /\ Head(s.candidates) \in S /\ Head(s.candidates) = s.candidates[1]
      /\ Tail(s.candidates) \in Seq(S)
      /\ Len(s.candidates) \in Nat /\ DOMAIN s.candidates = 1 .. Len(s.candidates)
      /\ Len(Tail(s.candidates)) = Len(s.candidates) - 1
      /\ DOMAIN Tail(s.candidates) = 1 .. Len(Tail(s.candidates))
      /\ \A i \in 1 .. Len(Tail(s.candidates)) : Tail(s.candidates)[i] = s.candidates[i + 1]
  <2>1. /\ Head(s.candidates) \in S /\ Tail(s.candidates) \in Seq(S)
        /\ Len(Tail(s.candidates)) = Len(s.candidates) - 1
        /\ \A i \in 1 .. Len(Tail(s.candidates)) : Tail(s.candidates)[i] = s.candidates[i + 1]
    BY <1>1, HeadTailProperties
  <2>2. /\ Len(s.candidates) \in Nat /\ DOMAIN s.candidates = 1 .. Len(s.candidates)
        /\ DOMAIN Tail(s.candidates) = 1 .. Len(Tail(s.candidates))
    BY <1>1, <2>1, LenProperties
  <2>3. Head(s.candidates) = s.candidates[1]
    BY <1>1
  <2> QED BY <2>1, <2>2, <2>3
<1>3. /\ base \in SearchStates(g)
      /\ base.candidates = Tail(s.candidates)
      /\ base.result = s.result /\ base.visited = s.visited
  BY <1>1, <1>2 DEF SearchStates
<1> HIDE DEF base
<1>4. /\ ToSet(base.candidates) \subseteq ToSet(s.candidates)
      /\ \A y \in ToSet(s.candidates) : y = Head(s.candidates) \/ y \in ToSet(base.candidates)
  <2>1. ASSUME NEW i \in DOMAIN base.candidates PROVE base.candidates[i] \in ToSet(s.candidates)
    <3>1. i + 1 \in DOMAIN s.candidates /\ base.candidates[i] = s.candidates[i + 1]
      BY <1>2, <1>3
    <3> QED BY <3>1 DEF ToSet
  <2>2. ASSUME NEW i \in DOMAIN s.candidates
        PROVE  s.candidates[i] = Head(s.candidates) \/ s.candidates[i] \in ToSet(base.candidates)
    <3>1. CASE i = 1
      BY <1>2, <3>1
    <3>2. CASE i # 1
      <4>1. i - 1 \in 1 .. Len(Tail(s.candidates)) /\ (i - 1) + 1 = i
        BY <1>2, <3>2
      <4>2. i - 1 \in DOMAIN base.candidates /\ base.candidates[i - 1] = s.candidates[i]
        BY <1>2, <1>3, <4>1
      <4> QED BY <4>2 DEF ToSet
    <3> QED BY <3>1, <3>2
  <2> QED BY <2>1, <2>2 DEF ToSet
<1>5. Visits(g, q, entry, base)
  BY <1>3, <1>4 DEF Covers, Visits
<1>6. from \in DOMAIN g
  BY <1>2
<1>7. \A id \in s.visited : \/ id = from
                            \/ PairOf(g, q, id) \in ToSet(base.candidates)
                            \/ ToSet(Links(g, id, layer)) \subseteq base.visited
  <2>1. ASSUME NEW id \in s.visited, PairOf(g, q, id) = Head(s.candidates) PROVE id = from
    <3>1. PairOf(g, q, id)[2] = id
      BY <1>1, DistanceType
    <3> QED BY <2>1, <3>1
  <2> HIDE DEF from
  <2> QED BY <1>3, <1>4, <2>1 DEF Covers
<1>8. n \in Nat /\ DOMAIN list = 1 .. n /\ \A i \in 1 .. n : list[i] \in DOMAIN g
  <2> HIDE DEF from
  <2> QED BY <1>6, WholeGraphClosed, ClosedLinks
<1>9. PICK st : FollowsLinks(g, q, ef, s, layer, list, st)
  BY <1>1, FollowedSteps
<1>10. ToSet(list) = {list[i] : i \in 1 .. n}
  BY <1>8 DEF ToSet
<1> HIDE DEF list
<1>11. /\ st[0] = base /\ Followed(g, q, ef, s, layer) = st[n]
       /\ \A i \in 1 .. n : st[i] = Looked(g, q, ef, st[i - 1], list[i])
  BY <1>9 DEF FollowsLinks, base
<1> HIDE DEF n, from
<1> DEFINE Inv(v, i) ==
             /\ Visits(g, q, entry, v)
             /\ \A j \in 1 .. i : list[j] \in v.visited
             /\ \A id \in v.visited : \/ id = from
                                      \/ PairOf(g, q, id) \in ToSet(v.candidates)
                                      \/ ToSet(Links(g, id, layer)) \subseteq v.visited
           P == {i \in 0 .. n : Inv(st[i], i)}
<1>12. 0 \in P
  <2>1. Inv(base, 0) /\ 0 \in 0 .. n
    BY <1>3, <1>5, <1>7, <1>8
  <2> HIDE DEF Inv
  <2> QED BY <1>11, <2>1
<1>13. ASSUME NEW i \in 1 .. n, i - 1 \in P PROVE i \in P
  <2> DEFINE v == st[i - 1]
             w == st[i]
  <2>1. Inv(v, i - 1)
    BY <1>13
  <2>2. w = Looked(g, q, ef, v, list[i]) /\ list[i] \in DOMAIN g /\ i \in 0 .. n
    BY <1>8, <1>11
  <2> HIDE DEF v, w
  <2>3. /\ Visits(g, q, entry, w)
        /\ w.visited = v.visited \cup {list[i]}
        /\ ToSet(v.candidates) \subseteq ToSet(w.candidates)
        /\ \A id \in w.visited \ v.visited : PairOf(g, q, id) \in ToSet(w.candidates)
    <3>1. PICK nb \in DOMAIN g : nb = list[i]
      BY <2>2
    <3>2. Visits(g, q, entry, v) /\ w = Looked(g, q, ef, v, nb)
      BY <2>1, <2>2, <3>1
    <3> HIDE DEF Inv
    <3> QED BY <3>1, <3>2, LookedVisits
  <2>4. ASSUME NEW j \in 1 .. i PROVE list[j] \in w.visited
    <3>1. j \in 1 .. (i - 1) \/ j = i
      BY <1>8
    <3> QED BY <2>1, <2>3, <3>1
  <2>5. ASSUME NEW id \in w.visited
        PROVE  \/ id = from
               \/ PairOf(g, q, id) \in ToSet(w.candidates)
               \/ ToSet(Links(g, id, layer)) \subseteq w.visited
    BY <2>1, <2>3
  <2>6. Inv(w, i)
    BY <2>3, <2>4, <2>5
  <2> HIDE DEF Inv
  <2> QED BY <2>2, <2>6 DEF w
<1>14. n \in P
  <2>1. 0 .. n \subseteq P
    <3> HIDE DEF P
    <3> QED BY <1>8, <1>12, <1>13, UpTo
  <2> HIDE DEF Inv
  <2> QED BY <1>8, <2>1
<1>15. Inv(st[n], n)
  <2> HIDE DEF Inv
  <2> QED BY <1>14
<1>16. PICK w : w = st[n]
  OBVIOUS
<1>17. ToSet(Links(g, from, layer)) \subseteq w.visited
  BY <1>10, <1>15, <1>16 DEF list
<1>18. Covers(g, q, entry, layer, w)
  BY <1>15, <1>16, <1>17 DEF Covers
<1> QED
  BY <1>11, <1>16, <1>18

(* Layer 0 is in one piece: whoever starts at some node and follows links meets all. *)
Connected(g) ==
  \A D \in SUBSET DOMAIN g :
    D # {} /\ (\A id \in D : ToSet(Links(g, id, 0)) \subseteq D) => D = DOMAIN g

(* No candidate is farther than the worst result when every candidate is a result. *)
LEMMA NoEarlyStop ==
  ASSUME NEW g, Graph(g), NEW q, NEW entry, NEW s, Visits(g, q, entry, s), NoneLeft(s)
  PROVE  s.candidates = << >>
<1> DEFINE S == Nat \X DOMAIN g
           n == Len(s.result)
<1>1. SUFFICES ASSUME s.candidates # << >> PROVE FALSE
  OBVIOUS
<1>2. s.candidates \in Seq(S) /\ s.result \in Seq(S)
  BY DEF Visits, SearchStates
<1>3. n \in Nat /\ DOMAIN s.result = 1 .. n /\ S \in SUBSET Pairs
      /\ \A i \in 1 .. n : s.result[i] \in Pairs
  BY <1>2, LenProperties, ElementOfSeq, GraphPairs
<1>4. Head(s.candidates) \in ToSet(s.candidates)
  <2>1. /\ Len(s.candidates) \in Nat /\ DOMAIN s.candidates = 1 .. Len(s.candidates)
        /\ Head(s.candidates) = s.candidates[1]
    BY <1>2, LenProperties
  <2>2. Len(s.candidates) >= 1
    BY <1>1, <1>2, <2>1, EmptySeq
  <2> QED BY <2>1, <2>2 DEF ToSet
<1>5. PICK i \in 1 .. n : Head(s.candidates) = s.result[i]
  BY <1>3, <1>4 DEF Visits, ToSet
<1>6. Head(s.candidates)[1] > Last(s.result)[1] /\ Last(s.result) = s.result[n]
  BY <1>1 DEF NoneLeft, Last
<1>7. s.result[i][1] \in Nat /\ s.result[n][1] \in Nat
  BY <1>3 DEF Pairs
<1>8. i = n \/ Before(s.result[i], s.result[n])
  BY <1>3 DEF Visits, Ordered
<1>9. s.result[i][1] <= s.result[n][1]
  BY <1>7, <1>8 DEF Before
<1> QED
  BY <1>5, <1>6, <1>7, <1>9

(* With room for all nodes, and none of them removed, a search of layer 0 finds all,
   wherever it starts. *)
LEMMA SearchLayerFindsAll ==
  ASSUME NEW g, Graph(g), AllLive(g), Connected(g), NEW q \in Vecs, NEW entry \in DOMAIN g,
         NEW ef \in Nat \ {0}, Cardinality(DOMAIN g) <= ef
  PROVE  LET r == SearchLayer(g, q, entry, ef, 0)
         IN  /\ r \in Seq(Nat \X DOMAIN g)
             /\ Ordered(r)
             /\ ToSet(r) = PairsOf(g, q, DOMAIN g)
<1> DEFINE I == {s \in SearchStates(g) : Covers(g, q, entry, 0, s)}
           x == PairOf(g, q, entry)
           start == Start(g, q, entry)
<1>1. start \in I
  <2>1. x \in Nat \X DOMAIN g
    BY DistanceType
  <2>2. Marked(g, entry) = {entry} /\ ~g[entry].deleted
    BY MarkedAlone DEF AllLive
  <2> HIDE DEF x
  <2>3. start = [candidates |-> <<x>>, result |-> <<x>>, visited |-> {entry}]
    BY <2>2 DEF Start, x
  <2> HIDE DEF start
  <2>4. /\ start \in SearchStates(g)
        /\ start.candidates = <<x>> /\ start.result = <<x>> /\ start.visited = {entry}
    BY <2>1, <2>3 DEF SearchStates
  <2>5. Len(<<x>>) = 1 /\ DOMAIN <<x>> = 1 .. 1 /\ ToSet(<<x>>) = {x}
    <3>1. Len(<<x>>) = 1 /\ DOMAIN <<x>> = 1 .. 1 /\ <<x>>[1] = x
      OBVIOUS
    <3> QED BY <3>1 DEF ToSet
  <2>6. Ordered(<<x>>)
    BY <2>5 DEF Ordered
  <2>7. PairsOf(g, q, {entry}) = {x}
    BY DEF PairsOf, x
  <2>8. Cardinality({entry}) = 1
    BY FS_Singleton
  <2>9. Visits(g, q, entry, start)
    BY <2>4, <2>5, <2>6, <2>7, <2>8 DEF Visits
  <2>10. Covers(g, q, entry, 0, start)
    BY <2>4, <2>5, <2>9 DEF Covers, x
  <2> QED BY <2>4, <2>10
<1>2. ASSUME NEW s \in I, ~NoneLeft(s) PROVE Followed(g, q, ef, s, 0) \in I
  <2>1. s.candidates # << >> /\ Covers(g, q, entry, 0, s)
    BY <1>2 DEF NoneLeft
  <2>2. Covers(g, q, entry, 0, Followed(g, q, ef, s, 0))
    BY <2>1, FollowedCovers
  <2> QED BY <2>2 DEF Covers, Visits
<1>3. I \in SUBSET SearchStates(g)
  OBVIOUS
<1> HIDE DEF I, start
<1>4. PICK s \in I : NoneLeft(s) /\ SearchLayer(g, q, entry, ef, 0) = s.result
  BY <1>1, <1>2, <1>3, SearchLayerEnds DEF start
<1>5. Covers(g, q, entry, 0, s) /\ Visits(g, q, entry, s)
  BY DEF I, Covers
<1>6. s.candidates = << >> /\ ToSet(<< >>) = {}
  BY <1>4, <1>5, NoEarlyStop DEF ToSet
<1>7. s.visited \in SUBSET DOMAIN g /\ s.visited # {}
  BY <1>5 DEF Visits, SearchStates
<1>8. \A id \in s.visited : ToSet(Links(g, id, 0)) \subseteq s.visited
  BY <1>5, <1>6 DEF Covers
<1>9. s.visited = DOMAIN g
  BY <1>7, <1>8 DEF Connected
<1> QED
  BY <1>4, <1>5, <1>9 DEF Visits, SearchStates

(* A search that starts at a live node finds something. *)
LEMMA SearchLayerFindsOne ==
  ASSUME NEW g, Graph(g), NEW q \in Vecs, NEW entry \in DOMAIN g, ~g[entry].deleted,
         NEW ef \in Nat \ {0}, NEW layer \in Nat
  PROVE  SearchLayer(g, q, entry, ef, layer) # << >>
<1> DEFINE Some(s) == s \in SearchStates(g) /\ s.result # << >>
           I == {s \in SearchStates(g) : s.result # << >>}
<1>1. ASSUME NEW s, Some(s), NEW nb \in DOMAIN g PROVE Some(Looked(g, q, ef, s, nb))
  <2> DEFINE x == PairOf(g, q, nb)
             seen == [s EXCEPT !.visited = @ \cup Marked(g, nb)]
             kept == [seen EXCEPT !.candidates = InSorted(@, x), !.result = Kept(@, x, ef)]
             t == Looked(g, q, ef, s, nb)
             S == Nat \X DOMAIN g
  <2>1. t \in SearchStates(g)
    BY <1>1, LookedKeeps
  <2>2. /\ s.candidates \in Seq(S) /\ s.result \in Seq(S) /\ s.visited \in SUBSET DOMAIN g
        /\ S \in SUBSET Pairs /\ x \in S
    BY <1>1, GraphPairs, DistanceType DEF SearchStates
  <2>3. seen.result = s.result
    BY <1>1 DEF SearchStates
  <2>4. PICK r : r = Kept(s.result, x, ef)
    OBVIOUS
  <2>5. Len(r) >= 1
    BY <2>2, <2>4, KeptWithRoom
  <2>6. r # << >>
    BY <2>5
  <2>7. kept.result = r
    <3>1. seen \in SearchStates(g)
      BY <1>1, MarkedAlone DEF SearchStates
    <3> HIDE DEF x
    <3> QED BY <2>3, <2>4, <3>1 DEF SearchStates
  <2>8. t = s \/ t = seen \/ t = kept
    BY DEF Looked
  <2> HIDE DEF t, seen, kept
  <2> QED BY <1>1, <2>1, <2>3, <2>6, <2>7, <2>8 DEF t
<1>2. ASSUME NEW s \in I, ~NoneLeft(s) PROVE Followed(g, q, ef, s, layer) \in I
  <2> DEFINE list == Links(g, Head(s.candidates)[2], layer)
             n == Len(list)
  <2>1. s.candidates # << >> /\ s \in SearchStates(g) /\ s.result # << >>
    BY <1>2 DEF NoneLeft
  <2>2. Head(s.candidates)[2] \in DOMAIN g
    <3>1. s.candidates \in Seq(Nat \X DOMAIN g)
      BY <2>1 DEF SearchStates
    <3>2. Head(s.candidates) \in Nat \X DOMAIN g
      BY <2>1, <3>1, HeadTailProperties
    <3> QED BY <3>2
  <2>3. PICK st : FollowsLinks(g, q, ef, s, layer, list, st)
    BY <2>1, FollowedSteps
  <2>4. n \in Nat /\ \A i \in 1 .. n : list[i] \in DOMAIN g
    <3>1. PICK from \in DOMAIN g : from = Head(s.candidates)[2]
      BY <2>2
    <3> QED BY <3>1, WholeGraphClosed, ClosedLinks
  <2> HIDE DEF list
  <2>5. /\ st[0] = [s EXCEPT !.candidates = Tail(@)] /\ Followed(g, q, ef, s, layer) = st[n]
        /\ st \in [0 .. n -> SearchStates(g)]
        /\ \A i \in 1 .. n : st[i] = Looked(g, q, ef, st[i - 1], list[i])
    BY <2>3 DEF FollowsLinks
  <2> HIDE DEF n
  <2> DEFINE P == {i \in 0 .. n : Some(st[i])}
  <2>6. 0 \in P
    <3>1. st[0] \in SearchStates(g) /\ 0 \in 0 .. n
      <4>1. st \in [0 .. n -> SearchStates(g)] /\ 0 \in 0 .. n
        BY <2>4, <2>5
      <4> QED BY <4>1
    <3>2. st[0].result = s.result
      BY <2>1, <2>5 DEF SearchStates
    <3> QED BY <2>1, <3>1, <3>2
  <2>7. ASSUME NEW i \in 1 .. n, i - 1 \in P PROVE i \in P
    <3>1. Some(st[i - 1]) /\ i \in 0 .. n /\ list[i] \in DOMAIN g
      BY <2>4, <2>7
    <3> HIDE DEF Some
    <3>2. Some(Looked(g, q, ef, st[i - 1], list[i]))
      BY <1>1, <3>1
    <3> QED BY <2>5, <3>1, <3>2
  <2>8. n \in P
    <3>1. 0 .. n \subseteq P
      <4> HIDE DEF P
      <4> QED BY <2>4, <2>6, <2>7, UpTo
    <3> HIDE DEF Some
    <3> QED BY <2>4, <3>1
  <2> QED BY <2>5, <2>8
<1>3. Start(g, q, entry) \in I
  <2>1. PairOf(g, q, entry) \in Nat \X DOMAIN g /\ Marked(g, entry) = {entry}
    BY DistanceType, MarkedAlone
  <2>2. PICK x \in Nat \X DOMAIN g : x = PairOf(g, q, entry)
    BY <2>1
  <2>3. Start(g, q, entry) = [candidates |-> <<x>>, result |-> <<x>>, visited |-> {entry}]
    BY <2>1, <2>2 DEF Start
  <2>4. <<x>> \in Seq(Nat \X DOMAIN g) /\ <<x>> # << >>
    OBVIOUS
  <2> QED BY <2>3, <2>4 DEF SearchStates
<1>4. I \in SUBSET SearchStates(g)
  OBVIOUS
<1> HIDE DEF I
<1>5. PICK s \in I : SearchLayer(g, q, entry, ef, layer) = s.result
  BY <1>2, <1>3, <1>4, SearchLayerEnds
<1> QED
  BY <1>5 DEF I

-----------------------------------------------------------------------------
(* From the entry point to the answer *)

LEMMA DownFacts ==
  ASSUME NEW top \in Nat, NEW bottom \in Nat
  PROVE  \E n \in Nat : /\ DOMAIN Down(top, bottom) = 1 .. n
                        /\ n = IF top < bottom THEN 0 ELSE top - bottom + 1
                        /\ \A i \in 1 .. n : /\ Down(top, bottom)[i] = top + 1 - i
                                             /\ Down(top, bottom)[i] \in bottom .. top
                                             /\ Down(top, bottom)[i] \in Nat
<1> DEFINE n == IF top < bottom THEN 0 ELSE top - bottom + 1
<1>1. n \in Nat /\ 1 .. n = 1 .. (top - bottom + 1)
  OBVIOUS
<1>2. DOMAIN Down(top, bottom) = 1 .. n
  BY <1>1 DEF Down
<1>3. ASSUME NEW i \in 1 .. n PROVE top + 1 - i \in bottom .. top /\ top + 1 - i \in Nat
  OBVIOUS
<1>4. \A i \in 1 .. n : Down(top, bottom)[i] = top + 1 - i
  BY <1>1 DEF Down
<1> HIDE DEF n
<1>5. /\ n \in Nat /\ DOMAIN Down(top, bottom) = 1 .. n
      /\ \A i \in 1 .. n : /\ Down(top, bottom)[i] = top + 1 - i
                           /\ Down(top, bottom)[i] \in bottom .. top
                           /\ Down(top, bottom)[i] \in Nat
  BY <1>1, <1>2, <1>3, <1>4
<1> QED
  BY <1>5 DEF n

(* The descent from the entry point stays where the links lead. *)
LEMMA DescendStays ==
  ASSUME NEW g, Graph(g), NEW D, Closed(g, D), NEW q \in Vecs, NEW layer \in Nat,
         entry_id \in D, max_level \in Nat
  PROVE  Descend(g, q, layer) \in D
<1> DEFINE list == Down(max_level, layer + 1)
<1>1. PICK n \in Nat : DOMAIN list = 1 .. n /\ \A i \in 1 .. n : list[i] \in Nat
  <2>1. layer + 1 \in Nat
    OBVIOUS
  <2> QED BY <2>1, DownFacts
<1> HIDE DEF list
<1> DEFINE op == [p \in D \X (1 .. n) |-> GreedySearch(g, q, p[1], list[p[2]])]
<1>2. op \in [D \X (1 .. n) -> D]
  <2>1. \A cur \in D, i \in 1 .. n : GreedySearch(g, q, cur, list[i]) \in D
    BY <1>1, GreedySearchStays
  <2> QED BY <2>1
<1>3. PICK it \in [SUBSET (1 .. n) -> D] : FoldOf(it, n, entry_id, op)
  <2> HIDE DEF op
  <2> QED BY <1>2, FoldExists
<1>4. it = [s \in SUBSET DOMAIN list |->
              IF s = {} THEN entry_id ELSE GreedySearch(g, q, it[s \ {Max(s)}], list[Max(s)])]
  <2>1. ASSUME NEW s \in SUBSET (1 .. n), s # {}
        PROVE it[s] = GreedySearch(g, q, it[s \ {Max(s)}], list[Max(s)])
    <3>1. s \in SUBSET (0 .. n)
      OBVIOUS
    <3>2. Max(s) \in 1 .. n
      BY <1>1, <2>1, <3>1, MaxOf
    <3>3. it[s \ {Max(s)}] \in D
      OBVIOUS
    <3>4. it[s] = op[<<it[s \ {Max(s)}], Max(s)>>]
      BY <1>3, <2>1 DEF FoldOf
    <3> QED BY <3>2, <3>3, <3>4
  <2>2. it[{}] = entry_id
    BY <1>3 DEF FoldOf
  <2> HIDE DEF op
  <2> QED BY <1>1, <2>1, <2>2
<1> HIDE DEF op
<1> DEFINE f == CHOOSE k : k = [s \in SUBSET DOMAIN list |->
                  IF s = {} THEN entry_id ELSE GreedySearch(g, q, k[s \ {Max(s)}], list[Max(s)])]
<1>5. f = [s \in SUBSET DOMAIN list |->
             IF s = {} THEN entry_id ELSE GreedySearch(g, q, f[s \ {Max(s)}], list[Max(s)])]
  BY <1>4
<1>6. Descend(g, q, layer) = f[DOMAIN list]
  BY Zenon DEF Descend, FoldLeft, MapThenFoldSet, list
<1> HIDE DEF f
<1>7. f[1 .. 0] = entry_id
  BY <1>1, <1>5
<1>8. ASSUME NEW i \in 1 .. n PROVE f[1 .. i] = GreedySearch(g, q, f[1 .. (i - 1)], list[i])
  <2>1. /\ 1 .. i \in SUBSET (1 .. n) /\ 1 .. i # {}
        /\ Max(1 .. i) = i /\ (1 .. i) \ {i} = 1 .. (i - 1)
    BY <1>1, IntervalTop
  <2> QED BY <1>1, <1>5, <2>1
<1> DEFINE P == {i \in 0 .. n : f[1 .. i] \in D}
<1>9. 0 \in P
  BY <1>1, <1>7
<1>10. ASSUME NEW i \in 1 .. n, i - 1 \in P PROVE i \in P
  <2>1. f[1 .. (i - 1)] \in D /\ list[i] \in Nat
    BY <1>1, <1>10
  <2>2. f[1 .. i] \in D
    BY <1>8, <2>1, GreedySearchStays
  <2> QED BY <2>2
<1>11. n \in P
  <2>1. 0 .. n \subseteq P
    <3> HIDE DEF P
    <3> QED BY <1>1, <1>9, <1>10, UpTo
  <2> QED BY <1>1, <2>1
<1> QED
  BY <1>1, <1>6, <1>11

LEMMA MaxOfThree ==
  ASSUME NEW a \in Nat, NEW b \in Nat, NEW c \in Nat
  PROVE  Max({a, b, c}) \in Nat /\ Max({a, b, c}) >= c
<1>1. \E m \in {a, b, c} : \A y \in {a, b, c} : m >= y
  <2>1. CASE a >= b /\ a >= c
    BY <2>1
  <2>2. CASE b >= a /\ b >= c
    BY <2>2
  <2>3. CASE c >= a /\ c >= b
    BY <2>3
  <2> QED BY <2>1, <2>2, <2>3
<1>2. Max({a, b, c}) \in {a, b, c} /\ \A y \in {a, b, c} : Max({a, b, c}) >= y
  BY <1>1 DEF Max
<1>3. Max({a, b, c}) \in Nat
  BY <1>2
<1>4. Max({a, b, c}) >= c
  BY <1>2
<1> QED
  BY <1>3, <1>4

(* What Search returns. *)
LEMMA SearchFinds ==
  ASSUME Graph(nodes), entry_id \in DOMAIN nodes, max_level \in Nat, has_entry,
         NEW q \in Vecs, NEW k \in Nat
  PROVE  Finds(nodes, q, DOMAIN nodes, k, Search(q, k, 0))
<1> DEFINE g == nodes
           ef == Max({0, k, EfSearch})
           r == SearchLayer(g, q, Descend(g, q, 0), ef, 0)
<1>1. ef \in Nat \ {0}
  <2>1. EfSearch \in Nat /\ EfSearch # 0
    BY HNSWAssumption
  <2>2. ef \in Nat /\ ef >= EfSearch
    BY <2>1, MaxOfThree
  <2> HIDE DEF ef
  <2> QED BY <2>1, <2>2
<1>2. Closed(g, DOMAIN g)
  BY WholeGraphClosed
<1>3. Descend(g, q, 0) \in DOMAIN g
  BY <1>2, DescendStays
<1> HIDE DEF ef
<1>4. Finds(g, q, DOMAIN g, ef, r)
  BY <1>1, <1>2, <1>3, SearchLayerFinds
<1>5. Search(q, k, 0) = Take(r, k)
  BY DEF Search, ef
<1> HIDE DEF r
<1>6. r \in Seq(Nat \X DOMAIN g) /\ Len(r) \in Nat /\ Ordered(r)
  BY <1>4, LenProperties DEF Finds
<1>7. /\ Take(r, k) \in Seq(Nat \X DOMAIN g)
      /\ Len(Take(r, k)) = IF k <= Len(r) THEN k ELSE Len(r)
      /\ ToSet(Take(r, k)) \subseteq ToSet(r)
  BY <1>6, TakeFacts
<1>8. Ordered(Take(r, k))
  BY <1>6, OrderedTake
<1>9. Len(Take(r, k)) <= k
  BY <1>6, <1>7
<1>10. \A x \in ToSet(Take(r, k)) :
         x[2] \in DOMAIN g /\ ~g[x[2]].deleted /\ x = PairOf(g, q, x[2])
  BY <1>4, <1>7 DEF Finds
<1> QED
  BY <1>5, <1>7, <1>8, <1>9, <1>10 DEF Finds

-----------------------------------------------------------------------------
(* The neighbors of a new node *)

(* Ids without repetition, of D, and no more than M; some if some were found. *)
LEMMA SelectNeighborsFacts ==
  ASSUME NEW g, Graph(g), NEW D, NEW q, NEW ef, NEW pairs, Finds(g, q, D, ef, pairs),
         D \subseteq DOMAIN g
  PROVE  LET r == SelectNeighbors(g, pairs)
         IN  /\ r \in Seq(D)
             /\ IsInjective(r)
             /\ Len(r) <= M
             /\ pairs # << >> => Len(r) >= 1
<1> DEFINE S == Seq(D)
           n == Len(pairs)
           Picked(ids, x) ==
             IF Len(ids) < M /\ ~g[x[2]].deleted THEN Append(ids, x[2]) ELSE ids
<1>1. n \in Nat /\ DOMAIN pairs = 1 .. n
  BY LenProperties DEF Finds
<1>2. \A i \in 1 .. n : pairs[i][2] \in D
  BY <1>1 DEF Finds, ToSet
<1>3. \A i, j \in 1 .. n : i < j => pairs[i][2] # pairs[j][2]
  <2>1. SUFFICES ASSUME NEW i \in 1 .. n, NEW j \in 1 .. n, i < j, pairs[i][2] = pairs[j][2]
                 PROVE FALSE
    OBVIOUS
  <2>2. pairs[i] \in ToSet(pairs) /\ pairs[j] \in ToSet(pairs)
    BY <1>1 DEF ToSet
  <2>3. pairs[i] = pairs[j]
    BY <2>1, <2>2 DEF Finds
  <2>4. Before(pairs[i], pairs[j])
    BY <1>1, <2>1 DEF Finds, Ordered
  <2>5. pairs[i] \in Pairs
    BY <1>1, GraphPairs, ElementOfSeq DEF Finds
  <2> QED BY <2>3, <2>4, <2>5, BeforeOrder
<1> HIDE DEF n
<1> DEFINE op == [p \in S \X (1 .. n) |-> Picked(p[1], pairs[p[2]])]
<1>4. op \in [S \X (1 .. n) -> S]
  <2>1. \A ids \in S, i \in 1 .. n : Picked(ids, pairs[i]) \in S
    BY <1>2, AppendProperties
  <2> HIDE DEF Picked, S
  <2> QED BY <2>1
<1>5. PICK it \in [SUBSET (1 .. n) -> S] : FoldOf(it, n, << >>, op)
  <2>1. << >> \in S
    OBVIOUS
  <2> HIDE DEF op, S
  <2> QED BY <1>1, <1>4, <2>1, FoldExists
<1>6. it = [s \in SUBSET DOMAIN pairs |->
              IF s = {} THEN << >> ELSE Picked(it[s \ {Max(s)}], pairs[Max(s)])]
  <2>1. ASSUME NEW s \in SUBSET (1 .. n), s # {}
        PROVE it[s] = Picked(it[s \ {Max(s)}], pairs[Max(s)])
    <3>1. s \in SUBSET (0 .. n)
      OBVIOUS
    <3>2. Max(s) \in 1 .. n
      BY <1>1, <2>1, <3>1, MaxOf
    <3>3. it[s \ {Max(s)}] \in S
      OBVIOUS
    <3>4. it[s] = op[<<it[s \ {Max(s)}], Max(s)>>]
      BY <1>5, <2>1 DEF FoldOf
    <3> HIDE DEF Picked, S
    <3> QED BY <3>2, <3>3, <3>4
  <2>2. it[{}] = << >>
    BY <1>5 DEF FoldOf
  <2> HIDE DEF op, Picked, S
  <2> QED BY <1>1, <2>1, <2>2
<1> HIDE DEF op
<1> DEFINE f == CHOOSE k : k = [s \in SUBSET DOMAIN pairs |->
                  IF s = {} THEN << >> ELSE Picked(k[s \ {Max(s)}], pairs[Max(s)])]
<1>7. f = [s \in SUBSET DOMAIN pairs |->
             IF s = {} THEN << >> ELSE Picked(f[s \ {Max(s)}], pairs[Max(s)])]
  <2> HIDE DEF Picked
  <2> QED BY <1>6
<1>8. SelectNeighbors(g, pairs) = f[DOMAIN pairs]
  BY Zenon DEF SelectNeighbors, FoldLeft, MapThenFoldSet
<1> HIDE DEF f
<1>9. f[1 .. 0] = << >>
  BY <1>1, <1>7
<1>10. ASSUME NEW i \in 1 .. n PROVE f[1 .. i] = Picked(f[1 .. (i - 1)], pairs[i])
  <2>1. /\ 1 .. i \in SUBSET (1 .. n) /\ 1 .. i # {}
        /\ Max(1 .. i) = i /\ (1 .. i) \ {i} = 1 .. (i - 1)
    BY <1>1, IntervalTop
  <2> HIDE DEF Picked
  <2> QED BY <1>1, <1>7, <2>1
<1> DEFINE Inv(v, i) ==
             /\ v \in Seq(D) /\ IsInjective(v) /\ Len(v) <= M
             /\ i # 0 => Len(v) >= 1
             /\ \A id \in ToSet(v) : \E j \in 1 .. i : id = pairs[j][2]
           P == {i \in 0 .. n : Inv(f[1 .. i], i)}
<1>11. M \in Nat /\ M >= 1
  BY HNSWAssumption
<1>12. 0 \in P
  <2>1. << >> \in Seq(D) /\ Len(<< >>) = 0 /\ ToSet(<< >>) = {} /\ IsInjective(<< >>)
    BY DEF ToSet, IsInjective
  <2>2. Inv(<< >>, 0)
    BY <1>11, <2>1
  <2>3. 0 \in 0 .. n
    BY <1>1
  <2> HIDE DEF Inv
  <2> QED BY <1>9, <2>2, <2>3
<1>13. ASSUME NEW i \in 1 .. n, i - 1 \in P PROVE i \in P
  <2> DEFINE v == f[1 .. (i - 1)]
             w == f[1 .. i]
             x == pairs[i][2]
  <2>1. Inv(v, i - 1)
    BY <1>13
  <2>2. w = IF Len(v) < M /\ ~g[x].deleted THEN Append(v, x) ELSE v
    BY <1>10
  <2>3. x \in D /\ i \in 0 .. n /\ \A j \in 1 .. (i - 1) : j \in 1 .. n /\ j < i /\ j \in 1 .. i
    BY <1>1, <1>2
  <2>4. x \notin ToSet(v)
    BY <1>3, <2>1, <2>3
  <2> HIDE DEF v, w, x
  <2>5. CASE w = v /\ ~(Len(v) < M)
    <3>1. Len(v) >= 1 /\ i # 0
      BY <1>11, <2>1, <2>5, LenProperties
    <3>2. v \in Seq(D) /\ IsInjective(v) /\ Len(v) <= M
          /\ \A id \in ToSet(v) : \E j \in 1 .. i : id = pairs[j][2]
      BY <2>1, <2>3
    <3> QED BY <2>3, <2>5, <3>1, <3>2 DEF w
  <2>6. CASE w = Append(v, x) /\ Len(v) < M
    <3>1. /\ w \in Seq(D) /\ IsInjective(w) /\ ToSet(w) = ToSet(v) \cup {x}
      BY <2>1, <2>3, <2>4, <2>6, AppendInjectiveSeq
    <3>2. Len(w) = Len(v) + 1 /\ Len(v) \in Nat
      BY <2>1, <2>3, <2>6, AppendProperties, LenProperties
    <3>3. Len(w) <= M
      BY <1>11, <2>6, <3>2
    <3>4. \A id \in ToSet(w) : \E j \in 1 .. i : id = pairs[j][2]
      <4>1. i \in 1 .. i
        OBVIOUS
      <4> QED BY <2>1, <2>3, <3>1, <4>1 DEF x
    <3>5. Inv(w, i)
      BY <3>1, <3>2, <3>3, <3>4
    <3> HIDE DEF Inv
    <3> QED BY <2>3, <3>5 DEF w
  <2>7. ~g[x].deleted
    <3>1. pairs[i] \in ToSet(pairs)
      BY <1>1 DEF ToSet
    <3> QED BY <3>1 DEF Finds, x
  <2> QED BY <2>2, <2>5, <2>6, <2>7
<1>14. n \in P
  <2>1. 0 .. n \subseteq P
    <3> HIDE DEF P
    <3> QED BY <1>1, <1>12, <1>13, UpTo
  <2> HIDE DEF Inv
  <2> QED BY <1>1, <2>1
<1>15. Inv(f[DOMAIN pairs], n)
  <2> HIDE DEF Inv
  <2> QED BY <1>1, <1>14
<1>16. pairs # << >> => n # 0
  <2>1. pairs \in Seq(Nat \X DOMAIN g)
    BY DEF Finds
  <2> QED BY <2>1, EmptySeq DEF n
<1> QED
  BY <1>8, <1>15, <1>16

LEMMA NeighborsFacts ==
  ASSUME NEW g, Graph(g), NEW D, Closed(g, D), entry_id \in D, max_level \in Nat,
         NEW iid \in DOMAIN g, NEW layer \in Nat
  PROVE  LET r == Neighbors(g, iid, layer)
         IN  /\ r \in Seq(D)
             /\ IsInjective(r)
             /\ Len(r) <= M
             /\ (\A id \in D : ~g[id].deleted) => Len(r) >= 1
<1> DEFINE q == g[iid].vec
           cur == Descend(g, q, Level(g[iid]))
           pairs == SearchLayer(g, q, cur, EfConstruction, layer)
<1>1. q \in Vecs /\ Level(g[iid]) \in Nat
  BY GraphNode
<1>2. EfConstruction \in Nat \ {0}
  BY HNSWAssumption
<1>3. cur \in D
  BY <1>1, DescendStays
<1>4. Finds(g, q, D, EfConstruction, pairs)
  <2> HIDE DEF q, cur
  <2> QED BY <1>1, <1>2, <1>3, SearchLayerFinds
<1>5. D \subseteq DOMAIN g
  BY DEF Closed
<1>6. Neighbors(g, iid, layer) = SelectNeighbors(g, pairs)
  BY DEF Neighbors
<1>7. ASSUME \A id \in D : ~g[id].deleted PROVE pairs # << >>
  <2>1. cur \in DOMAIN g /\ ~g[cur].deleted
    BY <1>3, <1>5, <1>7
  <2> HIDE DEF q, cur
  <2> QED BY <1>1, <1>2, <2>1, SearchLayerFindsOne
<1> HIDE DEF pairs
<1> QED
  BY <1>4, <1>5, <1>6, <1>7, SelectNeighborsFacts

-----------------------------------------------------------------------------
(* Linking *)

LEMMA MaxLinksType ==
  ASSUME NEW layer \in Nat
  PROVE  MaxLinks(layer) \in Nat /\ MaxLinks(layer) >= M /\ M \in Nat
<1>1. M \in Nat
  BY HNSWAssumption
<1> QED
  BY <1>1 DEF MaxLinks

(* A list that is cut keeps some of its links, as often as before, up to the limit. *)
LEMMA CutFacts ==
  ASSUME NEW g, Graph(g), NEW nb \in DOMAIN g, NEW ids \in Seq(DOMAIN g), NEW layer \in Nat
  PROVE  /\ Cut(g, nb, ids, layer) \in Seq(DOMAIN g)
         /\ Len(Cut(g, nb, ids, layer)) <= MaxLinks(layer)
         /\ ToSet(Cut(g, nb, ids, layer)) \subseteq ToSet(ids)
         /\ IsInjective(ids) => IsInjective(Cut(g, nb, ids, layer))
<1> DEFINE q == g[nb].vec
           pairs == [i \in DOMAIN ids |-> PairOf(g, q, ids[i])]
           S == Seq(Nat \X DOMAIN g)
           n == Len(ids)
           sorted == FoldLeft(InSorted, << >>, pairs)
<1>1. q \in Vecs
  BY GraphNode
<1>2. n \in Nat /\ DOMAIN ids = 1 .. n /\ \A i \in 1 .. n : ids[i] \in DOMAIN g
  BY LenProperties, ElementOfSeq
<1> HIDE DEF q, n
<1>3. \A i \in 1 .. n : pairs[i] = PairOf(g, q, ids[i]) /\ pairs[i] \in Nat \X DOMAIN g
                        /\ pairs[i][2] = ids[i]
  BY <1>1, <1>2, DistanceType
<1>4. DOMAIN pairs = 1 .. n /\ Nat \X DOMAIN g \in SUBSET Pairs
  BY <1>2, GraphPairs
<1> HIDE DEF pairs
<1> DEFINE op == [p \in S \X (1 .. n) |-> InSorted(p[1], pairs[p[2]])]
<1>5. op \in [S \X (1 .. n) -> S]
  <2>1. \A s \in S, i \in 1 .. n : InSorted(s, pairs[i]) \in S
    BY <1>3, <1>4, InSortedFacts
  <2> HIDE DEF S
  <2> QED BY <2>1
<1>6. PICK it \in [SUBSET (1 .. n) -> S] : FoldOf(it, n, << >>, op)
  <2>1. << >> \in S
    OBVIOUS
  <2> HIDE DEF op, S
  <2> QED BY <1>2, <1>5, <2>1, FoldExists
<1>7. it = [s \in SUBSET DOMAIN pairs |->
              IF s = {} THEN << >> ELSE InSorted(it[s \ {Max(s)}], pairs[Max(s)])]
  <2>1. ASSUME NEW s \in SUBSET (1 .. n), s # {}
        PROVE it[s] = InSorted(it[s \ {Max(s)}], pairs[Max(s)])
    <3>1. s \in SUBSET (0 .. n)
      OBVIOUS
    <3>2. Max(s) \in 1 .. n
      BY <1>2, <2>1, <3>1, MaxOf
    <3>3. it[s \ {Max(s)}] \in S
      OBVIOUS
    <3>4. it[s] = op[<<it[s \ {Max(s)}], Max(s)>>]
      BY <1>6, <2>1 DEF FoldOf
    <3> HIDE DEF S
    <3> QED BY <3>2, <3>3, <3>4
  <2>2. it[{}] = << >>
    BY <1>6 DEF FoldOf
  <2> HIDE DEF op, S
  <2> QED BY <1>4, <2>1, <2>2
<1> HIDE DEF op
<1> DEFINE f == CHOOSE k : k = [s \in SUBSET DOMAIN pairs |->
                  IF s = {} THEN << >> ELSE InSorted(k[s \ {Max(s)}], pairs[Max(s)])]
<1>8. f = [s \in SUBSET DOMAIN pairs |->
             IF s = {} THEN << >> ELSE InSorted(f[s \ {Max(s)}], pairs[Max(s)])]
  BY <1>7
<1>9. sorted = f[DOMAIN pairs]
  BY Zenon DEF FoldLeft, MapThenFoldSet
<1> HIDE DEF f
<1>10. f[1 .. 0] = << >>
  BY <1>4, <1>8
<1>11. ASSUME NEW i \in 1 .. n PROVE f[1 .. i] = InSorted(f[1 .. (i - 1)], pairs[i])
  <2>1. /\ 1 .. i \in SUBSET (1 .. n) /\ 1 .. i # {}
        /\ Max(1 .. i) = i /\ (1 .. i) \ {i} = 1 .. (i - 1)
    BY <1>2, IntervalTop
  <2> QED BY <1>4, <1>8, <2>1
<1> DEFINE Inv(v, i) ==
             /\ v \in S
             /\ \A x \in ToSet(v) : \E j \in 1 .. i : x = pairs[j]
             /\ IsInjective(ids) => Ordered(v)
           P == {i \in 0 .. n : Inv(f[1 .. i], i)}
<1>12. 0 \in P
  <2>1. << >> \in S /\ ToSet(<< >>) = {} /\ Ordered(<< >>)
    BY DEF ToSet, Ordered
  <2>2. Inv(<< >>, 0)
    BY <2>1
  <2>3. 0 \in 0 .. n
    BY <1>2
  <2> HIDE DEF Inv
  <2> QED BY <1>10, <2>2, <2>3
<1>13. ASSUME NEW i \in 1 .. n, i - 1 \in P PROVE i \in P
  <2> DEFINE v == f[1 .. (i - 1)]
             w == f[1 .. i]
             x == pairs[i]
  <2>1. Inv(v, i - 1)
    BY <1>13
  <2>2. w = InSorted(v, x)
    BY <1>11
  <2>3. i \in 0 .. n /\ i \in 1 .. i /\ \A j \in 1 .. (i - 1) : j \in 1 .. n /\ j # i /\ j \in 1 .. i
    BY <1>2
  <2>4. IsInjective(ids) => x \notin ToSet(v)
    <3>1. SUFFICES ASSUME IsInjective(ids), x \in ToSet(v) PROVE FALSE
      OBVIOUS
    <3>2. PICK j \in 1 .. (i - 1) : x = pairs[j]
      BY <2>1, <3>1
    <3>3. ids[i] = ids[j]
      BY <1>3, <2>3, <3>2
    <3> QED BY <1>2, <2>3, <3>1, <3>3 DEF IsInjective
  <2> HIDE DEF v, w
  <2>5. /\ w \in S /\ ToSet(w) = ToSet(v) \cup {x}
        /\ Ordered(v) /\ x \notin ToSet(v) => Ordered(w)
    <3>1. x \in Nat \X DOMAIN g
      BY <1>3
    <3>2. v \in Seq(Nat \X DOMAIN g)
      BY <2>1
    <3> HIDE DEF x, S, Inv
    <3>3. /\ InSorted(v, x) \in Seq(Nat \X DOMAIN g)
          /\ ToSet(InSorted(v, x)) = ToSet(v) \cup {x}
          /\ Ordered(v) /\ x \notin ToSet(v) => Ordered(InSorted(v, x))
      <4>1. PICK X \in SUBSET Pairs : X = Nat \X DOMAIN g
        BY <1>4
      <4>2. v \in Seq(X) /\ x \in X
        BY <3>1, <3>2, <4>1
      <4>3. /\ InSorted(v, x) \in Seq(X)
            /\ ToSet(InSorted(v, x)) = ToSet(v) \cup {x}
            /\ Ordered(v) /\ x \notin ToSet(v) => Ordered(InSorted(v, x))
        BY <4>2, InSortedFacts
      <4> QED BY <4>1, <4>3
    <3> QED BY <2>2, <3>3 DEF S
  <2>6. \A y \in ToSet(w) : \E j \in 1 .. i : y = pairs[j]
    BY <2>1, <2>3, <2>5
  <2>7. Inv(w, i)
    BY <2>1, <2>4, <2>5, <2>6
  <2> HIDE DEF Inv
  <2> QED BY <2>3, <2>7 DEF w
<1>14. n \in P
  <2>1. 0 .. n \subseteq P
    <3> HIDE DEF P
    <3> QED BY <1>2, <1>12, <1>13, UpTo
  <2> HIDE DEF Inv
  <2> QED BY <1>2, <2>1
<1>15. Inv(sorted, n)
  <2> HIDE DEF Inv, sorted
  <2> QED BY <1>4, <1>9, <1>14
<1> HIDE DEF sorted
<1> DEFINE r == IdsOf(sorted)
           t == Take(r, MaxLinks(layer))
<1>16. sorted \in S /\ Len(sorted) \in Nat /\ DOMAIN sorted = 1 .. Len(sorted)
  BY <1>15, LenProperties
<1>17. \A i \in DOMAIN sorted :
         /\ sorted[i] \in Nat \X DOMAIN g
         /\ sorted[i] = PairOf(g, q, sorted[i][2])
         /\ sorted[i][2] \in ToSet(ids)
  <2>1. ASSUME NEW i \in DOMAIN sorted
        PROVE  \E j \in 1 .. n : sorted[i] = pairs[j]
    BY <1>15 DEF ToSet
  <2>2. ASSUME NEW i \in DOMAIN sorted
        PROVE  /\ sorted[i] \in Nat \X DOMAIN g
               /\ sorted[i] = PairOf(g, q, sorted[i][2])
               /\ sorted[i][2] \in ToSet(ids)
    <3>1. PICK j \in 1 .. n : sorted[i] = pairs[j]
      BY <2>1
    <3>2. sorted[i][2] = ids[j] /\ ids[j] \in ToSet(ids)
      BY <1>2, <1>3, <3>1 DEF ToSet
    <3> QED BY <1>3, <3>1, <3>2
  <2> QED BY <2>2
<1>18. r = [i \in 1 .. Len(sorted) |-> sorted[i][2]]
  BY <1>16 DEF IdsOf
<1>19. r \in Seq(DOMAIN g) /\ ToSet(r) \subseteq ToSet(ids) /\ DOMAIN r = DOMAIN sorted
  <2>1. \A i \in 1 .. Len(sorted) : sorted[i][2] \in DOMAIN g
    BY <1>16, <1>17
  <2>2. r \in [1 .. Len(sorted) -> DOMAIN g]
    BY <1>18, <2>1
  <2>3. \A i \in DOMAIN r : r[i] \in ToSet(ids)
    BY <1>16, <1>17, <1>18
  <2> HIDE DEF r
  <2>4. r \in Seq(DOMAIN g)
    <3>1. PICK m \in Nat : m = Len(sorted)
      BY <1>16
    <3>2. r \in [1 .. m -> DOMAIN g]
      BY <2>2, <3>1
    <3> QED BY <3>2, SeqDef
  <2> QED BY <1>16, <2>2, <2>3, <2>4 DEF ToSet
<1>20. IsInjective(ids) => IsInjective(r)
  <2>1. SUFFICES ASSUME IsInjective(ids), NEW a \in DOMAIN r, NEW b \in DOMAIN r, r[a] = r[b], a # b
                 PROVE FALSE
    BY DEF IsInjective
  <2>2. Ordered(sorted) /\ a \in DOMAIN sorted /\ b \in DOMAIN sorted
    BY <1>15, <1>19, <2>1
  <2>3. sorted[a] = sorted[b] /\ sorted[a] \in Pairs
    BY <1>4, <1>16, <1>17, <1>18, <2>1, <2>2
  <2>4. a < b \/ b < a
    BY <1>16, <2>1, <2>2
  <2>5. Before(sorted[a], sorted[b]) \/ Before(sorted[b], sorted[a])
    BY <2>2, <2>4 DEF Ordered
  <2> QED BY <2>3, <2>5, BeforeOrder
<1> HIDE DEF r
<1>21. /\ t \in Seq(DOMAIN g)
       /\ Len(t) = IF MaxLinks(layer) <= Len(r) THEN MaxLinks(layer) ELSE Len(r)
       /\ \A i \in 1 .. Len(t) : t[i] = r[i]
       /\ ToSet(t) \subseteq ToSet(r)
  BY <1>19, MaxLinksType, TakeFacts
<1>22. Len(r) \in Nat /\ DOMAIN r = 1 .. Len(r) /\ Len(t) \in Nat /\ DOMAIN t = 1 .. Len(t)
       /\ MaxLinks(layer) \in Nat
  BY <1>19, <1>21, LenProperties, MaxLinksType
<1> HIDE DEF t
<1>23. Len(t) <= MaxLinks(layer) /\ Len(t) <= Len(r)
  BY <1>21, <1>22
<1>24. IsInjective(r) => IsInjective(t)
  <2>1. \A i \in DOMAIN t : i \in DOMAIN r /\ t[i] = r[i]
    BY <1>21, <1>22, <1>23
  <2> QED BY <2>1 DEF IsInjective
<1>25. Cut(g, nb, ids, layer) = IF n <= MaxLinks(layer) THEN ids ELSE t
  BY DEF Cut, t, r, sorted, pairs, q, n
<1>26. CASE n <= MaxLinks(layer)
  BY <1>25, <1>26 DEF n
<1>27. CASE ~(n <= MaxLinks(layer))
  BY <1>19, <1>20, <1>21, <1>23, <1>24, <1>25, <1>27
<1> QED
  BY <1>26, <1>27

(* Graphs that differ from g in their links alone. *)
Likes(g) ==
  {h \in [DOMAIN g -> Nodes(DOMAIN g)] :
     \A id \in DOMAIN g : /\ h[id].vec = g[id].vec
                          /\ h[id].deleted = g[id].deleted
                          /\ Level(h[id]) = Level(g[id])}

LEMMA LikesAreGraphs ==
  ASSUME NEW g, Graph(g), NEW h \in Likes(g)
  PROVE  /\ Graph(h) /\ DOMAIN h = DOMAIN g
         /\ \A id \in DOMAIN g : /\ h[id].vec = g[id].vec
                                 /\ h[id].deleted = g[id].deleted
                                 /\ Level(h[id]) = Level(g[id])
         /\ Likes(h) = Likes(g)
<1>1. /\ h \in [DOMAIN g -> Nodes(DOMAIN g)] /\ DOMAIN h = DOMAIN g
      /\ \A id \in DOMAIN g : /\ h[id].vec = g[id].vec
                              /\ h[id].deleted = g[id].deleted
                              /\ Level(h[id]) = Level(g[id])
  BY DEF Likes
<1>2. \A id \in DOMAIN g : Level(g[id]) \in 0 .. MaxLevel
  BY GraphNode
<1>3. Graph(h)
  BY <1>1, <1>2 DEF Graph
<1>4. Likes(h) = Likes(g)
  BY <1>1 DEF Likes
<1> QED
  BY <1>1, <1>3, <1>4

LEMMA WholeIsLike ==
  ASSUME NEW g, Graph(g)
  PROVE  g \in Likes(g)
  BY DEF Graph, Likes

WithLinks(g, id, l, list) == [g EXCEPT ![id].nbrs[l + 1] = list]

(* Giving a node another list on one of its layers changes nothing else. *)
LEMMA WithLinksFacts ==
  ASSUME NEW g, Graph(g), NEW id \in DOMAIN g, NEW l \in Nat, l <= Level(g[id]),
         NEW list \in Seq(DOMAIN g)
  PROVE  /\ WithLinks(g, id, l, list) \in Likes(g)
         /\ \A j \in DOMAIN g, k \in Nat :
              Links(WithLinks(g, id, l, list), j, k) =
                IF j = id /\ k = l THEN list ELSE Links(g, j, k)
<1> DEFINE D == DOMAIN g
           h == WithLinks(g, id, l, list)
<1>1. PICK nbrs \in Seq(Seq(D)) : nbrs = g[id].nbrs
  BY GraphNode
<1>2. Len(nbrs) \in Nat /\ l + 1 \in 1 .. Len(nbrs) /\ Len(nbrs) = Level(g[id]) + 1
  <2>1. Len(nbrs) \in Nat /\ Len(nbrs) = Level(g[id]) + 1 /\ Level(g[id]) \in Nat
    BY <1>1, GraphNode
  <2> QED BY <2>1
<1> DEFINE new == [nbrs EXCEPT ![l + 1] = list]
<1>3. /\ new \in Seq(Seq(D)) /\ Len(new) = Len(nbrs)
      /\ \A k \in 1 .. Len(nbrs) : new[k] = IF k = l + 1 THEN list ELSE nbrs[k]
  <2>1. PICK i \in 1 .. Len(nbrs) : i = l + 1
    BY <1>2
  <2>2. list \in Seq(D)
    OBVIOUS
  <2>3. /\ [nbrs EXCEPT ![i] = list] \in Seq(Seq(D))
        /\ Len([nbrs EXCEPT ![i] = list]) = Len(nbrs)
        /\ \A k \in 1 .. Len(nbrs) :
             [nbrs EXCEPT ![i] = list][k] = IF k = i THEN list ELSE nbrs[k]
    BY <2>2, ExceptSeq
  <2> QED BY <2>1, <2>3
<1>4. g[id] \in Nodes(D) /\ g \in [D -> Nodes(D)]
  BY GraphNode DEF Graph
<1>5. h = [g EXCEPT ![id] = [g[id] EXCEPT !.nbrs = new]]
  BY <1>1 DEF WithLinks
<1> HIDE DEF new
<1> DEFINE node == [g[id] EXCEPT !.nbrs = new]
<1>6. node \in Nodes(D) /\ node.vec = g[id].vec /\ node.deleted = g[id].deleted /\ node.nbrs = new
  BY <1>3, <1>4 DEF Nodes
<1> HIDE DEF node
<1>7. Level(node) = Level(g[id])
  BY <1>1, <1>3, <1>6 DEF Level
<1>8. /\ h \in [D -> Nodes(D)] /\ h[id] = node /\ \A j \in D : j # id => h[j] = g[j]
  BY <1>4, <1>5, <1>6 DEF node
<1> HIDE DEF h
<1>9. h \in Likes(g)
  <2>1. ASSUME NEW j \in D
        PROVE  h[j].vec = g[j].vec /\ h[j].deleted = g[j].deleted /\ Level(h[j]) = Level(g[j])
    <3>1. CASE j = id
      BY <1>6, <1>7, <1>8, <3>1
    <3>2. CASE j # id
      BY <1>8, <3>2
    <3> QED BY <3>1, <3>2
  <2> QED BY <1>8, <2>1 DEF Likes
<1>10. ASSUME NEW j \in D, NEW k \in Nat
       PROVE  Links(h, j, k) = IF j = id /\ k = l THEN list ELSE Links(g, j, k)
  <2>1. CASE j # id
    BY <1>8, <2>1 DEF Links
  <2>2. CASE j = id /\ k > Level(g[id])
    <3>1. Level(g[id]) \in Nat
      BY GraphNode
    <3>2. k # l
      BY <2>2, <3>1
    <3>3. Links(h, j, k) = << >> /\ Links(g, j, k) = << >>
      BY <1>7, <1>8, <2>2 DEF Links
    <3> QED BY <3>2, <3>3
  <2>3. CASE j = id /\ ~(k > Level(g[id]))
    <3>1. k + 1 \in 1 .. Len(nbrs) /\ (k + 1 = l + 1 <=> k = l)
      <4>1. Level(g[id]) \in Nat
        BY GraphNode
      <4> QED BY <1>2, <2>3, <4>1
    <3>2. Links(h, j, k) = new[k + 1] /\ Links(g, j, k) = nbrs[k + 1]
      BY <1>1, <1>6, <1>7, <1>8, <2>3 DEF Links
    <3> QED BY <1>3, <2>3, <3>1, <3>2
  <2> QED BY <2>1, <2>2, <2>3
<1> QED
  BY <1>9, <1>10 DEF h

LEMMA AppendToSet ==
  ASSUME NEW S, NEW s \in Seq(S), NEW x \in S
  PROVE  ToSet(Append(s, x)) = ToSet(s) \cup {x}
<1> DEFINE b == Append(s, x)
<1>1. /\ b \in Seq(S) /\ Len(b) = Len(s) + 1
      /\ \A i \in 1 .. Len(s) : b[i] = s[i]
      /\ b[Len(s) + 1] = x
  BY AppendProperties
<1>2. DOMAIN b = 1 .. Len(b) /\ DOMAIN s = 1 .. Len(s) /\ Len(s) \in Nat
  BY <1>1, LenProperties
<1> HIDE DEF b
<1>3. \A i \in DOMAIN b : b[i] \in ToSet(s) \cup {x}
  BY <1>1, <1>2 DEF ToSet
<1>4. Len(s) + 1 \in DOMAIN b /\ \A i \in DOMAIN s : i \in DOMAIN b /\ b[i] = s[i]
  BY <1>1, <1>2
<1>5. ToSet(b) = ToSet(s) \cup {x}
  BY <1>1, <1>3, <1>4 DEF ToSet
<1> QED
  BY <1>5 DEF b

(* A link in both directions: the new node's list grows by it, and so does the other
   list, which may be cut but gets no other link. *)
LEMMA LinkedFacts ==
  ASSUME NEW g, Graph(g), NEW iid \in DOMAIN g, NEW nb \in DOMAIN g, NEW l \in Nat,
         l <= Level(g[iid]), l <= Level(g[nb])
  PROVE  LET h == Linked(g, iid, nb, l)
         IN  /\ h \in Likes(g)
             /\ nb # iid =>
                  /\ Links(h, iid, l) = Append(Links(g, iid, l), nb)
                  /\ ToSet(Links(h, nb, l)) \subseteq ToSet(Links(g, nb, l)) \cup {iid}
                  /\ Len(Links(h, nb, l)) <= MaxLinks(l)
                  /\ Len(Links(g, nb, l)) < MaxLinks(l)
                       => Links(h, nb, l) = Append(Links(g, nb, l), iid)
                  /\ IsInjective(Links(g, nb, l)) /\ iid \notin ToSet(Links(g, nb, l))
                       => IsInjective(Links(h, nb, l))
                  /\ \A j \in DOMAIN g, k \in Nat :
                       (k # l \/ j \notin {iid, nb}) => Links(h, j, k) = Links(g, j, k)
<1> DEFINE D == DOMAIN g
           a == Append(Links(g, iid, l), nb)
           h1 == WithLinks(g, iid, l, a)
           b == Append(Links(h1, nb, l), iid)
           h2 == WithLinks(h1, nb, l, b)
           c == Cut(h2, nb, b, l)
           h3 == WithLinks(h2, nb, l, c)
<1>0. l \in Nat /\ Level(g[iid]) \in Nat /\ Level(g[nb]) \in Nat
  BY GraphNode
<1>1. Links(g, iid, l) \in Seq(D) /\ Links(g, nb, l) \in Seq(D)
  BY LinksType
<1>2. a \in Seq(D)
  BY <1>1, AppendProperties
<1>3. Links(g, iid, l) = g[iid].nbrs[l + 1]
  BY <1>0 DEF Links
<1>4. h1 = [g EXCEPT ![iid].nbrs[l + 1] = Append(@, nb)]
  BY <1>3 DEF WithLinks
<1> HIDE DEF a
<1>5. /\ h1 \in Likes(g)
      /\ \A j \in D, k \in Nat :
           Links(h1, j, k) = IF j = iid /\ k = l THEN a ELSE Links(g, j, k)
  BY <1>2, WithLinksFacts
<1> HIDE DEF h1
<1>6. Graph(h1) /\ DOMAIN h1 = D /\ Level(h1[nb]) = Level(g[nb]) /\ Likes(h1) = Likes(g)
  BY <1>5, LikesAreGraphs
<1>7. Links(h1, nb, l) \in Seq(D)
  BY <1>6, LinksType
<1>8. b \in Seq(D) /\ ToSet(b) = ToSet(Links(h1, nb, l)) \cup {iid}
      /\ Len(b) = Len(Links(h1, nb, l)) + 1 /\ Len(Links(h1, nb, l)) \in Nat
  BY <1>7, AppendProperties, AppendToSet, LenProperties
<1>9. IsInjective(Links(h1, nb, l)) /\ iid \notin ToSet(Links(h1, nb, l)) => IsInjective(b)
  BY <1>7, AppendInjectiveSeq
<1>10. Links(h1, nb, l) = h1[nb].nbrs[l + 1]
  BY <1>0, <1>6 DEF Links
<1>11. h2 = [h1 EXCEPT ![nb].nbrs[l + 1] = Append(@, iid)]
  BY <1>10 DEF WithLinks
<1> HIDE DEF b
<1>12. /\ h2 \in Likes(h1)
       /\ \A j \in D, k \in Nat :
            Links(h2, j, k) = IF j = nb /\ k = l THEN b ELSE Links(h1, j, k)
  BY <1>6, <1>8, WithLinksFacts
<1> HIDE DEF h2
<1>13. Graph(h2) /\ DOMAIN h2 = D /\ Level(h2[nb]) = Level(g[nb]) /\ Likes(h2) = Likes(g)
  BY <1>6, <1>12, LikesAreGraphs
<1>14. /\ c \in Seq(D) /\ Len(c) <= MaxLinks(l) /\ ToSet(c) \subseteq ToSet(b)
       /\ IsInjective(b) => IsInjective(c)
  BY <1>8, <1>13, CutFacts
<1>15. h2[nb].nbrs[l + 1] = b
  <2>1. Links(h2, nb, l) = h2[nb].nbrs[l + 1]
    BY <1>0, <1>13 DEF Links
  <2> QED BY <1>12, <2>1
<1>16. h3 = [h2 EXCEPT ![nb].nbrs[l + 1] = Cut(h2, nb, @, l)]
  BY <1>15 DEF WithLinks
<1> HIDE DEF c
<1>17. /\ h3 \in Likes(h2)
       /\ \A j \in D, k \in Nat :
            Links(h3, j, k) = IF j = nb /\ k = l THEN c ELSE Links(h2, j, k)
  BY <1>13, <1>14, WithLinksFacts
<1> HIDE DEF h3
<1>18. Linked(g, iid, nb, l) = h3
  BY <1>4, <1>11, <1>16 DEF Linked
<1>19. h3 \in Likes(g)
  BY <1>13, <1>17
<1>20. ASSUME nb # iid
       PROVE  /\ Links(h3, iid, l) = a
              /\ Links(h3, nb, l) = c
              /\ Links(h1, nb, l) = Links(g, nb, l)
              /\ \A j \in D, k \in Nat :
                   (k # l \/ j \notin {iid, nb}) => Links(h3, j, k) = Links(g, j, k)
  BY <1>5, <1>12, <1>17, <1>20
<1>21. ASSUME nb # iid
       PROVE  /\ Links(h3, iid, l) = Append(Links(g, iid, l), nb)
              /\ ToSet(Links(h3, nb, l)) \subseteq ToSet(Links(g, nb, l)) \cup {iid}
              /\ Len(Links(h3, nb, l)) <= MaxLinks(l)
              /\ IsInjective(Links(g, nb, l)) /\ iid \notin ToSet(Links(g, nb, l))
                   => IsInjective(Links(h3, nb, l))
  BY <1>8, <1>9, <1>14, <1>20, <1>21 DEF a
<1>22. ASSUME nb # iid, Len(Links(g, nb, l)) < MaxLinks(l)
       PROVE  Links(h3, nb, l) = Append(Links(g, nb, l), iid)
  <2>1. Len(b) <= MaxLinks(l)
    BY <1>8, <1>20, <1>22, MaxLinksType
  <2>2. c = b
    BY <2>1 DEF c, Cut
  <2> QED BY <1>20, <1>22, <2>2 DEF b
<1> QED
  BY <1>18, <1>19, <1>20, <1>21, <1>22

(* A list that a search can use: other nodes, each once, that have its layer. *)
GoodList(h, id, k) ==
  LET list == Links(h, id, k)
  IN  /\ IsInjective(list)
      /\ Len(list) <= MaxLinks(k)
      /\ \A nb \in ToSet(list) : nb # id /\ k <= Level(h[nb])

(* All lists are good, and up to layer l the new node is not linked yet. *)
Ready(h, D, iid, l) ==
  /\ \A id \in DOMAIN h, k \in Nat : GoodList(h, id, k)
  /\ \A k \in 0 .. l : /\ Links(h, iid, k) = << >>
                       /\ \A id \in D : iid \notin ToSet(Links(h, id, k))

(* The same while layer l is being linked, with the first i of its neighbors done. *)
ReadyFor(h, D, iid, l, ns, i) ==
  /\ \A id \in DOMAIN h, k \in Nat : GoodList(h, id, k)
  /\ \A k \in 0 .. (l - 1) : /\ Links(h, iid, k) = << >>
                             /\ \A id \in D : iid \notin ToSet(Links(h, id, k))
  /\ Len(Links(h, iid, l)) = i
  /\ \A nb \in ToSet(Links(h, iid, l)) : \E j \in 1 .. i : nb = ns[j]
  /\ \A id \in D : iid \in ToSet(Links(h, id, l)) => \E j \in 1 .. i : id = ns[j]

(* One more neighbor linked. *)
LEMMA LinkedKeepsReady ==
  ASSUME NEW h, Graph(h), NEW D, D \subseteq DOMAIN h, NEW iid \in DOMAIN h, iid \notin D,
         NEW l \in Nat, l <= Level(h[iid]),
         NEW ns \in Seq(D), IsInjective(ns), Len(ns) <= M, NEW i \in 1 .. Len(ns),
         l <= Level(h[ns[i]]), ReadyFor(h, D, iid, l, ns, i - 1)
  PROVE  ReadyFor(Linked(h, iid, ns[i], l), D, iid, l, ns, i)
<1> DEFINE nb == ns[i]
           w == Linked(h, iid, nb, l)
           old == Links(h, iid, l)
           his == Links(h, nb, l)
<1>1. Len(ns) \in Nat /\ DOMAIN ns = 1 .. Len(ns) /\ \A j \in 1 .. Len(ns) : ns[j] \in D
  BY LenProperties, ElementOfSeq
<1>2. nb \in D /\ nb \in DOMAIN h /\ nb # iid
  BY <1>1
<1>3. i \in Nat /\ i - 1 \in Nat /\ i <= M /\ i \in 1 .. i
      /\ \A j \in 1 .. (i - 1) : j \in 1 .. Len(ns) /\ j # i /\ j \in 1 .. i
  <2>1. M \in Nat
    BY HNSWAssumption
  <2> QED BY <1>1, <2>1
<1>4. \A j \in 1 .. (i - 1) : ns[j] # nb
  BY <1>1, <1>3 DEF IsInjective
<1>5. nb \notin ToSet(old) /\ iid \notin ToSet(his)
  BY <1>2, <1>4 DEF ReadyFor
<1>6. old \in Seq(DOMAIN h) /\ his \in Seq(DOMAIN h)
  BY <1>2, LinksType
<1>7. GoodList(h, iid, l) /\ GoodList(h, nb, l)
  BY <1>2 DEF ReadyFor
<1> HIDE DEF nb
<1>8. /\ w \in Likes(h)
      /\ Links(w, iid, l) = Append(old, nb)
      /\ ToSet(Links(w, nb, l)) \subseteq ToSet(his) \cup {iid}
      /\ Len(Links(w, nb, l)) <= MaxLinks(l)
      /\ IsInjective(his) /\ iid \notin ToSet(his) => IsInjective(Links(w, nb, l))
      /\ \A j \in DOMAIN h, k \in Nat :
           (k # l \/ j \notin {iid, nb}) => Links(w, j, k) = Links(h, j, k)
  <2>1. l <= Level(h[nb])
    BY DEF nb
  <2> QED BY <1>2, <2>1, LinkedFacts
<1>9. DOMAIN w = DOMAIN h /\ \A j \in DOMAIN h : Level(w[j]) = Level(h[j])
  BY <1>8, LikesAreGraphs
<1> HIDE DEF w
<1>10. /\ IsInjective(Append(old, nb)) /\ ToSet(Append(old, nb)) = ToSet(old) \cup {nb}
       /\ Len(Append(old, nb)) = i
  <2>1. IsInjective(old) /\ Len(old) = i - 1
    BY <1>7 DEF GoodList, ReadyFor
  <2>2. Len(Append(old, nb)) = Len(old) + 1
    BY <1>2, <1>6, AppendProperties
  <2>3. IsInjective(Append(old, nb)) /\ ToSet(Append(old, nb)) = ToSet(old) \cup {nb}
    BY <1>2, <1>5, <1>6, <2>1, AppendInjectiveSeq
  <2> QED BY <1>3, <2>1, <2>2, <2>3
<1>11. GoodList(w, iid, l)
  <2>1. i <= MaxLinks(l)
    BY <1>3, MaxLinksType, HNSWAssumption
  <2>2. \A x \in ToSet(old) : x # iid /\ l <= Level(w[x])
    <3>1. ToSet(old) \subseteq DOMAIN h
      BY <1>6, LenProperties DEF ToSet
    <3> QED BY <1>7, <1>9, <3>1 DEF GoodList
  <2>3. nb # iid /\ l <= Level(w[nb])
    BY <1>2, <1>9 DEF nb
  <2> QED BY <1>8, <1>10, <2>1, <2>2, <2>3 DEF GoodList
<1>12. GoodList(w, nb, l)
  <2>1. \A x \in ToSet(his) : x # nb /\ l <= Level(w[x])
    <3>1. ToSet(his) \subseteq DOMAIN h
      BY <1>6, LenProperties DEF ToSet
    <3> QED BY <1>7, <1>9, <3>1 DEF GoodList
  <2>2. iid # nb /\ l <= Level(w[iid])
    BY <1>2, <1>9
  <2>3. IsInjective(Links(w, nb, l))
    BY <1>5, <1>7, <1>8 DEF GoodList
  <2> QED BY <1>8, <2>1, <2>2, <2>3 DEF GoodList
<1>13. ASSUME NEW id \in DOMAIN h, NEW k \in Nat, k # l \/ id \notin {iid, nb}
       PROVE  GoodList(w, id, k)
  <2>1. GoodList(h, id, k) /\ Links(w, id, k) = Links(h, id, k)
    BY <1>8, <1>13 DEF ReadyFor
  <2>2. ToSet(Links(h, id, k)) \subseteq DOMAIN h
    <3>1. Links(h, id, k) \in Seq(DOMAIN h)
      BY LinksType
    <3> QED BY <3>1, LenProperties DEF ToSet
  <2> QED BY <1>9, <2>1, <2>2 DEF GoodList
<1>14. \A id \in DOMAIN w, k \in Nat : GoodList(w, id, k)
  BY <1>9, <1>11, <1>12, <1>13
<1>15. ASSUME NEW k \in 0 .. (l - 1)
       PROVE  /\ Links(w, iid, k) = << >>
              /\ \A id \in D : iid \notin ToSet(Links(w, id, k))
  <2>1. k \in Nat /\ k # l
    OBVIOUS
  <2>2. \A id \in DOMAIN h : Links(w, id, k) = Links(h, id, k)
    BY <1>8, <2>1
  <2> QED BY <2>2 DEF ReadyFor
<1>16. \A x \in ToSet(Links(w, iid, l)) : \E j \in 1 .. i : x = ns[j]
  BY <1>3, <1>8, <1>10 DEF ReadyFor, nb
<1>17. ASSUME NEW id \in D, iid \in ToSet(Links(w, id, l)) PROVE \E j \in 1 .. i : id = ns[j]
  <2>1. CASE id = nb
    BY <1>3, <2>1 DEF nb
  <2>2. CASE id # nb
    <3>1. Links(w, id, l) = Links(h, id, l)
      BY <1>8, <1>17, <2>2
    <3> QED BY <1>3, <1>17, <3>1 DEF ReadyFor
  <2> QED BY <2>1, <2>2
<1>18. Len(Links(w, iid, l)) = i
  BY <1>8, <1>10
<1> QED
  BY <1>14, <1>15, <1>16, <1>17, <1>18 DEF ReadyFor, w, nb

(* A layer is linked neighbor by neighbor. *)
LinksEach(g, iid, h, l, ns, st) ==
  /\ st \in [0 .. Len(ns) -> Likes(g)]
  /\ st[0] = h
  /\ \A i \in 1 .. Len(ns) : st[i] = Linked(st[i - 1], iid, ns[i], l)
  /\ LinkedOn(g, iid, h, l) = st[Len(ns)]

LEMMA LinkedOnSteps ==
  ASSUME NEW g, Graph(g), NEW D, Closed(g, D), entry_id \in D, max_level \in Nat,
         NEW iid \in DOMAIN g, NEW l \in Nat, l <= Level(g[iid]), NEW h \in Likes(g),
         \A nb \in ToSet(Neighbors(g, iid, l)) : l <= Level(g[nb])
  PROVE  \E st : LinksEach(g, iid, h, l, Neighbors(g, iid, l), st)
<1> DEFINE S == Likes(g)
           ns == Neighbors(g, iid, l)
           n == Len(ns)
<1>1. ns \in Seq(D) /\ IsInjective(ns) /\ Len(ns) <= M
  BY NeighborsFacts
<1>2. n \in Nat /\ DOMAIN ns = 1 .. n /\ \A i \in 1 .. n : ns[i] \in D
  BY <1>1, LenProperties, ElementOfSeq
<1>3. \A i \in 1 .. n : ns[i] \in DOMAIN g /\ l <= Level(g[ns[i]])
  BY <1>2 DEF Closed, ToSet
<1> HIDE DEF ns, n
<1>4. ASSUME NEW k \in S, NEW i \in 1 .. n PROVE Linked(k, iid, ns[i], l) \in S
  <2>1. /\ Graph(k) /\ DOMAIN k = DOMAIN g /\ Likes(k) = Likes(g)
        /\ \A id \in DOMAIN g : Level(k[id]) = Level(g[id])
    BY LikesAreGraphs
  <2> QED BY <1>3, <2>1, LinkedFacts
<1> HIDE DEF S
<1> DEFINE op == [p \in S \X (1 .. n) |-> Linked(p[1], iid, ns[p[2]], l)]
<1>5. op \in [S \X (1 .. n) -> S]
  BY <1>4
<1>6. h \in S
  BY DEF S
<1>7. PICK it \in [SUBSET (1 .. n) -> S] : FoldOf(it, n, h, op)
  <2> HIDE DEF op
  <2> QED BY <1>2, <1>5, <1>6, FoldExists
<1>8. it = [s \in SUBSET DOMAIN ns |->
              IF s = {} THEN h ELSE Linked(it[s \ {Max(s)}], iid, ns[Max(s)], l)]
  <2>1. ASSUME NEW s \in SUBSET (1 .. n), s # {}
        PROVE it[s] = Linked(it[s \ {Max(s)}], iid, ns[Max(s)], l)
    <3>1. s \in SUBSET (0 .. n)
      OBVIOUS
    <3>2. Max(s) \in 1 .. n
      BY <1>2, <2>1, <3>1, MaxOf
    <3>3. it[s \ {Max(s)}] \in S
      OBVIOUS
    <3>4. it[s] = op[<<it[s \ {Max(s)}], Max(s)>>]
      BY <1>7, <2>1 DEF FoldOf
    <3> QED BY <3>2, <3>3, <3>4
  <2>2. it[{}] = h
    BY <1>7 DEF FoldOf
  <2> HIDE DEF op
  <2> QED BY <1>2, <2>1, <2>2
<1> HIDE DEF op
<1> DEFINE f == CHOOSE k : k = [s \in SUBSET DOMAIN ns |->
                  IF s = {} THEN h ELSE Linked(k[s \ {Max(s)}], iid, ns[Max(s)], l)]
<1>9. f = [s \in SUBSET DOMAIN ns |->
             IF s = {} THEN h ELSE Linked(f[s \ {Max(s)}], iid, ns[Max(s)], l)]
  BY <1>8
<1>10. LinkedOn(g, iid, h, l) = f[DOMAIN ns]
  BY Zenon DEF LinkedOn, FoldLeft, MapThenFoldSet, ns
<1> HIDE DEF f
<1>11. f[1 .. 0] = h
  BY <1>2, <1>9
<1>12. ASSUME NEW i \in 1 .. n PROVE f[1 .. i] = Linked(f[1 .. (i - 1)], iid, ns[i], l)
  <2>1. /\ 1 .. i \in SUBSET (1 .. n) /\ 1 .. i # {}
        /\ Max(1 .. i) = i /\ (1 .. i) \ {i} = 1 .. (i - 1)
    BY <1>2, IntervalTop
  <2> QED BY <1>2, <1>9, <2>1
<1> DEFINE P == {i \in 0 .. n : f[1 .. i] \in S}
<1>13. 0 \in P
  BY <1>2, <1>6, <1>11
<1>14. ASSUME NEW i \in 1 .. n, i - 1 \in P PROVE i \in P
  <2>1. f[1 .. (i - 1)] \in S /\ i \in 0 .. n
    BY <1>14
  <2> QED BY <1>4, <1>12, <2>1
<1>15. \A i \in 0 .. n : f[1 .. i] \in S
  <2>1. 0 .. n \subseteq P
    <3> HIDE DEF P
    <3> QED BY <1>2, <1>13, <1>14, UpTo
  <2> QED BY <2>1
<1> DEFINE st == [i \in 0 .. n |-> f[1 .. i]]
<1>16. /\ st \in [0 .. n -> S] /\ st[0] = h /\ st[n] = f[DOMAIN ns]
       /\ \A i \in 1 .. n : st[i] = Linked(st[i - 1], iid, ns[i], l)
  BY <1>2, <1>11, <1>12, <1>15
<1> HIDE DEF st
<1>17. LinksEach(g, iid, h, l, ns, st)
  BY <1>10, <1>16 DEF LinksEach, n, S
<1> QED
  BY <1>17 DEF ns

(* Linking a layer changes links alone, and leaves the layers below as they were. *)
LEMMA LinkedOnFacts ==
  ASSUME NEW g, Graph(g), NEW D, Closed(g, D), entry_id \in D, max_level \in Nat,
         NEW iid \in DOMAIN g, NEW l \in Nat, l <= Level(g[iid]), NEW h \in Likes(g),
         \A nb \in ToSet(Neighbors(g, iid, l)) : l <= Level(g[nb])
  PROVE  LET w == LinkedOn(g, iid, h, l)
         IN  /\ w \in Likes(g)
             /\ iid \notin D /\ Ready(h, D, iid, l) => Ready(w, D, iid, l - 1)
<1> DEFINE S == Likes(g)
           ns == Neighbors(g, iid, l)
           n == Len(ns)
<1>1. ns \in Seq(D) /\ IsInjective(ns) /\ Len(ns) <= M
  BY NeighborsFacts
<1>2. n \in Nat /\ DOMAIN ns = 1 .. n /\ \A i \in 1 .. n : ns[i] \in D
  BY <1>1, LenProperties, ElementOfSeq
<1>3. \A i \in 1 .. n : ns[i] \in DOMAIN g /\ l <= Level(g[ns[i]])
  BY <1>2 DEF Closed, ToSet
<1> HIDE DEF ns, n
<1>4. ASSUME NEW k \in S, NEW i \in 1 .. n PROVE Linked(k, iid, ns[i], l) \in S
  <2>1. /\ Graph(k) /\ DOMAIN k = DOMAIN g /\ Likes(k) = Likes(g)
        /\ \A id \in DOMAIN g : Level(k[id]) = Level(g[id])
    BY LikesAreGraphs
  <2> QED BY <1>3, <2>1, LinkedFacts
<1> HIDE DEF S
<1>6. h \in S
  BY DEF S
<1>7. PICK st : LinksEach(g, iid, h, l, ns, st)
  BY LinkedOnSteps DEF ns
<1>8. /\ st[0] = h /\ LinkedOn(g, iid, h, l) = st[n]
      /\ \A i \in 1 .. n : st[i] = Linked(st[i - 1], iid, ns[i], l)
  BY <1>7 DEF LinksEach, n
<1> DEFINE Inv(v, i) ==
             /\ v \in S
             /\ iid \notin D /\ Ready(h, D, iid, l) => ReadyFor(v, D, iid, l, ns, i)
           P == {i \in 0 .. n : Inv(st[i], i)}
<1>9. 0 \in P
  <2>1. ASSUME iid \notin D, Ready(h, D, iid, l) PROVE ReadyFor(h, D, iid, l, ns, 0)
    <3>1. l \in 0 .. l /\ \A k \in 0 .. (l - 1) : k \in 0 .. l
      OBVIOUS
    <3>2. Links(h, iid, l) = << >> /\ Len(<< >>) = 0 /\ ToSet(<< >>) = {}
      BY <2>1, <3>1 DEF Ready, ToSet
    <3>3. \A k \in 0 .. (l - 1) : /\ Links(h, iid, k) = << >>
                                  /\ \A id \in D : iid \notin ToSet(Links(h, id, k))
      BY <2>1, <3>1 DEF Ready
    <3>4. \A id \in D : iid \notin ToSet(Links(h, id, l))
      BY <2>1, <3>1 DEF Ready
    <3>5. \A id \in DOMAIN h, k \in Nat : GoodList(h, id, k)
      BY <2>1 DEF Ready
    <3> QED BY <3>2, <3>3, <3>4, <3>5 DEF ReadyFor
  <2>2. Inv(h, 0) /\ 0 \in 0 .. n
    BY <1>2, <1>6, <2>1
  <2> HIDE DEF Inv
  <2> QED BY <1>8, <2>2
<1>10. ASSUME NEW i \in 1 .. n, i - 1 \in P PROVE i \in P
  <2> DEFINE v == st[i - 1]
             w == st[i]
  <2>1. Inv(v, i - 1)
    BY <1>10
  <2>2. w = Linked(v, iid, ns[i], l) /\ i \in 0 .. n
    BY <1>8
  <2> HIDE DEF v, w
  <2>3. w \in S
    BY <1>4, <2>1, <2>2
  <2>4. ASSUME iid \notin D, Ready(h, D, iid, l) PROVE ReadyFor(w, D, iid, l, ns, i)
    <3>1. /\ Graph(v) /\ DOMAIN v = DOMAIN g
          /\ \A id \in DOMAIN g : Level(v[id]) = Level(g[id])
      BY <2>1, LikesAreGraphs DEF S
    <3>2. D \subseteq DOMAIN v /\ iid \in DOMAIN v /\ l <= Level(v[iid]) /\ l <= Level(v[ns[i]])
      BY <1>3, <3>1 DEF Closed
    <3>3. i \in 1 .. Len(ns)
      BY DEF n
    <3>4. ReadyFor(v, D, iid, l, ns, i - 1)
      BY <2>1, <2>4
    <3> QED BY <1>1, <2>2, <2>4, <3>1, <3>2, <3>3, <3>4, LinkedKeepsReady
  <2>5. Inv(w, i)
    BY <2>3, <2>4
  <2> HIDE DEF Inv
  <2> QED BY <2>2, <2>5 DEF w
<1>11. n \in P
  <2>1. 0 .. n \subseteq P
    <3> HIDE DEF P
    <3> QED BY <1>2, <1>9, <1>10, UpTo
  <2> HIDE DEF Inv
  <2> QED BY <1>2, <2>1
<1>12. Inv(st[n], n)
  <2> HIDE DEF Inv
  <2> QED BY <1>2, <1>11
<1>13. ASSUME NEW v, ReadyFor(v, D, iid, l, ns, n) PROVE Ready(v, D, iid, l - 1)
  BY <1>13 DEF Ready, ReadyFor
<1> QED
  BY <1>8, <1>12, <1>13 DEF S

(* The layers are linked one by one from the top down. *)
LinksLayers(g, iid, top, st) ==
  /\ st \in [0 .. (top + 1) -> Likes(g)]
  /\ st[0] = g
  /\ \A i \in 1 .. (top + 1) : st[i] = LinkedOn(g, iid, st[i - 1], top + 1 - i)
  /\ LinkedFrom(g, iid, top) = st[top + 1]

LEMMA LinkedFromSteps ==
  ASSUME NEW g, Graph(g), NEW D, Closed(g, D), entry_id \in D, max_level \in Nat,
         NEW iid \in DOMAIN g, NEW top \in Nat, top <= Level(g[iid]), InBounds(g, iid, top)
  PROVE  \E st : LinksLayers(g, iid, top, st)
<1> DEFINE S == Likes(g)
           list == Down(top, 0)
<1>1. PICK n \in Nat : /\ DOMAIN list = 1 .. n /\ n = top + 1
                       /\ \A i \in 1 .. n : list[i] = top + 1 - i /\ list[i] \in 0 .. top
                                            /\ list[i] \in Nat
  <2>1. PICK n \in Nat : /\ DOMAIN list = 1 .. n
                         /\ n = IF top < 0 THEN 0 ELSE top - 0 + 1
                         /\ \A i \in 1 .. n : list[i] = top + 1 - i /\ list[i] \in 0 .. top
                                              /\ list[i] \in Nat
    BY DownFacts
  <2>2. n = top + 1
    BY <2>1
  <2> QED BY <2>1, <2>2
<1> HIDE DEF list
<1>2. ASSUME NEW h \in S, NEW i \in 1 .. n PROVE LinkedOn(g, iid, h, list[i]) \in S
  <2> DEFINE l == list[i]
  <2>1. l \in Nat /\ l \in 0 .. top /\ Level(g[iid]) \in Nat
    BY <1>1, GraphNode
  <2> HIDE DEF l
  <2>2. l <= Level(g[iid]) /\ \A nb \in ToSet(Neighbors(g, iid, l)) : l <= Level(g[nb])
    BY <2>1 DEF InBounds
  <2>3. LinkedOn(g, iid, h, l) \in S
    BY <2>1, <2>2, LinkedOnFacts
  <2> QED BY <2>3 DEF l
<1>3. g \in S
  BY WholeIsLike
<1> HIDE DEF S
<1> DEFINE op == [p \in S \X (1 .. n) |-> LinkedOn(g, iid, p[1], list[p[2]])]
<1>4. op \in [S \X (1 .. n) -> S]
  BY <1>2
<1>5. PICK it \in [SUBSET (1 .. n) -> S] : FoldOf(it, n, g, op)
  <2> HIDE DEF op
  <2> QED BY <1>3, <1>4, FoldExists
<1>6. it = [s \in SUBSET DOMAIN list |->
              IF s = {} THEN g ELSE LinkedOn(g, iid, it[s \ {Max(s)}], list[Max(s)])]
  <2>1. ASSUME NEW s \in SUBSET (1 .. n), s # {}
        PROVE it[s] = LinkedOn(g, iid, it[s \ {Max(s)}], list[Max(s)])
    <3>1. s \in SUBSET (0 .. n)
      OBVIOUS
    <3>2. Max(s) \in 1 .. n
      BY <1>1, <2>1, <3>1, MaxOf
    <3>3. it[s \ {Max(s)}] \in S
      OBVIOUS
    <3>4. it[s] = op[<<it[s \ {Max(s)}], Max(s)>>]
      BY <1>5, <2>1 DEF FoldOf
    <3> QED BY <3>2, <3>3, <3>4
  <2>2. it[{}] = g
    BY <1>5 DEF FoldOf
  <2> HIDE DEF op
  <2> QED BY <1>1, <2>1, <2>2
<1> HIDE DEF op
<1> DEFINE f == CHOOSE k : k = [s \in SUBSET DOMAIN list |->
                  IF s = {} THEN g ELSE LinkedOn(g, iid, k[s \ {Max(s)}], list[Max(s)])]
<1>7. f = [s \in SUBSET DOMAIN list |->
             IF s = {} THEN g ELSE LinkedOn(g, iid, f[s \ {Max(s)}], list[Max(s)])]
  BY <1>6
<1>8. LinkedFrom(g, iid, top) = f[DOMAIN list]
  BY Zenon DEF LinkedFrom, FoldLeft, MapThenFoldSet, list
<1> HIDE DEF f
<1>9. f[1 .. 0] = g
  BY <1>1, <1>7
<1>10. ASSUME NEW i \in 1 .. n PROVE f[1 .. i] = LinkedOn(g, iid, f[1 .. (i - 1)], list[i])
  <2>1. /\ 1 .. i \in SUBSET (1 .. n) /\ 1 .. i # {}
        /\ Max(1 .. i) = i /\ (1 .. i) \ {i} = 1 .. (i - 1)
    BY <1>1, IntervalTop
  <2> QED BY <1>1, <1>7, <2>1
<1> DEFINE P == {i \in 0 .. n : f[1 .. i] \in S}
<1>11. 0 \in P
  BY <1>1, <1>3, <1>9
<1>12. ASSUME NEW i \in 1 .. n, i - 1 \in P PROVE i \in P
  <2>1. f[1 .. (i - 1)] \in S /\ i \in 0 .. n
    BY <1>12
  <2> QED BY <1>2, <1>10, <2>1
<1>13. \A i \in 0 .. n : f[1 .. i] \in S
  <2>1. 0 .. n \subseteq P
    <3> HIDE DEF P
    <3> QED BY <1>11, <1>12, UpTo
  <2> QED BY <2>1
<1> DEFINE st == [i \in 0 .. n |-> f[1 .. i]]
<1>14. /\ st \in [0 .. n -> S] /\ st[0] = g /\ st[n] = f[DOMAIN list]
       /\ \A i \in 1 .. n : st[i] = LinkedOn(g, iid, st[i - 1], list[i])
  BY <1>1, <1>9, <1>10, <1>13
<1> HIDE DEF st
<1>15. \A i \in 1 .. n : st[i] = LinkedOn(g, iid, st[i - 1], top + 1 - i)
  BY <1>1, <1>14
<1>16. LinksLayers(g, iid, top, st)
  BY <1>1, <1>8, <1>14, <1>15 DEF LinksLayers, S
<1> QED
  BY <1>16

(* The graph that Insert leaves: the nodes are those of g, with other links.  When g
   was fit to be searched and had no link to the new node, it still is. *)
LEMMA LinkedFromFacts ==
  ASSUME NEW g, Graph(g), NEW D, Closed(g, D), entry_id \in D, max_level \in Nat,
         NEW iid \in DOMAIN g, NEW top \in Nat, top <= Level(g[iid]), InBounds(g, iid, top)
  PROVE  LET w == LinkedFrom(g, iid, top)
         IN  /\ w \in Likes(g)
             /\ iid \notin D /\ Ready(g, D, iid, top) =>
                  \A id \in DOMAIN g, k \in Nat : GoodList(w, id, k)
<1> DEFINE S == Likes(g)
           n == top + 1
<1>1. ASSUME NEW h \in S, NEW i \in 1 .. n
      PROVE  LET w == LinkedOn(g, iid, h, top + 1 - i)
             IN  /\ w \in S
                 /\ iid \notin D /\ Ready(h, D, iid, top + 1 - i) => Ready(w, D, iid, top - i)
  <2> DEFINE l == top + 1 - i
  <2>1. l \in Nat /\ l \in 0 .. top /\ l - 1 = top - i
    OBVIOUS
  <2>2. l <= Level(g[iid]) /\ \A nb \in ToSet(Neighbors(g, iid, l)) : l <= Level(g[nb])
    <3>1. Level(g[iid]) \in Nat
      BY GraphNode
    <3> HIDE DEF l
    <3> QED BY <2>1, <3>1 DEF InBounds
  <2> HIDE DEF l
  <2>3. /\ LinkedOn(g, iid, h, l) \in S
        /\ iid \notin D /\ Ready(h, D, iid, l) => Ready(LinkedOn(g, iid, h, l), D, iid, l - 1)
    BY <2>1, <2>2, LinkedOnFacts
  <2> QED BY <2>1, <2>3 DEF l
<1>2. g \in S
  BY WholeIsLike
<1> HIDE DEF S
<1>3. PICK st : LinksLayers(g, iid, top, st)
  BY LinkedFromSteps
<1>4. /\ st[0] = g /\ LinkedFrom(g, iid, top) = st[n]
      /\ \A i \in 1 .. n : st[i] = LinkedOn(g, iid, st[i - 1], top + 1 - i)
  BY <1>3 DEF LinksLayers
<1>5. n \in Nat
  OBVIOUS
<1> DEFINE Inv(v, i) ==
             /\ v \in S
             /\ iid \notin D /\ Ready(g, D, iid, top) => Ready(v, D, iid, top - i)
           P == {i \in 0 .. n : Inv(st[i], i)}
<1>6. 0 \in P
  <2>1. top - 0 = top /\ 0 \in 0 .. n
    OBVIOUS
  <2>2. Inv(g, 0)
    BY <1>2, <2>1
  <2> HIDE DEF Inv
  <2> QED BY <1>4, <2>1, <2>2
<1>7. ASSUME NEW i \in 1 .. n, i - 1 \in P PROVE i \in P
  <2> DEFINE v == st[i - 1]
             w == st[i]
  <2>1. Inv(v, i - 1)
    BY <1>7
  <2>2. w = LinkedOn(g, iid, v, top + 1 - i) /\ i \in 0 .. n /\ top - (i - 1) = top + 1 - i
    BY <1>4
  <2> HIDE DEF v, w
  <2>3. Inv(w, i)
    BY <1>1, <2>1, <2>2
  <2> HIDE DEF Inv
  <2> QED BY <2>2, <2>3 DEF w
<1>8. n \in P
  <2> HIDE DEF n
  <2>1. 0 .. n \subseteq P
    <3> HIDE DEF P
    <3> QED BY <1>5, <1>6, <1>7, UpTo
  <2> HIDE DEF Inv
  <2> QED BY <1>5, <2>1
<1>9. Inv(st[n], n)
  <2> HIDE DEF Inv
  <2> QED BY <1>8
<1>10. DOMAIN st[n] = DOMAIN g
  BY <1>9, LikesAreGraphs DEF S
<1> QED
  BY <1>4, <1>9, <1>10 DEF S, Ready

(* Linking a layer leaves the lists of the others.  When the neighbors' lists have
   room, no link is lost, and each neighbor and the new node get a link to the other. *)
LEMMA LinkedOnJoins ==
  ASSUME NEW g, Graph(g), NEW D, Closed(g, D), entry_id \in D, max_level \in Nat,
         NEW iid \in DOMAIN g, iid \notin D, NEW l \in Nat, l <= Level(g[iid]),
         NEW h \in Likes(g), \A nb \in ToSet(Neighbors(g, iid, l)) : l <= Level(g[nb])
  PROVE  LET w == LinkedOn(g, iid, h, l)
             ns == Neighbors(g, iid, l)
         IN  /\ \A j \in DOMAIN g, k \in Nat : k # l => Links(w, j, k) = Links(h, j, k)
             /\ (\A nb \in ToSet(ns) : Len(Links(h, nb, l)) < MaxLinks(l)) =>
                  /\ \A j \in D : ToSet(Links(h, j, l)) \subseteq ToSet(Links(w, j, l))
                  /\ \A nb \in ToSet(ns) : /\ nb \in ToSet(Links(w, iid, l))
                                           /\ iid \in ToSet(Links(w, nb, l))
<1> DEFINE ns == Neighbors(g, iid, l)
           n == Len(ns)
           S == Likes(g)
           Room == \A nb \in ToSet(ns) : Len(Links(h, nb, l)) < MaxLinks(l)
<1>1. ns \in Seq(D) /\ IsInjective(ns)
  BY NeighborsFacts
<1>2. n \in Nat /\ DOMAIN ns = 1 .. n /\ \A i \in 1 .. n : ns[i] \in D
  BY <1>1, LenProperties, ElementOfSeq
<1>3. \A i \in 1 .. n : ns[i] \in DOMAIN g /\ ns[i] # iid /\ l <= Level(g[ns[i]])
                         /\ ns[i] \in ToSet(ns)
  BY <1>2 DEF Closed, ToSet
<1>4. PICK st : LinksEach(g, iid, h, l, ns, st)
  BY LinkedOnSteps
<1>5. ToSet(ns) = {ns[i] : i \in 1 .. n}
  BY <1>2 DEF ToSet
<1> HIDE DEF ns
<1>6. /\ st[0] = h /\ LinkedOn(g, iid, h, l) = st[n]
      /\ \A i \in 1 .. n : st[i] = Linked(st[i - 1], iid, ns[i], l)
  BY <1>4 DEF LinksEach
<1>7. \A i \in 0 .. n : st[i] \in S
  BY <1>4 DEF LinksEach
<1> HIDE DEF n, S, Room
<1> DEFINE Lost(v, i) ==
             /\ \A j \in D : (\A m \in 1 .. i : ns[m] # j) => Links(v, j, l) = Links(h, j, l)
             /\ \A j \in D : ToSet(Links(h, j, l)) \subseteq ToSet(Links(v, j, l))
             /\ \A m \in 1 .. i : /\ ns[m] \in ToSet(Links(v, iid, l))
                                   /\ iid \in ToSet(Links(v, ns[m], l))
           Inv(v, i) ==
             /\ \A j \in DOMAIN g, k \in Nat : k # l => Links(v, j, k) = Links(h, j, k)
             /\ Room => Lost(v, i)
           P == {i \in 0 .. n : Inv(st[i], i)}
<1>8. 0 \in P
  <2>1. Inv(h, 0) /\ 0 \in 0 .. n
    BY <1>2
  <2> HIDE DEF Inv
  <2> QED BY <1>6, <2>1
<1>9. ASSUME NEW i \in 1 .. n, i - 1 \in P PROVE i \in P
  <2> DEFINE v == st[i - 1]
             w == st[i]
             nb == ns[i]
  <2>1. Inv(v, i - 1)
    BY <1>9
  <2>2. w = Linked(v, iid, nb, l) /\ i \in 0 .. n /\ i - 1 \in 0 .. n
    BY <1>2, <1>6
  <2>3. v \in S
    BY <1>7, <2>2
  <2>4. nb \in D /\ nb \in DOMAIN g /\ nb # iid /\ l <= Level(g[nb]) /\ nb \in ToSet(ns)
    BY <1>2, <1>3
  <2>5. \A m \in 1 .. (i - 1) : m \in 1 .. n /\ ns[m] # nb /\ ns[m] # iid /\ ns[m] \in D
    <3>1. \A m \in 1 .. (i - 1) : m \in 1 .. n /\ m # i
      BY <1>2
    <3> QED BY <1>1, <1>2, <1>3, <3>1 DEF IsInjective
  <2> HIDE DEF v, w, nb
  <2>6. /\ Graph(v) /\ DOMAIN v = DOMAIN g
        /\ \A id \in DOMAIN g : Level(v[id]) = Level(g[id])
    BY <2>3, LikesAreGraphs DEF S
  <2>7. /\ Links(w, iid, l) = Append(Links(v, iid, l), nb)
        /\ Len(Links(v, nb, l)) < MaxLinks(l) => Links(w, nb, l) = Append(Links(v, nb, l), iid)
        /\ \A j \in DOMAIN g, k \in Nat :
             (k # l \/ j \notin {iid, nb}) => Links(w, j, k) = Links(v, j, k)
    BY <2>2, <2>4, <2>6, LinkedFacts
  <2>8. \A j \in DOMAIN g, k \in Nat : k # l => Links(w, j, k) = Links(h, j, k)
    BY <2>1, <2>7
  <2>9. ASSUME Room PROVE Lost(w, i)
    <3>1. Lost(v, i - 1)
      BY <2>1, <2>9
    <3>2. Links(v, nb, l) = Links(h, nb, l)
      BY <2>4, <2>5, <3>1
    <3>3. Links(w, nb, l) = Append(Links(v, nb, l), iid)
      BY <2>4, <2>7, <2>9, <3>2 DEF Room
    <3>4. /\ Links(v, nb, l) \in Seq(DOMAIN g) /\ Links(v, iid, l) \in Seq(DOMAIN g)
      BY <2>4, <2>6, LinksType
    <3>5. /\ ToSet(Links(w, nb, l)) = ToSet(Links(v, nb, l)) \cup {iid}
          /\ ToSet(Links(w, iid, l)) = ToSet(Links(v, iid, l)) \cup {nb}
      BY <2>4, <2>7, <3>3, <3>4, AppendToSet
    <3>6. \A j \in D : j # nb => Links(w, j, l) = Links(v, j, l)
      BY <2>7 DEF Closed
    <3>7. ASSUME NEW j \in D, \A m \in 1 .. i : ns[m] # j PROVE Links(w, j, l) = Links(h, j, l)
      <4>1. j # nb /\ \A m \in 1 .. (i - 1) : m \in 1 .. i
        BY <3>7 DEF nb
      <4> QED BY <3>1, <3>6, <3>7, <4>1
    <3>8. ASSUME NEW j \in D PROVE ToSet(Links(h, j, l)) \subseteq ToSet(Links(w, j, l))
      BY <3>1, <3>5, <3>6
    <3>9. ASSUME NEW m \in 1 .. i
          PROVE  ns[m] \in ToSet(Links(w, iid, l)) /\ iid \in ToSet(Links(w, ns[m], l))
      <4>1. CASE m = i
        BY <3>5, <4>1 DEF nb
      <4>2. CASE m # i
        <5>1. m \in 1 .. (i - 1)
          BY <1>2, <4>2
        <5>2. Links(w, ns[m], l) = Links(v, ns[m], l)
          BY <2>5, <3>6, <5>1
        <5> QED BY <3>1, <3>5, <5>1, <5>2
      <4> QED BY <4>1, <4>2
    <3> QED BY <3>7, <3>8, <3>9
  <2>10. Inv(w, i)
    <3> HIDE DEF Lost
    <3> QED BY <2>8, <2>9
  <2> HIDE DEF Inv
  <2> QED BY <2>2, <2>10 DEF w
<1>10. n \in P
  <2>1. 0 .. n \subseteq P
    <3> HIDE DEF P
    <3> QED BY <1>2, <1>8, <1>9, UpTo
  <2> HIDE DEF Inv
  <2> QED BY <1>2, <2>1
<1>11. Inv(st[n], n)
  <2> HIDE DEF Inv
  <2> QED BY <1>10
<1> QED
  BY <1>5, <1>6, <1>11 DEF Room, ns

(* When the lists on layer 0 of the new node's neighbors have room, an Insert loses no
   link on layer 0, and it links the new node and its neighbors both ways. *)
LEMMA LinkedFromJoins ==
  ASSUME NEW g, Graph(g), NEW D, Closed(g, D), entry_id \in D, max_level \in Nat,
         NEW iid \in DOMAIN g, iid \notin D, NEW top \in Nat, top <= Level(g[iid]),
         InBounds(g, iid, top),
         \A nb \in ToSet(Neighbors(g, iid, 0)) : Len(Links(g, nb, 0)) < MaxLinks(0)
  PROVE  LET w == LinkedFrom(g, iid, top)
         IN  /\ \A j \in D : ToSet(Links(g, j, 0)) \subseteq ToSet(Links(w, j, 0))
             /\ \A nb \in ToSet(Neighbors(g, iid, 0)) : /\ nb \in ToSet(Links(w, iid, 0))
                                                        /\ iid \in ToSet(Links(w, nb, 0))
<1>1. PICK st : LinksLayers(g, iid, top, st)
  BY LinkedFromSteps
<1>2. /\ st[0] = g /\ LinkedFrom(g, iid, top) = st[top + 1]
      /\ \A i \in 1 .. (top + 1) : st[i] = LinkedOn(g, iid, st[i - 1], top + 1 - i)
  BY <1>1 DEF LinksLayers
<1>3. \A i \in 0 .. (top + 1) : st[i] \in Likes(g)
  BY <1>1 DEF LinksLayers
<1>4. ASSUME NEW l \in 0 .. top
      PROVE  /\ l \in Nat /\ l <= Level(g[iid])
             /\ \A nb \in ToSet(Neighbors(g, iid, l)) : l <= Level(g[nb])
  <2>1. Level(g[iid]) \in Nat
    BY GraphNode
  <2> QED BY <2>1 DEF InBounds
<1> DEFINE Same(v) == \A j \in DOMAIN g : Links(v, j, 0) = Links(g, j, 0)
           P == {i \in 0 .. top : Same(st[i])}
<1>5. 0 \in P
  BY <1>2
<1>6. ASSUME NEW i \in 1 .. top, i - 1 \in P PROVE i \in P
  <2> DEFINE l == top + 1 - i
             v == st[i - 1]
             w == st[i]
  <2>1. l \in 0 .. top /\ 0 # l /\ 0 \in Nat /\ i \in 1 .. (top + 1)
        /\ i - 1 \in 0 .. (top + 1) /\ i \in 0 .. top
    OBVIOUS
  <2>2. w = LinkedOn(g, iid, v, l) /\ v \in Likes(g) /\ Same(v)
    BY <1>2, <1>3, <1>6, <2>1
  <2> HIDE DEF l, v, w
  <2>3. \A j \in DOMAIN g, k \in Nat : k # l => Links(w, j, k) = Links(v, j, k)
    BY <1>4, <2>1, <2>2, LinkedOnJoins
  <2>4. Same(w)
    BY <2>1, <2>2, <2>3
  <2> HIDE DEF Same
  <2> QED BY <2>1, <2>4 DEF w
<1>7. Same(st[top])
  <2>1. 0 .. top \subseteq P
    <3> HIDE DEF P
    <3> QED BY <1>5, <1>6, UpTo
  <2> HIDE DEF Same
  <2> QED BY <2>1
<1>8. PICK v \in Likes(g) : v = st[top]
  BY <1>3
<1>9. LinkedFrom(g, iid, top) = LinkedOn(g, iid, v, 0)
  <2>1. top + 1 \in 1 .. (top + 1) /\ (top + 1) - 1 = top /\ top + 1 - (top + 1) = 0
    OBVIOUS
  <2> QED BY <1>2, <1>8, <2>1
<1>10. /\ 0 \in 0 .. top /\ 0 \in Nat
  OBVIOUS
<1>11. /\ 0 <= Level(g[iid])
       /\ \A nb \in ToSet(Neighbors(g, iid, 0)) : 0 <= Level(g[nb])
  BY <1>4, <1>10
<1>12. \A nb \in ToSet(Neighbors(g, iid, 0)) : nb \in D /\ nb \in DOMAIN g
  <2>1. Neighbors(g, iid, 0) \in Seq(D)
    BY <1>10, NeighborsFacts
  <2> QED BY <2>1, LenProperties DEF Closed, ToSet
<1>13. \A nb \in ToSet(Neighbors(g, iid, 0)) : Len(Links(v, nb, 0)) < MaxLinks(0)
  BY <1>7, <1>8, <1>12
<1>14. /\ \A j \in D : ToSet(Links(v, j, 0)) \subseteq ToSet(Links(LinkedOn(g, iid, v, 0), j, 0))
       /\ \A nb \in ToSet(Neighbors(g, iid, 0)) :
            /\ nb \in ToSet(Links(LinkedOn(g, iid, v, 0), iid, 0))
            /\ iid \in ToSet(Links(LinkedOn(g, iid, v, 0), nb, 0))
  <2> HIDE DEF Same
  <2> QED BY <1>10, <1>11, <1>13, LinkedOnJoins
<1>15. \A j \in D : Links(v, j, 0) = Links(g, j, 0)
  BY <1>7, <1>8 DEF Closed
<1> QED
  BY <1>9, <1>14, <1>15

-----------------------------------------------------------------------------
(* The inductive invariant *)

Live(g) == {id \in DOMAIN g : ~g[id].deleted}

(* The type invariant, with ids that follow each other, and an entry point as soon
   as there is a node. *)
Shape ==
  /\ Graph(nodes)
  /\ DOMAIN nodes \subseteq Ids
  /\ entry_id \in Ids
  /\ max_level \in 0 .. MaxLevel
  /\ has_entry \in BOOLEAN
  /\ count \in Nat
  /\ hazards \subseteq Hazards
  /\ has_entry <=> DOMAIN nodes # {}
  /\ has_entry => entry_id \in DOMAIN nodes

(* GraphStructure, with the links above a node's level, which are none. *)
Fit ==
  hazards \cap {"replaced", "undefined"} = {} =>
    /\ \A id \in DOMAIN nodes, k \in Nat : GoodList(nodes, id, k)
    /\ has_entry => /\ max_level = Level(nodes[entry_id])
                    /\ \A id \in DOMAIN nodes : Level(nodes[id]) <= max_level

(* The count is never below the number of live nodes: Remove cannot take it below 0. *)
Counts ==
  /\ count >= Cardinality(Live(nodes))
  /\ "miscount" \notin hazards => count = Cardinality(Live(nodes))

Records == [id : Ids, vec : Vecs]

Holds(data, rec) == \E i \in DOMAIN data : data[i] = rec

(* The flat index has a record of every live node. *)
Held ==
  /\ flat \in Seq(Records)
  /\ \A id \in Live(nodes) : Holds(flat, [id |-> id, vec |-> nodes[id].vec])

IndexInv == Shape /\ Fit /\ Counts /\ Held

LEMMA SeqsWithin ==
  ASSUME NEW S, NEW T, S \subseteq T
  PROVE  Seq(S) \subseteq Seq(T)
<1>1. ASSUME NEW s \in Seq(S) PROVE s \in Seq(T)
  <2>1. PICK m \in Nat : m = Len(s)
    BY LenProperties
  <2>2. s \in [1 .. m -> S]
    BY <2>1, LenProperties
  <2>3. s \in [1 .. m -> T]
    BY <2>2
  <2> QED BY <2>3, SeqDef
<1> QED
  BY <1>1

LEMMA NodesWithin ==
  ASSUME NEW D, NEW E, D \subseteq E
  PROVE  Nodes(D) \subseteq Nodes(E)
<1>1. Seq(D) \subseteq Seq(E)
  BY SeqsWithin
<1>2. PICK A : A = Seq(D)
  OBVIOUS
<1>3. PICK B : B = Seq(E)
  OBVIOUS
<1>4. Seq(A) \subseteq Seq(B)
  BY <1>1, <1>2, <1>3, SeqsWithin
<1>5. Seq(Seq(D)) \subseteq Seq(Seq(E))
  BY <1>2, <1>3, <1>4
<1> QED
  BY <1>5 DEF Nodes

(* A node that has just been made has its layers, and no links on them. *)
LEMMA NewNodeFacts ==
  ASSUME NEW vec \in Vecs, NEW level \in 0 .. MaxLevel, NEW D
  PROVE  /\ NewNode(vec, level) \in Nodes(D)
         /\ NewNode(vec, level).vec = vec
         /\ NewNode(vec, level).deleted = FALSE
         /\ Level(NewNode(vec, level)) = level
         /\ \A l \in 1 .. (level + 1) : NewNode(vec, level).nbrs[l] = << >>
<1> DEFINE nbrs == [l \in 1 .. (level + 1) |-> << >>]
<1>1. level \in Nat
  BY HNSWAssumption
<1>2. PICK m \in Nat : m = level + 1
  BY <1>1
<1>3. << >> \in Seq(D)
  OBVIOUS
<1>4. nbrs \in [1 .. m -> Seq(D)]
  BY <1>2, <1>3
<1>5. nbrs \in Seq(Seq(D)) /\ Len(nbrs) = m
  <2>1. nbrs \in Seq(Seq(D))
    BY <1>4, SeqDef
  <2>2. Len(nbrs) \in Nat /\ DOMAIN nbrs = 1 .. Len(nbrs)
    BY <2>1, LenProperties
  <2>3. DOMAIN nbrs = 1 .. m
    BY <1>4
  <2>4. Len(nbrs) = m
    BY <2>2, <2>3, FS_Interval
  <2> QED BY <2>1, <2>4
<1>6. \A l \in 1 .. (level + 1) : nbrs[l] = << >>
  OBVIOUS
<1>7. NewNode(vec, level) = [vec |-> vec, deleted |-> FALSE, nbrs |-> nbrs]
  BY DEF NewNode
<1> HIDE DEF nbrs
<1>8. NewNode(vec, level).nbrs = nbrs
  BY <1>7
<1>9. Level(NewNode(vec, level)) = level
  BY <1>1, <1>2, <1>5, <1>8 DEF Level
<1> QED
  BY <1>5, <1>6, <1>7, <1>8, <1>9 DEF Nodes

(* g is the graph "nodes" with node iid, which has no links. *)
Unlinked(g, iid) ==
  /\ DOMAIN g = DOMAIN nodes \cup {iid}
  /\ \A id \in DOMAIN nodes : id # iid => g[id] = nodes[id]
  /\ \A k \in Nat : Links(g, iid, k) = << >>
  /\ \A id \in DOMAIN nodes, k \in Nat : id # iid => Links(g, id, k) = Links(nodes, id, k)

(* The graph with the new node, not linked yet. *)
LEMMA WithNodeFacts ==
  ASSUME Shape, NEW iid \in Ids, MayInsert(iid), NEW vec \in Vecs, NEW level \in 0 .. MaxLevel
  PROVE  LET g == WithNode(iid, vec, level)
         IN  /\ Graph(g)
             /\ Unlinked(g, iid)
             /\ g[iid].vec = vec /\ g[iid].deleted = FALSE /\ Level(g[iid]) = level
             /\ iid \notin Live(nodes)
<1> DEFINE g == WithNode(iid, vec, level)
           D == DOMAIN nodes \cup {iid}
<1>1. PICK n \in Nat : DOMAIN nodes = 0 .. (n - 1)
  BY DEF Shape, Graph, Numbered
<1>2. Cardinality(0 .. (n - 1)) = n
  <2>1. Cardinality(0 .. (n - 1)) = IF 0 > n - 1 THEN 0 ELSE (n - 1) - 0 + 1
    BY FS_Interval
  <2> QED BY <2>1
<1>3. iid = n \/ iid \in DOMAIN nodes
  BY <1>1, <1>2 DEF MayInsert
<1>4. Numbered(D)
  <2>1. CASE iid = n
    <3>1. D = 0 .. ((n + 1) - 1) /\ n + 1 \in Nat
      BY <1>1, <2>1
    <3> HIDE DEF D
    <3> QED BY <3>1 DEF Numbered
  <2>2. CASE iid \in DOMAIN nodes
    <3>1. D = DOMAIN nodes
      BY <2>2
    <3> HIDE DEF D
    <3> QED BY <3>1 DEF Shape, Graph
  <2> QED BY <1>3, <2>1, <2>2
<1>5. iid \notin Live(nodes)
  BY <1>1, <1>2 DEF MayInsert, Live
<1>6. /\ DOMAIN g = D /\ g[iid] = NewNode(vec, level)
      /\ \A id \in DOMAIN nodes : id # iid => g[id] = nodes[id]
      /\ \A id \in D : id = iid \/ (id \in DOMAIN nodes /\ id # iid)
  BY DEF WithNode
<1> HIDE DEF g, D
<1>7. /\ NewNode(vec, level) \in Nodes(D)
      /\ g[iid].vec = vec /\ g[iid].deleted = FALSE /\ Level(g[iid]) = level
      /\ \A l \in 1 .. (level + 1) : g[iid].nbrs[l] = << >>
  <2>1. PICK node : node = NewNode(vec, level)
    OBVIOUS
  <2>2. /\ node \in Nodes(D)
        /\ node.vec = vec /\ node.deleted = FALSE /\ Level(node) = level
        /\ \A l \in 1 .. (level + 1) : node.nbrs[l] = << >>
    BY <2>1, NewNodeFacts
  <2> QED BY <1>6, <2>1, <2>2
<1>8. ASSUME NEW id \in D PROVE g[id] \in Nodes(D) /\ Level(g[id]) \in 0 .. MaxLevel
  <2>1. CASE id = iid
    BY <1>6, <1>7, <2>1
  <2>2. CASE id # iid
    <3>1. id \in DOMAIN nodes /\ g[id] = nodes[id]
      BY <1>6, <2>2
    <3>2. nodes[id] \in Nodes(DOMAIN nodes) /\ Level(nodes[id]) \in 0 .. MaxLevel
      BY <3>1, GraphNode DEF Shape
    <3>3. Nodes(DOMAIN nodes) \subseteq Nodes(D)
      BY NodesWithin DEF D
    <3> QED BY <3>1, <3>2, <3>3
  <2> QED BY <2>1, <2>2
<1>9. g \in [DOMAIN g -> Nodes(DOMAIN g)]
  <2>1. g = [id \in D |-> g[id]]
    BY DEF g, D, WithNode
  <2> QED BY <1>6, <1>8, <2>1
<1>10. Graph(g)
  BY <1>4, <1>6, <1>8, <1>9 DEF Graph
<1>11. ASSUME NEW k \in Nat PROVE Links(g, iid, k) = << >>
  <2>1. CASE k > level
    BY <1>7, <2>1 DEF Links
  <2>2. CASE ~(k > level)
    <3>1. level \in Nat
      BY HNSWAssumption
    <3>2. k + 1 \in 1 .. (level + 1)
      BY <2>2, <3>1
    <3> QED BY <1>7, <2>2, <3>2 DEF Links
  <2> QED BY <2>1, <2>2
<1>12. \A id \in DOMAIN nodes, k \in Nat : id # iid => Links(g, id, k) = Links(nodes, id, k)
  BY <1>6 DEF Links
<1> QED
  BY <1>5, <1>6, <1>7, <1>10, <1>11, <1>12 DEF Unlinked, g, D

LEMMA LiveFacts ==
  ASSUME NEW g, Graph(g)
  PROVE  /\ IsFiniteSet(Live(g)) /\ Cardinality(Live(g)) \in Nat
         /\ Cardinality(Live(g)) <= Cardinality(DOMAIN g)
         /\ Cardinality(DOMAIN g) \in Nat
<1>1. IsFiniteSet(DOMAIN g) /\ Cardinality(DOMAIN g) \in Nat
  BY FiniteGraph
<1>2. Live(g) \in SUBSET DOMAIN g
  BY DEF Live
<1>3. IsFiniteSet(Live(g)) /\ Cardinality(Live(g)) <= Cardinality(DOMAIN g)
  BY <1>1, <1>2, FS_Subset
<1> QED
  BY <1>1, <1>3, FS_CardinalityType

(* h holds the nodes of "nodes", with other links perhaps, and node iid, which is live. *)
OneMore(h, iid, vec, level) ==
  /\ Graph(h)
  /\ DOMAIN h = DOMAIN nodes \cup {iid} /\ DOMAIN h \subseteq Ids
  /\ h[iid].vec = vec /\ h[iid].deleted = FALSE /\ Level(h[iid]) = level
  /\ \A id \in DOMAIN nodes : id # iid => /\ h[id].vec = nodes[id].vec
                                          /\ h[id].deleted = nodes[id].deleted
                                          /\ Level(h[id]) = Level(nodes[id])
  /\ iid \notin Live(nodes) /\ Live(h) = Live(nodes) \cup {iid}
  /\ Cardinality(Live(h)) = Cardinality(Live(nodes)) + 1

(* Whatever links an Insert makes, the other nodes keep their vectors and marks,
   and one more vector is live. *)
LEMMA OneMoreNode ==
  ASSUME Shape, NEW iid \in Ids, MayInsert(iid), NEW vec \in Vecs, NEW level \in 0 .. MaxLevel,
         NEW h \in Likes(WithNode(iid, vec, level))
  PROVE  OneMore(h, iid, vec, level)
<1> DEFINE g == WithNode(iid, vec, level)
<1>0. /\ Graph(g) /\ Unlinked(g, iid)
      /\ g[iid].vec = vec /\ g[iid].deleted = FALSE /\ Level(g[iid]) = level
      /\ iid \notin Live(nodes)
  BY WithNodeFacts
<1> HIDE DEF g
<1>1. DOMAIN g = DOMAIN nodes \cup {iid} /\ \A id \in DOMAIN nodes : id # iid => g[id] = nodes[id]
  BY <1>0 DEF Unlinked
<1>2. /\ Graph(h) /\ DOMAIN h = DOMAIN g
      /\ \A id \in DOMAIN g : /\ h[id].vec = g[id].vec
                              /\ h[id].deleted = g[id].deleted
                              /\ Level(h[id]) = Level(g[id])
  BY <1>0, LikesAreGraphs DEF g
<1>3. h[iid].vec = vec /\ h[iid].deleted = FALSE /\ Level(h[iid]) = level
  BY <1>0, <1>1, <1>2
<1>4. ASSUME NEW id \in DOMAIN nodes, id # iid
      PROVE  /\ h[id].vec = nodes[id].vec
             /\ h[id].deleted = nodes[id].deleted
             /\ Level(h[id]) = Level(nodes[id])
  BY <1>1, <1>2, <1>4
<1>5. Live(h) = Live(nodes) \cup {iid}
  BY <1>0, <1>1, <1>2, <1>3, <1>4 DEF Live
<1>6. Cardinality(Live(h)) = Cardinality(Live(nodes)) + 1
  <2>1. IsFiniteSet(Live(nodes))
    BY LiveFacts DEF Shape
  <2> QED BY <1>0, <1>5, <2>1, FS_AddElement
<1>7. DOMAIN h \subseteq Ids
  BY <1>1, <1>2 DEF Shape
<1> QED
  BY <1>0, <1>1, <1>2, <1>3, <1>4, <1>5, <1>6, <1>7 DEF OneMore

(* What Insert leaves: the new node and the others, in good lists if they were good
   and the node is new. *)
LEMMA LinkedNodes ==
  ASSUME Shape, has_entry, NEW iid \in Ids, MayInsert(iid), NEW vec \in Vecs,
         NEW level \in 0 .. MaxLevel,
         InBounds(WithNode(iid, vec, level), iid, TopLayer(level))
  PROVE  LET h == LinkedFrom(WithNode(iid, vec, level), iid, TopLayer(level))
         IN  /\ h \in Likes(WithNode(iid, vec, level))
             /\ /\ iid \notin DOMAIN nodes
                /\ \A id \in DOMAIN nodes, k \in Nat : GoodList(nodes, id, k)
                => \A id \in DOMAIN h, k \in Nat : GoodList(h, id, k)
<1> DEFINE g == WithNode(iid, vec, level)
           top == TopLayer(level)
           h == LinkedFrom(g, iid, top)
<1>0. Graph(g) /\ Unlinked(g, iid) /\ Level(g[iid]) = level
  BY WithNodeFacts
<1>1. /\ DOMAIN g = DOMAIN nodes \cup {iid}
      /\ \A id \in DOMAIN nodes : id # iid => g[id] = nodes[id]
      /\ \A k \in Nat : Links(g, iid, k) = << >>
      /\ \A id \in DOMAIN nodes, k \in Nat : id # iid => Links(g, id, k) = Links(nodes, id, k)
  BY <1>0 DEF Unlinked
<1>2. entry_id \in DOMAIN nodes /\ max_level \in Nat /\ level \in Nat
      /\ top \in Nat /\ top <= level
  BY HNSWAssumption DEF Shape, TopLayer
<1>3. iid \in DOMAIN g /\ entry_id \in DOMAIN g /\ top <= Level(g[iid])
  BY <1>0, <1>1, <1>2
<1> HIDE DEF g, top
<1>4. Closed(g, DOMAIN g) /\ InBounds(g, iid, top)
  BY <1>0, WholeGraphClosed DEF g, top
<1>5. h \in Likes(g)
  BY <1>0, <1>2, <1>3, <1>4, LinkedFromFacts
<1>6. ASSUME iid \notin DOMAIN nodes, \A id \in DOMAIN nodes, k \in Nat : GoodList(nodes, id, k)
      PROVE  \A id \in DOMAIN h, k \in Nat : GoodList(h, id, k)
  <2> DEFINE D == DOMAIN nodes
  <2>1. ASSUME NEW id \in D, NEW k \in Nat
        PROVE  ToSet(Links(g, id, k)) \subseteq D /\ Links(g, id, k) = Links(nodes, id, k)
    <3>1. Links(g, id, k) = Links(nodes, id, k)
      BY <1>1, <1>6
    <3>2. Links(nodes, id, k) \in Seq(D)
      BY LinksType DEF Shape
    <3>3. ToSet(Links(nodes, id, k)) \subseteq D
      BY <3>2, LenProperties DEF ToSet
    <3> QED BY <3>1, <3>3
  <2>2. Closed(g, D)
    BY <1>1, <2>1 DEF Closed
  <2>3. ASSUME NEW k \in Nat PROVE GoodList(g, iid, k)
    <3>1. Links(g, iid, k) = << >> /\ ToSet(<< >>) = {} /\ Len(<< >>) = 0
      BY <1>1 DEF ToSet
    <3>2. MaxLinks(k) \in Nat
      BY MaxLinksType
    <3>3. IsInjective(<< >>)
      BY DEF IsInjective
    <3> QED BY <3>1, <3>2, <3>3 DEF GoodList
  <2>4. ASSUME NEW id \in D, NEW k \in Nat PROVE GoodList(g, id, k)
    <3>1. GoodList(nodes, id, k)
      BY <1>6
    <3>2. \A nb \in D : Level(g[nb]) = Level(nodes[nb])
      BY <1>1, <1>6
    <3> QED BY <2>1, <3>1, <3>2 DEF GoodList
  <2>5. Ready(g, D, iid, top)
    <3>1. \A id \in DOMAIN g, k \in Nat : GoodList(g, id, k)
      BY <1>1, <2>3, <2>4
    <3>2. \A k \in 0 .. top : k \in Nat
      BY <1>2
    <3>3. \A k \in 0 .. top : /\ Links(g, iid, k) = << >>
                              /\ \A id \in D : iid \notin ToSet(Links(g, id, k))
      BY <1>1, <1>6, <2>1, <3>2
    <3> QED BY <3>1, <3>3 DEF Ready
  <2>6. DOMAIN h = DOMAIN g
    BY <1>0, <1>5, LikesAreGraphs
  <2>7. \A id \in DOMAIN g, k \in Nat : GoodList(h, id, k)
    <3> HIDE DEF h
    <3> QED BY <1>0, <1>2, <1>3, <1>4, <1>6, <2>2, <2>5, LinkedFromFacts DEF h
  <2> QED BY <2>6, <2>7
<1> QED
  BY <1>5, <1>6 DEF g, top

-----------------------------------------------------------------------------
(* The flat index beside the graph *)

LEMMA InsertedHolds ==
  ASSUME NEW data \in Seq(Records), NEW iid \in Ids, NEW vec \in Vecs
  PROVE  LET r == Flat!Inserted(data, iid, vec)
         IN  /\ r \in Seq(Records)
             /\ Holds(r, [id |-> iid, vec |-> vec])
             /\ \A rec \in Records : Holds(data, rec) => Holds(r, rec)
<1> DEFINE x == [id |-> iid, vec |-> vec]
           r == Append(data, x)
<1>1. x \in Records
  BY DEF Records
<1> HIDE DEF x
<1>2. /\ r \in Seq(Records) /\ Len(r) = Len(data) + 1
      /\ \A i \in 1 .. Len(data) : r[i] = data[i]
      /\ r[Len(data) + 1] = x
  BY <1>1, AppendProperties
<1>3. Len(data) \in Nat /\ DOMAIN data = 1 .. Len(data) /\ DOMAIN r = 1 .. Len(data) + 1
  BY <1>2, LenProperties
<1> HIDE DEF r
<1>4. Len(data) + 1 \in DOMAIN r /\ \A i \in DOMAIN data : i \in DOMAIN r /\ r[i] = data[i]
  BY <1>2, <1>3
<1>5. Holds(r, x) /\ \A rec \in Records : Holds(data, rec) => Holds(r, rec)
  BY <1>2, <1>4 DEF Holds
<1> QED
  BY <1>2, <1>5 DEF Flat!Inserted, r, x

(* Taking a record away leaves those of the other ids. *)
LEMMA RemovedHolds ==
  ASSUME NEW data \in Seq(Records), NEW iid \in Ids
  PROVE  LET r == Flat!Removed(data, iid)
         IN  /\ r \in Seq(Records)
             /\ \A rec \in Records : rec.id # iid /\ Holds(data, rec) => Holds(r, rec)
<1> DEFINE P == Flat!Positions(data, iid)
           k == Min(P)
           r == RemoveAt(data, k)
<1>1. P = {i \in DOMAIN data : data[i].id = iid} /\ Len(data) \in Nat /\ DOMAIN data = 1 .. Len(data)
  BY LenProperties DEF Flat!Positions
<1>2. Flat!Removed(data, iid) = IF P = {} THEN data ELSE r
  BY Zenon DEF Flat!Removed, Flat!RemoveAt, Flat!Min, RemoveAt, Min
<1>3. CASE P = {}
  BY <1>2, <1>3
<1>4. CASE P # {}
  <2>1. P \in SUBSET Nat
    BY <1>1
  <2>2. k \in P
    <3> HIDE DEF P
    <3>1. \E m \in P : \A n \in P : m <= n
      BY <1>4, <2>1, LeastNatural
    <3> QED BY <3>1 DEF Min
  <2>3. k \in DOMAIN data /\ data[k].id = iid
    BY <1>1, <2>2
  <2> HIDE DEF k
  <2>4. /\ r \in Seq(Records)
        /\ Len(r) = Len(data) - 1
        /\ \A j \in 1 .. (Len(data) - 1) : r[j] = IF j < k THEN data[j] ELSE data[j + 1]
    BY <2>3, RemoveAtElements
  <2>5. DOMAIN r = 1 .. (Len(data) - 1)
    BY <2>4, LenProperties
  <2> HIDE DEF r
  <2>6. ASSUME NEW rec \in Records, rec.id # iid, Holds(data, rec) PROVE Holds(r, rec)
    <3>1. PICK i \in DOMAIN data : data[i] = rec
      BY <2>6 DEF Holds
    <3>2. i # k
      BY <2>3, <2>6, <3>1
    <3>3. CASE i < k
      <4>1. i \in DOMAIN r /\ r[i] = data[i]
        BY <1>1, <2>3, <2>4, <2>5, <3>3
      <4> QED BY <3>1, <4>1 DEF Holds
    <3>4. CASE k < i
      <4>1. i - 1 \in DOMAIN r /\ ~(i - 1 < k) /\ (i - 1) + 1 = i
        BY <1>1, <2>3, <2>5, <3>4
      <4>2. r[i - 1] = data[i]
        BY <2>4, <2>5, <4>1
      <4> QED BY <3>1, <4>1, <4>2 DEF Holds
    <3> QED BY <1>1, <2>3, <3>2, <3>3, <3>4
  <2> QED BY <1>2, <1>4, <2>4, <2>6
<1> QED
  BY <1>3, <1>4

-----------------------------------------------------------------------------
(* The invariant holds *)

LEMMA IndexInit == MCInit => IndexInv
<1> SUFFICES ASSUME MCInit PROVE IndexInv
  OBVIOUS
<1>1. /\ nodes = << >> /\ entry_id = 0 /\ max_level = 0 /\ has_entry = FALSE
      /\ count = 0 /\ hazards = {} /\ flat = << >>
  BY DEF MCInit, Init, Flat!Empty
<1>2. DOMAIN nodes = {}
  BY <1>1
<1>3. Graph(nodes)
  <2>1. Numbered({})
    <3>1. {} = 0 .. (0 - 1)
      OBVIOUS
    <3> QED BY <3>1 DEF Numbered
  <2>2. nodes \in [DOMAIN nodes -> Nodes(DOMAIN nodes)]
    BY <1>1
  <2> QED BY <1>2, <2>1, <2>2 DEF Graph
<1>4. Live(nodes) = {} /\ Cardinality(Live(nodes)) = 0
  <2>1. Live(nodes) = {}
    BY <1>2 DEF Live
  <2> QED BY <2>1, FS_EmptySet
<1>5. 0 \in Ids /\ MaxLevel \in Nat
  BY HNSWAssumption
<1>6. Shape
  <2>1. /\ DOMAIN nodes \subseteq Ids /\ entry_id \in Ids /\ max_level \in 0 .. MaxLevel
        /\ count \in Nat /\ hazards \subseteq Hazards
    BY <1>1, <1>2, <1>5
  <2>2. has_entry \in BOOLEAN /\ ~has_entry
    BY <1>1
  <2> QED BY <1>2, <1>3, <2>1, <2>2 DEF Shape
<1>7. Fit
  BY <1>1, <1>2 DEF Fit
<1>8. Counts
  BY <1>1, <1>4 DEF Counts
<1>9. Held
  BY <1>1, <1>4 DEF Held
<1> QED
  BY <1>6, <1>7, <1>8, <1>9 DEF IndexInv

LEMMA ReloadKeeps == IndexInv /\ Reload /\ UNCHANGED flat => IndexInv'
<1> SUFFICES ASSUME IndexInv, Reload, UNCHANGED flat PROVE IndexInv'
  OBVIOUS
<1>1. /\ nodes' = nodes /\ entry_id' = entry_id /\ max_level' = max_level
      /\ has_entry' = has_entry /\ flat' = flat
      /\ count' = Cardinality(Live(nodes)) /\ hazards' = hazards \ {"miscount"}
  BY DEF Reload, Live
<1>2. count' \in Nat
  BY <1>1, LiveFacts DEF IndexInv, Shape
<1>3. Shape'
  BY <1>1, <1>2 DEF IndexInv, Shape
<1>4. Fit'
  BY <1>1 DEF IndexInv, Fit
<1>5. Counts'
  BY <1>1, <1>2 DEF Counts
<1>6. Held'
  BY <1>1 DEF IndexInv, Held
<1> QED
  BY <1>3, <1>4, <1>5, <1>6 DEF IndexInv

LEMMA InsertFirstKeeps ==
  ASSUME IndexInv, NEW iid \in Ids, NEW vec \in Vecs, NEW level \in 0 .. MaxLevel,
         InsertFirst(iid, vec, level), flat' = Flat!Inserted(flat, iid, vec)
  PROVE  IndexInv'
<1> DEFINE g == WithNode(iid, vec, level)
<1>1. /\ nodes' = g /\ entry_id' = iid /\ max_level' = level /\ has_entry' = TRUE
      /\ count' = 1 /\ hazards' = hazards /\ MayInsert(iid) /\ Shape
  BY DEF InsertFirst, IndexInv
<1>2. DOMAIN nodes = {}
  BY DEF InsertFirst, IndexInv, Shape
<1>3. Graph(g) /\ Unlinked(g, iid) /\ Level(g[iid]) = level /\ g \in Likes(g)
  BY <1>1, WithNodeFacts, WholeIsLike
<1>4. /\ Graph(g) /\ DOMAIN g = DOMAIN nodes \cup {iid} /\ DOMAIN g \subseteq Ids
      /\ g[iid].vec = vec /\ Live(g) = Live(nodes) \cup {iid}
      /\ Cardinality(Live(g)) = Cardinality(Live(nodes)) + 1
  <2>1. OneMore(g, iid, vec, level)
    BY <1>1, <1>3, OneMoreNode
  <2> HIDE DEF g
  <2> QED BY <2>1 DEF OneMore
<1>5. /\ \A k \in Nat : Links(g, iid, k) = << >>
  BY <1>3 DEF Unlinked
<1> HIDE DEF g
<1>6. DOMAIN g = {iid} /\ Live(nodes) = {} /\ Live(g) = {iid} /\ Cardinality(Live(g)) = 1
  <2>1. Live(nodes) = {}
    BY <1>2 DEF Live
  <2>2. Cardinality(Live(nodes)) = 0
    BY <2>1, FS_EmptySet
  <2> QED BY <1>2, <1>4, <2>1, <2>2
<1>7. Shape'
  BY <1>1, <1>4, <1>6 DEF Shape
<1>8. ASSUME NEW k \in Nat PROVE GoodList(g, iid, k)
  <2>1. ToSet(<< >>) = {} /\ Len(<< >>) = 0 /\ IsInjective(<< >>)
    BY DEF ToSet, IsInjective
  <2>2. MaxLinks(k) \in Nat
    BY MaxLinksType
  <2> QED BY <1>5, <2>1, <2>2 DEF GoodList
<1>9. Fit'
  BY <1>1, <1>3, <1>6, <1>8, HNSWAssumption DEF Fit
<1>10. Counts'
  BY <1>1, <1>6 DEF Counts
<1>11. Held'
  BY <1>1, <1>4, <1>6, InsertedHolds DEF IndexInv, Held
<1> QED
  BY <1>7, <1>9, <1>10, <1>11 DEF IndexInv

LEMMA InsertKeeps ==
  ASSUME IndexInv, NEW iid \in Ids, NEW vec \in Vecs, NEW level \in 0 .. MaxLevel,
         Insert(iid, vec, level), flat' = Flat!Inserted(flat, iid, vec)
  PROVE  IndexInv'
<1> DEFINE g == WithNode(iid, vec, level)
           h == LinkedFrom(g, iid, TopLayer(level))
<1>1. /\ nodes' = h /\ has_entry /\ has_entry' = has_entry /\ count' = Cardinality(DOMAIN h)
      /\ entry_id' = IF level > max_level THEN iid ELSE entry_id
      /\ max_level' = IF level > max_level THEN level ELSE max_level
      /\ MayInsert(iid) /\ Shape /\ InBounds(g, iid, TopLayer(level))
  BY DEF Insert, IndexInv
<1>2. /\ hazards \subseteq hazards' /\ hazards' \subseteq Hazards
      /\ iid \in DOMAIN nodes => "replaced" \in hazards'
      /\ (\E id \in DOMAIN h : h[id].deleted) => "miscount" \in hazards'
  <2>1. hazards' = hazards \cup (IF iid \in DOMAIN nodes THEN {"replaced"} ELSE {})
                          \cup (IF CutsLinks(g, iid, TopLayer(level)) THEN {"cut"} ELSE {})
                          \cup (IF \E id \in DOMAIN h : h[id].deleted THEN {"miscount"} ELSE {})
    BY DEF Insert
  <2>2. hazards \subseteq Hazards
    BY <1>1 DEF Shape
  <2> HIDE DEF g, h
  <2> QED BY <2>1, <2>2 DEF Hazards
<1>3. /\ h \in Likes(g)
      /\ /\ iid \notin DOMAIN nodes
         /\ \A id \in DOMAIN nodes, k \in Nat : GoodList(nodes, id, k)
         => \A id \in DOMAIN h, k \in Nat : GoodList(h, id, k)
  BY <1>1, LinkedNodes
<1>4. OneMore(h, iid, vec, level)
  <2> HIDE DEF h
  <2> QED BY <1>1, <1>3, OneMoreNode
<1> HIDE DEF g, h
<1>5. /\ Graph(h) /\ DOMAIN h = DOMAIN nodes \cup {iid} /\ DOMAIN h \subseteq Ids
      /\ h[iid].vec = vec /\ Level(h[iid]) = level
      /\ \A id \in DOMAIN nodes : id # iid => /\ h[id].vec = nodes[id].vec
                                              /\ Level(h[id]) = Level(nodes[id])
      /\ iid \notin Live(nodes) /\ Live(h) = Live(nodes) \cup {iid}
  BY <1>4 DEF OneMore
<1>6. Cardinality(DOMAIN h) \in Nat /\ Cardinality(Live(h)) <= Cardinality(DOMAIN h)
  BY <1>5, LiveFacts
<1>7. entry_id \in DOMAIN nodes /\ max_level \in 0 .. MaxLevel /\ level \in Nat
      /\ max_level \in Nat /\ MaxLevel \in Nat
  BY <1>1, HNSWAssumption DEF Shape
<1>8. Shape'
  <2>1. /\ entry_id' \in DOMAIN h /\ max_level' \in 0 .. MaxLevel
        /\ count' \in Nat /\ hazards' \subseteq Hazards
    BY <1>1, <1>2, <1>5, <1>6, <1>7
  <2>2. /\ DOMAIN h # {} /\ entry_id' \in Ids
    BY <1>5, <2>1
  <2> QED BY <1>1, <1>5, <2>1, <2>2 DEF Shape
<1>9. Fit'
  <2>1. SUFFICES ASSUME hazards' \cap {"replaced", "undefined"} = {}
                 PROVE  /\ \A id \in DOMAIN h, k \in Nat : GoodList(h, id, k)
                        /\ max_level' = Level(h[entry_id'])
                        /\ \A id \in DOMAIN h : Level(h[id]) <= max_level'
    BY <1>1 DEF Fit
  <2>2. iid \notin DOMAIN nodes /\ hazards \cap {"replaced", "undefined"} = {}
    BY <1>2, <2>1
  <2>3. /\ \A id \in DOMAIN nodes, k \in Nat : GoodList(nodes, id, k)
        /\ max_level = Level(nodes[entry_id])
        /\ \A id \in DOMAIN nodes : Level(nodes[id]) <= max_level
    BY <1>1, <2>2 DEF IndexInv, Fit
  <2>4. \A id \in DOMAIN h, k \in Nat : GoodList(h, id, k)
    BY <1>3, <2>2, <2>3
  <2>5. \A id \in DOMAIN nodes : Level(h[id]) = Level(nodes[id]) /\ Level(h[id]) \in Nat
    BY <1>5, <2>2, GraphNode
  <2>6. max_level' = Level(h[entry_id'])
    <3>1. CASE level > max_level
      BY <1>1, <1>5, <3>1
    <3>2. CASE ~(level > max_level)
      BY <1>1, <1>7, <2>3, <2>5, <3>2
    <3> QED BY <3>1, <3>2
  <2>7. ASSUME NEW id \in DOMAIN h PROVE Level(h[id]) <= max_level'
    <3>1. max_level <= max_level' /\ level <= max_level' /\ max_level' \in Nat
      BY <1>1, <1>7
    <3>2. CASE id = iid
      BY <1>5, <3>1, <3>2
    <3>3. CASE id # iid
      <4>1. id \in DOMAIN nodes /\ Level(h[id]) <= max_level /\ Level(h[id]) \in Nat
        BY <1>5, <2>3, <2>5, <3>3
      <4> QED BY <1>7, <3>1, <4>1
    <3> QED BY <3>2, <3>3
  <2> QED BY <2>4, <2>6, <2>7
<1>10. Counts'
  <2>1. ASSUME "miscount" \notin hazards' PROVE Live(h) = DOMAIN h
    BY <1>2, <2>1 DEF Live
  <2> QED BY <1>1, <1>6, <2>1 DEF Counts
<1>11. Held'
  <2> DEFINE r == Flat!Inserted(flat, iid, vec)
  <2>1. /\ r \in Seq(Records)
        /\ Holds(r, [id |-> iid, vec |-> vec])
        /\ \A rec \in Records : Holds(flat, rec) => Holds(r, rec)
    BY InsertedHolds DEF IndexInv, Held
  <2> HIDE DEF r
  <2>2. ASSUME NEW id \in Live(h) PROVE Holds(r, [id |-> id, vec |-> h[id].vec])
    <3>1. CASE id = iid
      BY <1>5, <2>1, <3>1
    <3>2. CASE id # iid
      <4>1. id \in Live(nodes) /\ id \in DOMAIN nodes /\ h[id].vec = nodes[id].vec
        BY <1>5, <3>2 DEF Live
      <4>2. [id |-> id, vec |-> nodes[id].vec] \in Records
        <5>1. nodes[id].vec \in Vecs /\ id \in Ids
          BY <1>1, <4>1, GraphNode DEF Shape
        <5> QED BY <5>1 DEF Records
      <4>3. Holds(flat, [id |-> id, vec |-> nodes[id].vec])
        BY <4>1 DEF IndexInv, Held
      <4> QED BY <2>1, <4>1, <4>2, <4>3
    <3> QED BY <3>1, <3>2
  <2> QED BY <1>1, <2>1, <2>2 DEF Held, r
<1> QED
  BY <1>8, <1>9, <1>10, <1>11 DEF IndexInv

LEMMA InsertUndefinedKeeps ==
  ASSUME IndexInv, NEW iid \in Ids, NEW vec \in Vecs, NEW level \in 0 .. MaxLevel,
         InsertUndefined(iid, vec, level), flat' = Flat!Inserted(flat, iid, vec)
  PROVE  IndexInv'
<1>1. /\ nodes' = nodes /\ entry_id' = entry_id /\ max_level' = max_level
      /\ has_entry' = has_entry /\ count' = count /\ hazards' = hazards \cup {"undefined"}
  BY DEF InsertUndefined
<1>2. Shape'
  BY <1>1 DEF IndexInv, Shape, Hazards
<1>3. Fit'
  BY <1>1 DEF Fit
<1>4. Counts'
  BY <1>1 DEF IndexInv, Counts
<1>5. Held'
  <2>1. /\ flat' \in Seq(Records)
        /\ \A rec \in Records : Holds(flat, rec) => Holds(flat', rec)
    BY InsertedHolds DEF IndexInv, Held
  <2>2. ASSUME NEW id \in Live(nodes) PROVE Holds(flat', [id |-> id, vec |-> nodes[id].vec])
    <3>1. [id |-> id, vec |-> nodes[id].vec] \in Records
      <4>1. id \in DOMAIN nodes
        BY DEF Live
      <4>2. nodes[id].vec \in Vecs /\ id \in Ids
        BY <4>1, GraphNode DEF IndexInv, Shape
      <4> QED BY <4>2 DEF Records
    <3>2. Holds(flat, [id |-> id, vec |-> nodes[id].vec])
      BY DEF IndexInv, Held
    <3> QED BY <2>1, <3>1, <3>2
  <2> QED BY <1>1, <2>1, <2>2 DEF Held
<1> QED
  BY <1>2, <1>3, <1>4, <1>5 DEF IndexInv

(* Marking a node changes nothing else of the graph. *)
LEMMA MarkedFacts ==
  ASSUME NEW g, Graph(g), NEW iid \in DOMAIN g, ~g[iid].deleted
  PROVE  LET h == [g EXCEPT ![iid].deleted = TRUE]
         IN  /\ Graph(h) /\ DOMAIN h = DOMAIN g
             /\ \A id \in DOMAIN g : /\ h[id].vec = g[id].vec
                                     /\ h[id].nbrs = g[id].nbrs
                                     /\ Level(h[id]) = Level(g[id])
             /\ \A id \in DOMAIN g : id # iid => h[id] = g[id]
             /\ h[iid].deleted = TRUE
             /\ iid \in Live(g) /\ Live(h) = Live(g) \ {iid}
             /\ Cardinality(Live(h)) = Cardinality(Live(g)) - 1
<1> DEFINE D == DOMAIN g
           h == [g EXCEPT ![iid].deleted = TRUE]
           node == [g[iid] EXCEPT !.deleted = TRUE]
<1>1. g[iid] \in Nodes(D) /\ g \in [D -> Nodes(D)]
  BY GraphNode DEF Graph
<1>2. /\ node \in Nodes(D) /\ node.vec = g[iid].vec /\ node.nbrs = g[iid].nbrs
      /\ node.deleted = TRUE
  BY <1>1 DEF Nodes
<1>3. Level(node) = Level(g[iid])
  BY <1>2 DEF Level
<1> HIDE DEF node
<1>4. h \in [D -> Nodes(D)] /\ DOMAIN h = D /\ h[iid] = node /\ \A id \in D : id # iid => h[id] = g[id]
  BY <1>1, <1>2 DEF node
<1> HIDE DEF h
<1>5. ASSUME NEW id \in D
      PROVE  h[id].vec = g[id].vec /\ h[id].nbrs = g[id].nbrs /\ Level(h[id]) = Level(g[id])
  <2>1. CASE id = iid
    BY <1>2, <1>3, <1>4, <2>1
  <2>2. CASE id # iid
    BY <1>4, <2>2
  <2> QED BY <2>1, <2>2
<1>6. Graph(h)
  <2>1. \A id \in D : Level(h[id]) \in 0 .. MaxLevel
    BY <1>5, GraphNode
  <2> QED BY <1>4, <2>1 DEF Graph
<1>7. iid \in Live(g) /\ Live(h) = Live(g) \ {iid}
  BY <1>2, <1>4 DEF Live
<1>8. Cardinality(Live(h)) = Cardinality(Live(g)) - 1
  <2>1. IsFiniteSet(Live(g))
    BY LiveFacts
  <2> QED BY <1>7, <2>1, FS_RemoveElement
<1> QED
  BY <1>2, <1>4, <1>5, <1>6, <1>7, <1>8 DEF h

LEMMA RemoveNodeKeeps ==
  ASSUME IndexInv, NEW iid \in Ids, RemoveNode(iid), flat' = Flat!Removed(flat, iid)
  PROVE  IndexInv'
<1> DEFINE h == [nodes EXCEPT ![iid].deleted = TRUE]
<1>1. /\ nodes' = h /\ entry_id' = entry_id /\ max_level' = max_level
      /\ has_entry' = has_entry /\ count' = count - 1 /\ hazards' = hazards \cup {"removed"}
      /\ iid \in DOMAIN nodes /\ ~nodes[iid].deleted /\ Graph(nodes)
  BY DEF RemoveNode, Removable, IndexInv, Shape
<1>2. /\ Graph(h) /\ DOMAIN h = DOMAIN nodes
      /\ \A id \in DOMAIN nodes : /\ h[id].vec = nodes[id].vec
                                  /\ h[id].nbrs = nodes[id].nbrs
                                  /\ Level(h[id]) = Level(nodes[id])
      /\ iid \in Live(nodes) /\ Live(h) = Live(nodes) \ {iid}
      /\ Cardinality(Live(h)) = Cardinality(Live(nodes)) - 1
  BY <1>1, MarkedFacts
<1> HIDE DEF h
<1>3. /\ Cardinality(Live(h)) \in Nat /\ Cardinality(Live(nodes)) \in Nat
      /\ count \in Nat /\ count >= Cardinality(Live(nodes))
  BY <1>1, <1>2, LiveFacts DEF IndexInv, Shape, Counts
<1>4. Shape'
  <2>1. count' \in Nat
    BY <1>1, <1>2, <1>3
  <2>2. hazards' \subseteq Hazards
    BY <1>1 DEF IndexInv, Shape, Hazards
  <2> QED BY <1>1, <1>2, <2>1, <2>2 DEF IndexInv, Shape
<1>5. Fit'
  <2>1. SUFFICES ASSUME hazards' \cap {"replaced", "undefined"} = {}
                 PROVE  /\ \A id \in DOMAIN h, k \in Nat : GoodList(h, id, k)
                        /\ has_entry => /\ max_level = Level(h[entry_id])
                                        /\ \A id \in DOMAIN h : Level(h[id]) <= max_level
    BY <1>1 DEF Fit
  <2>2. /\ \A id \in DOMAIN nodes, k \in Nat : GoodList(nodes, id, k)
        /\ has_entry => /\ max_level = Level(nodes[entry_id])
                        /\ \A id \in DOMAIN nodes : Level(nodes[id]) <= max_level
    BY <1>1, <2>1 DEF IndexInv, Fit
  <2>3. ASSUME NEW id \in DOMAIN nodes, NEW k \in Nat PROVE GoodList(h, id, k)
    <3>1. Links(h, id, k) = Links(nodes, id, k)
      BY <1>2 DEF Links
    <3>2. ToSet(Links(nodes, id, k)) \subseteq DOMAIN nodes
      <4>1. Links(nodes, id, k) \in Seq(DOMAIN nodes)
        BY <1>1, LinksType
      <4> QED BY <4>1, LenProperties DEF ToSet
    <3>3. GoodList(nodes, id, k)
      BY <2>2
    <3> QED BY <1>2, <3>1, <3>2, <3>3 DEF GoodList
  <2>4. has_entry => entry_id \in DOMAIN nodes
    BY DEF IndexInv, Shape
  <2> QED BY <1>2, <2>2, <2>3, <2>4
<1>6. Counts'
  <2>1. "miscount" \notin hazards' => "miscount" \notin hazards
    BY <1>1
  <2>2. "miscount" \notin hazards => count = Cardinality(Live(nodes))
    BY DEF IndexInv, Counts
  <2>3. count - 1 >= Cardinality(Live(h))
    BY <1>2, <1>3
  <2> QED BY <1>1, <1>2, <2>1, <2>2, <2>3 DEF Counts
<1>7. Held'
  <2>1. /\ flat' \in Seq(Records)
        /\ \A rec \in Records : rec.id # iid /\ Holds(flat, rec) => Holds(flat', rec)
    BY RemovedHolds DEF IndexInv, Held
  <2>2. ASSUME NEW id \in Live(h) PROVE Holds(flat', [id |-> id, vec |-> h[id].vec])
    <3>1. id \in Live(nodes) /\ id # iid /\ id \in DOMAIN nodes /\ h[id].vec = nodes[id].vec
      BY <1>2 DEF Live
    <3>2. [id |-> id, vec |-> nodes[id].vec] \in Records
      <4>1. nodes[id].vec \in Vecs /\ id \in Ids
        BY <3>1, GraphNode DEF IndexInv, Shape
      <4> QED BY <4>1 DEF Records
    <3>3. Holds(flat, [id |-> id, vec |-> nodes[id].vec])
      BY <3>1 DEF IndexInv, Held
    <3> QED BY <2>1, <3>1, <3>2, <3>3
  <2> QED BY <1>1, <2>1, <2>2 DEF Held
<1> QED
  BY <1>4, <1>5, <1>6, <1>7 DEF IndexInv

LEMMA IndexNext == IndexInv /\ [MCNext]_<<vars, flat>> => IndexInv'
<1> SUFFICES ASSUME IndexInv, [MCNext]_<<vars, flat>> PROVE IndexInv'
  OBVIOUS
<1>1. CASE Reload /\ UNCHANGED flat
  BY <1>1, ReloadKeeps
<1>2. ASSUME NEW iid \in Ids, NEW vec \in Vecs, NEW level \in 0 .. MaxLevel,
             InsertFirst(iid, vec, level), flat' = Flat!Inserted(flat, iid, vec)
      PROVE  IndexInv'
  BY <1>2, InsertFirstKeeps
<1>3. ASSUME NEW iid \in Ids, NEW vec \in Vecs, NEW level \in 0 .. MaxLevel,
             Insert(iid, vec, level), flat' = Flat!Inserted(flat, iid, vec)
      PROVE  IndexInv'
  BY <1>3, InsertKeeps
<1>4. ASSUME NEW iid \in Ids, NEW vec \in Vecs, NEW level \in 0 .. MaxLevel,
             InsertUndefined(iid, vec, level), flat' = Flat!Inserted(flat, iid, vec)
      PROVE  IndexInv'
  BY <1>4, InsertUndefinedKeeps
<1>5. ASSUME NEW iid \in Ids, RemoveNode(iid), flat' = Flat!Removed(flat, iid)
      PROVE  IndexInv'
  BY <1>5, RemoveNodeKeeps
<1>6. CASE UNCHANGED <<vars, flat>>
  <2>1. /\ nodes' = nodes /\ entry_id' = entry_id /\ max_level' = max_level
        /\ has_entry' = has_entry /\ count' = count /\ hazards' = hazards /\ flat' = flat
    BY <1>6 DEF vars
  <2> QED BY <2>1 DEF IndexInv, Shape, Fit, Counts, Held
<1> QED
  BY <1>1, <1>2, <1>3, <1>4, <1>5, <1>6 DEF MCNext

LEMMA IndexCorrect == MCSpec => []IndexInv
  BY IndexInit, IndexNext, PTL DEF MCSpec

-----------------------------------------------------------------------------
(* Theorems *)

(* The nodes, the entry point and the count have their types, whatever the order of
   calls; the count never goes below 0, though Insert miscounts (hnsw.cpp:133, 195). *)
THEOREM IndexTypeCorrect == MCSpec => []TypeOK
<1>1. ASSUME IndexInv PROVE TypeOK
  <2>1. \A id \in DOMAIN nodes :
          /\ nodes[id].vec \in Vecs
          /\ nodes[id].deleted \in BOOLEAN
          /\ Level(nodes[id]) \in 0 .. MaxLevel
          /\ nodes[id].nbrs \in Seq(Seq(DOMAIN nodes))
    BY <1>1, GraphNode DEF IndexInv, Shape
  <2> QED BY <1>1, <2>1 DEF IndexInv, Shape, TypeOK
<1> QED
  BY <1>1, IndexCorrect, PTL

(* Whatever the vectors, the levels and the parameters, the graph stays one that can
   be searched: links lead to other nodes that have their layer, each once, lists are
   within their limits, and the entry point is a node of the highest level
   (hnsw.cpp:145-183). *)
THEOREM GraphIsSearchable == MCSpec => []GraphStructure
<1>1. ASSUME IndexInv PROVE GraphStructure
  <2>1. SUFFICES ASSUME hazards \cap {"replaced", "undefined"} = {}
                 PROVE
                   /\ \A id \in DOMAIN nodes : \A l \in 0 .. Level(nodes[id]) :
                        LET list == Links(nodes, id, l)
                        IN  /\ IsInjective(list)
                            /\ Len(list) <= MaxLinks(l)
                            /\ \A nb \in ToSet(list) : nb # id /\ l <= Level(nodes[nb])
                   /\ has_entry <=> DOMAIN nodes # {}
                   /\ has_entry => /\ max_level = Level(nodes[entry_id])
                                   /\ \A id \in DOMAIN nodes : Level(nodes[id]) <= max_level
    BY DEF GraphStructure
  <2>2. /\ \A id \in DOMAIN nodes, k \in Nat : GoodList(nodes, id, k)
        /\ has_entry => /\ max_level = Level(nodes[entry_id])
                        /\ \A id \in DOMAIN nodes : Level(nodes[id]) <= max_level
    BY <1>1, <2>1 DEF IndexInv, Fit
  <2>3. has_entry <=> DOMAIN nodes # {}
    BY <1>1 DEF IndexInv, Shape
  <2>4. ASSUME NEW id \in DOMAIN nodes, NEW l \in 0 .. Level(nodes[id])
        PROVE  /\ IsInjective(Links(nodes, id, l))
               /\ Len(Links(nodes, id, l)) <= MaxLinks(l)
               /\ \A nb \in ToSet(Links(nodes, id, l)) : nb # id /\ l <= Level(nodes[nb])
    <3>1. l \in Nat
      BY <1>1, GraphNode DEF IndexInv, Shape
    <3> QED BY <2>2, <3>1 DEF GoodList
  <2> QED BY <2>2, <2>3, <2>4
<1> QED
  BY <1>1, IndexCorrect, PTL

(* A search returns vectors that the flat index holds too, at their distance, each
   once, in order, and no more than k of them: no removed node comes back, whatever
   was cut, replaced or saved and loaded (hnsw.cpp:51-111, 203-218). *)
THEOREM SearchesReturnLiveVectors == MCSpec => []SearchReturnsLive
<1>1. ASSUME IndexInv PROVE SearchReturnsLive
  <2>1. ASSUME NEW q \in Vecs, NEW k \in Ks
        PROVE  LET found == Search(q, k, 0)
               IN  /\ Len(found) <= k
                   /\ \A i \in DOMAIN found : \A j \in 1 .. (i - 1) : Before(found[j], found[i])
                   /\ ToSet(found) \subseteq {Flat!Pair(flat[i], q) : i \in DOMAIN flat}
    <3> DEFINE found == Search(q, k, 0)
    <3>0. k \in Nat /\ 0 <= k
      BY DEF Ks
    <3>1. CASE ~has_entry
      <4>1. found = << >>
        BY <3>1 DEF Search
      <4>2. Len(<< >>) = 0 /\ DOMAIN << >> = {} /\ ToSet(<< >>) = {}
        BY DEF ToSet
      <4> HIDE DEF found
      <4> QED BY <3>0, <4>1, <4>2 DEF found
    <3>2. CASE has_entry
      <4>1. Graph(nodes) /\ entry_id \in DOMAIN nodes /\ max_level \in Nat
        BY <1>1, <3>2, HNSWAssumption DEF IndexInv, Shape
      <4>2. Finds(nodes, q, DOMAIN nodes, k, found)
        BY <3>0, <3>2, <4>1, SearchFinds
      <4> HIDE DEF found
      <4>3. /\ found \in Seq(Nat \X DOMAIN nodes) /\ Ordered(found) /\ Len(found) <= k
            /\ \A x \in ToSet(found) : /\ x[2] \in DOMAIN nodes
                                       /\ ~nodes[x[2]].deleted
                                       /\ x = PairOf(nodes, q, x[2])
        BY <4>2 DEF Finds
      <4>4. DOMAIN found = 1 .. Len(found) /\ Len(found) \in Nat
        BY <4>3, LenProperties
      <4>5. \A i \in DOMAIN found : \A j \in 1 .. (i - 1) : Before(found[j], found[i])
        <5>1. \A i \in DOMAIN found : \A j \in 1 .. (i - 1) : j \in DOMAIN found /\ j < i
          BY <4>4
        <5> QED BY <4>3, <5>1 DEF Ordered
      <4>6. ASSUME NEW x \in ToSet(found) PROVE \E i \in DOMAIN flat : x = Flat!Pair(flat[i], q)
        <5> DEFINE id == x[2]
        <5>1. id \in Live(nodes) /\ x = <<Dist[<<q, nodes[id].vec>>], id>>
          BY <4>3 DEF Live, PairOf, Distance
        <5> HIDE DEF id
        <5>2. PICK i \in DOMAIN flat : flat[i] = [id |-> id, vec |-> nodes[id].vec]
          BY <1>1, <5>1 DEF IndexInv, Held, Holds
        <5>3. flat[i].id = id /\ flat[i].vec = nodes[id].vec
          BY <5>2
        <5>4. Flat!Pair(flat[i], q) = <<Dist[<<q, flat[i].vec>>], flat[i].id>>
          BY DEF Flat!Pair
        <5> QED BY <5>1, <5>3, <5>4
      <4> QED BY <4>3, <4>5, <4>6 DEF found
    <3> QED BY <3>1, <3>2
  <2> QED BY <2>1 DEF SearchReturnsLive
<1> QED
  BY <1>1, IndexCorrect, PTL

-----------------------------------------------------------------------------
(* The abstract index *)

(* What the abstract index stores for graph g. *)
Stored(g) == [id \in Ids |-> IF id \in DOMAIN g /\ ~g[id].deleted THEN g[id].vec ELSE NoVec]

(* An insertion that the count takes for what it is. *)
LEMMA InsertionIsAbstract ==
  ASSUME IndexInv, NEW iid \in Ids, NEW vec \in Vecs, NEW level,
         OneMore(nodes', iid, vec, level),
         count = Cardinality(Live(nodes)), count' = Cardinality(Live(nodes'))
  PROVE  Abstract!Insert(iid, vec)
<1> DEFINE old == Stored(nodes)
           new == Stored(nodes')
<1>1. PICK h : h = nodes'
  OBVIOUS
<1>2. /\ DOMAIN h = DOMAIN nodes \cup {iid}
      /\ h[iid].vec = vec /\ h[iid].deleted = FALSE
      /\ \A id \in DOMAIN nodes : id # iid => /\ h[id].vec = nodes[id].vec
                                              /\ h[id].deleted = nodes[id].deleted
      /\ iid \notin Live(nodes)
      /\ Cardinality(Live(h)) = Cardinality(Live(nodes)) + 1
  BY <1>1 DEF OneMore
<1>3. old[iid] = NoVec
  BY <1>2 DEF Stored, Live
<1>4. new = [old EXCEPT ![iid] = vec]
  <2>1. Stored(h) = [old EXCEPT ![iid] = vec]
    BY <1>2 DEF Stored
  <2> QED BY <1>1, <2>1
<1>5. count' = count + 1
  BY <1>1, <1>2
<1> QED
  BY <1>3, <1>4, <1>5 DEF Abstract!Insert, Stored

(* Insert and Remove are those of an index that knows vectors and ids alone, for ids
   that come again too, as long as the count has not been spoilt by an Insert that
   counts removed nodes (hnsw.cpp:133), and again from the next Load on
   (hnsw_io.cpp:199-202). *)
THEOREM IndexRefinesVectorIndex == MCSpec => ImplementsVectorIndex
<1>1. ASSUME MCInit PROVE Abstract!Init
  <2>1. nodes = << >> /\ count = 0 /\ DOMAIN << >> = {}
    BY <1>1 DEF MCInit, Init
  <2> QED BY <2>1 DEF Abstract!Init
<1>2. ASSUME IndexInv, [MCNext]_<<vars, flat>>
      PROVE  [(hazards \cup hazards') \cap {"miscount", "undefined"} = {}
                => Abstract!Next \/ UNCHANGED Abstract!indexVars]_vars
  <2> SUFFICES ASSUME (hazards \cup hazards') \cap {"miscount", "undefined"} = {}
               PROVE  Abstract!Next \/ UNCHANGED Abstract!indexVars
    OBVIOUS
  <2>0. /\ "miscount" \notin hazards /\ "miscount" \notin hazards'
        /\ "undefined" \notin hazards'
    OBVIOUS
  <2>1. count = Cardinality(Live(nodes)) /\ Shape
    BY <1>2, <2>0 DEF IndexInv, Counts
  <2>2. ASSUME nodes' = nodes, count' = count PROVE UNCHANGED Abstract!indexVars
    BY <2>2 DEF Abstract!indexVars
  <2>3. CASE Reload /\ UNCHANGED flat
    <3>1. nodes' = nodes /\ count' = count
      BY <2>1, <2>3 DEF Reload, Live
    <3> QED BY <2>2, <3>1
  <2>4. ASSUME NEW iid \in Ids, NEW vec \in Vecs, NEW level \in 0 .. MaxLevel,
               InsertFirst(iid, vec, level)
        PROVE  Abstract!Next
    <3> DEFINE g == WithNode(iid, vec, level)
    <3>1. nodes' = g /\ count' = 1 /\ MayInsert(iid)
      BY <2>4 DEF InsertFirst
    <3>2. OneMore(g, iid, vec, level)
      <4>1. Graph(g)
        BY <2>1, <3>1, WithNodeFacts
      <4>2. g \in Likes(g)
        BY <4>1, WholeIsLike
      <4> QED BY <2>1, <3>1, <4>2, OneMoreNode
    <3> HIDE DEF g
    <3>3. Cardinality(Live(g)) = 1
      <4>1. DOMAIN nodes = {}
        BY <2>1, <2>4 DEF InsertFirst, Shape
      <4>2. Live(nodes) = {} /\ Cardinality({}) = 0
        BY <4>1, FS_EmptySet DEF Live
      <4> QED BY <3>2, <4>2 DEF OneMore
    <3>4. Abstract!Insert(iid, vec)
      BY <1>2, <2>1, <3>1, <3>2, <3>3, InsertionIsAbstract
    <3> QED BY <3>4 DEF Abstract!Next
  <2>5. ASSUME NEW iid \in Ids, NEW vec \in Vecs, NEW level \in 0 .. MaxLevel,
               Insert(iid, vec, level)
        PROVE  Abstract!Next
    <3> DEFINE g == WithNode(iid, vec, level)
               h == LinkedFrom(g, iid, TopLayer(level))
    <3>1. /\ nodes' = h /\ count' = Cardinality(DOMAIN h) /\ MayInsert(iid) /\ has_entry
          /\ InBounds(g, iid, TopLayer(level))
          /\ (\E id \in DOMAIN h : h[id].deleted) => "miscount" \in hazards'
      BY <2>5 DEF Insert
    <3>2. OneMore(h, iid, vec, level)
      <4>1. h \in Likes(g)
        BY <2>1, <3>1, LinkedNodes
      <4> HIDE DEF h
      <4> QED BY <2>1, <3>1, <4>1, OneMoreNode
    <3> HIDE DEF h
    <3>3. Live(h) = DOMAIN h
      BY <2>0, <3>1 DEF Live
    <3>4. Abstract!Insert(iid, vec)
      BY <1>2, <2>1, <3>1, <3>2, <3>3, InsertionIsAbstract
    <3> QED BY <3>4 DEF Abstract!Next
  <2>6. ASSUME NEW iid \in Ids, NEW vec \in Vecs, NEW level \in 0 .. MaxLevel,
               InsertUndefined(iid, vec, level)
        PROVE  FALSE
    BY <2>0, <2>6 DEF InsertUndefined
  <2>7. ASSUME NEW iid \in Ids, RemoveNode(iid) PROVE Abstract!Next
    <3> DEFINE h == [nodes EXCEPT ![iid].deleted = TRUE]
    <3>1. /\ nodes' = h /\ count' = count - 1
          /\ iid \in DOMAIN nodes /\ ~nodes[iid].deleted /\ Graph(nodes)
      BY <2>1, <2>7 DEF RemoveNode, Removable, Shape
    <3>2. /\ DOMAIN h = DOMAIN nodes /\ h[iid].deleted = TRUE
          /\ \A id \in DOMAIN nodes : id # iid => h[id] = nodes[id]
      BY <3>1, MarkedFacts
    <3> HIDE DEF h
    <3>3. Stored(nodes)[iid] = nodes[iid].vec /\ nodes[iid].vec # NoVec
      <4>1. nodes[iid].vec \in Vecs
        BY <3>1, GraphNode
      <4> QED BY <3>1, <4>1, MCAssumption DEF Stored
    <3>4. Stored(h) = [Stored(nodes) EXCEPT ![iid] = NoVec]
      BY <3>1, <3>2 DEF Stored
    <3>5. Stored(nodes') = [Stored(nodes) EXCEPT ![iid] = NoVec]
      BY <3>1, <3>4
    <3>6. Abstract!Remove(iid)
      BY <3>1, <3>3, <3>5 DEF Abstract!Remove, Stored
    <3> QED BY <3>6 DEF Abstract!Next
  <2>8. CASE UNCHANGED <<vars, flat>>
    <3>1. nodes' = nodes /\ count' = count
      BY <2>8 DEF vars
    <3> QED BY <2>2, <3>1
  <2> QED
    BY <1>2, <2>3, <2>4, <2>5, <2>6, <2>7, <2>8 DEF MCNext
<1> QED
  BY <1>1, <1>2, IndexCorrect, PTL DEF MCSpec, ImplementsVectorIndex

-----------------------------------------------------------------------------
(* What the search of the flat index finds *)

(* There is one way to put a set of pairs in order. *)
LEMMA OrderedUnique ==
  ASSUME NEW s \in Seq(Pairs), NEW t \in Seq(Pairs), Ordered(s), Ordered(t), ToSet(s) = ToSet(t)
  PROVE  s = t
<1>1. /\ Len(s) \in Nat /\ DOMAIN s = 1 .. Len(s) /\ \A i \in 1 .. Len(s) : s[i] \in Pairs
      /\ Len(t) \in Nat /\ DOMAIN t = 1 .. Len(t) /\ \A i \in 1 .. Len(t) : t[i] \in Pairs
  BY LenProperties, ElementOfSeq
<1> DEFINE B == {i \in Nat \ {0} : ~(i \in DOMAIN s <=> i \in DOMAIN t)
                                   \/ (i \in DOMAIN s /\ i \in DOMAIN t /\ s[i] # t[i])}
<1>2. CASE B = {}
  <2>1. \A i \in Nat \ {0} : (i \in DOMAIN s <=> i \in DOMAIN t) /\ (i \in DOMAIN s => s[i] = t[i])
    BY <1>2
  <2>2. DOMAIN s = DOMAIN t /\ \A i \in DOMAIN s : s[i] = t[i]
    <3>1. \A i \in DOMAIN s : i \in Nat \ {0}
      BY <1>1
    <3>2. \A i \in DOMAIN t : i \in Nat \ {0}
      BY <1>1
    <3> HIDE DEF B
    <3> QED BY <2>1, <3>1, <3>2
  <2>3. s = [i \in DOMAIN s |-> s[i]] /\ t = [i \in DOMAIN t |-> t[i]]
    BY <1>1, LenProperties
  <2> QED BY <2>2, <2>3
<1>3. CASE B # {}
  <2>1. PICK m \in B : \A i \in B : m <= i
    BY <1>3, LeastNatural
  <2>2. /\ m \in Nat \ {0}
        /\ \A i \in 1 .. (m - 1) : (i \in DOMAIN s <=> i \in DOMAIN t)
                                   /\ (i \in DOMAIN s /\ i \in DOMAIN t => s[i] = t[i])
    <3>1. \A i \in 1 .. (m - 1) : i \in Nat \ {0} /\ ~(m <= i)
      BY <2>1
    <3>2. \A i \in 1 .. (m - 1) : i \notin B
      BY <2>1, <3>1
    <3> QED BY <2>1, <3>1, <3>2
  <2> HIDE DEF B
  <2>3. m \in DOMAIN s => m \in DOMAIN t /\ (s[m] = t[m] \/ Before(t[m], s[m]))
    <3>1. SUFFICES ASSUME m \in DOMAIN s
                   PROVE m \in DOMAIN t /\ (s[m] = t[m] \/ Before(t[m], s[m]))
      OBVIOUS
    <3>2. PICK j \in DOMAIN t : s[m] = t[j]
      BY <3>1 DEF ToSet
    <3>3. ~(j < m)
      <4>1. SUFFICES ASSUME j < m PROVE FALSE
        OBVIOUS
      <4>2. j \in 1 .. (m - 1)
        BY <1>1, <2>2, <4>1
      <4>3. j \in DOMAIN s /\ s[j] = s[m]
        BY <2>2, <3>2, <4>2
      <4>4. Before(s[m], s[m]) /\ s[m] \in Pairs
        BY <1>1, <3>1, <4>1, <4>3 DEF Ordered
      <4> QED BY <4>4, BeforeOrder
    <3>4. m \in DOMAIN t
      BY <1>1, <2>2, <3>3
    <3>5. CASE j = m
      BY <3>2, <3>4, <3>5
    <3>6. CASE j # m
      <4>1. m < j
        BY <1>1, <2>2, <3>3, <3>6
      <4> QED BY <3>2, <3>4, <4>1 DEF Ordered
    <3> QED BY <3>5, <3>6
  <2>4. m \in DOMAIN t => m \in DOMAIN s /\ (s[m] = t[m] \/ Before(s[m], t[m]))
    <3>1. SUFFICES ASSUME m \in DOMAIN t
                   PROVE m \in DOMAIN s /\ (s[m] = t[m] \/ Before(s[m], t[m]))
      OBVIOUS
    <3>2. PICK j \in DOMAIN s : t[m] = s[j]
      BY <3>1 DEF ToSet
    <3>3. ~(j < m)
      <4>1. SUFFICES ASSUME j < m PROVE FALSE
        OBVIOUS
      <4>2. j \in 1 .. (m - 1)
        BY <1>1, <2>2, <4>1
      <4>3. j \in DOMAIN t /\ t[j] = t[m]
        BY <2>2, <3>2, <4>2
      <4>4. Before(t[m], t[m]) /\ t[m] \in Pairs
        BY <1>1, <3>1, <4>1, <4>3 DEF Ordered
      <4> QED BY <4>4, BeforeOrder
    <3>4. m \in DOMAIN s
      BY <1>1, <2>2, <3>3
    <3>5. CASE j = m
      BY <3>2, <3>4, <3>5
    <3>6. CASE j # m
      <4>1. m < j
        BY <1>1, <2>2, <3>3, <3>6
      <4> QED BY <3>2, <3>4, <4>1 DEF Ordered
    <3> QED BY <3>5, <3>6
  <2>5. m \in DOMAIN s /\ m \in DOMAIN t /\ s[m] # t[m]
    BY <2>1, <2>3, <2>4 DEF B
  <2>6. Before(s[m], t[m]) /\ Before(t[m], s[m]) /\ s[m] \in Pairs /\ t[m] \in Pairs
    BY <1>1, <2>3, <2>4, <2>5
  <2> QED BY <2>6, BeforeOrder
<1> QED
  BY <1>2, <1>3

(* x comes behind the first c elements of s. *)
Cleaves(s, x, c) ==
  /\ c \in 0 .. Len(s)
  /\ \A i \in 1 .. Len(s) : i <= c <=> Before(s[i], x)

(* r is s with x behind the first c elements. *)
InsertedAt(r, s, x, c) ==
  /\ Len(r) = Len(s) + 1
  /\ \A j \in 1 .. Len(s) + 1 :
       r[j] = IF j < c + 1 THEN s[j] ELSE IF j = c + 1 THEN x ELSE s[j - 1]

LEMMA CleavesExists ==
  ASSUME NEW S \in SUBSET Pairs, NEW s \in Seq(S), NEW x \in S, Ordered(s)
  PROVE  \E c : Cleaves(s, x, c)
<1> DEFINE P == {i \in 1 .. Len(s) : Before(s[i], x)}
<1>1. Len(s) \in Nat /\ DOMAIN s = 1 .. Len(s) /\ \A j \in 1 .. Len(s) : s[j] \in Pairs
  BY LenProperties, ElementOfSeq
<1>2. ASSUME NEW i \in P, NEW j \in 1 .. i PROVE j \in P
  <2>1. i \in 1 .. Len(s) /\ j \in 1 .. Len(s) /\ Before(s[i], x) /\ x \in Pairs
    BY <1>1
  <2>2. CASE j = i
    BY <2>2
  <2>3. CASE j < i
    <3>1. Before(s[j], s[i])
      BY <1>1, <2>1, <2>3 DEF Ordered
    <3>2. Before(s[j], x)
      BY <1>1, <2>1, <3>1, BeforeOrder
    <3> QED BY <2>1, <3>2
  <2> QED BY <2>1, <2>2, <2>3
<1>3. P = 1 .. Cardinality(P) /\ Cardinality(P) \in 0 .. Len(s)
  <2>1. P \in SUBSET (1 .. Len(s))
    OBVIOUS
  <2> HIDE DEF P
  <2> QED BY <1>1, <1>2, <2>1, FirstPositions
<1>4. PICK c : c = Cardinality(P)
  OBVIOUS
<1>5. c \in 0 .. Len(s) /\ \A i \in 1 .. Len(s) : i <= c <=> i \in P
  <2> HIDE DEF P
  <2> QED BY <1>1, <1>3, <1>4
<1>6. Cleaves(s, x, c)
  BY <1>5 DEF Cleaves
<1> QED
  BY <1>6

LEMMA InSortedAt ==
  ASSUME NEW S \in SUBSET Pairs, NEW s \in Seq(S), NEW x \in S, NEW c, Cleaves(s, x, c)
  PROVE  InsertedAt(InSorted(s, x), s, x, c)
<1> DEFINE P == {i \in DOMAIN s : Before(s[i], x)}
<1>1. Len(s) \in Nat /\ DOMAIN s = 1 .. Len(s)
  BY LenProperties
<1>2. c \in 0 .. Len(s) /\ c \in Nat /\ P = 1 .. c
  <2>1. c \in 0 .. Len(s) /\ \A i \in 1 .. Len(s) : i <= c <=> Before(s[i], x)
    BY DEF Cleaves
  <2>2. \A i \in P : i \in 1 .. c
    BY <1>1, <2>1
  <2>3. \A i \in 1 .. c : i \in P
    BY <1>1, <2>1
  <2> QED BY <1>1, <2>1, <2>2, <2>3
<1>3. Cardinality(P) = c
  <2>1. Cardinality(1 .. c) = IF 1 > c THEN 0 ELSE c - 1 + 1
    BY <1>2, FS_Interval
  <2>2. Cardinality(1 .. c) = c
    BY <1>2, <2>1
  <2> HIDE DEF P
  <2> QED BY <1>2, <2>2
<1>4. InSorted(s, x) = InsertAt(s, c + 1, x)
  BY <1>3 DEF InSorted
<1>5. PICK i \in 1 .. Len(s) + 1 : i = c + 1
  BY <1>1, <1>2
<1>6. /\ Len(InsertAt(s, i, x)) = Len(s) + 1
      /\ \A j \in 1 .. Len(s) + 1 :
           InsertAt(s, i, x)[j] = IF j < i THEN s[j] ELSE IF j = i THEN x ELSE s[j - 1]
  BY InsertAtFacts
<1> QED
  BY <1>4, <1>5, <1>6 DEF InsertedAt

(* Keeping the first n at every insertion is keeping them at the end. *)
LEMMA KeptOfTake ==
  ASSUME NEW S \in SUBSET Pairs, NEW s \in Seq(S), NEW x \in S, NEW n \in Nat, Ordered(s)
  PROVE  Kept(Take(s, n), x, n) = Take(InSorted(s, x), n)
<1> DEFINE t == Take(s, n)
           a == InSorted(t, x)
           b == InSorted(s, x)
           u == Take(a, n)
           v == Take(b, n)
<1>1. /\ t \in Seq(S) /\ Len(t) = IF n <= Len(s) THEN n ELSE Len(s)
      /\ \A i \in 1 .. Len(t) : t[i] = s[i]
  BY TakeFacts
<1>2. Len(s) \in Nat /\ Len(t) \in Nat
  BY <1>1, LenProperties
<1>3. Ordered(t)
  BY OrderedTake
<1> HIDE DEF t
<1>4. PICK c : Cleaves(s, x, c)
  BY CleavesExists
<1> DEFINE d == IF c <= Len(t) THEN c ELSE Len(t)
<1>5. Cleaves(t, x, d)
  <2>1. c \in 0 .. Len(s) /\ \A i \in 1 .. Len(s) : i <= c <=> Before(s[i], x)
    BY <1>4 DEF Cleaves
  <2>2. Len(t) <= Len(s)
    BY <1>1, <1>2
  <2>3. d \in 0 .. Len(t)
    BY <1>2, <2>1
  <2>4. ASSUME NEW i \in 1 .. Len(t) PROVE i <= d <=> Before(t[i], x)
    <3>1. i \in 1 .. Len(s) /\ t[i] = s[i]
      BY <1>1, <1>2, <2>2
    <3>2. i <= d <=> i <= c
      BY <1>2, <2>1
    <3> QED BY <2>1, <3>1, <3>2
  <2> HIDE DEF d
  <2> QED BY <2>3, <2>4 DEF Cleaves
<1>6. InsertedAt(b, s, x, c) /\ b \in Seq(S)
  BY <1>4, InSortedAt, InSortedFacts
<1>7. InsertedAt(a, t, x, d) /\ a \in Seq(S)
  <2> HIDE DEF d
  <2> QED BY <1>1, <1>5, InSortedAt, InSortedFacts
<1> HIDE DEF a, b
<1>8. /\ u \in Seq(S) /\ Len(u) = IF n <= Len(a) THEN n ELSE Len(a)
      /\ \A i \in 1 .. Len(u) : u[i] = a[i]
  BY <1>7, TakeFacts
<1>9. /\ v \in Seq(S) /\ Len(v) = IF n <= Len(b) THEN n ELSE Len(b)
      /\ \A i \in 1 .. Len(v) : v[i] = b[i]
  BY <1>6, TakeFacts
<1> HIDE DEF u, v
<1>10. Len(a) = Len(t) + 1 /\ Len(b) = Len(s) + 1 /\ c \in 0 .. Len(s)
  BY <1>4, <1>6, <1>7 DEF InsertedAt, Cleaves
<1>11. Len(u) = Len(v) /\ Len(u) \in Nat /\ Len(u) <= n /\ Len(u) <= Len(s) + 1 /\ Len(u) <= Len(t) + 1
  BY <1>1, <1>2, <1>8, <1>9, <1>10
<1>12. ASSUME NEW i \in 1 .. Len(u) PROVE u[i] = v[i]
  <2>1. u[i] = a[i] /\ v[i] = b[i] /\ i \in 1 .. Len(t) + 1 /\ i \in 1 .. Len(s) + 1 /\ i <= n
    BY <1>2, <1>8, <1>9, <1>11
  <2>2. /\ a[i] = IF i < d + 1 THEN t[i] ELSE IF i = d + 1 THEN x ELSE t[i - 1]
        /\ b[i] = IF i < c + 1 THEN s[i] ELSE IF i = c + 1 THEN x ELSE s[i - 1]
    BY <1>6, <1>7, <2>1 DEF InsertedAt
  <2>3. CASE c <= Len(t)
    <3>1. d = c
      BY <2>3
    <3>2. i < c + 1 => i \in 1 .. Len(t)
      BY <1>2, <1>10, <2>1, <2>3
    <3>3. ~(i < c + 1) /\ i # c + 1 => i - 1 \in 1 .. Len(t)
      BY <1>2, <1>10, <2>1, <2>3
    <3> HIDE DEF d
    <3> QED BY <1>1, <2>1, <2>2, <3>1, <3>2, <3>3
  <2>4. CASE ~(c <= Len(t))
    <3>1. d = Len(t) /\ Len(t) = n
      BY <1>1, <1>2, <1>10, <2>4
    <3>2. i \in 1 .. Len(t) /\ i < d + 1 /\ i < c + 1
      BY <1>2, <1>10, <2>1, <2>4, <3>1
    <3> HIDE DEF d
    <3> QED BY <1>1, <2>1, <2>2, <3>2
  <2> QED BY <2>3, <2>4
<1>13. u = v
  <2>1. DOMAIN u = 1 .. Len(u) /\ DOMAIN v = 1 .. Len(v)
        /\ u = [i \in 1 .. Len(u) |-> u[i]] /\ v = [i \in 1 .. Len(v) |-> v[i]]
    BY <1>8, <1>9, LenProperties
  <2> QED BY <1>11, <1>12, <2>1
<1> QED
  BY <1>13 DEF Kept, t, a, b, u, v

LEMMA FlatKept ==
  ASSUME NEW s, NEW x, NEW n
  PROVE  Flat!Kept(s, x, n) = Kept(s, x, n)
<1>1. Flat!InSorted(s, x) = InSorted(s, x)
  <2>1. \A a, b : Flat!Before(a, b) <=> Before(a, b)
    BY Zenon DEF Flat!Before, Before
  <2>2. {i \in DOMAIN s : Flat!Before(s[i], x)} = {i \in DOMAIN s : Before(s[i], x)}
    BY Zenon, <2>1
  <2>3. PICK k : k = Cardinality({i \in DOMAIN s : Before(s[i], x)}) + 1
    OBVIOUS
  <2>4. Flat!InsertAt(s, k, x) = InsertAt(s, k, x)
    BY Zenon DEF Flat!InsertAt, InsertAt
  <2>5. \A S : Flat!Cardinality(S) = Cardinality(S)
    BY Zenon DEF Flat!Cardinality, Cardinality
  <2> QED BY Zenon, <2>2, <2>3, <2>4, <2>5 DEF Flat!InSorted, InSorted
<1>2. PICK t : t = InSorted(s, x)
  OBVIOUS
<1>3. Flat!Take(t, n) = Take(t, n)
  BY Zenon DEF Flat!Take, Flat!Min, Take, Min
<1> QED
  BY Zenon, <1>1, <1>2, <1>3 DEF Flat!Kept, Kept

(* What the flat index finds are the first k of all its pairs in order. *)
LEMMA FlatSearchFinds ==
  ASSUME NEW data \in Seq(Records), NEW q \in Vecs, NEW k \in Nat,
         \A i \in DOMAIN data : data[i].id \in Nat,
         \A i, j \in DOMAIN data : i # j => data[i].id # data[j].id
  PROVE  \E s \in Seq(Pairs) :
           /\ Ordered(s)
           /\ ToSet(s) = {Flat!Pair(data[i], q) : i \in DOMAIN data}
           /\ Flat!Search(data, q, k) = Take(s, k)
<1> DEFINE S == Seq(Pairs)
           n == Len(data)
           x(i) == Flat!Pair(data[i], q)
<1>1. n \in Nat /\ DOMAIN data = 1 .. n /\ \A i \in 1 .. n : data[i] \in Records
  BY LenProperties, ElementOfSeq
<1> HIDE DEF n
<1>2. \A i \in 1 .. n : x(i) \in Pairs /\ x(i)[2] = data[i].id
  <2>1. ASSUME NEW i \in 1 .. n PROVE x(i) \in Pairs /\ x(i)[2] = data[i].id
    <3>1. data[i].vec \in Vecs /\ data[i].id \in Ids
      BY <1>1 DEF Records
    <3>2. data[i].id \in Nat
      BY <1>1
    <3>3. Dist[<<q, data[i].vec>>] \in Nat
      BY <3>1, HNSWAssumption
    <3> QED BY <3>2, <3>3 DEF Flat!Pair, Pairs
  <2> QED BY <2>1
<1>3. \A i, j \in 1 .. n : i # j => x(i) # x(j)
  <2>1. ASSUME NEW i \in 1 .. n, NEW j \in 1 .. n, i # j PROVE x(i) # x(j)
    <3>1. x(i)[2] # x(j)[2]
      <4> HIDE DEF x
      <4> QED BY <1>1, <1>2, <2>1
    <3> HIDE DEF x
    <3> QED BY <3>1
  <2> HIDE DEF x
  <2> QED BY <2>1
<1> DEFINE op == [p \in S \X (1 .. n) |-> Kept(p[1], x(p[2]), k)]
<1>4. op \in [S \X (1 .. n) -> S]
  <2>1. ASSUME NEW s \in S, NEW i \in 1 .. n PROVE Kept(s, x(i), k) \in S
    <3>1. PICK y \in Pairs : y = x(i)
      BY <1>2
    <3>2. Pairs \in SUBSET Pairs
      OBVIOUS
    <3>3. Kept(s, y, k) \in Seq(Pairs)
      BY <3>2, KeptFacts
    <3> QED BY <3>1, <3>3
  <2> HIDE DEF S, x
  <2> QED BY <2>1
<1>5. << >> \in S
  OBVIOUS
<1> HIDE DEF S, x
<1>6. PICK it \in [SUBSET (1 .. n) -> S] : FoldOf(it, n, << >>, op)
  <2> HIDE DEF op
  <2> QED BY <1>1, <1>4, <1>5, FoldExists
<1>7. it = [s \in SUBSET DOMAIN data |->
              IF s = {} THEN << >>
              ELSE Flat!Kept(it[s \ {Max(s)}], Flat!Pair(data[Max(s)], q), k)]
  <2>1. ASSUME NEW s \in SUBSET (1 .. n), s # {}
        PROVE it[s] = Flat!Kept(it[s \ {Max(s)}], Flat!Pair(data[Max(s)], q), k)
    <3>1. s \in SUBSET (0 .. n)
      OBVIOUS
    <3>2. Max(s) \in 1 .. n
      BY <1>1, <2>1, <3>1, MaxOf
    <3>3. it[s \ {Max(s)}] \in S
      OBVIOUS
    <3>4. it[s] = op[<<it[s \ {Max(s)}], Max(s)>>]
      BY <1>6, <2>1 DEF FoldOf
    <3>5. it[s] = Kept(it[s \ {Max(s)}], x(Max(s)), k)
      BY <3>2, <3>3, <3>4
    <3> QED BY <3>5, FlatKept DEF x
  <2>2. it[{}] = << >>
    BY <1>6 DEF FoldOf
  <2> HIDE DEF op
  <2> QED BY <1>1, <2>1, <2>2
<1> HIDE DEF op
<1> DEFINE f == CHOOSE h : h = [s \in SUBSET DOMAIN data |->
                  IF s = {} THEN << >>
                  ELSE Flat!Kept(h[s \ {Max(s)}], Flat!Pair(data[Max(s)], q), k)]
<1>8. f = [s \in SUBSET DOMAIN data |->
             IF s = {} THEN << >>
             ELSE Flat!Kept(f[s \ {Max(s)}], Flat!Pair(data[Max(s)], q), k)]
  BY <1>7
<1>9. Flat!Search(data, q, k) = f[DOMAIN data]
  BY Zenon DEF Flat!Search, Flat!FoldLeft, Flat!MapThenFoldSet, Flat!Max, Max
<1> HIDE DEF f
<1>10. f[1 .. 0] = << >>
  BY <1>1, <1>8
<1>11. ASSUME NEW i \in 1 .. n PROVE f[1 .. i] = Kept(f[1 .. (i - 1)], x(i), k)
  <2>1. /\ 1 .. i \in SUBSET (1 .. n) /\ 1 .. i # {}
        /\ Max(1 .. i) = i /\ (1 .. i) \ {i} = 1 .. (i - 1)
    BY <1>1, IntervalTop
  <2>2. f[1 .. i] = Flat!Kept(f[1 .. (i - 1)], Flat!Pair(data[i], q), k)
    BY <1>1, <1>8, <2>1
  <2> QED BY <2>2, FlatKept DEF x
<1> DEFINE Sorted(i) == {s \in Seq(Pairs) : Ordered(s) /\ ToSet(s) = {x(j) : j \in 1 .. i}}
           Inv(v, i) == \E s \in Sorted(i) : v = Take(s, k)
           P == {i \in 0 .. n : Inv(f[1 .. i], i)}
<1>12. 0 \in P
  <2>1. << >> \in Sorted(0)
    BY DEF Ordered, ToSet
  <2>2. Take(<< >>, k) = << >>
    <3>1. PICK e \in Seq(Pairs) : e = << >>
      BY EmptySeq
    <3>2. Len(e) = 0
      BY <3>1
    <3>3. Len(e) <= k
      BY <3>2
    <3> QED BY <3>1, <3>3, TakeAll
  <2>3. Inv(<< >>, 0) /\ 0 \in 0 .. n
    <3> HIDE DEF Sorted
    <3> QED BY <1>1, <2>1, <2>2
  <2> HIDE DEF Inv
  <2> QED BY <1>10, <2>3
<1>13. ASSUME NEW i \in 1 .. n, i - 1 \in P PROVE i \in P
  <2> DEFINE v == f[1 .. (i - 1)]
             w == f[1 .. i]
  <2>1. Inv(v, i - 1)
    BY <1>13
  <2>2. w = Kept(v, x(i), k) /\ i \in 0 .. n /\ x(i) \in Pairs
    BY <1>2, <1>11
  <2> HIDE DEF v, w
  <2>3. PICK s \in Sorted(i - 1) : v = Take(s, k)
    BY <2>1
  <2>4. s \in Seq(Pairs) /\ Ordered(s) /\ ToSet(s) = {x(j) : j \in 1 .. (i - 1)}
    BY <2>3
  <2>5. x(i) \notin ToSet(s)
    <3>1. \A j \in 1 .. (i - 1) : j \in 1 .. n /\ j # i
      BY <1>1
    <3> QED BY <1>3, <2>4, <3>1
  <2>6. PICK y \in Pairs : y = x(i)
    BY <2>2
  <2>7. Pairs \in SUBSET Pairs
    OBVIOUS
  <2>8. /\ InSorted(s, y) \in Seq(Pairs) /\ Ordered(InSorted(s, y))
        /\ ToSet(InSorted(s, y)) = ToSet(s) \cup {y}
    BY <2>4, <2>5, <2>6, <2>7, InSortedFacts
  <2>9. Kept(Take(s, k), y, k) = Take(InSorted(s, y), k)
    BY <2>4, <2>7, KeptOfTake
  <2>10. {x(j) : j \in 1 .. i} = {x(j) : j \in 1 .. (i - 1)} \cup {x(i)}
    <3>1. \A j \in 1 .. i : j \in 1 .. (i - 1) \/ j = i
      BY <1>1
    <3>2. i \in 1 .. i /\ \A j \in 1 .. (i - 1) : j \in 1 .. i
      BY <1>1
    <3> QED BY <3>1, <3>2
  <2>11. InSorted(s, y) \in Sorted(i)
    BY <2>4, <2>6, <2>8, <2>10
  <2>12. Inv(w, i)
    <3> HIDE DEF Sorted
    <3> QED BY <2>2, <2>3, <2>6, <2>9, <2>11
  <2> HIDE DEF Inv
  <2> QED BY <2>2, <2>12 DEF w
<1>14. n \in P
  <2>1. 0 .. n \subseteq P
    <3> HIDE DEF P
    <3> QED BY <1>1, <1>12, <1>13, UpTo
  <2> HIDE DEF Inv
  <2> QED BY <1>1, <2>1
<1>15. Inv(f[DOMAIN data], n)
  <2> HIDE DEF Inv
  <2> QED BY <1>1, <1>14
<1>16. PICK s \in Sorted(n) : f[DOMAIN data] = Take(s, k)
  BY <1>15
<1>17. s \in Seq(Pairs) /\ Ordered(s) /\ ToSet(s) = {x(j) : j \in DOMAIN data}
  BY <1>1, <1>16
<1> QED
  BY <1>9, <1>16, <1>17 DEF x

-----------------------------------------------------------------------------
(* An index that has lost nothing *)

(* The flat index has one record of each node, with its vector. *)
Twin(g, data) ==
  /\ \A i \in DOMAIN data : data[i].id \in DOMAIN g /\ data[i].vec = g[data[i].id].vec
  /\ \A i, j \in DOMAIN data : i # j => data[i].id # data[j].id

Spoilt == hazards \cap {"removed", "replaced", "cut", "undefined"} # {}

(* As long as no node was removed or replaced and no list cut, all nodes are live,
   layer 0 is in one piece, and the flat index has the same vectors. *)
InOnePiece ==
  ~Spoilt => AllLive(nodes) /\ Connected(nodes) /\ Twin(nodes, flat)

LEMMA TwinGrows ==
  ASSUME NEW data \in Seq(Records), Twin(nodes, data), NEW iid \in Ids, iid \notin DOMAIN nodes,
         NEW vec \in Vecs, NEW level, NEW h, OneMore(h, iid, vec, level)
  PROVE  Twin(h, Flat!Inserted(data, iid, vec))
<1> DEFINE x == [id |-> iid, vec |-> vec]
           r == Append(data, x)
<1>1. x \in Records /\ x.id = iid /\ x.vec = vec
  BY DEF Records
<1> HIDE DEF x
<1>2. /\ r \in Seq(Records) /\ Len(r) = Len(data) + 1
      /\ \A i \in 1 .. Len(data) : r[i] = data[i]
      /\ r[Len(data) + 1] = x
  BY <1>1, AppendProperties
<1>3. Len(data) \in Nat /\ DOMAIN data = 1 .. Len(data) /\ DOMAIN r = 1 .. Len(data) + 1
  BY <1>2, LenProperties
<1> HIDE DEF r
<1>4. /\ \A i \in DOMAIN r : i \in DOMAIN data \/ i = Len(data) + 1
      /\ \A i \in DOMAIN data : r[i] = data[i] /\ data[i].id \in DOMAIN nodes
  BY <1>2, <1>3 DEF Twin
<1>5. /\ DOMAIN h = DOMAIN nodes \cup {iid} /\ h[iid].vec = vec
      /\ \A id \in DOMAIN nodes : h[id].vec = nodes[id].vec
  BY DEF OneMore
<1>6. ASSUME NEW i \in DOMAIN r PROVE r[i].id \in DOMAIN h /\ r[i].vec = h[r[i].id].vec
  <2>1. CASE i \in DOMAIN data
    BY <1>4, <1>5, <2>1 DEF Twin
  <2>2. CASE i = Len(data) + 1
    BY <1>1, <1>2, <1>5, <2>2
  <2> QED BY <1>4, <2>1, <2>2
<1>7. ASSUME NEW i \in DOMAIN r, NEW j \in DOMAIN r, i # j PROVE r[i].id # r[j].id
  <2>1. CASE i \in DOMAIN data /\ j \in DOMAIN data
    BY <1>4, <1>7, <2>1 DEF Twin
  <2>2. CASE i = Len(data) + 1
    <3>1. j \in DOMAIN data
      BY <1>4, <1>7, <2>2
    <3> QED BY <1>1, <1>2, <1>4, <2>2, <3>1
  <2>3. CASE j = Len(data) + 1
    <3>1. i \in DOMAIN data
      BY <1>4, <1>7, <2>3
    <3> QED BY <1>1, <1>2, <1>4, <2>3, <3>1
  <2> QED BY <1>4, <2>1, <2>2, <2>3
<1>8. Twin(h, r)
  BY <1>6, <1>7 DEF Twin
<1> QED
  BY <1>8 DEF Flat!Inserted, r, x

LEMMA OneMoreLive ==
  ASSUME AllLive(nodes), NEW iid, iid \notin DOMAIN nodes, NEW vec, NEW level, NEW h,
         OneMore(h, iid, vec, level)
  PROVE  AllLive(h)
  BY DEF AllLive, OneMore

(* An Insert that cuts no list ties the new node to the rest of layer 0: it has a link to
   a node that has a link to it. *)
LEMMA InsertConnects ==
  ASSUME Shape, has_entry, AllLive(nodes), Connected(nodes),
         NEW iid \in Ids, iid \notin DOMAIN nodes, MayInsert(iid), NEW vec \in Vecs,
         NEW level \in 0 .. MaxLevel,
         InBounds(WithNode(iid, vec, level), iid, TopLayer(level)),
         ~CutsLinks(WithNode(iid, vec, level), iid, TopLayer(level))
  PROVE  Connected(LinkedFrom(WithNode(iid, vec, level), iid, TopLayer(level)))
<1> DEFINE g == WithNode(iid, vec, level)
           top == TopLayer(level)
           h == LinkedFrom(g, iid, top)
           D == DOMAIN nodes
           ns == Neighbors(g, iid, 0)
<1>1. Graph(g) /\ Unlinked(g, iid) /\ Level(g[iid]) = level
  BY WithNodeFacts
<1>2. /\ DOMAIN g = D \cup {iid}
      /\ \A id \in D : g[id] = nodes[id]
      /\ \A id \in D, k \in Nat : Links(g, id, k) = Links(nodes, id, k)
  BY <1>1 DEF Unlinked
<1>3. /\ entry_id \in D /\ max_level \in Nat /\ level \in Nat
      /\ top \in Nat /\ top <= level
  BY HNSWAssumption DEF Shape, TopLayer
<1>4. iid \in DOMAIN g /\ top <= Level(g[iid])
  BY <1>1, <1>2, <1>3
<1>5. h \in Likes(g)
  BY LinkedNodes
<1>6. InBounds(g, iid, top) /\ ~CutsLinks(g, iid, top)
  OBVIOUS
<1> HIDE DEF g, top
<1>7. DOMAIN h = D \cup {iid}
  BY <1>1, <1>2, <1>5, LikesAreGraphs
<1>8. Closed(g, D)
  <2>1. ASSUME NEW id \in D, NEW k \in Nat PROVE ToSet(Links(g, id, k)) \subseteq D
    <3>1. Links(g, id, k) = Links(nodes, id, k)
      BY <1>2
    <3>2. Links(nodes, id, k) \in Seq(D)
      BY LinksType DEF Shape
    <3> QED BY <3>1, <3>2, LenProperties DEF ToSet
  <2> QED BY <1>2, <2>1 DEF Closed
<1>9. /\ ns \in Seq(D) /\ Len(ns) >= 1
  <2>1. \A id \in D : ~g[id].deleted
    BY <1>2 DEF AllLive
  <2> QED BY <1>1, <1>3, <1>4, <1>8, <2>1, NeighborsFacts
<1>10. ToSet(ns) \subseteq D /\ ns[1] \in ToSet(ns)
  <2>1. DOMAIN ns = 1 .. Len(ns) /\ Len(ns) \in Nat /\ \A i \in 1 .. Len(ns) : ns[i] \in D
    BY <1>9, LenProperties, ElementOfSeq
  <2>2. 1 \in DOMAIN ns
    BY <1>9, <2>1
  <2> HIDE DEF ns
  <2> QED BY <2>1, <2>2 DEF ToSet
<1>11. ASSUME NEW nb \in ToSet(ns) PROVE Len(Links(g, nb, 0)) < MaxLinks(0)
  <2>1. nb \in D /\ nb \in DOMAIN g
    BY <1>2, <1>10
  <2>2. 0 \in 0 .. top
    BY <1>3
  <2>3. ~(Len(g[nb].nbrs[0 + 1]) >= MaxLinks(0))
    BY <1>6, <2>2 DEF CutsLinks
  <2>4. Links(g, nb, 0) = g[nb].nbrs[0 + 1]
    <3>1. ~(0 > Level(g[nb]))
      BY <1>1, <2>1, GraphNode
    <3> QED BY <3>1 DEF Links
  <2>5. Len(Links(g, nb, 0)) \in Nat
    <3>1. Links(g, nb, 0) \in Seq(DOMAIN g)
      BY <1>1, <2>1, LinksType
    <3> QED BY <3>1, LenProperties
  <2>6. MaxLinks(0) \in Nat
    BY MaxLinksType
  <2> QED BY <2>3, <2>4, <2>5, <2>6
<1>12. /\ \A j \in D : ToSet(Links(g, j, 0)) \subseteq ToSet(Links(h, j, 0))
       /\ \A nb \in ToSet(ns) : nb \in ToSet(Links(h, iid, 0)) /\ iid \in ToSet(Links(h, nb, 0))
  BY <1>1, <1>3, <1>4, <1>6, <1>8, <1>11, LinkedFromJoins
<1> HIDE DEF ns, h
<1>13. ASSUME NEW E \in SUBSET DOMAIN h, E # {},
              \A id \in E : ToSet(Links(h, id, 0)) \subseteq E
       PROVE  E = DOMAIN h
  <2>1. E \cap D # {}
    <3>1. CASE iid \in E
      <4>1. ns[1] \in E
        BY <1>10, <1>12, <1>13, <3>1
      <4> QED BY <1>10, <4>1
    <3>2. CASE iid \notin E
      BY <1>7, <1>13, <3>2
    <3> QED BY <3>1, <3>2
  <2>2. \A id \in E \cap D : ToSet(Links(nodes, id, 0)) \subseteq E \cap D
    <3>1. ASSUME NEW id \in E \cap D PROVE ToSet(Links(nodes, id, 0)) \subseteq E \cap D
      <4>1. Links(g, id, 0) = Links(nodes, id, 0)
        BY <1>2
      <4>2. ToSet(Links(g, id, 0)) \subseteq D
        BY <1>8 DEF Closed
      <4>3. ToSet(Links(g, id, 0)) \subseteq E
        BY <1>12, <1>13
      <4> QED BY <4>1, <4>2, <4>3
    <3> QED BY <3>1
  <2>3. E \cap D = D
    <3>1. E \cap D \in SUBSET D
      OBVIOUS
    <3> QED BY <2>1, <2>2, <3>1 DEF Connected
  <2>4. iid \in E
    BY <1>10, <1>12, <1>13, <2>3
  <2> QED BY <1>7, <2>3, <2>4
<1>14. Connected(h)
  BY <1>13 DEF Connected
<1> QED
  BY <1>14 DEF h, g, top

LEMMA PieceInit == MCInit => InOnePiece
<1> SUFFICES ASSUME MCInit PROVE InOnePiece
  OBVIOUS
<1>1. nodes = << >> /\ flat = << >>
  BY DEF MCInit, Init, Flat!Empty
<1>2. DOMAIN nodes = {} /\ DOMAIN flat = {}
  BY <1>1
<1> QED
  BY <1>2 DEF InOnePiece, AllLive, Connected, Twin

LEMMA PieceInsertFirst ==
  ASSUME IndexInv, InOnePiece, NEW iid \in Ids, NEW vec \in Vecs, NEW level \in 0 .. MaxLevel,
         InsertFirst(iid, vec, level), flat' = Flat!Inserted(flat, iid, vec)
  PROVE  InOnePiece'
<1> DEFINE g == WithNode(iid, vec, level)
<1>1. /\ nodes' = g /\ hazards' = hazards /\ MayInsert(iid) /\ Shape
  BY DEF InsertFirst, IndexInv
<1>2. DOMAIN nodes = {}
  BY DEF InsertFirst, IndexInv, Shape
<1>3. g \in Likes(g)
  BY <1>1, WithNodeFacts, WholeIsLike
<1>4. OneMore(g, iid, vec, level)
  BY <1>1, <1>3, OneMoreNode
<1> HIDE DEF g
<1>5. SUFFICES ASSUME ~Spoilt PROVE AllLive(g) /\ Connected(g) /\ Twin(g, flat')
  BY <1>1 DEF InOnePiece, Spoilt
<1>6. AllLive(nodes) /\ Twin(nodes, flat)
  BY <1>5 DEF InOnePiece
<1>7. DOMAIN g = {iid}
  BY <1>2, <1>4 DEF OneMore
<1>8. Connected(g)
  BY <1>7 DEF Connected
<1>9. AllLive(g)
  BY <1>2, <1>4, <1>6, OneMoreLive
<1>10. Twin(g, flat')
  BY <1>2, <1>4, <1>6, TwinGrows DEF IndexInv, Held
<1> QED
  BY <1>8, <1>9, <1>10

LEMMA PieceInsert ==
  ASSUME IndexInv, InOnePiece, NEW iid \in Ids, NEW vec \in Vecs, NEW level \in 0 .. MaxLevel,
         Insert(iid, vec, level), flat' = Flat!Inserted(flat, iid, vec)
  PROVE  InOnePiece'
<1> DEFINE g == WithNode(iid, vec, level)
           h == LinkedFrom(g, iid, TopLayer(level))
<1>1. /\ nodes' = h /\ has_entry /\ MayInsert(iid) /\ Shape /\ InBounds(g, iid, TopLayer(level))
  BY DEF Insert, IndexInv
<1>2. /\ hazards \subseteq hazards'
      /\ iid \in DOMAIN nodes => "replaced" \in hazards'
      /\ CutsLinks(g, iid, TopLayer(level)) => "cut" \in hazards'
  <2>1. hazards' = hazards \cup (IF iid \in DOMAIN nodes THEN {"replaced"} ELSE {})
                          \cup (IF CutsLinks(g, iid, TopLayer(level)) THEN {"cut"} ELSE {})
                          \cup (IF \E id \in DOMAIN h : h[id].deleted THEN {"miscount"} ELSE {})
    BY DEF Insert
  <2> HIDE DEF g, h
  <2> QED BY <2>1
<1>3. h \in Likes(g)
  BY <1>1, LinkedNodes
<1>4. OneMore(h, iid, vec, level)
  <2> HIDE DEF h
  <2> QED BY <1>1, <1>3, OneMoreNode
<1>5. SUFFICES ASSUME ~Spoilt' PROVE AllLive(h) /\ Connected(h) /\ Twin(h, flat')
  <2> HIDE DEF g, h
  <2> QED BY <1>1 DEF InOnePiece
<1>6. ~Spoilt /\ iid \notin DOMAIN nodes /\ ~CutsLinks(g, iid, TopLayer(level))
  <2> HIDE DEF g, h
  <2> QED BY <1>2, <1>5 DEF Spoilt
<1>7. AllLive(nodes) /\ Connected(nodes) /\ Twin(nodes, flat)
  BY <1>6 DEF InOnePiece
<1>8. Connected(h)
  BY <1>1, <1>6, <1>7, InsertConnects
<1> HIDE DEF g, h
<1>9. AllLive(h)
  BY <1>4, <1>6, <1>7, OneMoreLive
<1>10. Twin(h, flat')
  BY <1>4, <1>6, <1>7, TwinGrows DEF IndexInv, Held
<1> QED
  BY <1>8, <1>9, <1>10

LEMMA PieceNext == IndexInv /\ InOnePiece /\ [MCNext]_<<vars, flat>> => InOnePiece'
<1> SUFFICES ASSUME IndexInv, InOnePiece, [MCNext]_<<vars, flat>> PROVE InOnePiece'
  OBVIOUS
<1>1. CASE Reload /\ UNCHANGED flat
  <2>1. nodes' = nodes /\ flat' = flat /\ hazards' = hazards \ {"miscount"}
    BY <1>1 DEF Reload
  <2>2. Spoilt' <=> Spoilt
    BY <2>1 DEF Spoilt
  <2> QED BY <2>1, <2>2 DEF InOnePiece
<1>2. ASSUME NEW iid \in Ids, NEW vec \in Vecs, NEW level \in 0 .. MaxLevel,
             InsertFirst(iid, vec, level), flat' = Flat!Inserted(flat, iid, vec)
      PROVE  InOnePiece'
  BY <1>2, PieceInsertFirst
<1>3. ASSUME NEW iid \in Ids, NEW vec \in Vecs, NEW level \in 0 .. MaxLevel,
             Insert(iid, vec, level), flat' = Flat!Inserted(flat, iid, vec)
      PROVE  InOnePiece'
  BY <1>3, PieceInsert
<1>4. ASSUME NEW iid \in Ids, NEW vec \in Vecs, NEW level \in 0 .. MaxLevel,
             InsertUndefined(iid, vec, level)
      PROVE  InOnePiece'
  <2>1. "undefined" \in hazards'
    BY <1>4 DEF InsertUndefined
  <2> QED BY <2>1 DEF InOnePiece, Spoilt
<1>5. ASSUME NEW iid \in Ids, RemoveNode(iid) PROVE InOnePiece'
  <2>1. "removed" \in hazards'
    BY <1>5 DEF RemoveNode
  <2> QED BY <2>1 DEF InOnePiece, Spoilt
<1>6. CASE UNCHANGED <<vars, flat>>
  <2>1. nodes' = nodes /\ hazards' = hazards /\ flat' = flat
    BY <1>6 DEF vars
  <2> QED BY <2>1 DEF InOnePiece, Spoilt
<1> QED
  BY <1>1, <1>2, <1>3, <1>4, <1>5, <1>6 DEF MCNext

LEMMA PieceCorrect == MCSpec => [](IndexInv /\ InOnePiece)
<1>1. MCInit => IndexInv /\ InOnePiece
  BY IndexInit, PieceInit
<1>2. (IndexInv /\ InOnePiece) /\ [MCNext]_<<vars, flat>> => (IndexInv /\ InOnePiece)'
  BY IndexNext, PieceNext
<1> QED
  BY <1>1, <1>2, PTL DEF MCSpec

(* The pairs of the flat index are those of the graph. *)
LEMMA SamePairs ==
  ASSUME IndexInv, AllLive(nodes), Twin(nodes, flat), NEW q \in Vecs
  PROVE  /\ {Flat!Pair(flat[i], q) : i \in DOMAIN flat} = PairsOf(nodes, q, DOMAIN nodes)
         /\ \A i \in DOMAIN flat : flat[i].id \in Nat
<1>1. \A i \in DOMAIN flat : Flat!Pair(flat[i], q) = PairOf(nodes, q, flat[i].id)
  BY DEF Flat!Pair, PairOf, Distance, Twin
<1>2. ASSUME NEW id \in DOMAIN nodes PROVE \E i \in DOMAIN flat : flat[i].id = id
  <2>1. id \in Live(nodes)
    BY DEF Live, AllLive
  <2>2. PICK i \in DOMAIN flat : flat[i] = [id |-> id, vec |-> nodes[id].vec]
    BY <2>1 DEF IndexInv, Held, Holds
  <2> QED BY <2>2
<1>3. \A i \in DOMAIN flat : flat[i].id \in DOMAIN nodes
  BY DEF Twin
<1>4. {Flat!Pair(flat[i], q) : i \in DOMAIN flat} = PairsOf(nodes, q, DOMAIN nodes)
  BY <1>1, <1>2, <1>3 DEF PairsOf
<1>5. PICK n \in Nat : DOMAIN nodes = 0 .. (n - 1)
  BY DEF IndexInv, Shape, Graph, Numbered
<1> QED
  BY <1>3, <1>4, <1>5

(* Search answers as the flat index does while the index has no more nodes than
   ef_search and has lost nothing, for any k. *)
ExactWhileSmall ==
  hazards = {} /\ Cardinality(DOMAIN nodes) <= EfSearch =>
    \A q \in Vecs, k \in Nat : Search(q, k, 0) = Flat!Search(flat, q, k)

LEMMA PieceIsExact ==
  ASSUME IndexInv, InOnePiece
  PROVE  ExactWhileSmall
<1>1. SUFFICES ASSUME hazards = {}, Cardinality(DOMAIN nodes) <= EfSearch,
                      NEW q \in Vecs, NEW k \in Nat
               PROVE  Search(q, k, 0) = Flat!Search(flat, q, k)
  BY DEF ExactWhileSmall
<1>2. AllLive(nodes) /\ Connected(nodes) /\ Twin(nodes, flat)
  BY <1>1 DEF InOnePiece, Spoilt
<1>3. Graph(nodes) /\ flat \in Seq(Records)
  BY DEF IndexInv, Shape, Held
<1>4. \E r \in Seq(Pairs) : /\ Ordered(r) /\ ToSet(r) = PairsOf(nodes, q, DOMAIN nodes)
                            /\ Search(q, k, 0) = Take(r, k)
  <2>1. CASE ~has_entry
    <3>1. PICK e \in Seq(Pairs) : e = << >>
      BY EmptySeq
    <3>2. Len(e) = 0 /\ DOMAIN e = {}
      BY <3>1
    <3>7. Len(e) <= k
      BY <3>2
    <3>3. Take(e, k) = e
      BY <3>7, TakeAll
    <3>4. DOMAIN nodes = {}
      BY <2>1 DEF IndexInv, Shape
    <3>5. Ordered(e) /\ ToSet(e) = PairsOf(nodes, q, DOMAIN nodes)
      BY <3>2, <3>4 DEF Ordered, ToSet, PairsOf
    <3>6. Search(q, k, 0) = e
      BY <2>1, <3>1 DEF Search
    <3> QED BY <3>3, <3>5, <3>6
  <2>2. CASE has_entry
    <3> DEFINE ef == Max({0, k, EfSearch})
               entry == Descend(nodes, q, 0)
               r == SearchLayer(nodes, q, entry, ef, 0)
    <3>1. ef \in Nat \ {0} /\ Cardinality(DOMAIN nodes) <= ef
      <4>1. EfSearch \in Nat /\ EfSearch # 0
        BY HNSWAssumption
      <4>2. ef \in Nat /\ ef >= EfSearch
        BY <4>1, MaxOfThree
      <4>3. Cardinality(DOMAIN nodes) \in Nat
        BY <1>3, FiniteGraph
      <4> HIDE DEF ef
      <4> QED BY <1>1, <4>1, <4>2, <4>3
    <3>2. entry \in DOMAIN nodes
      <4>1. entry_id \in DOMAIN nodes /\ max_level \in Nat
        BY <2>2, HNSWAssumption DEF IndexInv, Shape
      <4> QED BY <1>3, <4>1, WholeGraphClosed, DescendStays
    <3> HIDE DEF ef, entry
    <3>3. /\ r \in Seq(Nat \X DOMAIN nodes) /\ Ordered(r)
          /\ ToSet(r) = PairsOf(nodes, q, DOMAIN nodes)
      BY <1>2, <1>3, <3>1, <3>2, SearchLayerFindsAll
    <3>4. Search(q, k, 0) = Take(r, k)
      BY <2>2 DEF Search, ef, entry
    <3> HIDE DEF r
    <3>5. r \in Seq(Pairs)
      <4>1. Nat \X DOMAIN nodes \subseteq Pairs
        BY <1>3, GraphPairs
      <4> QED BY <3>3, <4>1, SeqsWithin
    <3> QED BY <3>3, <3>4, <3>5
  <2> QED BY <2>1, <2>2
<1>5. PICK r \in Seq(Pairs) : /\ Ordered(r) /\ ToSet(r) = PairsOf(nodes, q, DOMAIN nodes)
                              /\ Search(q, k, 0) = Take(r, k)
  BY <1>4
<1>6. /\ {Flat!Pair(flat[i], q) : i \in DOMAIN flat} = PairsOf(nodes, q, DOMAIN nodes)
      /\ \A i \in DOMAIN flat : flat[i].id \in Nat
  BY <1>2, SamePairs
<1>7. \A i, j \in DOMAIN flat : i # j => flat[i].id # flat[j].id
  BY <1>2 DEF Twin
<1>8. PICK s \in Seq(Pairs) : /\ Ordered(s)
                              /\ ToSet(s) = {Flat!Pair(flat[i], q) : i \in DOMAIN flat}
                              /\ Flat!Search(flat, q, k) = Take(s, k)
  BY <1>3, <1>6, <1>7, FlatSearchFinds
<1>9. r = s
  BY <1>5, <1>6, <1>8, OrderedUnique
<1> QED
  BY <1>5, <1>8, <1>9

(* Until a node is removed or replaced or a list is cut, and while there are no more
   nodes than ef_search, Search returns what a search of all vectors returns, for
   every query and every k (hnsw.cpp:52-111, 197-219; flat.cpp:27-51). *)
THEOREM SmallIndexIsExact == MCSpec => []ExactWhileSmall
  BY PieceCorrect, PieceIsExact, PTL

(* So if ef_search is not below the number of ids, Search is exact until then. *)
THEOREM SearchesAreExact ==
  ASSUME IsFiniteSet(Ids), Cardinality(Ids) <= EfSearch
  PROVE  MCSpec => []SearchIsExact
<1>1. ASSUME IndexInv, InOnePiece PROVE SearchIsExact
  <2>1. Cardinality(DOMAIN nodes) <= EfSearch
    <3>1. DOMAIN nodes \in SUBSET Ids
      BY <1>1 DEF IndexInv, Shape
    <3>2. Cardinality(DOMAIN nodes) <= Cardinality(Ids)
      BY <3>1, FS_Subset
    <3>3. Cardinality(DOMAIN nodes) \in Nat /\ Cardinality(Ids) \in Nat /\ EfSearch \in Nat
      BY <1>1, FiniteGraph, FS_CardinalityType, HNSWAssumption DEF IndexInv, Shape
    <3> QED BY <3>2, <3>3
  <2>2. ExactWhileSmall
    BY <1>1, PieceIsExact
  <2>3. Ks \subseteq Nat
    BY DEF Ks
  <2> QED BY <2>1, <2>2, <2>3 DEF ExactWhileSmall, SearchIsExact
<1> QED
  BY <1>1, PieceCorrect, PTL
==============================================================================
