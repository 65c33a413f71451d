---------------------------- MODULE SequenceFacts ----------------------------
(***************************************************************************)
(* Facts about numbers, sequences, folds and recursive functions that the  *)
(* proofs of more than one component need.                                 *)
(***************************************************************************)
EXTENDS SequencesExt, FiniteSetTheorems, SequenceTheorems, WellFoundedInduction, TLAPS

-----------------------------------------------------------------------------
(* Nat is well-founded: a set of numbers has a least element, and a set with zero
   and every successor is all of Nat (the library's induction, without operators). *)
LEMMA LeastNatural ==
  ASSUME NEW S \in SUBSET Nat, S # {}
  PROVE  \E m \in S : \A n \in S : m <= n
<1> DEFINE R == {ss \in Nat \X Nat : ss[1] < ss[2]}
<1>1. IsWellFoundedOn(R, Nat)
  BY NatLessThanWellFounded DEF OpToRel
<1> HIDE DEF R
<1>2. PICK m \in S : \A n \in S : ~(<<n, m>> \in R)
  BY <1>1, WFMin
<1>3. \A n \in S : ~(n < m)
  BY <1>2 DEF R
<1> QED
  BY <1>3

LEMMA SetInduction ==
  ASSUME NEW S, 0 \in S, \A n \in Nat : n \in S => n + 1 \in S
  PROVE  Nat \subseteq S
<1> DEFINE T == Nat \ S
<1>1. SUFFICES ASSUME T # {} PROVE FALSE
  OBVIOUS
<1>2. PICK m \in T : \A n \in T : m <= n
  BY <1>1, LeastNatural
<1>3. m - 1 \in Nat /\ m - 1 \notin T
  BY <1>2
<1> QED
  BY <1>2, <1>3

LEMMA Greatest ==
  ASSUME NEW n \in Nat, NEW S \in SUBSET (0 .. n), S # {}
  PROVE  \E m \in S : \A k \in S : k <= m
<1> DEFINE T == {n - k : k \in S}
<1>1. T \in SUBSET Nat /\ T # {}
  <2>1. \A k \in S : k \in Int /\ n - k \in Nat
    OBVIOUS
  <2> QED BY <2>1
<1>2. PICK t \in T : \A u \in T : t <= u
  BY <1>1, LeastNatural
<1>3. PICK m \in S : t = n - m
  BY <1>2
<1>4. ASSUME NEW k \in S PROVE k <= m
  <2>1. n - m <= n - k
    BY <1>2, <1>3
  <2> QED BY <2>1
<1> QED
  BY <1>3, <1>4

LEMMA MaxOf ==
  ASSUME NEW n \in Nat, NEW S \in SUBSET (0 .. n), S # {}
  PROVE  Max(S) \in S /\ \A k \in S : k <= Max(S)
<1>1. \E m \in S : \A k \in S : m >= k
  <2>1. PICK m \in S : \A k \in S : k <= m
    BY Greatest
  <2>2. m \in Int /\ \A k \in S : k \in Int
    OBVIOUS
  <2>3. \A k \in S : m >= k
    BY <2>1, <2>2
  <2> QED BY <2>3
<1>2. Max(S) \in S /\ \A k \in S : Max(S) >= k
  BY <1>1 DEF Max
<1>3. Max(S) \in S /\ \A k \in S : k \in Int
  BY <1>2
<1>4. Max(S) \in Int
  BY <1>3
<1>5. ASSUME NEW k \in S PROVE k <= Max(S)
  BY <1>2, <1>3, <1>4, <1>5
<1> QED
  BY <1>3, <1>5

LEMMA MinOfTwo ==
  ASSUME NEW a \in Int, NEW b \in Int
  PROVE  Min({a, b}) = IF a <= b THEN a ELSE b
<1> DEFINE m == IF a <= b THEN a ELSE b
<1>1. m \in {a, b} /\ m <= a /\ m <= b
  OBVIOUS
<1>2. \A x \in {a, b} : (\A y \in {a, b} : x <= y) => x = m
  OBVIOUS
<1> HIDE DEF m
<1>3. \A y \in {a, b} : m <= y
  BY <1>1
<1>4. Min({a, b}) = m
  BY <1>1, <1>2, <1>3 DEF Min
<1> QED
  BY <1>4 DEF m

-----------------------------------------------------------------------------
(* Sequences without repetition *)

(* Erasing position i shifts what is behind it one place to the front. *)
LEMMA RemoveAtElements ==
  ASSUME NEW S, NEW s \in Seq(S), NEW i \in DOMAIN s
  PROVE  /\ RemoveAt(s, i) \in Seq(S)
         /\ Len(RemoveAt(s, i)) = Len(s) - 1
         /\ \A j \in 1 .. (Len(s) - 1) :
              RemoveAt(s, i)[j] = IF j < i THEN s[j] ELSE s[j + 1]
<1> DEFINE front == SubSeq(s, 1, i - 1)
           back == SubSeq(s, i + 1, Len(s))
<1>1. Len(s) \in Nat /\ i \in 1 .. Len(s)
  BY LenProperties
<1>2. /\ front \in Seq(S) /\ Len(front) = i - 1
      /\ \A j \in 1 .. (i - 1) : front[j] = s[j]
  BY <1>1, SubSeqProperties
<1>3. /\ back \in Seq(S) /\ Len(back) = Len(s) - i
      /\ \A j \in 1 .. (Len(s) - i) : back[j] = s[i + j]
  BY <1>1, SubSeqProperties
<1> HIDE DEF front, back
<1>4. /\ front \o back \in Seq(S)
      /\ Len(front \o back) = Len(front) + Len(back)
      /\ \A j \in 1 .. Len(front) + Len(back) :
           (front \o back)[j] = IF j <= Len(front) THEN front[j] ELSE back[j - Len(front)]
  BY <1>2, <1>3, ConcatProperties
<1> DEFINE r == front \o back
<1>5. r \in Seq(S) /\ Len(r) = Len(s) - 1
  BY <1>1, <1>2, <1>3, <1>4
<1>6. \A j \in 1 .. Len(front) + Len(back) :
        r[j] = IF j <= Len(front) THEN front[j] ELSE back[j - Len(front)]
  BY <1>4
<1> HIDE DEF r
<1>7. ASSUME NEW j \in 1 .. (Len(s) - 1)
      PROVE r[j] = IF j < i THEN s[j] ELSE s[j + 1]
  <2>1. Len(front) + Len(back) = Len(s) - 1
    BY <1>1, <1>2, <1>3
  <2>2. r[j] = IF j <= i - 1 THEN front[j] ELSE back[j - (i - 1)]
    BY <1>2, <1>6, <2>1
  <2>3. CASE j < i
    <3>1. j \in 1 .. (i - 1) /\ j <= i - 1
      BY <1>1, <2>3
    <3> QED BY <1>2, <2>2, <2>3, <3>1
  <2>4. CASE ~(j < i)
    <3>1. j - (i - 1) \in 1 .. (Len(s) - i) /\ i + (j - (i - 1)) = j + 1
      BY <1>1, <2>4
    <3>2. back[j - (i - 1)] = s[j + 1]
      BY <1>3, <3>1
    <3>3. ~(j <= i - 1)
      BY <1>1, <2>4
    <3> QED BY <2>2, <2>4, <3>2, <3>3
  <2> QED BY <2>3, <2>4
<1> QED
  BY <1>5, <1>7 DEF RemoveAt, front, back, r

(* Erasing an element of a list without repetition removes exactly it. *)
LEMMA RemoveAtInjective ==
  ASSUME NEW S, NEW s \in Seq(S), NEW i \in DOMAIN s, IsInjective(s)
  PROVE  /\ IsInjective(RemoveAt(s, i))
         /\ ToSet(RemoveAt(s, i)) = ToSet(s) \ {s[i]}
<1> DEFINE r == RemoveAt(s, i)
<1>1. /\ r \in Seq(S) /\ Len(r) = Len(s) - 1
      /\ \A j \in 1 .. (Len(s) - 1) : r[j] = IF j < i THEN s[j] ELSE s[j + 1]
  BY RemoveAtElements
<1>2. /\ Len(s) \in Nat /\ DOMAIN s = 1 .. Len(s) /\ DOMAIN r = 1 .. (Len(s) - 1)
      /\ i \in 1 .. Len(s)
  BY <1>1, LenProperties
<1> HIDE DEF r
<1>3. IsInjective(r)
  <2>1. SUFFICES ASSUME NEW a \in DOMAIN r, NEW b \in DOMAIN r, r[a] = r[b] PROVE a = b
    BY DEF IsInjective
  <2>2. /\ a \in 1 .. (Len(s) - 1) /\ b \in 1 .. (Len(s) - 1)
        /\ a \in DOMAIN s /\ a + 1 \in DOMAIN s
        /\ b \in DOMAIN s /\ b + 1 \in DOMAIN s
    BY <1>2
  <2>3. /\ r[a] = IF a < i THEN s[a] ELSE s[a + 1]
        /\ r[b] = IF b < i THEN s[b] ELSE s[b + 1]
    BY <1>1, <2>2
  <2>4. \A k, l \in DOMAIN s : s[k] = s[l] => k = l
    BY DEF IsInjective
  <2> DEFINE from(k) == IF k < i THEN k ELSE k + 1
  <2>5. /\ r[a] = s[from(a)] /\ r[b] = s[from(b)]
        /\ from(a) \in DOMAIN s /\ from(b) \in DOMAIN s
    BY <2>2, <2>3
  <2>6. from(a) = from(b)
    BY <2>1, <2>4, <2>5
  <2> QED BY <1>2, <2>2, <2>6
<1>4. ASSUME NEW j \in DOMAIN r PROVE r[j] \in ToSet(s) \ {s[i]}
  BY <1>1, <1>2 DEF ToSet, IsInjective
<1>5. ASSUME NEW k \in DOMAIN s, s[k] # s[i] PROVE s[k] \in ToSet(r)
  <2>1. CASE k < i
    <3>1. k \in DOMAIN r /\ r[k] = s[k]
      BY <1>1, <1>2, <2>1
    <3> QED BY <3>1 DEF ToSet
  <2>2. CASE k > i
    <3>1. k - 1 \in DOMAIN r /\ r[k - 1] = s[k]
      BY <1>1, <1>2, <2>2
    <3> QED BY <3>1 DEF ToSet
  <2> QED BY <1>2, <1>5, <2>1, <2>2
<1> QED
  BY <1>3, <1>4, <1>5 DEF ToSet, r

(* push_back of an id, which may be in the list already. *)
LEMMA AppendElements ==
  ASSUME NEW S, NEW s \in Seq(S), NEW x \in S
  PROVE  Append(s, x) \in Seq(S) /\ ToSet(Append(s, x)) = ToSet(s) \cup {x}
<1> DEFINE r == Append(s, x)
<1>1. /\ r \in Seq(S) /\ Len(r) = Len(s) + 1
      /\ \A j \in 1 .. Len(s) : r[j] = s[j]
      /\ r[Len(s) + 1] = x
  BY AppendProperties
<1>2. /\ Len(s) \in Nat /\ DOMAIN s = 1 .. Len(s) /\ DOMAIN r = 1 .. (Len(s) + 1)
  BY <1>1, LenProperties
<1> HIDE DEF r
<1>3. \A j \in DOMAIN r : r[j] \in ToSet(s) \cup {x}
  BY <1>1, <1>2 DEF ToSet
<1>4. x \in ToSet(r)
  BY <1>1, <1>2 DEF ToSet
<1>5. \A j \in DOMAIN s : s[j] \in ToSet(r)
  BY <1>1, <1>2 DEF ToSet
<1>6. ToSet(r) = ToSet(s) \cup {x}
  BY <1>3, <1>4, <1>5 DEF ToSet
<1> QED
  BY <1>1, <1>6 DEF r

(* push_back of an id that is not in the list. *)
LEMMA AppendInjectiveSeq ==
  ASSUME NEW S, NEW s \in Seq(S), NEW x \in S, IsInjective(s), x \notin ToSet(s)
  PROVE  /\ Append(s, x) \in Seq(S)
         /\ IsInjective(Append(s, x))
         /\ ToSet(Append(s, x)) = ToSet(s) \cup {x}
<1> DEFINE r == Append(s, x)
<1>1. /\ r \in Seq(S) /\ Len(r) = Len(s) + 1
      /\ \A j \in 1 .. Len(s) : r[j] = s[j]
      /\ r[Len(s) + 1] = x
  BY AppendProperties
<1>2. /\ Len(s) \in Nat /\ DOMAIN s = 1 .. Len(s) /\ DOMAIN r = 1 .. (Len(s) + 1)
  BY <1>1, LenProperties
<1> HIDE DEF r
<1>3. \A j \in DOMAIN s : s[j] # x
  BY DEF ToSet
<1>4. IsInjective(r)
  BY <1>1, <1>2, <1>3 DEF IsInjective
<1> QED
  BY <1>1, <1>4, AppendElements DEF r

(* Inserting at position i shifts what is behind it one place to the end. *)
LEMMA InsertAtFacts ==
  ASSUME NEW S, NEW s \in Seq(S), NEW i \in 1 .. Len(s) + 1, NEW x \in S
  PROVE  /\ InsertAt(s, i, x) \in Seq(S)
         /\ Len(InsertAt(s, i, x)) = Len(s) + 1
         /\ \A j \in 1 .. Len(s) + 1 :
              InsertAt(s, i, x)[j] = IF j < i THEN s[j] ELSE IF j = i THEN x ELSE s[j - 1]
         /\ ToSet(InsertAt(s, i, x)) = ToSet(s) \cup {x}
<1> DEFINE front == SubSeq(s, 1, i - 1)
           back == SubSeq(s, i, Len(s))
           mid == <<x>>
<1>1. Len(s) \in Nat /\ i \in Nat /\ 1 <= i /\ i <= Len(s) + 1 /\ DOMAIN s = 1 .. Len(s)
  BY LenProperties
<1>2. \A j \in 1 .. Len(s) : s[j] \in S
  BY ElementOfSeq
<1>3. /\ front \in Seq(S) /\ Len(front) = i - 1
      /\ \A j \in 1 .. (i - 1) : front[j] = s[j]
  <2>1. \A j \in 1 .. (i - 1) : s[j] \in S
    BY <1>1, <1>2
  <2>2. /\ front \in Seq(S) /\ Len(front) = IF 1 <= i - 1 THEN (i - 1) - 1 + 1 ELSE 0
        /\ \A j \in 1 .. (i - 1) - 1 + 1 : front[j] = s[1 + j - 1]
    BY <1>1, <2>1, SubSeqProperties
  <2> HIDE DEF front
  <2> QED BY <1>1, <2>2
<1>4. /\ back \in Seq(S) /\ Len(back) = Len(s) + 1 - i
      /\ \A j \in 1 .. (Len(s) + 1 - i) : back[j] = s[i + j - 1]
  <2>1. \A j \in i .. Len(s) : s[j] \in S
    BY <1>1, <1>2
  <2>2. /\ back \in Seq(S) /\ Len(back) = IF i <= Len(s) THEN Len(s) - i + 1 ELSE 0
        /\ \A j \in 1 .. Len(s) - i + 1 : back[j] = s[i + j - 1]
    BY <1>1, <2>1, SubSeqProperties
  <2> HIDE DEF back
  <2> QED BY <1>1, <2>2
<1>5. mid \in Seq(S) /\ Len(mid) = 1 /\ mid[1] = x
  OBVIOUS
<1> HIDE DEF front, back, mid
<1> DEFINE f == front \o mid
<1>6. /\ f \in Seq(S) /\ Len(f) = i
      /\ \A j \in 1 .. i : f[j] = IF j < i THEN s[j] ELSE x
  <2>1. /\ f \in Seq(S) /\ Len(f) = Len(front) + Len(mid)
        /\ \A j \in 1 .. Len(front) + Len(mid) :
             f[j] = IF j <= Len(front) THEN front[j] ELSE mid[j - Len(front)]
    BY <1>3, <1>5, ConcatProperties
  <2> HIDE DEF f
  <2>2. Len(f) = i
    BY <1>1, <1>3, <1>5, <2>1
  <2>3. ASSUME NEW j \in 1 .. i PROVE f[j] = IF j < i THEN s[j] ELSE x
    <3>1. j \in 1 .. Len(front) + Len(mid)
      BY <1>1, <1>3, <1>5
    <3>2. CASE j < i
      <4>1. j \in 1 .. (i - 1) /\ j <= Len(front)
        BY <1>1, <1>3, <3>2
      <4> QED BY <1>3, <2>1, <3>1, <3>2, <4>1
    <3>3. CASE j = i
      <4>1. ~(j <= Len(front)) /\ j - Len(front) = 1
        BY <1>1, <1>3, <3>3
      <4> QED BY <1>5, <2>1, <3>1, <3>3, <4>1
    <3> QED BY <1>1, <3>2, <3>3
  <2> QED BY <2>1, <2>2, <2>3
<1> HIDE DEF f
<1> DEFINE r == f \o back
<1>7. /\ r \in Seq(S) /\ Len(r) = Len(f) + Len(back)
      /\ \A j \in 1 .. Len(f) + Len(back) :
           r[j] = IF j <= Len(f) THEN f[j] ELSE back[j - Len(f)]
  BY <1>4, <1>6, ConcatProperties
<1> HIDE DEF r
<1>8. Len(r) = Len(s) + 1
  BY <1>1, <1>4, <1>6, <1>7
<1>9. ASSUME NEW j \in 1 .. Len(s) + 1
      PROVE  r[j] = IF j < i THEN s[j] ELSE IF j = i THEN x ELSE s[j - 1]
  <2>1. j \in 1 .. Len(f) + Len(back)
    BY <1>1, <1>4, <1>6
  <2>2. CASE j <= i
    <3>1. j \in 1 .. i
      BY <1>1, <2>2
    <3>2. r[j] = f[j]
      BY <1>6, <1>7, <2>1, <2>2
    <3> QED BY <1>1, <1>6, <2>2, <3>1, <3>2
  <2>3. CASE ~(j <= i)
    <3>1. j - i \in 1 .. (Len(s) + 1 - i) /\ i + (j - i) - 1 = j - 1
      BY <1>1, <2>3
    <3>2. r[j] = back[j - i]
      BY <1>6, <1>7, <2>1, <2>3
    <3>3. ~(j < i) /\ j # i
      BY <1>1, <2>3
    <3> QED BY <1>4, <3>1, <3>2, <3>3
  <2> QED BY <2>2, <2>3
<1>10. ToSet(r) = ToSet(s) \cup {x}
  <2>1. DOMAIN r = 1 .. Len(s) + 1
    BY <1>7, <1>8, LenProperties
  <2>2. ASSUME NEW j \in DOMAIN r PROVE r[j] \in ToSet(s) \cup {x}
    <3>1. j < i => j \in DOMAIN s
      BY <1>1, <2>1
    <3>2. ~(j < i) /\ j # i => j - 1 \in DOMAIN s
      BY <1>1, <2>1
    <3> QED BY <1>9, <2>1, <3>1, <3>2 DEF ToSet
  <2>3. x \in ToSet(r)
    <3>1. i \in DOMAIN r /\ r[i] = x
      BY <1>1, <1>9, <2>1
    <3> QED BY <3>1 DEF ToSet
  <2>4. ASSUME NEW j \in DOMAIN s PROVE s[j] \in ToSet(r)
    <3>1. CASE j < i
      <4>1. j \in DOMAIN r /\ r[j] = s[j]
        BY <1>1, <1>9, <2>1, <3>1
      <4> QED BY <4>1 DEF ToSet
    <3>2. CASE ~(j < i)
      <4>1. j + 1 \in DOMAIN r /\ ~(j + 1 < i) /\ j + 1 # i /\ (j + 1) - 1 = j
        BY <1>1, <2>1, <3>2
      <4>2. r[j + 1] = s[j]
        BY <1>9, <2>1, <4>1
      <4> QED BY <4>1, <4>2 DEF ToSet
    <3> QED BY <3>1, <3>2
  <2> QED BY <2>2, <2>3, <2>4 DEF ToSet
<1>11. InsertAt(s, i, x) = r
  BY DEF InsertAt, r, f, front, mid, back
<1> QED
  BY <1>7, <1>8, <1>9, <1>10, <1>11

-----------------------------------------------------------------------------
(* Recursive functions *)

(* What holds of 0, and of every i up to n if it holds of i - 1, holds up to n. *)
LEMMA UpTo ==
  ASSUME NEW n \in Nat, NEW P, 0 \in P, \A i \in 1 .. n : i - 1 \in P => i \in P
  PROVE  0 .. n \subseteq P
<1> DEFINE T == {i \in Nat : i <= n => i \in P}
<1>1. 0 \in T
  OBVIOUS
<1>2. ASSUME NEW i \in Nat, i \in T PROVE i + 1 \in T
  <2>1. SUFFICES ASSUME i + 1 <= n PROVE i + 1 \in P
    OBVIOUS
  <2>2. i + 1 \in 1 .. n /\ (i + 1) - 1 = i /\ i \in P
    BY <1>2, <2>1
  <2> QED BY <2>2
<1>3. Nat \subseteq T
  <2> HIDE DEF T
  <2> QED BY <1>1, <1>2, SetInduction
<1> QED
  BY <1>3

LEMMA IntervalTop ==
  ASSUME NEW n \in Nat, NEW i \in 1 .. n
  PROVE  /\ 1 .. i \in SUBSET (1 .. n) /\ 1 .. i # {}
         /\ Max(1 .. i) = i
         /\ (1 .. i) \ {i} = 1 .. (i - 1)
<1>1. i \in 1 .. i /\ 1 .. i \in SUBSET (0 .. i) /\ i \in Nat
  OBVIOUS
<1>2. Max(1 .. i) \in 1 .. i /\ \A k \in 1 .. i : k <= Max(1 .. i)
  BY <1>1, MaxOf
<1>3. i <= Max(1 .. i) /\ Max(1 .. i) \in 1 .. i
  BY <1>1, <1>2
<1>4. Max(1 .. i) = i
  <2> DEFINE m == Max(1 .. i)
  <2>1. i <= m /\ m \in 1 .. i
    BY <1>3
  <2> HIDE DEF m
  <2>2. m = i
    BY <2>1
  <2> QED BY <2>2 DEF m
<1> QED
  BY <1>1, <1>4

(* What a fold over 1 .. n is defined by: the last element is taken first. *)
FoldOf(it, n, base, op) ==
  \A s \in SUBSET (1 .. n) :
    it[s] = IF s = {} THEN base ELSE op[<<it[s \ {Max(s)}], Max(s)>>]

(* The function that a fold is defined by exists. *)
LEMMA FoldExists ==
  ASSUME NEW n \in Nat, NEW S, NEW base \in S, NEW op \in [S \X (1 .. n) -> S]
  PROVE  \E it \in [SUBSET (1 .. n) -> S] : FoldOf(it, n, base, op)
<1> DEFINE Solves(it, i) ==
             \A s \in SUBSET (1 .. i) :
               it[s] = IF s = {} THEN base ELSE op[<<it[s \ {Max(s)}], Max(s)>>]
           P == {i \in 0 .. n : \E it \in [SUBSET (1 .. i) -> S] : Solves(it, i)}
<1>1. 0 \in P
  <2> DEFINE it == [s \in SUBSET (1 .. 0) |-> base]
  <2>1. it \in [SUBSET (1 .. 0) -> S] /\ Solves(it, 0)
    OBVIOUS
  <2>2. \E f \in [SUBSET (1 .. 0) -> S] : Solves(f, 0)
    BY <2>1, Zenon
  <2>3. 0 \in 0 .. n
    OBVIOUS
  <2> HIDE DEF Solves, it
  <2> QED BY <2>2, <2>3
<1>2. ASSUME NEW i \in 1 .. n, i - 1 \in P PROVE i \in P
  <2>1. PICK f \in [SUBSET (1 .. (i - 1)) -> S] : Solves(f, i - 1)
    BY <1>2
  <2> DEFINE it == [s \in SUBSET (1 .. i) |->
                      IF i \in s THEN op[<<f[s \ {i}], i>>] ELSE f[s]]
  <2>2. \A s \in SUBSET (1 .. i) : s \ {i} \in SUBSET (1 .. (i - 1))
    OBVIOUS
  <2>3. \A s \in SUBSET (1 .. i) : i \notin s => s \in SUBSET (1 .. (i - 1))
    OBVIOUS
  <2>4. it \in [SUBSET (1 .. i) -> S]
    <3>1. ASSUME NEW s \in SUBSET (1 .. i) PROVE it[s] \in S
      <4>1. CASE i \in s
        BY <2>2, <4>1
      <4>2. CASE i \notin s
        BY <2>3, <4>2
      <4> QED BY <4>1, <4>2
    <3> QED BY <3>1
  <2>5. ASSUME NEW s \in SUBSET (1 .. i)
        PROVE it[s] = IF s = {} THEN base ELSE op[<<it[s \ {Max(s)}], Max(s)>>]
    <3>1. CASE i \in s
      <4>1. s \in SUBSET (0 .. i) /\ s # {} /\ i \in Nat
        BY <3>1
      <4>2. Max(s) \in s /\ i <= Max(s)
        BY <3>1, <4>1, MaxOf
      <4>3. Max(s) = i
        <5> DEFINE m == Max(s)
        <5>1. m \in 1 .. i /\ i <= m
          BY <4>2
        <5> HIDE DEF m
        <5>2. m = i
          BY <5>1
        <5> QED BY <5>2 DEF m
      <4>4. it[s \ {i}] = f[s \ {i}] /\ it[s] = op[<<f[s \ {i}], i>>]
        BY <3>1
      <4> QED BY <4>1, <4>3, <4>4
    <3>2. CASE i \notin s /\ s # {}
      <4>1. s \in SUBSET (1 .. (i - 1)) /\ s \in SUBSET (0 .. i) /\ i \in Nat
        BY <3>2
      <4>2. Max(s) \in s
        BY <3>2, <4>1, MaxOf
      <4>3. it[s] = f[s] /\ it[s \ {Max(s)}] = f[s \ {Max(s)}]
        BY <3>2, <4>2
      <4>4. f[s] = op[<<f[s \ {Max(s)}], Max(s)>>]
        BY <2>1, <3>2, <4>1
      <4> QED BY <3>2, <4>3, <4>4
    <3>3. CASE s = {}
      <4>1. f[s] = base /\ it[s] = f[s]
        BY <2>1, <3>3
      <4> QED BY <3>3, <4>1
    <3> QED BY <3>1, <3>2, <3>3
  <2>6. Solves(it, i)
    <3> HIDE DEF it
    <3> QED BY <2>5
  <2>7. \E h \in [SUBSET (1 .. i) -> S] : Solves(h, i)
    <3> HIDE DEF it, Solves
    <3> QED BY <2>4, <2>6
  <2>8. i \in 0 .. n
    OBVIOUS
  <2> HIDE DEF Solves
  <2> QED BY <2>7, <2>8
<1>3. 0 .. n \subseteq P
  <2> HIDE DEF P
  <2> QED BY <1>1, <1>2, UpTo
<1>4. n \in P
  <2>1. n \in 0 .. n
    OBVIOUS
  <2> HIDE DEF P
  <2> QED BY <1>3, <2>1
<1>5. \E it \in [SUBSET (1 .. n) -> S] : Solves(it, n)
  <2> HIDE DEF Solves
  <2> QED BY <1>4
<1> QED
  BY <1>5 DEF FoldOf

(* A function that, unless it is done, calls itself in the end with the next argument. *)
LoopOf(f, S, done, out, next) ==
  f = [s \in S |-> IF s \in done THEN out[s] ELSE f[next[s]]]

(* Each argument in A is larger than the next. *)
Shrinks(size, A, next) == \A s \in A : size[next[s]] < size[s]

(* The function exists if its arguments grow smaller. *)
LEMMA LoopExists ==
  ASSUME NEW S, NEW T, NEW size \in [S -> Nat], NEW done \in SUBSET S,
         NEW out \in [S -> T], NEW next \in [S \ done -> S], Shrinks(size, S \ done, next)
  PROVE  \E f \in [S -> T] : LoopOf(f, S, done, out, next)
<1> DEFINE D(k) == {s \in S : size[s] < k}
           Solves(f, k) == \A s \in D(k) : f[s] = IF s \in done THEN out[s] ELSE f[next[s]]
           Sol(k) == {f \in [D(k) -> T] : Solves(f, k)}
           K == {k \in Nat : Sol(k) # {}}
<1>0. \A s \in S \ done : next[s] \in S /\ size[next[s]] < size[s]
  BY DEF Shrinks
<1>1. ASSUME NEW k \in Nat, NEW s \in D(k), s \notin done
      PROVE  next[s] \in D(k)
  BY <1>0, <1>1
<1>2. ASSUME NEW k \in Nat, NEW l \in Nat, k <= l, NEW f \in Sol(k), NEW h \in Sol(l)
      PROVE  \A s \in D(k) : f[s] = h[s]
  <2> DEFINE bad == {s \in D(k) : f[s] # h[s]}
             B == {size[s] : s \in bad}
  <2>1. SUFFICES ASSUME bad # {} PROVE FALSE
    OBVIOUS
  <2>2. B \in SUBSET Nat /\ B # {}
    <3>1. \A s \in bad : size[s] \in Nat
      OBVIOUS
    <3> HIDE DEF bad
    <3> QED BY <2>1, <3>1
  <2>3. PICK m \in B : \A j \in B : m <= j
    <3> HIDE DEF B
    <3> QED BY <2>2, LeastNatural
  <2>4. PICK s \in bad : size[s] = m
    OBVIOUS
  <2>5. s \in D(k) /\ s \in D(l) /\ f[s] # h[s]
    BY <1>2, <2>4
  <2>6. s \notin done
    BY <2>5
  <2>7. f[s] = f[next[s]] /\ h[s] = h[next[s]] /\ next[s] \in D(k)
    BY <1>1, <2>5, <2>6
  <2>8. next[s] \in bad
    BY <2>5, <2>7
  <2>9. size[next[s]] \in B /\ size[next[s]] < m /\ m \in Nat /\ size[next[s]] \in Nat
    BY <1>0, <2>2, <2>4, <2>5, <2>6, <2>7, <2>8
  <2>10. m <= size[next[s]]
    <3> HIDE DEF B
    <3> QED BY <2>3, <2>9
  <2> QED BY <2>9, <2>10
<1>3. 0 \in K
  <2>1. D(0) = {}
    OBVIOUS
  <2> DEFINE f == [s \in D(0) |-> out[s]]
  <2>2. f \in [D(0) -> T] /\ Solves(f, 0)
    BY <2>1
  <2>3. f \in Sol(0)
    BY <2>2
  <2> QED BY <2>3
<1>4. ASSUME NEW k \in Nat, k \in K PROVE k + 1 \in K
  <2>1. PICK f \in [D(k) -> T] : Solves(f, k)
    BY <1>4
  <2> DEFINE h == [s \in D(k + 1) |-> IF s \in done THEN out[s] ELSE f[next[s]]]
  <2>2. \A s \in D(k + 1) : s \notin done => next[s] \in D(k)
    BY <1>0
  <2>3. h \in [D(k + 1) -> T]
    BY <2>2
  <2>4. \A s \in D(k) : s \in D(k + 1) /\ h[s] = f[s]
    BY <2>1
  <2>5. ASSUME NEW s \in D(k + 1)
        PROVE h[s] = IF s \in done THEN out[s] ELSE h[next[s]]
    BY <2>2, <2>4
  <2>6. h \in Sol(k + 1)
    <3> HIDE DEF h
    <3> QED BY <2>3, <2>5
  <2>7. k + 1 \in Nat /\ Sol(k + 1) # {}
    <3> HIDE DEF Sol, h
    <3> QED BY <2>6
  <2> HIDE DEF Sol
  <2> QED BY <2>7
<1> HIDE DEF Sol
<1>5. \A k \in Nat : Sol(k) # {}
  <2>1. Nat \subseteq K
    <3>1. 0 \in K /\ \A k \in Nat : k \in K => k + 1 \in K
      BY <1>3, <1>4
    <3> HIDE DEF K
    <3> QED BY <3>1, SetInduction
  <2> QED BY <2>1
<1> DEFINE upTo == [k \in Nat |-> CHOOSE h : h \in Sol(k)]
           F == [s \in S |-> upTo[size[s] + 1][s]]
<1>6. \A k \in Nat : upTo[k] \in Sol(k)
  BY <1>5
<1> HIDE DEF upTo
<1>7. ASSUME NEW s \in S
      PROVE  F[s] \in T /\ F[s] = IF s \in done THEN out[s] ELSE F[next[s]]
  <2> DEFINE h == upTo[size[s] + 1]
  <2>1. size[s] + 1 \in Nat /\ h \in Sol(size[s] + 1) /\ s \in D(size[s] + 1)
    BY <1>6
  <2>2. h[s] \in T /\ h[s] = IF s \in done THEN out[s] ELSE h[next[s]]
    <3> HIDE DEF h
    <3> QED BY <2>1 DEF Sol
  <2>3. ASSUME s \notin done PROVE F[next[s]] = h[next[s]]
    <3> DEFINE k == size[next[s]] + 1
    <3>1. /\ k \in Nat /\ k <= size[s] + 1
          /\ next[s] \in S /\ next[s] \in D(k) /\ upTo[k] \in Sol(k)
      BY <1>0, <1>6, <2>3
    <3>2. F[next[s]] = upTo[k][next[s]]
      BY <3>1
    <3> HIDE DEF h, k, F, D
    <3> QED BY <1>2, <2>1, <3>1, <3>2
  <2> QED BY <2>2, <2>3
<1>8. F \in [S -> T] /\ F = [s \in S |-> IF s \in done THEN out[s] ELSE F[next[s]]]
  <2>1. F = [s \in S |-> F[s]]
    OBVIOUS
  <2> HIDE DEF F
  <2> QED BY <1>7, <2>1
<1> HIDE DEF F
<1> QED
  BY <1>8 DEF LoopOf

(* What the loop keeps true holds of the argument that it ends with. *)
LEMMA LoopEnds ==
  ASSUME NEW S, NEW size \in [S -> Nat], NEW done \in SUBSET S,
         NEW out, NEW next, NEW f, LoopOf(f, S, done, out, next),
         NEW I \in SUBSET S, NEW start \in I, Shrinks(size, I \ done, next),
         \A s \in I \ done : next[s] \in I
  PROVE  f[start] \in {out[s] : s \in I \cap done}
<1> DEFINE same == {s \in I : f[s] = f[start]}
           B == {size[s] : s \in same}
<1>1. B \in SUBSET Nat /\ B # {}
  OBVIOUS
<1>2. PICK m \in B : \A j \in B : m <= j
  <2> HIDE DEF B
  <2> QED BY <1>1, LeastNatural
<1>3. PICK s \in same : size[s] = m
  OBVIOUS
<1>4. s \in I /\ f[s] = f[start] /\ m \in Nat
  BY <1>1
<1>5. s \in done
  <2>1. SUFFICES ASSUME s \notin done PROVE FALSE
    OBVIOUS
  <2>2. next[s] \in I /\ size[next[s]] < m /\ f[next[s]] = f[start]
    <3>1. f[s] = f[next[s]]
      BY <1>4, <2>1 DEF LoopOf
    <3> QED BY <1>3, <1>4, <2>1, <3>1 DEF Shrinks
  <2>3. size[next[s]] \in B /\ size[next[s]] \in Nat
    BY <2>2
  <2>4. m <= size[next[s]]
    <3> HIDE DEF B
    <3> QED BY <1>2, <2>3
  <2> QED BY <1>4, <2>2, <2>3, <2>4
<1>6. f[start] = out[s]
  BY <1>4, <1>5 DEF LoopOf
<1> QED
  BY <1>4, <1>5, <1>6
==============================================================================
