------------------------------- MODULE Nearest -------------------------------
(***************************************************************************)
(* Lists of <<distance, id>> pairs in the order of std::pair, nearest      *)
(* first: what the two indexes keep in their priority queues.              *)
(***************************************************************************)
EXTENDS Integers, FiniteSets, SequencesExt

Before(a, b) == (a[1] < b[1]) \/ (a[1] = b[1] /\ a[2] < b[2])

InSorted(s, x) == InsertAt(s, Cardinality({i \in DOMAIN s : Before(s[i], x)}) + 1, x)

Take(s, n) == SubSeq(s, 1, Min({n, Len(s)}))

(* push, then pop the worst if there are more than n *)
Kept(s, x, n) == Take(InSorted(s, x), n)

IdsOf(pairs) == [i \in DOMAIN pairs |-> pairs[i][2]]
=============================================================================
