-------------------------- MODULE PageManagerProofs --------------------------
(***************************************************************************)
(* Proofs about PageManager, for every number of threads, frames and pages:*)
(* type correctness, the structure of the pool that the threads share, that*)
(* an id has one owner although AllocPage is several calls, what a saved   *)
(* free list holds, that a pinned page keeps its frame, and what           *)
(* VV_ERR_NOMEM means.                                                     *)
(***************************************************************************)
EXTENDS MCPageManager, BufferPoolProofs

-----------------------------------------------------------------------------
(* The free list *)

(* Allocate takes exactly the id freed last off a list without repetition. *)
LEMMA AllocateProperties ==
  ASSUME NEW free \in Seq(PageIds), free # << >>, IsInjective(free)
  PROVE  /\ Allocated(free) \in ToSet(free)
         /\ AfterAllocate(free) \in Seq(PageIds)
         /\ IsInjective(AfterAllocate(free))
         /\ ToSet(AfterAllocate(free)) = ToSet(free) \ {Allocated(free)}
<1> DEFINE n == Len(free)
<1>1. n \in Nat \ {0} /\ DOMAIN free = 1 .. n
  BY LenProperties, EmptySeq
<1>2. n \in DOMAIN free /\ Allocated(free) = free[n]
  BY <1>1 DEF Allocated, Last
<1>3. AfterAllocate(free) = RemoveAt(free, n)
  <2>1. AfterAllocate(free) = SubSeq(free, 1, n - 1)
    BY DEF AfterAllocate, Front
  <2>2. SubSeq(free, n + 1, n) = << >>
    BY <1>1, SubSeqEmpty
  <2>3. SubSeq(free, 1, n - 1) \in Seq(PageIds)
    BY <1>1, SubSeqProperties
  <2> QED BY <2>1, <2>2, <2>3, ConcatEmptySeq DEF RemoveAt
<1> HIDE DEF n
<1>4. RemoveAt(free, n) \in Seq(PageIds)
  BY <1>2, RemoveAtElements
<1>5. IsInjective(RemoveAt(free, n)) /\ ToSet(RemoveAt(free, n)) = ToSet(free) \ {free[n]}
  BY <1>2, RemoveAtInjective
<1> QED
  BY <1>2, <1>3, <1>4, <1>5 DEF ToSet

LEMMA ListElements ==
  ASSUME NEW free \in Seq(PageIds)
  PROVE  ToSet(free) \subseteq PageIds
BY LenProperties DEF ToSet

-----------------------------------------------------------------------------
(* The inductive invariant.  Besides the pool's, which asks that ids given to
   GetPage have been issued, and the property itself: what an AllocPage under way
   has taken off the free list is an issued id as well, and it has one between the
   two locks only. *)

AllocIds ==
  \A t \in Threads :
    /\ alloc[t].id # NoPage <=> alloc[t].step \in {"get", "copy"}
    /\ alloc[t].id # NoPage => FirstDataPage <= alloc[t].id /\ alloc[t].id < next_page_id

PMInv ==
  /\ PMTypeOK
  /\ PoolInv
  /\ FirstDataPage <= next_page_id
  /\ NoDoubleAllocation
  /\ AllocIds

LEMMA PMInitInv == PMInit => PMInv
<1> SUFFICES ASSUME PMInit PROVE PMInv
  OBVIOUS
<1>1. PoolInv
  BY InitInv DEF PMInit
<1>2. PMTypeOK
  BY <1>1 DEF PMInit, PMTypeOK, PoolInv, NoAlloc, AllocState
<1>3. FirstDataPage <= next_page_id
  BY PageCountIsNat, PoolAssumption DEF PMInit, Init, FirstNewId
<1>4. ToSet(free_pages) = {} /\ IsInjective(free_pages) /\ owned = {}
  BY DEF PMInit, ToSet, IsInjective
<1>5. NoDoubleAllocation
  BY <1>4 DEF PMInit, NoDoubleAllocation
<1>6. AllocIds
  BY DEF PMInit, AllocIds, NoAlloc
<1> QED
  BY <1>1, <1>2, <1>3, <1>5, <1>6 DEF PMInv

-----------------------------------------------------------------------------
(* The pool's side of a step: a call of the pool, or none. *)

LEMMA PoolSide ==
  ASSUME PMInv, NEW t \in Threads, UsesPool(t) \/ UNCHANGED vars
  PROVE  PoolInv' /\ next_page_id <= next_page_id'
<1>1. PoolInv /\ next_page_id \in Nat
  BY DEF PMInv, PoolInv, TypeOK
<1>2. CASE UsesPool(t)
  <2>1. PoolInv'
    BY <1>1, <1>2, UsesPoolInv
  <2>2. next_page_id' = next_page_id \/ next_page_id' = next_page_id + 1
    BY <1>2
       DEF UsesPool, GetPage, GetPageHit, GetPageMiss, GetPageReadFails, GetPageNoRoom,
           EvictWriteFails, NoFrameFree, NewPage, NewPageNoRoom, WriteFrame, MarkDirty,
           Release, Pin, Unpin, FlushOK, FlushWriteFails, FlushSyncFails
  <2> QED BY <1>1, <2>1, <2>2
<1>3. CASE UNCHANGED vars
  <2>1. PoolInv'
    BY <1>1, <1>3 DEF vars, PoolInv, TypeOK, PoolStructure, IdsIssued, Cached
  <2> QED BY <1>1, <1>3, <2>1 DEF vars
<1> QED
  BY <1>2, <1>3

(* The ids that the page manager asks the pool for have been issued. *)
LEMMA IdsAskedFor ==
  ASSUME PMInv
  PROVE  /\ \A p \in owned \cup ToSet(free_pages) \cup Reserved :
              p \in PageIds /\ p < next_page_id
         /\ \A t \in Threads : alloc[t].step \in {"get", "copy"} =>
              alloc[t].id \in PageIds /\ alloc[t].id < next_page_id
<1>1. ToSet(free_pages) \subseteq PageIds /\ owned \subseteq PageIds
  BY ListElements DEF PMInv, PMTypeOK
<1>2. ASSUME NEW p \in Reserved PROVE p \in PageIds /\ p < next_page_id
  BY PoolAssumption DEF PMInv, PoolInv, TypeOK, Reserved, PageIds
<1>3. \A p \in owned \cup ToSet(free_pages) : p < next_page_id
  BY DEF PMInv, NoDoubleAllocation
<1>4. \A t \in Threads : alloc[t].step \in {"get", "copy"} =>
        alloc[t].id \in PageIds /\ alloc[t].id < next_page_id
  BY DEF PMInv, PMTypeOK, AllocState, AllocIds
<1> QED
  BY <1>1, <1>2, <1>3, <1>4

(* A page's value is one of the pages that callers write in BufferPool. *)
LEMMA CallsUsePool ==
  ASSUME PMInv, NEW t \in Threads
  PROVE  /\ AllocGet(t) => UsesPool(t)
         /\ \A v \in Values : AllocCopy(t, [k \in 1 .. Parts |-> v]) => UsesPool(t)
         /\ AllocMarkDirty(t) => UsesPool(t)
         /\ \A v \in Values : AllocNew(t, [k \in 1 .. Parts |-> v]) => UsesPool(t)
         /\ AllocNewFails(t) => UsesPool(t)
         /\ \A p \in PageIds : PMGetPage(t, p) => UsesPool(t)
         /\ PMMarkDirty(t) => UsesPool(t)
         /\ PMFlush(t) => UsesPool(t)
         /\ UsesFrame(t) => UsesPool(t)
<1>1. AllocGet(t) => UsesPool(t)
  BY IdsAskedFor DEF AllocGet, UsesPool, GetPage
<1>2. \A v \in Values : AllocCopy(t, [k \in 1 .. Parts |-> v]) => UsesPool(t)
  BY DEF AllocCopy, UsesPool
<1>3. \A v \in Values : AllocNew(t, [k \in 1 .. Parts |-> v]) => UsesPool(t)
  BY DEF AllocNew, UsesPool
<1>4. AllocMarkDirty(t) \/ AllocNewFails(t) => UsesPool(t)
  BY DEF AllocMarkDirty, AllocNewFails, UsesPool
<1>5. \A p \in PageIds : PMGetPage(t, p) => UsesPool(t)
  BY IdsAskedFor DEF PMGetPage, UsesPool
<1>6. PMMarkDirty(t) \/ PMFlush(t) \/ UsesFrame(t) => UsesPool(t)
  BY DEF PMMarkDirty, PMFlush, UsesFrame, UsesPool
<1> QED
  BY <1>1, <1>2, <1>3, <1>4, <1>5, <1>6

-----------------------------------------------------------------------------
(* The lists' side of a step. *)

(* No id changes hands: the list and the owned ids are as before, and each
   AllocPage has the id it had, or none any more. *)
LEMMA NoIdMoves ==
  ASSUME PMInv, PMTypeOK', next_page_id' \in Nat, next_page_id <= next_page_id',
         UNCHANGED <<free_pages, owned>>,
         \A t \in Threads : \/ alloc'[t] = alloc[t]
                            \/ alloc'[t].id = NoPage /\ alloc'[t].step \in {"none", "new"}
                            \/ /\ alloc'[t].id = alloc[t].id
                               /\ alloc[t].step = "get" /\ alloc'[t].step = "copy"
  PROVE  FirstDataPage <= next_page_id' /\ NoDoubleAllocation' /\ AllocIds'
<1>1. next_page_id \in Nat /\ FirstDataPage \in Nat /\ FirstDataPage <= next_page_id
  BY PoolAssumption DEF PMInv, PoolInv, TypeOK
<1>2. FirstDataPage <= next_page_id'
  BY <1>1
<1>3. owned \cup ToSet(free_pages) \subseteq PageIds
  BY ListElements DEF PMInv, PMTypeOK
<1>4. NoPage \notin PageIds /\ PageIds \subseteq Int
  BY DEF NoPage, PageIds
<1>5. \A t \in Threads : alloc'[t].id \in {alloc[t].id, NoPage}
  OBVIOUS
<1>6. ASSUME NEW t \in Threads PROVE InAlloc(t)' \notin owned \cup ToSet(free_pages)
  <2>1. CASE alloc'[t].id = NoPage
    BY <1>3, <1>4, <2>1 DEF InAlloc
  <2>2. CASE alloc'[t].id # NoPage
    <3>1. alloc'[t].id = alloc[t].id /\ alloc[t].id # NoPage
      BY <1>5, <2>2
    <3>2. alloc[t] # NoAlloc
      BY <3>1 DEF NoAlloc
    <3> QED BY <3>1, <3>2 DEF PMInv, NoDoubleAllocation, InAlloc
  <2> QED BY <2>1, <2>2
<1>7. ASSUME NEW t \in Threads, NEW u \in Threads \ {t}, alloc'[u].id = alloc'[t].id
      PROVE alloc'[t].id = NoPage
  <2>1. SUFFICES ASSUME alloc'[t].id # NoPage PROVE FALSE
    OBVIOUS
  <2>2. alloc'[t].id = alloc[t].id /\ alloc'[u].id = alloc[u].id /\ alloc[t].id # NoPage
    BY <1>5, <1>7, <2>1
  <2>3. alloc[t] # NoAlloc
    BY <2>2 DEF NoAlloc
  <2> QED BY <1>7, <2>2, <2>3 DEF PMInv, NoDoubleAllocation, InAlloc
<1>8. ASSUME NEW p \in owned \cup ToSet(free_pages)
      PROVE FirstDataPage <= p /\ p < next_page_id'
  <2>1. p \in Int /\ FirstDataPage <= p /\ p < next_page_id
    BY <1>3, <1>4 DEF PMInv, NoDoubleAllocation
  <2> QED BY <1>1, <2>1
<1>9. NoDoubleAllocation'
  BY <1>6, <1>7, <1>8 DEF PMInv, NoDoubleAllocation, InAlloc
<1>10. ASSUME NEW t \in Threads
       PROVE /\ alloc'[t].id # NoPage <=> alloc'[t].step \in {"get", "copy"}
             /\ alloc'[t].id # NoPage =>
                  FirstDataPage <= alloc'[t].id /\ alloc'[t].id < next_page_id'
  <2>1. /\ alloc[t].id # NoPage <=> alloc[t].step \in {"get", "copy"}
        /\ alloc[t].id # NoPage =>
             FirstDataPage <= alloc[t].id /\ alloc[t].id < next_page_id
    BY DEF PMInv, AllocIds
  <2>2. alloc[t].id # NoPage => alloc[t].id \in Int
    BY <1>4 DEF PMInv, PMTypeOK, AllocState
  <2>3. alloc'[t].id # NoPage <=> alloc'[t].step \in {"get", "copy"}
    BY <2>1
  <2>4. alloc'[t].id # NoPage => alloc'[t].id = alloc[t].id /\ alloc[t].id # NoPage
    BY <1>5
  <2> QED BY <1>1, <2>1, <2>2, <2>3, <2>4
<1> QED
  BY <1>2, <1>9, <1>10 DEF AllocIds

(* The id freed last goes from the list to a caller or to an AllocPage. *)
LEMMA RecycledInv ==
  ASSUME PMInv, NEW t \in Threads, AllocRecycled(t) \/ AllocRecycledWithData(t)
  PROVE  PMInv'
<1> DEFINE id == Allocated(free_pages)
<1>1. /\ UNCHANGED vars
      /\ free_pages # << >>
      /\ alloc[t] = NoAlloc
      /\ free_pages' = AfterAllocate(free_pages)
  BY DEF AllocRecycled, AllocRecycledWithData, Ready
<1>2. PoolInv' /\ next_page_id' = next_page_id
  BY <1>1, PoolSide DEF vars
<1>3. /\ id \in ToSet(free_pages)
      /\ free_pages' \in Seq(PageIds)
      /\ IsInjective(free_pages')
      /\ ToSet(free_pages') = ToSet(free_pages) \ {id}
  BY <1>1, AllocateProperties DEF PMInv, PMTypeOK, NoDoubleAllocation
<1>4. id \in PageIds /\ FirstDataPage <= id /\ id < next_page_id /\ id # NoPage
  BY <1>3, ListElements DEF PMInv, PMTypeOK, NoDoubleAllocation, PageIds, NoPage
<1> HIDE DEF id
<1>5. TypeOK'
  BY <1>2 DEF PoolInv
<1>6. id \notin owned /\ \A u \in Threads : alloc[u].id # id
  BY <1>3, <1>4 DEF PMInv, NoDoubleAllocation, InAlloc, NoAlloc
<1>7. CASE AllocRecycled(t)
  <2>1. owned' = owned \cup {id} /\ alloc' = alloc
    BY <1>7 DEF AllocRecycled, id
  <2>2. PMTypeOK'
    BY <1>3, <1>4, <1>5, <2>1 DEF PMInv, PMTypeOK
  <2>3. NoDoubleAllocation'
    BY <1>2, <1>3, <1>4, <1>6, <2>1 DEF PMInv, NoDoubleAllocation, InAlloc
  <2>4. AllocIds'
    BY <1>2, <2>1 DEF PMInv, AllocIds
  <2> QED BY <1>2, <2>2, <2>3, <2>4 DEF PMInv
<1>8. CASE AllocRecycledWithData(t)
  <2>1. owned' = owned /\ alloc' = [alloc EXCEPT ![t] = [step |-> "get", id |-> id]]
    BY <1>8 DEF AllocRecycledWithData, id
  <2>2. PMTypeOK'
    BY <1>3, <1>4, <1>5, <2>1 DEF PMInv, PMTypeOK, AllocState
  <2>3. /\ alloc'[t] = [step |-> "get", id |-> id]
        /\ \A u \in Threads \ {t} : alloc'[u] = alloc[u]
    BY <2>1 DEF PMInv, PMTypeOK
  <2>4. id \notin owned' \cup ToSet(free_pages')
    BY <1>3, <1>6, <2>1
  <2>5. NoDoubleAllocation'
    <3>1. \A u \in Threads : alloc'[u] # NoAlloc =>
            InAlloc(u)' \notin owned' \cup ToSet(free_pages')
      BY <1>3, <2>1, <2>3, <2>4 DEF PMInv, NoDoubleAllocation, InAlloc
    <3>2. \A u \in Threads : alloc'[u] # NoAlloc =>
            \A w \in Threads \ {u} : InAlloc(w)' = InAlloc(u)' => InAlloc(w)' = NoPage
      BY <1>6, <2>3 DEF PMInv, NoDoubleAllocation, InAlloc
    <3> QED BY <1>2, <1>3, <2>1, <3>1, <3>2 DEF PMInv, NoDoubleAllocation
  <2>6. AllocIds'
    BY <1>2, <1>4, <2>3 DEF PMInv, AllocIds
  <2> QED BY <1>2, <2>2, <2>5, <2>6 DEF PMInv
<1> QED
  BY <1>7, <1>8

LEMMA AllocListEmptyInv ==
  ASSUME PMInv, NEW t \in Threads, AllocListEmpty(t)
  PROVE  PMInv'
<1>1. /\ UNCHANGED vars /\ UNCHANGED <<free_pages, owned>>
      /\ alloc' = [alloc EXCEPT ![t] = [step |-> "new", id |-> NoPage]]
  BY DEF AllocListEmpty
<1>2. PoolInv' /\ next_page_id <= next_page_id'
  BY <1>1, PoolSide
<1>3. PMTypeOK' /\ next_page_id' \in Nat
  BY <1>1, <1>2 DEF PMInv, PMTypeOK, PoolInv, TypeOK, AllocState
<1>4. \A u \in Threads : \/ alloc'[u] = alloc[u]
                         \/ alloc'[u].id = NoPage /\ alloc'[u].step = "new"
  BY <1>1 DEF PMInv, PMTypeOK
<1> QED
  BY <1>1, <1>2, <1>3, <1>4, NoIdMoves DEF PMInv

LEMMA AllocGetInv ==
  ASSUME PMInv, NEW t \in Threads, AllocGet(t)
  PROVE  PMInv'
<1>1. PoolInv' /\ next_page_id <= next_page_id'
  BY CallsUsePool, PoolSide
<1>2. /\ UNCHANGED <<free_pages, owned>>
      /\ alloc[t].step = "get"
      /\ \/ alloc' = [alloc EXCEPT ![t].step = "copy"]
         \/ alloc' = [alloc EXCEPT ![t] = NoAlloc]
  BY DEF AllocGet
<1>3. alloc \in [Threads -> AllocState]
  BY DEF PMInv, PMTypeOK
<1>4. alloc' \in [Threads -> AllocState]
  BY <1>2, <1>3 DEF AllocState, NoAlloc
<1>5. PMTypeOK' /\ next_page_id' \in Nat
  BY <1>1, <1>2, <1>4 DEF PMInv, PMTypeOK, PoolInv, TypeOK
<1>6. ASSUME NEW u \in Threads
      PROVE \/ alloc'[u] = alloc[u]
            \/ alloc'[u].id = NoPage /\ alloc'[u].step \in {"none", "new"}
            \/ /\ alloc'[u].id = alloc[u].id
               /\ alloc[u].step = "get" /\ alloc'[u].step = "copy"
  BY <1>2, <1>3 DEF AllocState, NoAlloc
<1> QED
  BY <1>1, <1>2, <1>5, <1>6, NoIdMoves DEF PMInv

(* The last call of AllocPage returns the id to the caller, or loses it. *)
LEMMA AllocMarkDirtyInv ==
  ASSUME PMInv, NEW t \in Threads, AllocMarkDirty(t)
  PROVE  PMInv'
<1> DEFINE id == alloc[t].id
<1>1. PoolInv' /\ next_page_id' = next_page_id
  BY CallsUsePool, PoolSide DEF AllocMarkDirty, MarkDirty
<1>2. /\ free_pages' = free_pages
      /\ alloc[t].step = "copy"
      /\ owned' \in {owned, owned \cup {id}}
      /\ alloc' = [alloc EXCEPT ![t] = NoAlloc]
  BY DEF AllocMarkDirty
<1>3. id \in PageIds /\ id # NoPage /\ FirstDataPage <= id /\ id < next_page_id
  BY <1>2, IdsAskedFor DEF PMInv, AllocIds
<1>4. alloc \in [Threads -> AllocState] /\ alloc[t] # NoAlloc
  BY <1>2 DEF PMInv, PMTypeOK, NoAlloc
<1>5. /\ id \notin owned \cup ToSet(free_pages)
      /\ \A u \in Threads \ {t} : alloc[u].id # id
  BY <1>3, <1>4 DEF PMInv, NoDoubleAllocation, InAlloc
<1>6. alloc'[t] = NoAlloc /\ \A u \in Threads \ {t} : alloc'[u] = alloc[u]
  BY <1>2, <1>4
<1> HIDE DEF id
<1>7. PMTypeOK'
  <2>1. alloc' \in [Threads -> AllocState]
    BY <1>2, <1>4 DEF AllocState, NoAlloc
  <2> QED BY <1>1, <1>2, <1>3, <2>1 DEF PMInv, PMTypeOK, PoolInv
<1>8. NoDoubleAllocation'
  <2>1. \A u \in Threads : alloc'[u] # NoAlloc =>
          /\ u # t
          /\ InAlloc(u)' \notin owned' \cup ToSet(free_pages')
    BY <1>2, <1>5, <1>6 DEF PMInv, NoDoubleAllocation, InAlloc
  <2>2. \A u \in Threads : alloc'[u] # NoAlloc =>
          \A w \in Threads \ {u} : InAlloc(w)' = InAlloc(u)' => InAlloc(w)' = NoPage
    BY <1>6 DEF PMInv, NoDoubleAllocation, InAlloc, NoAlloc
  <2>3. owned' \cap ToSet(free_pages') = {}
    BY <1>2, <1>5 DEF PMInv, NoDoubleAllocation
  <2>4. \A p \in owned' \cup ToSet(free_pages') :
          FirstDataPage <= p /\ p < next_page_id'
    BY <1>1, <1>2, <1>3 DEF PMInv, NoDoubleAllocation
  <2> QED BY <1>2, <2>1, <2>2, <2>3, <2>4 DEF PMInv, NoDoubleAllocation
<1>9. AllocIds'
  BY <1>1, <1>6 DEF PMInv, AllocIds, NoAlloc
<1> QED
  BY <1>1, <1>7, <1>8, <1>9 DEF PMInv

(* A new id is above every id that anyone has. *)
LEMMA AllocNewInv ==
  ASSUME PMInv, NEW t \in Threads, NEW v \in Values,
         AllocNew(t, [k \in 1 .. Parts |-> v])
  PROVE  PMInv'
<1> DEFINE id == next_page_id
<1>1. PoolInv'
  BY CallsUsePool, PoolSide
<1>2. /\ next_page_id' = id + 1 /\ id <= MaxPageId
      /\ free_pages' = free_pages
      /\ owned' = owned \cup {id}
      /\ alloc' = [alloc EXCEPT ![t] = NoAlloc]
  BY DEF AllocNew, NewPage
<1>3. id \in PageIds /\ id \in Nat /\ FirstDataPage <= id
  BY <1>2, FileAssumption DEF PMInv, PoolInv, TypeOK, PageIds
<1>4. alloc \in [Threads -> AllocState] /\ TypeOK'
  BY <1>1 DEF PMInv, PMTypeOK, PoolInv
<1>5. owned \cup ToSet(free_pages) \subseteq PageIds /\ PageIds \subseteq Int
  <2>1. owned \cup ToSet(free_pages) \subseteq PageIds
    BY ListElements DEF PMInv, PMTypeOK
  <2>2. PageIds \subseteq Int
    BY DEF PageIds
  <2> QED BY <2>1, <2>2
<1>6. \A p \in owned \cup ToSet(free_pages) : FirstDataPage <= p /\ p < id
  BY DEF PMInv, NoDoubleAllocation
<1>7. \A u \in Threads : alloc[u].id \in PageIds \cup {NoPage}
                         /\ (alloc[u].id # NoPage =>
                               FirstDataPage <= alloc[u].id /\ alloc[u].id < id)
  BY <1>4 DEF PMInv, AllocIds, AllocState
<1>8. alloc'[t] = NoAlloc /\ \A u \in Threads \ {t} : alloc'[u] = alloc[u]
  BY <1>2, <1>4
<1>9. \A u \in Threads : alloc[u].id # id
  BY <1>3, <1>7 DEF NoPage
<1>10. id \notin ToSet(free_pages)
  BY <1>3, <1>6
<1> HIDE DEF id
<1>11. PMTypeOK'
  <2>1. alloc' \in [Threads -> AllocState]
    BY <1>2, <1>4 DEF AllocState, NoAlloc
  <2> QED BY <1>1, <1>2, <1>3, <2>1 DEF PMInv, PMTypeOK, PoolInv
<1>12. NoDoubleAllocation'
  <2>1. \A u \in Threads : alloc'[u] # NoAlloc =>
          InAlloc(u)' \notin owned' \cup ToSet(free_pages')
    <3>1. ASSUME NEW u \in Threads, alloc'[u] # NoAlloc
          PROVE u # t /\ alloc'[u].id \notin owned \cup ToSet(free_pages) /\ alloc'[u].id # id
      BY <1>8, <1>9, <3>1 DEF PMInv, NoDoubleAllocation, InAlloc
    <3> QED BY <1>2, <3>1 DEF InAlloc
  <2>2. \A u \in Threads : alloc'[u] # NoAlloc =>
          \A w \in Threads \ {u} : InAlloc(w)' = InAlloc(u)' => InAlloc(w)' = NoPage
    BY <1>8 DEF PMInv, NoDoubleAllocation, InAlloc, NoAlloc
  <2>3. owned' \cap ToSet(free_pages') = {}
    BY <1>2, <1>10 DEF PMInv, NoDoubleAllocation
  <2>4. \A p \in owned' \cup ToSet(free_pages') : FirstDataPage <= p /\ p < id + 1
    <3>1. ASSUME NEW p \in owned \cup ToSet(free_pages)
          PROVE FirstDataPage <= p /\ p < id + 1
      <4>1. p \in Int /\ FirstDataPage <= p /\ p < id
        BY <1>5, <1>6
      <4> QED BY <1>3, <4>1
    <3> QED BY <1>2, <1>3, <3>1
  <2> QED BY <1>2, <2>1, <2>2, <2>3, <2>4 DEF PMInv, NoDoubleAllocation
<1>13. AllocIds'
  <2>1. \A u \in Threads : alloc'[u].id # NoPage =>
          FirstDataPage <= alloc'[u].id /\ alloc'[u].id < id + 1
    <3>1. SUFFICES ASSUME NEW u \in Threads, alloc'[u].id # NoPage
                   PROVE FirstDataPage <= alloc'[u].id /\ alloc'[u].id < id + 1
      OBVIOUS
    <3>2. u # t /\ alloc'[u] = alloc[u]
      BY <1>8, <3>1 DEF NoAlloc
    <3>3. alloc[u].id \in Int /\ FirstDataPage <= alloc[u].id /\ alloc[u].id < id
      BY <1>5, <1>7, <3>1, <3>2
    <3> QED BY <1>3, <3>2, <3>3
  <2> QED BY <1>2, <1>8, <2>1 DEF PMInv, AllocIds, NoAlloc
<1>14. FirstDataPage <= next_page_id'
  BY <1>2, <1>3, PoolAssumption
<1> QED
  BY <1>1, <1>11, <1>12, <1>13, <1>14 DEF PMInv

LEMMA AllocNewFailsInv ==
  ASSUME PMInv, NEW t \in Threads, AllocNewFails(t)
  PROVE  PMInv'
<1>1. PoolInv' /\ next_page_id <= next_page_id'
  BY CallsUsePool, PoolSide
<1>2. UNCHANGED <<free_pages, owned>> /\ alloc' = [alloc EXCEPT ![t] = NoAlloc]
  BY DEF AllocNewFails
<1>3. PMTypeOK' /\ next_page_id' \in Nat
  BY <1>1, <1>2 DEF PMInv, PMTypeOK, PoolInv, TypeOK, AllocState, NoAlloc
<1>4. \A u \in Threads : alloc'[u] = alloc[u] \/ alloc'[u] = NoAlloc
  BY <1>2 DEF PMInv, PMTypeOK
<1> QED
  BY <1>1, <1>2, <1>3, <1>4, NoIdMoves DEF PMInv, NoAlloc

(* An id goes back to the list from its owner. *)
LEMMA FreePageInv ==
  ASSUME PMInv, NEW t \in Threads, NEW p \in PageIds, FreePage(t, p)
  PROVE  PMInv'
<1>1. UNCHANGED vars
  BY DEF FreePage
<1>2. PoolInv' /\ next_page_id' = next_page_id
  BY <1>1, PoolSide DEF vars
<1>3. /\ p \in owned /\ owned' = owned \ {p} /\ alloc' = alloc
      /\ free_pages' = Append(free_pages, p)
  BY DEF FreePage, AfterFree
<1>4. p \notin ToSet(free_pages)
  BY <1>3 DEF PMInv, NoDoubleAllocation
<1>5. /\ free_pages' \in Seq(PageIds)
      /\ IsInjective(free_pages')
      /\ ToSet(free_pages') = ToSet(free_pages) \cup {p}
  BY <1>3, <1>4, AppendInjectiveSeq DEF PMInv, PMTypeOK, NoDoubleAllocation
<1>6. PMTypeOK'
  BY <1>2, <1>3, <1>5 DEF PMInv, PMTypeOK, PoolInv
<1>7. NoDoubleAllocation'
  BY <1>2, <1>3, <1>5 DEF PMInv, NoDoubleAllocation, InAlloc
<1>8. AllocIds'
  BY <1>2, <1>3 DEF PMInv, AllocIds
<1> QED
  BY <1>2, <1>6, <1>7, <1>8 DEF PMInv

(* A call that leaves the list to itself. *)
LEMMA ListsUnchangedInv ==
  ASSUME PMInv, NEW t \in Threads, UsesPool(t) \/ UNCHANGED vars, UNCHANGED listVars
  PROVE  PMInv'
<1>1. PoolInv' /\ next_page_id <= next_page_id'
  BY PoolSide
<1>2. PMTypeOK' /\ next_page_id' \in Nat
  BY <1>1 DEF PMInv, PMTypeOK, PoolInv, TypeOK, listVars
<1> QED
  BY <1>1, <1>2, NoIdMoves DEF PMInv, listVars

LEMMA PMNextInv == PMInv /\ [PMNext]_pmVars => PMInv'
<1> SUFFICES ASSUME PMInv, [PMNext]_pmVars PROVE PMInv'
  OBVIOUS
<1>1. ASSUME NEW t \in Threads, AllocStep(t) PROVE PMInv'
  <2>1. CASE AllocRecycled(t) \/ AllocRecycledWithData(t)
    BY <2>1, RecycledInv
  <2>2. CASE AllocListEmpty(t)
    BY <2>2, AllocListEmptyInv
  <2>3. CASE AllocGet(t)
    BY <2>3, AllocGetInv
  <2>4. ASSUME NEW v \in Values, AllocCopy(t, [k \in 1 .. Parts |-> v]) PROVE PMInv'
    BY <2>4, CallsUsePool, ListsUnchangedInv DEF AllocCopy
  <2>5. CASE AllocMarkDirty(t)
    BY <2>5, AllocMarkDirtyInv
  <2>6. ASSUME NEW v \in Values, AllocNew(t, [k \in 1 .. Parts |-> v]) PROVE PMInv'
    BY <2>6, AllocNewInv
  <2>7. CASE AllocNewFails(t)
    BY <2>7, AllocNewFailsInv
  <2> QED BY <1>1, <2>1, <2>2, <2>3, <2>4, <2>5, <2>6, <2>7 DEF AllocStep
<1>2. ASSUME NEW t \in Threads, NEW p \in PageIds, FreePage(t, p) PROVE PMInv'
  BY <1>2, FreePageInv
<1>3. ASSUME NEW t \in Threads, NEW p \in PageIds, PMGetPage(t, p) PROVE PMInv'
  BY <1>3, CallsUsePool, ListsUnchangedInv DEF PMGetPage
<1>4. ASSUME NEW t \in Threads, PMMarkDirty(t) PROVE PMInv'
  BY <1>4, CallsUsePool, ListsUnchangedInv DEF PMMarkDirty
<1>5. ASSUME NEW t \in Threads, PMFlush(t) PROVE PMInv'
  BY <1>5, CallsUsePool, ListsUnchangedInv DEF PMFlush
<1>6. ASSUME NEW t \in Threads, UsesFrame(t) PROVE PMInv'
  BY <1>6, CallsUsePool, ListsUnchangedInv DEF UsesFrame
<1>7. CASE UNCHANGED pmVars
  <2>1. UNCHANGED listVars /\ UNCHANGED vars
    BY <1>7 DEF pmVars, listVars, vars
  <2> QED
    BY <2>1 DEF PMInv, PMTypeOK, PoolInv, TypeOK, PoolStructure, IdsIssued, Cached,
                NoDoubleAllocation, AllocIds, InAlloc, vars, listVars
<1> QED
  BY <1>1, <1>2, <1>3, <1>4, <1>5, <1>6, <1>7 DEF PMNext

LEMMA PMInvariance == PMSpec => []PMInv
<1> QED
  BY PMInitInv, PMNextInv, PTL DEF PMSpec

(* No state outside the types, whatever threads call and whichever call fails:
   an AllocPage that stops after any of its calls leaves a list of page ids. *)
THEOREM PMTypeCorrect == PMSpec => []PMTypeOK
<1>1. PMInv => PMTypeOK
  BY DEF PMInv
<1> QED
  BY <1>1, PMInvariance, PTL

(* The pool's table and list agree when several threads share the pool through the
   page manager: the ids it asks for have all been issued, so that the assumption
   of StructureCorrect about callers holds for it (page_manager.cpp:14, 25). *)
THEOREM PMStructureCorrect == PMSpec => []PoolStructure
<1>1. PMInv => PoolStructure
  BY DEF PMInv, PoolInv
<1> QED
  BY <1>1, PMInvariance, PTL

(* With any number of threads inside AllocPage, between the free list's lock and
   the pool's, no id is given to two of them, nor one that is free or owned
   (page_manager.cpp:9-23). *)
THEOREM NoIdHasTwoOwners == PMSpec => []NoDoubleAllocation
<1>1. PMInv => NoDoubleAllocation
  BY DEF PMInv
<1> QED
  BY <1>1, PMInvariance, PTL
-----------------------------------------------------------------------------
(* The saved list *)

(* Reading back what SerializeToPage wrote, slot by slot. *)
LEMMA SavedIds ==
  ASSUME NEW free \in Seq(PageIds), NEW room \in 0 .. PageSlots
  PROVE  LET back == DeserializeFromPage(SerializeToPage(free), room)
             n == IF Len(free) <= room THEN Len(free) ELSE room
         IN  back \in Seq(PageIds) /\ Len(back) = n /\ \A i \in 1 .. n : back[i] = free[i]
<1> DEFINE page == SerializeToPage(free)
           back == DeserializeFromPage(page, room)
           n == IF Len(free) <= room THEN Len(free) ELSE room
<1>1. Len(free) \in Nat /\ PageSlots \in Nat /\ free \in [1 .. Len(free) -> PageIds]
  BY LenProperties, FreeListAssumption
<1>2. n \in Nat /\ n <= Len(free) /\ n <= PageSlots
  BY <1>1
<1>3. page.count = Len(free)
  BY DEF SerializeToPage
<1>4. \A i \in 1 .. n : page.ids[i] = free[i]
  BY <1>1 DEF SerializeToPage, Fits
<1>5. back = [i \in 1 .. n |-> page.ids[i]]
  BY <1>3 DEF DeserializeFromPage
<1> HIDE DEF back, page, n
<1>6. \A i \in 1 .. n : back[i] = free[i] /\ back[i] \in PageIds
  BY <1>1, <1>2, <1>4, <1>5
<1>7. back \in [1 .. n -> PageIds]
  BY <1>5, <1>6
<1>8. back \in Seq(PageIds) /\ Len(back) = n
  BY <1>2, <1>7
<1> QED
  BY <1>6, <1>8 DEF back, page, n

(* A list written to its page and read back is a prefix of the list, and all of it
   when it fits, for every page size and every list of ids that threads can reach:
   no zeroed slot comes back as an id (free_list.cpp:21-50). *)
THEOREM SavedListIsPrefix == PMSpec => []SavedListIsFree
<1>1. ASSUME PMInv, NEW room \in 0 .. PageSlots
      PROVE LET back == DeserializeFromPage(SerializeToPage(free_pages), room)
            IN  /\ IsPrefix(back, free_pages)
                /\ Len(free_pages) <= room => back = free_pages
  <2> DEFINE back == DeserializeFromPage(SerializeToPage(free_pages), room)
             n == IF Len(free_pages) <= room THEN Len(free_pages) ELSE room
  <2>1. free_pages \in Seq(PageIds)
    BY <1>1 DEF PMInv, PMTypeOK
  <2>2. back \in Seq(PageIds) /\ Len(back) = n /\ \A i \in 1 .. n : back[i] = free_pages[i]
    BY <2>1, SavedIds
  <2>3. Len(free_pages) \in Nat /\ n \in Nat /\ n <= Len(free_pages)
    BY <2>1, LenProperties, FreeListAssumption
  <2> HIDE DEF back
  <2>4. Len(free_pages) <= room => back = free_pages
    BY <2>1, <2>2, SeqEqual
  <2> HIDE DEF n
  <2>5. \A i \in 1 .. n : free_pages[i] \in PageIds
    BY <2>1, <2>3, LenProperties
  <2>6. /\ SubSeq(free_pages, 1, n) \in Seq(PageIds)
        /\ Len(SubSeq(free_pages, 1, n)) = IF 1 <= n THEN n - 1 + 1 ELSE 0
        /\ \A i \in 1 .. (n - 1 + 1) : SubSeq(free_pages, 1, n)[i] = free_pages[1 + i - 1]
    BY <2>3, <2>5, SubSeqProperties
  <2>7. /\ Len(SubSeq(free_pages, 1, n)) = n
        /\ \A i \in 1 .. n : SubSeq(free_pages, 1, n)[i] = free_pages[i]
    BY <2>3, <2>6
  <2>8. SubSeq(free_pages, 1, n) = back
    BY <2>2, <2>6, <2>7, SeqEqual
  <2>9. SubSeq(back, 1, n) = back
    BY <2>2, SubSeqFull
  <2>10. IsPrefix(back, free_pages)
    BY <2>2, <2>3, <2>8, <2>9 DEF IsPrefix
  <2> QED BY <2>4, <2>10 DEF back
<1>2. ASSUME PMInv
      PROVE LET back == DeserializeFromPage(SerializeToPage(free_pages), -1)
            IN  IsPrefix(back, free_pages) /\ ~(Len(free_pages) <= -1)
  <2> DEFINE back == DeserializeFromPage(SerializeToPage(free_pages), -1)
  <2>1. free_pages \in Seq(PageIds) /\ Len(free_pages) \in Nat
    BY <1>2 DEF PMInv, PMTypeOK
  <2>2. back = << >>
    BY <2>1 DEF DeserializeFromPage, SerializeToPage
  <2>3. IsPrefix(<< >>, free_pages)
    BY <2>1 DEF IsPrefix
  <2> QED BY <2>1, <2>2, <2>3
<1>3. ASSUME PMInv PROVE SavedListIsFree
  <2>1. PageSlots \in Nat
    BY FreeListAssumption
  <2>2. ASSUME NEW room \in -1 .. PageSlots
        PROVE LET back == DeserializeFromPage(SerializeToPage(free_pages), room)
              IN  /\ IsPrefix(back, free_pages)
                  /\ Len(free_pages) <= room => back = free_pages
    <3>1. room = -1 \/ room \in 0 .. PageSlots
      BY <2>1
    <3> QED BY <1>1, <1>2, <1>3, <3>1
  <2> QED BY <2>2 DEF SavedListIsFree
<1> QED
  BY <1>3, PMInvariance, PTL

-----------------------------------------------------------------------------
(* Pinned pages *)

PinnedKept ==
  \A p \in Cached : frames[page_table[p]].pin > 0 =>
     page_table'[p] = page_table[p] /\ frames'[page_table[p]].page_id = p

(* Evict passes over pinned frames. *)
LEMMA RoomKeepsPinned ==
  ASSUME PoolInv, NEW s \in Room, NEW p \in Cached, frames[page_table[p]].pin > 0
  PROVE  s.page_table[p] = page_table[p] /\ s.frames[page_table[p]] = frames[page_table[p]]
<1>1. CASE Full
  <2>1. PICK i \in DOMAIN lru : s = Evicted(i) /\ Victim(i)
    BY <1>1 DEF Room
  <2>2. frames[page_table[lru[i]]].pin = 0
    BY <2>1 DEF Victim
  <2>3. p # lru[i] /\ page_table[p] # page_table[lru[i]]
    BY <2>2
  <2>4. /\ s.page_table = [page_table EXCEPT ![lru[i]] = NoFrame]
        /\ s.frames = [frames EXCEPT ![page_table[lru[i]]] =
                         [@ EXCEPT !.page_id = NoPage, !.dirty = FALSE]]
    BY <2>1 DEF Evicted
  <2>5. p \in PageIds /\ page_table[p] \in Frames
    BY DEF Cached, PoolInv, TypeOK
  <2> QED BY <2>3, <2>4, <2>5 DEF PoolInv, TypeOK
<1>2. CASE ~Full
  BY <1>2 DEF Room
<1> QED
  BY <1>1, <1>2

(* The frame a page is loaded into is no cached page's. *)
LEMMA UnusedIsNotPinned ==
  ASSUME PoolInv, NEW s \in Room, NEW f \in Frames, FirstUnused(s.frames, f),
         NEW p \in Cached, frames[page_table[p]].pin > 0
  PROVE  page_table[p] # f
<1>1. s.frames[page_table[p]].page_id = p
  BY RoomKeepsPinned DEF PoolInv, PoolStructure
<1>2. p # NoPage
  BY DEF Cached, PageIds, NoPage
<1> QED
  BY <1>1, <1>2 DEF FirstUnused

LEMMA PinnedUsesPool ==
  ASSUME PoolInv, NEW t \in Threads, UsesPool(t)
  PROVE  PinnedKept
<1>1. TypeOK /\ PoolStructure /\ IdsIssued
  BY DEF PoolInv
<1>2. \A p \in Cached : p \in PageIds /\ page_table[p] \in Frames /\ frames[page_table[p]].page_id = p
  BY <1>1 DEF TypeOK, Cached, PoolStructure
<1>3. ASSUME page_table' = page_table, \A f \in Frames : frames'[f].page_id = frames[f].page_id
      PROVE PinnedKept
  BY <1>2, <1>3 DEF PinnedKept
<1>4. ASSUME NEW q \in PageIds, q \notin Cached, NEW s \in Room, NEW f \in Frames,
             FirstUnused(s.frames, f), NEW e,
             frames' = [s.frames EXCEPT ![f] = e],
             page_table' = [s.page_table EXCEPT ![q] = f] \/ page_table' = s.page_table
      PROVE PinnedKept
  <2>1. SUFFICES ASSUME NEW p \in Cached, frames[page_table[p]].pin > 0
                 PROVE page_table'[p] = page_table[p] /\ frames'[page_table[p]].page_id = p
    BY DEF PinnedKept
  <2>2. PoolType(s)
    BY RoomConsistent
  <2>3. s.page_table[p] = page_table[p] /\ s.frames[page_table[p]] = frames[page_table[p]]
    BY <2>1, RoomKeepsPinned
  <2>4. page_table[p] # f /\ p # q
    BY <1>4, <2>1, UnusedIsNotPinned
  <2> QED BY <1>2, <1>4, <2>2, <2>3, <2>4 DEF PoolType
<1>5. ASSUME NEW p \in PageIds, GetPage(t, p) PROVE PinnedKept
  <2>1. CASE GetPageHit(t, p)
    BY <1>3, <2>1 DEF GetPageHit
  <2>2. CASE GetPageMiss(t, p)
    <3>1. PICK s \in Room, f \in Frames :
            /\ FirstUnused(s.frames, f)
            /\ frames' = [s.frames EXCEPT ![f] =
                            [page_id |-> p, data |-> Loaded(s, f, p), dirty |-> FALSE, pin |-> 0]]
            /\ page_table' = [s.page_table EXCEPT ![p] = f]
      BY <2>2 DEF GetPageMiss
    <3>2. p \notin Cached
      BY <2>2 DEF GetPageMiss
    <3> QED BY <1>4, <3>1, <3>2
  <2>3. CASE GetPageReadFails(t, p)
    <3>1. PICK s \in Room, f \in Frames :
            /\ FirstUnused(s.frames, f)
            /\ frames' = [s.frames EXCEPT ![f].page_id = p]
            /\ page_table' = s.page_table
      BY <2>3 DEF GetPageReadFails
    <3>2. frames' = [s.frames EXCEPT ![f] = [s.frames[f] EXCEPT !.page_id = p]]
      BY <3>1
    <3>3. p \notin Cached
      BY <2>3 DEF GetPageReadFails
    <3> QED BY <1>4, <3>1, <3>2, <3>3
  <2>4. CASE GetPageNoRoom(t, p)
    BY <1>3, <2>4 DEF GetPageNoRoom, EvictWriteFails, NoFrameFree
  <2> QED BY <1>5, <2>1, <2>2, <2>3, <2>4 DEF GetPage
<1>6. ASSUME NEW v \in Values, NewPage(t, [k \in 1 .. Parts |-> v]) PROVE PinnedKept
  <2>1. PICK s \in Room, f \in Frames :
          /\ FirstUnused(s.frames, f)
          /\ frames' = [s.frames EXCEPT ![f] =
                          [page_id |-> next_page_id, data |-> [k \in 1 .. Parts |-> v],
                           dirty |-> TRUE, pin |-> 0]]
          /\ page_table' = [s.page_table EXCEPT ![next_page_id] = f]
    BY <1>6 DEF NewPage
  <2>2. next_page_id \in PageIds
    BY <1>1, <1>6, FileAssumption DEF NewPage, TypeOK, PageIds
  <2>3. next_page_id \notin Cached
    BY <1>1, <2>2 DEF IdsIssued, TypeOK
  <2> QED BY <1>4, <2>1, <2>2, <2>3
<1>7. CASE NewPageNoRoom(t)
  BY <1>3, <1>7 DEF NewPageNoRoom, EvictWriteFails, NoFrameFree
<1>8. ASSUME NEW v \in Values, WriteFrame(t, [k \in 1 .. Parts |-> v]) PROVE PinnedKept
  BY <1>1, <1>3, <1>8 DEF WriteFrame, TypeOK, Frame
<1>9. CASE MarkDirty(t)
  <2> DEFINE p == held[t].page
  <2>1. CASE p \in Cached
    <3>1. page_table[p] \in Frames /\ page_table' = page_table
      BY <1>2, <1>9, <2>1 DEF MarkDirty
    <3>2. frames' = [frames EXCEPT ![page_table[p]].dirty = TRUE]
      BY <1>9, <2>1 DEF MarkDirty
    <3>3. \A f \in Frames : frames'[f].page_id = frames[f].page_id
      BY <1>1, <3>1, <3>2 DEF TypeOK, Frame
    <3> QED BY <1>3, <3>1, <3>3
  <2>2. CASE p \notin Cached
    BY <1>3, <1>9, <2>2 DEF MarkDirty
  <2> QED BY <2>1, <2>2
<1>10. CASE Release(t)
  BY <1>3, <1>10 DEF Release
<1>11. CASE Pin(t)
  BY <1>1, <1>3, <1>11 DEF Pin, TypeOK, Frame
<1>12. CASE Unpin(t)
  BY <1>1, <1>3, <1>12 DEF Unpin, TypeOK, Frame
<1>13. CASE FlushOK(t) \/ FlushWriteFails(t) \/ FlushSyncFails(t)
  BY <1>1, <1>3, <1>13, CleanedFramesType DEF FlushOK, FlushWriteFails, FlushSyncFails
<1> QED
  BY <1>5, <1>6, <1>7, <1>8, <1>9, <1>10, <1>11, <1>12, <1>13 DEF UsesPool

(* Which calls of the page manager touch the pool, and how. *)
LEMMA PMStepUsesPool ==
  ASSUME PMInv, [PMNext]_pmVars
  PROVE  (\E t \in Threads : UsesPool(t)) \/ UNCHANGED vars
<1>1. ASSUME NEW t \in Threads, AllocStep(t) PROVE UsesPool(t) \/ UNCHANGED vars
  <2>1. CASE AllocRecycled(t) \/ AllocRecycledWithData(t) \/ AllocListEmpty(t)
    BY <2>1 DEF AllocRecycled, AllocRecycledWithData, AllocListEmpty
  <2> QED BY <1>1, <2>1, CallsUsePool DEF AllocStep
<1>2. ASSUME NEW t \in Threads, NEW p \in PageIds, FreePage(t, p) \/ PMGetPage(t, p)
      PROVE UsesPool(t) \/ UNCHANGED vars
  BY <1>2, CallsUsePool DEF FreePage
<1>3. ASSUME NEW t \in Threads, PMMarkDirty(t) \/ PMFlush(t) \/ UsesFrame(t)
      PROVE UsesPool(t)
  BY <1>3, CallsUsePool
<1>4. CASE UNCHANGED pmVars
  BY <1>4 DEF pmVars, vars
<1> QED
  BY <1>1, <1>2, <1>3, <1>4 DEF PMNext

(* A pinned page keeps its table entry and its frame through every call of every
   thread, evictions and failed reads included (buffer_pool.cpp:88, types.h:75). *)
THEOREM PinnedPagesStay == PMSpec => PinnedStays
<1>1. PMInv /\ [PMNext]_pmVars => [PinnedKept]_pmVars
  <2> SUFFICES ASSUME PMInv, [PMNext]_pmVars PROVE PinnedKept
    OBVIOUS
  <2>1. ASSUME NEW t \in Threads, UsesPool(t) PROVE PinnedKept
    BY <2>1, PinnedUsesPool DEF PMInv
  <2>2. CASE UNCHANGED vars
    BY <2>2 DEF PMInv, PoolInv, PoolStructure, PinnedKept, vars
  <2> QED BY <2>1, <2>2, PMStepUsesPool
<1>2. PMSpec => [][PinnedKept]_pmVars
  BY <1>1, PMInvariance, PTL DEF PMSpec
<1> QED
  BY <1>2, PTL DEF PinnedStays, PinnedKept
-----------------------------------------------------------------------------
(* VV_ERR_NOMEM *)

(* A full pool without leaked frames has a page in every frame, and if Evict finds
   no victim, the frame of none of them is unpinned. *)
LEMMA NoVictimAllPinned ==
  ASSUME PoolInv, ~ \E i \in DOMAIN lru : Victim(i), NEW p \in Cached
  PROVE  frames[page_table[p]].pin > 0
<1> DEFINE Unpinned == {i \in DOMAIN lru : frames[page_table[lru[i]]].pin = 0}
<1>1. TypeOK /\ PoolStructure
  BY DEF PoolInv
<1>2. DOMAIN lru = 1 .. Len(lru) /\ Len(lru) \in Nat
  BY <1>1, LenProperties DEF TypeOK
<1>3. \A q \in Cached : page_table[q] \in Frames /\ frames[page_table[q]].pin \in Nat
  BY <1>1 DEF TypeOK, Cached, Frame
<1>4. \A i \in DOMAIN lru : lru[i] \in Cached
  BY <1>1 DEF PoolStructure, ToSet
<1>5. Unpinned = {}
  <2>1. SUFFICES ASSUME Unpinned # {} PROVE FALSE
    OBVIOUS
  <2>2. Unpinned \in SUBSET Nat
    BY <1>2
  <2>3. PICK m \in Unpinned : \A i \in Unpinned : m <= i
    BY <2>1, <2>2, LeastNatural
  <2>4. ASSUME NEW j \in 1 .. (m - 1) PROVE frames[page_table[lru[j]]].pin > 0
    <3>1. j \in DOMAIN lru /\ j \notin Unpinned
      BY <1>2, <2>2, <2>3
    <3>2. frames[page_table[lru[j]]].pin # 0 /\ frames[page_table[lru[j]]].pin \in Nat
      BY <1>3, <1>4, <3>1
    <3> QED BY <3>2
  <2>5. Victim(m)
    BY <2>3, <2>4 DEF Victim
  <2> QED BY <2>3, <2>5
<1>6. PICK i \in DOMAIN lru : lru[i] = p
  BY <1>1 DEF PoolStructure, ToSet
<1>7. frames[page_table[p]].pin # 0 /\ frames[page_table[p]].pin \in Nat
  BY <1>3, <1>5, <1>6
<1> QED
  BY <1>7

(* The frames of the cached pages, counted. *)
LEMMA FullPoolFrames ==
  ASSUME PoolInv
  PROVE  Full <=> \A f \in Frames : \E p \in Cached : page_table[p] = f
<1> DEFINE at == [p \in Cached |-> page_table[p]]
<1>1. TypeOK /\ PoolStructure
  BY DEF PoolInv
<1>2. IsFiniteSet(Frames) /\ Cardinality(Frames) = Capacity /\ Capacity \in Nat
  BY PoolAssumption, FS_Interval DEF Frames
<1>3. at \in [Cached -> Frames]
  BY <1>1 DEF TypeOK, Cached
<1>4. ASSUME NEW p \in Cached, NEW q \in Cached, at[p] = at[q] PROVE p = q
  BY <1>1, <1>4 DEF PoolStructure
<1>5. at \in Injection(Cached, Frames)
  BY <1>3, <1>4 DEF Injection, IsInjective
<1>6. /\ IsFiniteSet(Cached)
      /\ Cardinality(Cached) <= Capacity
      /\ Cardinality(Cached) = Capacity <=> at \in Surjection(Cached, Frames)
  BY <1>2, <1>5, FS_Injection
<1>7. Cardinality(Cached) \in Nat
  BY <1>6, FS_CardinalityType
<1>8. Full <=> at \in Surjection(Cached, Frames)
  BY <1>2, <1>6, <1>7 DEF Full
<1>9. at \in Surjection(Cached, Frames)
        <=> \A f \in Frames : \E p \in Cached : page_table[p] = f
  BY <1>3 DEF Surjection
<1> QED
  BY <1>8, <1>9

LEMMA NoFrameFreePinned ==
  ASSUME PoolInv, NEW op, NoFrameFree(op), Leaked = {}
  PROVE  \A f \in Frames : frames[f].pin > 0
<1>1. CASE Full /\ ~ \E i \in DOMAIN lru : Victim(i)
  BY <1>1, FullPoolFrames, NoVictimAllPinned
<1>2. CASE ~Full /\ \A f \in Frames : frames[f].page_id # NoPage
  <2>1. \A f \in Frames : \E p \in Cached : page_table[p] = f
    BY <1>2 DEF Leaked
  <2> QED BY <1>2, <2>1, FullPoolFrames
<1> QED
  BY <1>1, <1>2 DEF NoFrameFree

LEMMA NoMemStep ==
  ASSUME PoolInv, NoMemOnlyWhenAllPinned,
         (\E t \in Threads : UsesPool(t)) \/ UNCHANGED vars
  PROVE  NoMemOnlyWhenAllPinned'
<1>1. CASE UNCHANGED vars
  <2>1. ret' = ret /\ frames' = frames /\ page_table' = page_table
    BY <1>1 DEF vars
  <2> QED BY <2>1 DEF NoMemOnlyWhenAllPinned, Leaked, Cached
<1>2. ASSUME NEW op, NoFrameFree(op) PROVE NoMemOnlyWhenAllPinned'
  <2>1. frames' = frames /\ page_table' = page_table
    BY <1>2 DEF NoFrameFree
  <2>2. Leaked' = Leaked
    BY <2>1 DEF Leaked, Cached
  <2> QED BY <1>2, <2>1, <2>2, NoFrameFreePinned DEF NoMemOnlyWhenAllPinned
<1>3. ASSUME ret'.rc # "NOMEM" PROVE NoMemOnlyWhenAllPinned'
  BY <1>3 DEF NoMemOnlyWhenAllPinned
<1>4. ASSUME NEW t \in Threads, UsesPool(t)
      PROVE (\E op : NoFrameFree(op)) \/ ret'.rc # "NOMEM"
  <2>1. ASSUME NEW p \in PageIds, GetPage(t, p)
        PROVE NoFrameFree("GetPage") \/ ret'.rc # "NOMEM"
    BY <2>1 DEF GetPage, GetPageHit, GetPageMiss, GetPageReadFails, GetPageNoRoom,
                EvictWriteFails, Returned
  <2>2. ASSUME NEW d, NewPage(t, d) PROVE ret'.rc # "NOMEM"
    BY <2>2 DEF NewPage, Returned
  <2>3. ASSUME NewPageNoRoom(t) PROVE NoFrameFree("NewPage") \/ ret'.rc # "NOMEM"
    BY <2>3 DEF NewPageNoRoom, EvictWriteFails, Returned
  <2>4. ASSUME NEW d, WriteFrame(t, d) PROVE ret'.rc # "NOMEM"
    BY <2>4 DEF WriteFrame, NoCall, Returned
  <2>5. ASSUME MarkDirty(t) PROVE ret'.rc # "NOMEM"
    BY <2>5 DEF MarkDirty, Returned
  <2>6. ASSUME Release(t) \/ Pin(t) \/ Unpin(t) PROVE ret'.rc # "NOMEM"
    BY <2>6 DEF Release, Pin, Unpin, NoCall, Returned
  <2>7. ASSUME FlushOK(t) \/ FlushWriteFails(t) \/ FlushSyncFails(t)
        PROVE ret'.rc # "NOMEM"
    BY <2>7 DEF FlushOK, FlushWriteFails, FlushSyncFails, Returned
  <2> QED BY <1>4, <2>1, <2>2, <2>3, <2>4, <2>5, <2>6, <2>7 DEF UsesPool
<1> QED
  BY <1>1, <1>2, <1>3, <1>4

(* A call answers VV_ERR_NOMEM only when every frame of the pool is pinned, unless
   a read has failed before: then its frame is lost, and run LeakedFrame shows the
   call refused with no frame pinned (buffer_pool.cpp:55, 106). *)
THEOREM NoMemMeansPinned == PMSpec => []NoMemOnlyWhenAllPinned
<1>1. PMInit => NoMemOnlyWhenAllPinned
  BY DEF PMInit, Init, NoMemOnlyWhenAllPinned, NoCall, Returned
<1>2. PMInv /\ NoMemOnlyWhenAllPinned /\ [PMNext]_pmVars => NoMemOnlyWhenAllPinned'
  BY PMStepUsesPool, NoMemStep DEF PMInv
<1> QED
  BY <1>1, <1>2, PMInvariance, PTL DEF PMSpec
=============================================================================
