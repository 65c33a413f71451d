---------------------------- MODULE PageManager -----------------------------
(***************************************************************************)
(* storage/page_manager.cpp: page allocation out of a free list and a      *)
(* buffer pool that several threads share.  FreeList and BufferPool each   *)
(* have a mutex of their own, and AllocPage takes one after the other, so  *)
(* the calls it makes are actions between which other threads run.         *)
(***************************************************************************)
EXTENDS BufferPool, FreeList

VARIABLES
  free_pages,      (* FreeList::free_pages_                               *)
  alloc,           (* where each thread is in AllocPage                   *)
  owned            (* ids AllocPage returned with VV_OK, not freed since  *)

pmVars == <<frames, page_table, lru, next_page_id, held, ret, file, disk,
            free_pages, alloc, owned>>
listVars == <<free_pages, alloc, owned>>

NoAlloc == [step |-> "none", id |-> NoPage]
AllocState == [step : {"none", "new", "get", "copy"}, id : PageIds \cup {NoPage}]

PMTypeOK ==
  /\ TypeOK
  /\ free_pages \in Seq(PageIds)
  /\ alloc \in [Threads -> AllocState]
  /\ owned \subseteq PageIds

PMInit ==
  /\ Init
  /\ free_pages = << >>
  /\ alloc = [t \in Threads |-> NoAlloc]
  /\ owned = {}

Ready(t) == alloc[t] = NoAlloc /\ held[t] = Idle

Reserved == {p \in PageIds : p < FirstDataPage}

-----------------------------------------------------------------------------
(* AllocPage *)

(* freelist_->Allocate succeeds, and the caller wants no data: the page is
   returned as it is. *)
AllocRecycled(t) ==
  /\ Ready(t)
  /\ free_pages # << >>
  /\ owned' = owned \cup {Allocated(free_pages)}
  /\ free_pages' = AfterAllocate(free_pages)
  /\ UNCHANGED <<vars, alloc>>

(* freelist_->Allocate succeeds, and there is data to copy. *)
AllocRecycledWithData(t) ==
  /\ Ready(t)
  /\ free_pages # << >>
  /\ alloc' = [alloc EXCEPT ![t] = [step |-> "get", id |-> Allocated(free_pages)]]
  /\ free_pages' = AfterAllocate(free_pages)
  /\ UNCHANGED <<vars, owned>>

AllocListEmpty(t) ==
  /\ Ready(t)
  /\ free_pages = << >>
  /\ next_page_id + Cardinality({u \in Threads : alloc[u].step = "new"}) <= MaxPageId
                                                 (* bound of the model *)
  /\ alloc' = [alloc EXCEPT ![t] = [step |-> "new", id |-> NoPage]]
  /\ UNCHANGED <<vars, free_pages, owned>>

(* pool_->GetPage(recycled_id): when it fails, the id is in no list any more. *)
AllocGet(t) ==
  /\ alloc[t].step = "get"
  /\ \/ /\ GetPageHit(t, alloc[t].id) \/ GetPageMiss(t, alloc[t].id)
        /\ alloc' = [alloc EXCEPT ![t].step = "copy"]
     \/ /\ GetPageReadFails(t, alloc[t].id) \/ GetPageNoRoom(t, alloc[t].id)
        /\ alloc' = [alloc EXCEPT ![t] = NoAlloc]
  /\ UNCHANGED <<free_pages, owned>>

(* memcpy(f->data, data_out, PAGE_SIZE) *)
AllocCopy(t, d) ==
  /\ alloc[t].step = "copy"
  /\ WriteFrame(t, d)
  /\ UNCHANGED listVars

(* return pool_->MarkDirty(recycled_id): NOT_FOUND when the page was evicted. *)
AllocMarkDirty(t) ==
  /\ alloc[t].step = "copy"
  /\ MarkDirty(t)
  /\ owned' = owned \cup (IF ret'.rc = "OK" THEN {alloc[t].id} ELSE {})
  /\ alloc' = [alloc EXCEPT ![t] = NoAlloc]
  /\ UNCHANGED free_pages

AllocNew(t, d) ==
  /\ alloc[t].step = "new"
  /\ NewPage(t, d)
  /\ owned' = owned \cup {next_page_id}
  /\ alloc' = [alloc EXCEPT ![t] = NoAlloc]
  /\ UNCHANGED free_pages

AllocNewFails(t) ==
  /\ alloc[t].step = "new"
  /\ NewPageNoRoom(t)
  /\ alloc' = [alloc EXCEPT ![t] = NoAlloc]
  /\ UNCHANGED <<free_pages, owned>>

-----------------------------------------------------------------------------
(* The other calls.  A page is read and written by threads of its owner, which
   frees it when no thread has a frame of it. *)

FreePage(t, p) ==
  /\ Ready(t)
  /\ p \in owned
  /\ \A u \in Threads : held[u].page # p
  /\ free_pages' = AfterFree(free_pages, p)
  /\ owned' = owned \ {p}
  /\ UNCHANGED <<vars, alloc>>

PMGetPage(t, p) ==
  /\ alloc[t] = NoAlloc
  /\ p \in owned \cup Reserved
  /\ GetPage(t, p)
  /\ UNCHANGED listVars

PMMarkDirty(t) ==
  /\ alloc[t] = NoAlloc
  /\ MarkDirty(t)
  /\ UNCHANGED listVars

PMFlush(t) ==
  /\ alloc[t] = NoAlloc
  /\ FlushOK(t) \/ FlushWriteFails(t) \/ FlushSyncFails(t)
  /\ UNCHANGED listVars

(* What the holder of a frame does with it. *)
UsesFrame(t) ==
  /\ alloc[t] = NoAlloc
  /\ \/ \E v \in Values : WriteFrame(t, [k \in 1 .. Parts |-> v])
     \/ Release(t)
     \/ Pin(t)
     \/ Unpin(t)
  /\ UNCHANGED listVars

AllocStep(t) ==
  \/ AllocRecycled(t)
  \/ AllocRecycledWithData(t)
  \/ AllocListEmpty(t)
  \/ AllocGet(t)
  \/ \E v \in Values : AllocCopy(t, [k \in 1 .. Parts |-> v])
  \/ AllocMarkDirty(t)
  \/ \E v \in Values : AllocNew(t, [k \in 1 .. Parts |-> v])
  \/ AllocNewFails(t)

PMNext ==
  \E t \in Threads :
    \/ AllocStep(t)
    \/ \E p \in PageIds : FreePage(t, p) \/ PMGetPage(t, p)
    \/ PMMarkDirty(t)
    \/ PMFlush(t)
    \/ UsesFrame(t)

PMSpec == PMInit /\ [][PMNext]_pmVars
=============================================================================
