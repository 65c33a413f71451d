--------------------------- MODULE MCPageManager ----------------------------
(* PageManager with two threads: the id space, and the pool when it is shared. *)
EXTENDS PageManager

InAlloc(t) == alloc[t].id

(* An id is with at most one of: a caller, the free list, an AllocPage under way;
   ids not issued yet are with none (page_manager.cpp:9, free_list.cpp:7). *)
NoDoubleAllocation ==
  /\ IsInjective(free_pages)
  /\ owned \cap ToSet(free_pages) = {}
  /\ \A t \in Threads : alloc[t] # NoAlloc =>
       /\ InAlloc(t) \notin owned \cup ToSet(free_pages)
       /\ \A u \in Threads \ {t} : InAlloc(u) = InAlloc(t) => InAlloc(t) = NoPage
  /\ \A p \in owned \cup ToSet(free_pages) : FirstDataPage <= p /\ p < next_page_id

(* A list written to a page and read back has free ids only, in the order in which
   they were freed, and as many as the page, or the part of it that is read, has
   slots: none that was never filled, whose zeros are the id of the file's header
   page, is taken for an id (free_list.cpp:21-50). *)
SavedListIsFree ==
  \A room \in -1 .. PageSlots :
    LET back == DeserializeFromPage(SerializeToPage(free_pages), room)
    IN  /\ IsPrefix(back, free_pages)
        /\ Len(free_pages) <= room => back = free_pages

Leaked == {f \in Frames : frames[f].page_id # NoPage
                          /\ ~ \E p \in Cached : page_table[p] = f}

(* As long as no read has failed (Leaked), VV_ERR_NOMEM means that every frame is
   pinned (buffer_pool.cpp:106). *)
NoMemOnlyWhenAllPinned ==
  ret.rc = "NOMEM" /\ Leaked = {} => \A f \in Frames : frames[f].pin > 0

(* types.h:75: a pinned page keeps its frame, whatever is called. *)
PinnedStays ==
  [][\A p \in Cached : frames[page_table[p]].pin > 0 =>
        page_table'[p] = page_table[p] /\ frames'[page_table[p]].page_id = p]_pmVars
=============================================================================
