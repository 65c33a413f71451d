------------------------------ MODULE FreeList ------------------------------
(***************************************************************************)
(* The free list of storage/free_list.cpp as operators over the sequence   *)
(* free_pages_.  A serialized list is a page: the count word, and slots    *)
(* for PageSlots ids (511 in a 4096-byte page).                            *)
(***************************************************************************)
EXTENDS Integers, SequencesExt

CONSTANT PageSlots                       (* page ids that fit behind the count *)

ASSUME FreeListAssumption == PageSlots \in Nat

(* Allocate: the id freed last. *)
Allocated(free) == Last(free)
NotPopped(free) == free                                               (* mutant *)
AfterAllocate(free) == Front(free)

(* Free appends, whether or not the id is in the list already. *)
AfterFree(free, id) == Append(free, id)

FitsWithRoom(i) == i < PageSlots                                      (* mutant *)

(* The i-th id ends within the page: 4 + 8 * i <= PAGE_SIZE. *)
Fits(i) == i <= PageSlots

(* SerializeToPage clears the page, then stores the whole count, and as many ids
   as fit. *)
SerializeToPage(free) ==
  [count |-> Len(free),
   ids |-> [i \in 1 .. PageSlots |-> IF i <= Len(free) /\ Fits(i) THEN free[i] ELSE 0]]

(* DeserializeFromPage stops at the count or at the end of what it is given: a page
   of page_size bytes that has "room" slots behind the count.  Without the count
   itself (room is -1) the list stays empty. *)
DeserializeFromPage(page, room) ==
  [i \in 1 .. (IF page.count <= room THEN page.count ELSE room) |-> page.ids[i]]
=============================================================================
