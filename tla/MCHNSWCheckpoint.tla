-------------------------- MODULE MCHNSWCheckpoint ---------------------------
(* HNSWCheckpoint on small instances, and its refinement of GraphStore. *)
EXTENDS HNSWCheckpoint

CONSTANTS NoGraph, Broken

ASSUME GraphNames == NoGraph \notin Graphs /\ Broken \notin Graphs /\ NoGraph # Broken

MCPagesOf == [g \in Graphs |-> g]            (* graph 2 takes two pages *)

-----------------------------------------------------------------------------
(* The graph that a header page and the pages behind it make up. *)

(* The contents of the first n pages of the chain that starts at page "head". *)
Chain(page(_), head, n) ==
  LET at[i \in 1 .. n] == IF i = 1 THEN head ELSE page(at[i - 1]).next
  IN  [i \in 1 .. n |-> page(at[i])]

Stored(page(_)) ==
  LET h == page(HNSWPage)
  IN  IF h.kind # "header" THEN NoGraph
      ELSE IF Serialized(Chain(page, h.next, h.n), h.graph) THEN h.graph ELSE Broken

(* A page as the pool gives it, and as the last sync left it. *)
Newest(p) == IF Newer(p) THEN frames[page_table[p]].data[1] ELSE file.data[p][1]

Synced(p) == disk.data[p][1]

Store == INSTANCE GraphStore WITH
  loaded <- IF Whole THEN index.entry ELSE Broken,
  stored <- Stored(Newest),
  durable <- Stored(Synced)

(* Save replaces the stored graph at one moment and as a whole, one that the index
   was at some moment; Load gives what was saved last, or fails; after a crash the
   graph saved at the last successful flush is there, whatever Saves, failures and
   new pages came since: the new chain never touches the old one
   (hnsw_io.cpp:117-129).  Until a crash keeps a header that no flush had synced, or
   an Insert has met a half-loaded index. *)
ImplementsGraphStore ==
  /\ Store!Init
  /\ [][hazards' = {} => UNCHANGED Store!graphVars \/ Store!Next]_ckptVars

(* The pool's table, list and frames agree under Save, Load and the other callers,
   when Load has read a chain whose pages a crash has lost and Save takes new pages
   after it; NewPage installs an id that is cached, so that lru_ has it twice
   (buffer_pool.cpp:56-64), after such a crash only. *)
PoolStructureUnlessUnordered ==
  /\ ToSet(lru) = Cached
  /\ \A p \in Cached : frames[page_table[p]].page_id = p
  /\ "unordered" \in hazards \/ IsInjective(lru)

(* Every id that Save and Load ask the pool for has been issued: without it NewPage
   would issue an id that is cached (buffer_pool.cpp:62).  The ids come from pages
   of an earlier run of the program, and next_page_id from the file's size. *)
ChainIdsIssued ==
  hazards = {} => \A p \in Cached : p < next_page_id

(* Save and Load return, whatever the chain looks like: of a chain with a cycle, or
   without an end, Load reads as many pages as the header says. *)
CallsReturn == []<>(job = NoJob \/ ~Defined)
=============================================================================
