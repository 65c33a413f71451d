# VectorVault in TLA+

TLA+ models of VectorVault (C++20, `src/`), the TLC runs that check them on small instances, and proofs
about them checked by TLAPS.  Paths below are relative to `src/src/` unless they start with `src/`.

1. [The system](#1-the-system)
2. [The modules and the code](#2-the-modules-and-the-code)
3. [What the runs check](#3-what-the-runs-check)
4. [Where the code and its documents disagree](#4-where-the-code-and-its-documents-disagree)
5. [Bounds, and why they are enough](#5-bounds-and-why-they-are-enough)
6. [Fairness](#6-fairness)
7. [What is proved](#7-what-is-proved)
8. [What is not modelled](#8-what-is-not-modelled)
9. [Plan](#9-plan)

`tlc -config X.cfg MCx.tla` runs a configuration; `tlapm XProofs.tla` checks the proofs of a module.

## 1. The system

VectorVault is an embedded vector database in one file.  Its storage layer, its two vector indexes and its
B+ tree are implemented and tested; the C API that will tie them together consists of stubs, so nothing in
the source connects the components yet and each is modelled under every use its interface allows.

| component | state | operations | what makes it correct |
|---|---|---|---|
| File I/O (`storage/file_io`) | descriptor | `Read`, `Write`, `Sync`, `GetFileSize` | a short read leaves the rest of the buffer alone; a failing write may have written a part |
| Buffer pool (`storage/buffer_pool`) | `frames_`, `page_table_`, `lru_`, `next_page_id_`, one mutex | `GetPage`, `NewPage`, `MarkDirty`, `FlushAllDirty`, destructor | a page's content is what was last written to it, wherever it is; a flush that returned OK survives a crash; ids are not issued twice; table and list agree |
| Free list (`storage/free_list`) | `free_pages_`, one mutex | `Allocate`, `Free`, `SerializeToPage`, `DeserializeFromPage` | an id is handed out once |
| Page manager (`storage/page_manager`) | the two above | `AllocPage`, `GetPage`, `MarkDirty`, `FreePage`, `Flush` | an id has one owner, although `AllocPage` is several calls under two locks |
| B+ tree (`meta/btree`) | `root_page_id_`, `count_`, its pages | `Insert`, `Remove`, `Find`, `RangeQuery`, `Save`, `Load` | an ordered map; the chain of leaves holds what `Find` finds; a call that fails half way loses nothing |
| HNSW index (`index/hnsw`) | `nodes_`, `entry_id_`, `max_level_`, `has_entry_`, `count_`, one mutex | `Insert`, `Remove`, `Search`, `Count` | the graph stays walkable; results are live, right and in order; every live vector can be found |
| HNSW checkpoint (`index/hnsw_io`) | the header page and a chain of pages | `Save`, `Load` | a loaded graph is a saved one, or loading fails |
| Flat index (`index/flat`) | `data_`, one mutex | `Insert`, `Remove`, `Search`, `Count` | `Search` returns the k nearest |
| Distance functions (`index/distance*`) | none | L2, cosine and inner product, in SIMD variants | an order on vectors |
| C API and wrapper (`core/database`, `vectorvault.hpp`) | a struct with a shared mutex | `vv_open`, `vv_close`; the rest are stubs | - |
| Configuration, errors, filter, query, CLI | none that matters | validation, texts, stubs | - |

**Interaction.**  B+ tree, checkpoint and free list reach pages through the page manager, which forwards to
the buffer pool, which reads and writes the file.  The link between a caller and the pool is a raw `Frame*`:
`GetPage` returns it, the caller uses it after the pool's mutex is released and then calls `MarkDirty`.
The indexes are used directly by their caller, under their own mutex.

**What is hard.**  Several threads over one pool, with frames used outside the lock; a call that stops after
some of its effects (a failed read, write or fsync, no frame left); a crash between two writes of a flush; a
file that ends inside a page; a crash that keeps the header of a checkpoint and loses its chain, and an index
that a failed `Load` leaves half loaded; splits and merges of the tree, in which the order of the writes decides what a
failure costs; removals in a graph whose searches do not walk through removed nodes; lists at their limit.
`PROJECT.json` lists each of these hazards at its line, with the properties that cover it.

## 2. The modules and the code

```
FileIO ── BufferPool ─┬─ MCBufferPool ── refines ── PageStore
                      ├─ HNSWCheckpoint ── MCHNSWCheckpoint ── refines ── GraphStore
FreeList ─────────────┴─ PageManager ── MCPageManager
BTree ── MCBTree ── refines ── OrderedMap
Nearest ─┬─ HNSW ──┬─ MCHNSW ── refines ── VectorIndex
         └─ FlatIndex ─┘

SequenceFacts ─┬─ HNSWProofs             (with MCHNSW)
               ├─ BTreeProofs            (with MCBTree)
               │    └─ BTreeMapProofs
               └─ BufferPoolProofs ─┬─ PageManagerProofs   (with MCPageManager)
                                    ├─ PageStoreProofs     (with MCBufferPool)
                                    └─ CheckpointProofs    (with MCHNSWCheckpoint)
```

**FileIO** - operators over a file state `[data, size]`.  A page is `Parts` values, so that a transfer can
stop half way.  `AfterCrash` is the set of files that a crash of the machine can leave: each part either as
last synced or as written since, and the end where it was at the last sync, where it is now, or behind any page in
between (`SizesSince`).

**BufferPool** - one action per outcome of each call: `GetPageHit`, `GetPageMiss`, `GetPageReadFails`,
`GetPageNoRoom`, `NewPage`, `NewPageNoRoom`, `EvictWriteFails`, `MarkDirty`, `FlushOK`, `FlushWriteFails`,
`FlushSyncFails`; the destructor with a new pool over the same file (`CloseAndOpen`); and the two crashes
(`KillAndOpen`: the process dies and the operating system keeps what it has; `PowerLossAndOpen`: it does
not).  Each call holds `mu_` throughout and is one step.  `held[t]` is the `Frame*` of thread t.
`WriteFrame`, `Pin` and `Unpin` are what a holder does to the frame.  `GetPage` takes any id, as in the code;
`UsesPool`, the callers of this module, ask for ids that were issued.  `FlushAllDirty` walks a hash table,
so the set of pages it has written when it fails is any set of dirty pages.

**PageStore** - what the pool promises: pages whose content changes by writes only, and the set of contents
each may have after a crash; a successful flush leaves one.  Two of its variables tie its steps to what the pool
does, so that a step may not be explained by a convenient one.  `event` is what the last step was, and `MCBufferPool`
reads it off `ret`: a call, a flush that returned `VV_OK` (`Sync`), the destructor (`Close`) or a kill or power loss
(`Crash`).  Only a `Crash` may lose content or ids, so an eviction, a load, a failed call or a close that loses a
page is a step of no kind.  `writing` is the set of pages whose holder has written them and not yet called `MarkDirty`:
`Write` changes the one page that a step adds to it, and no other.  The content of a page is what a caller of `GetPage`
would find: that of its frame, clean or not, or else of the file.  A load of wrong bytes is therefore a change.  `Torn`
stands for a page that lies across the end of the file, and for a frame that was loaded from one (`ReadShort`).

**FreeList**, **PageManager** - the free list as operators; `AllocPage` as one step per call it makes
(`AllocListEmpty`/`AllocRecycled`, `AllocGet`, `AllocCopy`, `AllocMarkDirty`, `AllocNew`), since it holds
neither lock between them.  `owned` is a history variable: the ids that `AllocPage` returned.  Callers free
only pages they own and no longer use.  A saved list is a page with a count word and `PageSlots` slots, which
is what `SerializeToPage` stores and `DeserializeFromPage` reads, from all of the page or from its first bytes
(`room`: how many slots they have; -1 if not even the count); nothing in the source calls either.

**HNSWCheckpoint** - `Save` and `Load` (with their helpers `WriteChain` and `ReadChain`) as one step per call
of the buffer pool, over all of `BufferPool`'s failures, flushes and crashes.  `job` is where the call is.
`SaveBegin` fills the header fields from the index, `SaveNodes` serializes, `SaveAlloc` is `AllocPage` (the
pool's `NewPage`: nothing in the source frees a page), and the link at the end of the former page and the
header itself are each `SaveGet`, `SaveWrite` (the `memcpy` into a frame, outside the pool's lock) and
`SaveMarkDirty`, whose code is not looked at.  `LoadGetHeader` and `LoadHeader` read the header, replace the
entry point and clear the nodes; `LoadGet` and `LoadPart` follow the chain for as many pages as the header
says; `LoadNodes` installs the nodes.  Bytes that are not those of one graph either make some nodes that fit into
them (`Deserialized`) or the parse is undefined (`LoadUndefined`): the lengths of a record's lists are not checked
against the buffer.  The
graph is a number, the next one after each `Insert`; an index remembers of which graph its entry point, its nodes and its count are, so a
half-loaded index is one in which they differ.  `hazards` has `unordered` (a crash left a header page other than
the one last synced) and `undefined`.  **GraphStore** is what a checkpoint promises with no pages: one graph in
memory, one stored, one that survives a crash; `Broken` is the half-loaded one, and saving it stores it.
`MCHNSWCheckpoint` reads the stored graph off the header and the chain behind it, through the pool's newest
contents and through what was last synced.

**BTree** - nodes as records on pages that keep what is written.  An operation computes the sequence of its
page changes in the code's order and applies all of it, or, when a call of the page manager fails, a strict
prefix (`InsertFails`, `RemoveFails`).  `tail` is the two words at the end of the root's page that `Save`
writes.  The five copies of the descent in the code are one operator each where they differ.  `hazards`
records what has happened that the code does not survive: `underflow` (a leaf below a parent was emptied),
`half_split` (an insert failed between its writes), `root_lost` (the first read of the root failed and the
second did not), `miscount` (a removal failed after `--count_`), `save_full` (`Save` over a full root),
`root_moved` (reopened after the root had moved) and `undefined` (an index or length wrapped round).
**OrderedMap** is what the header promises, and the tree refines it while `hazards` is empty.

**HNSW** - `Insert` and `Remove` are one step each, since both hold `mu_`; `Search` changes nothing and is an
operator.  Vectors are members of a set with a table of distances; `RandomLevel` is any level.  The greedy
walk and the layer search are recursive functions over the two priority queues and the set of visited nodes;
queues are sorted lists (**Nearest**), which is what `std::priority_queue` over pairs is to its user.
`Links` is the code's bounds check `layer >= nbrs.size()`; `InBounds` is the check the code does not make
before `nodes_[nb].neighbors[lvl]` (line 147): when it does not hold the step is `InsertUndefined`, and
nothing is claimed afterwards.  `hazards` records `removed`, `cut` (a neighbor's list was full),
`replaced` (a removed id came again), `miscount` (an Insert counted removed nodes) and `undefined`.
`Reload` is `Save` and then `Load` into a new index, as `index/hnsw_io` serializes it: removed nodes are
written too, and `count_` becomes the number of nodes that are not removed.

**FlatIndex** - the list and its operations as operators.  `MCHNSW` drives both indexes with the same calls,
so the flat index is the reference that HNSW answers are compared with.  **VectorIndex** is the contents and
the count that `index/vector_index.h` exposes.

Definitions marked `(* mutant *)` are deliberate faults beside the definition they distort; no
specification uses them.  `PROJECT.json` names, for each property, a mutant that violates it.

## 3. What the runs check

| run | instance | states | properties |
|---|---|---|---|
| `BufferPool` | 1 caller, 2 frames, 3 pages, all failures and crashes | 158,764 | `TypeOK`; `PoolStructure`; `CleanFramesMatchFile`; `ImplementsPageStore` |
| `BufferPoolTorn` | 1 frame, 2 pages of 2 parts, pins | 61,811 | `ImplementsPageStore` |
| `PageManager` | 2 threads, 2 frames, 3 pages, pins | 1,425,470 | `PMTypeOK`; `PoolStructure`; `NoDoubleAllocation`; `NoMemOnlyWhenAllPinned`; `SavedListIsFree`; `PinnedStays` |
| `HNSWCheckpoint` | 1 thread, 2 frames, header page and 3 pages to allocate, graphs of 0, 1 and 2 pages, all failures and crashes | 424,905 | `CkTypeOK`; `PoolStructureUnlessUnordered`; `ChainIdsIssued`; `ImplementsGraphStore`; `CallsReturn` |
| `BTree` | 5 keys, order 1, no failures | 33,195 | `TypeOK`; `RangeAgreesWithFind`; `NoForeignValue`; `ImplementsOrderedMap` |
| `BTreeFaults` | 4 keys, order 1, failures, `Save`/`Load` | 99,017 | `RangeAgreesWithFind`; `NoForeignValue`; `ImplementsOrderedMap`; `FailedSplitKeepsChain` |
| `HNSW` | 4 ids, 3 vectors, 2 layers, M = 1, reloads | 314,570 | `TypeOK`; `GraphStructure`; `SearchReturnsLive`; `SearchIsExact`; `ImplementsVectorIndex` |

What they show:

- **The pool loses nothing.**  Through evictions, reloads, failing reads, writes and fsyncs and orderly restarts,
  one caller finds in every page what was last written to it, and a kill or a power loss takes each page back
  to a content that it had since the last flush that returned `VV_OK`, or at that flush.  A page that lies across the end of the file (`BufferPoolTorn`) is the one exception:
  its short read mixes what the file has with what the frame had, and nothing is promised of it until it is
  written again.  Such a page comes from a write that was cut short, never from one that a flush reported as done.
- **Ids have one owner** although `AllocPage` is not atomic; the price of a failure in the middle is a lost id,
  never one that is given out twice.  With no failed read, `VV_ERR_NOMEM` means all frames are pinned.
- **A saved free list has free ids only**: what is read back is the list, or its first `PageSlots` ids when
  it is longer.  The ids beyond are lost, never replaced by the zeros of a slot that was not filled.
- **A checkpoint is replaced as a whole.**  A `Save` writes a new chain, links it and changes the header last,
  and never touches the chain before; so at every moment the stored graph is one the index had been, and a
  `Save` that fails or is cut short changes nothing.  A crash that leaves the header of the last flush leaves
  the graph of the last flush, whatever new `Save`, other page or half-done flush came in between.  Every id on
  a chain has been issued by the pool, also after a restart in which `next_page_id` comes from the file's size.
- **Where that ends.**  Header and chain are pages like any other: a crash of the machine in a flush, or a kill
  after an eviction wrote the header page and not yet its chain, can keep a new header without the chain it
  leads to.  The old graph is then lost, and `Load` follows ids into zeros or into pages of another component.
  There is no write-ahead log in the source that would order them.  An id of the lost chain may also be free again:
  `Load` has the pool cache it, although it is not below `next_page_id`, and the next `NewPage` installs the same id
  in a second frame and puts it into `lru_` twice (buffer_pool.cpp:56-64).  The run reaches this; what holds after it
  is that table, list and frames name the same pages (`PoolStructureUnlessUnordered`), and the next `Evict` that
  meets the second entry has no frame for it, so the run stops there.
- **A failed `Load` leaves half an index**: the entry point is the stored one, the nodes are gone.  The next
  `Insert` walks from an entry point that has no node, and a `Save` stores this state with `VV_OK`.
- **`Save` and `Load` return** (`CallsReturn`), on chains with cycles too: `Load` counts pages, it does not
  look for an end.
- **The tree is an ordered map** under every order of inserts, updates and removals until a leaf below a
  parent becomes empty.  Before that, splits up to three levels, the collapse of the root level, `Save` and
  `Load` change nothing the caller sees.  A split that fails half way keeps every pair on the chain of leaves.
- **No foreign value**: whatever goes wrong in removals and failing calls, `Find(k)` never returns a value that
  was inserted under another key, until `Save` has overwritten one or the tree was reopened after its root
  had moved.
- **The graph stays walkable, and search is exact at first**: with ef at least the number of nodes, and until a
  node is removed or a list cut, HNSW and flat index give the same answers to every query.  After that results
  are still live, at their true distance, in order and without duplicates - but vectors can be missed:
  a removed node hides what only it connects, and a cut can drop the only link to a node.  Dropping "cut"
  from the condition of `SearchIsExact` makes TLC find four equal vectors, the last of which is linked from
  nowhere: its only neighbor's list is full.  With the default M = 16 this takes more than 2M equal vectors.
- **Contents and count** are those of the abstract index, re-inserted ids included, until an `Insert` meets a
  removed node: it sets `count_` to the number of all nodes (line 133) where `Remove` had subtracted one.  `Reload`
  keeps the contents and the graph, and makes the count right again.

## 4. Where the code and its documents disagree

Each of these runs checks one property that a comment or a test states, and TLC violates it.

| run | property | what happens |
|---|---|---|
| `SharedFrames` | `HeldFrameStillHoldsPage` | two callers: a frame is evicted and given to another page while its holder uses it; nothing ever raises `pin_count` |
| `LeakedFrame` | `NoMemMeansAllPinned` | a failed read leaves its frame marked used and unreachable; the pool runs out of frames with none pinned |
| `BTreeRemove` | `RemoveTakesOneKey` | emptying a leaf drops the wrong child of the parent, and leaves the removed key on its page |
| `BTreeSave` | `SaveKeepsPairs` | `Save` writes into two words that a full root uses |
| `HNSWReinsert` | `ReinsertStaysInBounds` | insert, remove, insert the same id on a lower level, insert another: the last one writes behind the end of `neighbors` |

The quotes and lines are in `PROJECT.json`, "findings".  Two comments differ from the code without a run of their own:

- btree.h:19 documents `order` as the "maximum number of keys per node (default: 127)".  A node is split only
  when it would have more than `2 * order_` keys (btree.cpp:199, 250), so it holds up to 254.  `TypeOK` of `BTree`
  has the code's limit, and one insert more than `Order` breaks the documented one.  It matters for `BTreeSave`: a
  root within the documented limit ends far before the words that `Save` writes, only one of exactly `2 * order_` keys
  reaches them, and such a root is what the trace of that run saves.
- vectorvault.h:91 calls `hnsw_M` the "per-level max neighbors"; the index allows twice as many on layer 0
  (hnsw.cpp:10-12), as is usual for HNSW, and `MaxLinks` follows the index.  Nothing in the source passes the
  configured value to an index yet.

## 5. Bounds, and why they are enough

- *Pool*: two frames and three pages are the least at which an eviction chooses between two pages and a page
  comes back after having been evicted.  A write is whole in `BufferPool` (`Parts = 1`); `BufferPoolTorn` has
  the parts and gives up the second frame.  Two values tell "written", "not written" and "zero" apart.
- *Page manager*: two threads, one value (its properties do not depend on contents), at most one pin per
  frame.  `AllocListEmpty` has a guard that keeps ids within `MaxPageId`; `NewPage` in `BufferPool` stops there
  as well.  `PageSlots = 1` while two ids can be free, so that a saved list fits and does not.
- *Checkpoint*: pages 0 and 1 are reserved (1 is the header) and 2 to 4 can be allocated: room for graph 1 and
  then graph 2, or for another component's page that comes first, or takes the id of a chain page that a crash
  has lost.  Graph 2 has two pages, so there is a link to write.  `ReadMayFail`: one read fails between two restarts,
  since each failed read costs the pool one of its two frames.  `LateFailures` is false in the run: after a crash
  that has lost pages no read and no flush fails (the theorems have both values).
  `OtherPage` comes only as the first page of the file.  `SaveBegin` waits for room for its pages, and leaves the last id
  unused after such a crash (`LastId`): one id beyond the file is enough for `Load` to cache it and for `NewPage`
  to meet it.  After `unordered` every call goes on as before.  The program stops (`Defined`) when its behaviour is
  undefined or when `lru_` has an id twice, since nothing is claimed from there on.
- *Tree*: order 1 (two keys per node) instead of 127, so that four keys split twice and five reach three levels.
  The arithmetic that depends on the order (a full node covers the tail words) is stated with `Full`.
  `InsertUpTo` and `RemoveUpTo` bound how many hazards a tree may have met before operations on it stop:
  after a hazard the only properties left are those that are claimed to survive it.
- *HNSW*: M = 1 (one link per list, two on layer 0) so that four nodes fill and cut lists on both layers;
  levels 0 and 1; vectors 0, 1 and 3 on a line, so distances differ and four ids must share vectors, which
  gives ties.  `EfSearch` = `EfConstruction` = 4 nodes: search approximates for no other reason than the
  graph's shape.  `ReinsertIds`: a run in which a removed id comes again stays within three ids, and one id
  comes again once.  The constructor's `mL_` is infinite for M = 1; the level is free in the model, so the
  choice of M matters to list limits only.

## 6. Fairness

`HNSWCheckpoint` is the one specification with fairness, `WF_ckptVars(SaveStep \/ LoadStep)`: a thread that is
inside `Save` or `Load` goes on.  The code justifies it because neither call waits for anything but the mutexes
of the index and of the pool, and no call that holds one of these waits for another thread.  Nothing is assumed
of the caller (whether `Save`, `Load`, `Insert` or a flush ever comes), of the disk (any call may fail, and a
failing call ends the job), or of crashes (which end it as well).  `CallsReturn` is the liveness property under
it.

Everywhere else none is assumed: the calls are one step each, or, in `AllocPage`, a few steps without a loop,
and whether another call ever comes is up to a caller that is not part of the source.  These specifications are
`Init /\ [][Next]_vars`, and their properties are invariants, action properties or refinements of a
specification without fairness.  The termination of the loops inside a call is implicit in their being
recursive functions that TLC evaluates.  Runs of the tree, of the index and of the checkpoint say
`CHECK_DEADLOCK FALSE`: a model that has used up its ids, pages or hazards stops.

## 7. What is proved

All theorems hold for every value of the constants that satisfies the named assumptions: `FileAssumption` and
`PoolAssumption` (at least one frame and one part, `Zero` is a value, the first id to be issued is not beyond
the ids the model numbers), and those of the component's own module.

| module | theorem | statement |
|---|---|---|
| `BufferPoolProofs` | `TypeCorrect` | `Spec => []TypeOK` |
| | `StructureCorrect` | `Spec => []PoolStructure`, with any number of threads |
| | `CleanFramesNeedNoWrite` | one caller, `Parts = 1`: `Spec => []CleanFramesMatchFile` |
| `PageStoreProofs` | `PoolImplementsPageStore` | one caller, any number of parts: `Spec => ImplementsPageStore` |
| `PageManagerProofs` | `PMTypeCorrect` | `PMSpec => []PMTypeOK` |
| | `PMStructureCorrect` | `PMSpec => []PoolStructure` |
| | `NoIdHasTwoOwners` | `PMSpec => []NoDoubleAllocation`, with any number of threads inside `AllocPage` |
| | `SavedListIsPrefix` | `PMSpec => []SavedListIsFree` |
| | `PinnedPagesStay` | `PMSpec => PinnedStays`, an action property |
| | `NoMemMeansPinned` | `PMSpec => []NoMemOnlyWhenAllPinned` |
| `CheckpointProofs` | `CkTypeCorrect` | `CkSpec => []CkTypeOK` |
| | `CkStructureUnlessUnordered` | `CkSpec => []PoolStructureUnlessUnordered` |
| | `ChainIds` | `CkSpec => []ChainIdsIssued` |
| | `CheckpointImplementsGraphStore` | `CkSpec => ImplementsGraphStore` |
| `HNSWProofs` | `IndexTypeCorrect` | `MCSpec => []TypeOK` |
| | `GraphIsSearchable` | `MCSpec => []GraphStructure` |
| | `SearchesReturnLiveVectors` | `MCSpec => []SearchReturnsLive` |
| | `IndexRefinesVectorIndex` | `MCSpec => ImplementsVectorIndex` |
| | `SearchesAreExact` | ef_search not below the number of ids: `MCSpec => []SearchIsExact` |
| | `SmallIndexIsExact` | any ef_search: `MCSpec => []ExactWhileSmall`, the same for every k while there are no more nodes than ef_search |
| `BTreeProofs` | `TreeTypeCorrect` | `Spec => []TypeOK` |
| | `NoForeignPairs` | `Spec => []NoForeignValue` |
| `BTreeMapProofs` | `TreeImplementsMap` | `Spec => ImplementsOrderedMap` |
| | `RangesAgree` | `Spec => []RangeAgreesWithFind` |
| | `SplitKeepsChain` | `Spec => FailedSplitKeepsChain`, an action property |

**The pool.**  `PoolStructure` is not inductive by itself: `NewPage` puts `next_page_id` into the table and
at the end of the list without looking, which keeps the list free of duplicates only if that id is not cached.
The inductive invariant `PoolInv` therefore adds `IdsIssued`: every cached id is below `next_page_id`.  It is
preserved because the callers (`UsesPool`) ask `GetPage` for issued ids only - the code does not check it, and
a caller that asked for a later id would break the theorem - and because the pool starts empty after every
restart, whatever the new `next_page_id` is.  Evictions are covered by one lemma (`RoomConsistent`, over
`EvictedConsistent`) that every call with an eviction cites, insertions by `InstallConsistent`, the move to the
end of the list by `TouchedConsistent`; under them are two facts about sequences (removing or appending an
element keeps a list injective).  `HeldInv` adds that the frame a caller holds is in the table under the page
it holds it for.  It is a lemma for what follows and no theorem: with one caller that lets go before its next call
nothing could take the frame, and with two it is false (`SharedFrames`).

**What a call writes.**  Every call of the pool writes back pages that are newer in their frames than in the
file, the last of them perhaps in part, and keeps what all other frames hold, except for the one page whose
content its caller changes.  `WroteBack` and `WritesBack` say this once, and `BufferPoolProofs` shows it of
each call (`GetPageWrites`, `NewPageWrites`, `WriteFrameWrites`, `FlushWrites`, ...).  The invariant of the
files, `FileInv`, follows: bytes behind the end of the file and of the medium are zero, the medium is not
longer than the file, every page of the file has an id below `next_page_id`, and every issued page is in the
file or newer in a frame (`IssuedStored`).  The last conjunct is why `FirstDataPage` is assumed not to exceed
`MaxPageId + 1`.  `CleanFramesMatchFile` is inductive on top of it only when `Parts = 1`: a page across the end
of the file keeps stale bytes in its frame (`BufferPoolTorn`), which the file comes to cover when it grows.

**The page store.**  Each call maps to one step of `PageStore`, and `event` leaves no choice which: calls that change
no page to `Settle` (`SettleStep`; `SettlesPage` says of each page that its frame, its eviction, its load or its absence
leave the same content), `NewPage` and `WriteFrame` to `Alloc` and `Write` (`NewPageStep`, `WriteFrameStep`), a flush
that reports success to `Sync` (`FlushStep`), the destructor to `Close` (`CloseStep`: every newer page is written, and
the ids go on where they were, since every page that was issued is in the file), and a kill or a power loss to
`Crash` (`StopStep`).  A loaded page has the bytes of the file unless the file ends inside it (`LoadedRight`).  The contents
that may survive a crash are those of frame, file and medium, whole or, at the end of the file, torn;
`TornAssumption` says that `Torn` is no page.

**The page manager.**  `NoDoubleAllocation` needs to know what the ids inside `AllocPage` are: `AllocIds` says
that a thread has one between the two locks only, and that it is issued.  With it every id the page manager
asks the pool for is issued, so that `PMInv` includes `PoolInv` (`PMStepUsesPool`).  For
`NoMemOnlyWhenAllPinned`, a least position of an unpinned page in `lru` would be a victim (`NoVictimAllPinned`),
and the table is an injection into the frames, so that a full table with no leaked frame is onto
(`FullPoolFrames`).  `SavedListIsFree` is a fact about the two loops of `SerializeToPage` and
`DeserializeFromPage` (`SavedIds`) on any list of the ids that can occur.

**The checkpoint.**  Which ids `Save` and `Load` ask for depends on what pages hold, in frames, in the file and
on the medium, so `ChainIdsIssued` needs an invariant about the links themselves.  `CkInv` has, while `hazards`
is empty, two sets of pages: N, closed under the links in the newest contents and below `next_page_id`, and D,
closed under the links as of the last sync, with every page of D but the header the same in the frame, the file
and on the medium.  `JobPages` places the call under way: its pages are in N, and those that `Save` is linking are not
in D, which is why a crash still finds the old chain.  A successful flush or a close makes D = N; a crash that
leaves the synced header makes N = D, and since the pages of D lie in the file, they are below the
`next_page_id` that the file's size gives.  Once a crash has kept an unsynced header, Load asks for any id and
everything else goes on, `NewPage` included; `HazardStep` shows for each call that table, list and frames still name
the same pages.  What it cannot show, and what the run refutes, is that the list has no id twice.  `CkInv` was an invariant of TLC
on the instance of `HNSWCheckpoint.cfg` (`CkInv` is in `CheckpointProofs`, which extends `MCHNSWCheckpoint`)
before it was proved.

**The stored graph.**  What is stored is said by the pages alone: `StoredIn(F)`, for pages with contents F, reads
the header in F and walks its chain.  It depends only on the pages of any set that holds the header and is
closed under links (`SamePagesSameGraph`), so that a new page (which is in neither N nor D), a link at the end
of the new chain and an eviction leave it.  Two steps replace it: the `memcpy` of the header, by the graph of
the index (`SaveHeaderStep`), and a crash, by the graph of the last sync (`CrashGraphs`).  `CkGraphInv` adds to
`CkInv` what these need of the call under way.  For `Save` (`SaveOK`): its entry point is still the one of the
index, whose lock it holds; the parts before the current one are pages of one walk from `job.head`, none of which
it changes again but the last (`Written`); and the pages that the stored header leads to are apart from the two
it does change (`Apart`).  For `Load` (`LoadOK`): the header is the one the entry point came from, and what has been
read is the chain from its first page on, so that the graph installed at the end is the stored one or the index stays
without a graph.  `IndexOK` and `HeaderOK` exclude a header of nodes without an entry point, of which `Load` would make
an empty index that was never saved.  The pages' walks are unique and exist for every length (`WalkExists`,
`WalkUnique`), by induction over the length.  `GraphNames` says that `NoGraph` and `Broken` are no graphs and differ.
`CkGraphInv` too was an invariant of TLC on the instance of `HNSWCheckpoint.cfg` before it was proved.  The
theorem says of a step what the property says: as long as `hazards` stays empty.

**The index: what its loops compute.**  An `Insert` writes what its searches return, so that not even a type can be
stated of the graph without knowing what the recursive functions and folds of `HNSW` give.  `SequenceFacts` has
the two arguments.  A fold over a list of n elements equals a function over the subsets of `1 .. n`
that `FoldExists` shows to exist; a property is carried along it from `f[1 .. i - 1]` to `f[1 .. i]` (`UpTo`).
A recursive function that is called on smaller and smaller states exists (`LoopExists`), and whatever each call
preserves holds of the state in which it ends (`LoopEnds`).  What grows smaller is, for `GreedySearch`, the distance
to the query (`NearestLinkIsNearer`), and for `SearchLayer` the number of candidates and unvisited nodes together (`Size`:
following a candidate takes it off the queue, and each link adds a candidate only by visiting a node).  So both
loops of the code end on every graph.  The lemmas of the loops' bodies are `LookedKeeps` and `FollowedKeeps`: candidates
and results are nodes of any set that is closed under links, results are live, visited, at their distance and in
order.  `SearchLayerFinds`, `DescendStays` and `SearchFinds` state the outcome.

**The index: what Insert leaves.**  `LinkedFacts` is one link in both directions with the cut, `LinkedOnFacts` one
layer, `LinkedFromFacts` all layers.  That a list names no node twice and not its own is not evident: the new node's
own search reads a graph that the node is in already.  The reason is that the nodes there before are closed under
links (`Closed`), so that the search, which starts at one of them, does not meet the new node; its neighbors differ from each
other because the search's results do, and each gets one link back (`ReadyFor`, which holds after each neighbor).
A removed id that comes again breaks this, since old lists still name it; then only types and marks are
kept (`Likes`: graphs that differ in their links), which is what the other theorems need.

**The index: the invariant.**  `IndexInv` has four parts.  `Shape` is the type invariant with two facts that it lacks: ids follow
each other from 0 (`Numbered`, without which `VisitedList` would not mark every node) and the entry point is a node as
soon as there is one.  `Fit` is `GraphStructure`.  `Counts` says that `count` is never below the number of live
nodes (after an `Insert` that counts removed nodes it is above), which is why `Remove` does not take it
below 0, and equal to it outside `miscount`.  `Held` says that the flat index has a record of every live node.  One lemma
per action shows that it is kept.  `Shape`, `Counts` and `Held` were invariants of TLC on the instance of `HNSW.cfg`
before they were proved.  `HNSWAssumption` has the parameters (that `EfConstruction` is not below `M` is
what config.cpp:47 sees to, and hnsw.cpp takes as given); `MCAssumption` says that `NoVec` is no vector.

**The index: exact searches.**  That a search is right says nothing of what it leaves out.  `SearchLayer` with an ef not
below the number of nodes keeps every live node it visits, so that no candidate is ever beyond the worst result and the
loop ends only when all links are followed (`NoEarlyStop`, `Covers`): the visited nodes are closed under links, and if
layer 0 is in one piece (`Connected`: no set of nodes but all of them is closed), they are all nodes
(`SearchLayerFindsAll`), wherever the descent through the layers ended.  Why it is in one piece is the invariant
`InOnePiece`: as long as nothing was removed or replaced and no list cut, the search of an `Insert` finds at least one node on
layer 0, whatever ef_construction is (`SearchLayerFindsOne`), and links to it in both directions (`LinkedFromJoins`), while all older links
stay.  `InOnePiece` also says that until then the flat index has exactly the same vectors (`Twin`).
`FlatSearchFinds` shows that its search, a queue from which the worst is dropped as soon as there are more than k, returns the first k of
all pairs in order; the same holds of the HNSW index, and there is only one order (`OrderedUnique`).
`SearchesAreExact` states its hypothesis about ef_search because `SearchIsExact` has none: in the run it holds of the
constants, in general it is the application's choice of parameter (with a smaller one the index is approximate, as
intended).

**The tree: its pages.**  The theorems of `BTreeProofs` follow from one invariant, `TreeInv`, which speaks of
every page and not of the tree that the pages form: `NodesOver(P)` is the set of nodes whose leaves have only pairs of P, and `Holding(P)` says that
the pages are such nodes.  An operation that finds nodes over P writes nodes over P, whatever P is, as long as it has the
pair being inserted.  So the same lemmas (`InsertPlanType`, `RemoveFromLeafKeeps`, ...) give types, with all
pairs for P, and `NoForeignValue`, with the pairs that callers insert; the second half of `TreeInv` ends when `Save`
overwrites a value.  A failing call needs no lemma of its own: it applies a prefix of the same sequence of writes.  Underneath
are the two loops, with the lemmas of `SequenceFacts`: `BinarySearchFinds` (the
place returned is in range and, if the key is found, its own; in a sorted node all smaller keys are to the left of
it), `DescentFacts` (the path has the child that was taken at each level) and `LeafForIsLookup` (the walk of `Find` and the
one of `Remove` end on the same page).  The climb back to the root is a fold (`ClimbType`).  What these two
theorems do not use is that the tree is one: a page that two parents share, or an order that a removal upset,
cannot make them false.

**The tree: the map it is.**  `TreeImplementsMap` does need the tree.  The inductive invariant `Ordered` says that, while
`hazards` is empty, there is a picture of it (`Pictures`): the pages that belong to it, the level of each and the
keys that lead to it.  In `Tree`, every inner node divides its range among children one level below (`Slot`: key i
bounds the children i and i + 1, and no child's range is empty), every leaf is sorted and within its range, and no key leads to two pages of a
level.  `Standing` adds that every page of the tree has an id below `next_page_id`, and that the root's level is bounded by
the number of pages, so that the loops of the code, which the model bounds by the pages there are, end at the
leaves; and that the leaves are chained (`Chained`): the `next` of a leaf is a leaf whose keys follow with none between
(`Follows`), or there is none and no key is beyond.  `Ordered` also says that what `Save` last wrote behind the root's page is what `Load` needs.

- *Reading.*  A descent stays on pages whose range has the key, so it ends at the one leaf that may hold it, and what
  `Find` returns is what the pairs in all leaves say (`FindShows`).  From then on an operation is described by the
  set of pairs alone (`MapSame`, `MapInserts`, `MapRemoves`).
- *Insert.*  The model applies an insert as a sequence of page writes, and the proof goes through them.  While a
  split climbs, the pages are a search tree but for two nodes that the levels above still take for one
  (`Dividing`, `Pending`): the old one with the range up to the separator, the new one with the rest.  Each level either has
  room for the separator and ends the climb, or is divided itself and hands it on (`ClimbEnds`); at the top, a new root
  is made over the two (`Final`).  `InsertPlanEnds` says that the writes together leave a search tree with one pair
  more or one pair changed, and `StandingAfter` that its ids are still bounded.
- *A failed insert* that is no hazard has written one new page at most, which the tree does not have yet
  (`InsertFailsFollows`).  An insert whose read of the root fails replaces it, which only an empty tree survives
  (`InsertOverRootFollows`).
- *Remove.*  A pair leaves its leaf, in which others are left or which is the root (`LeafWritten`); or the left
  one of the two leaves below a root with one key becomes empty, and the right one becomes the root
  (`RemoveRootLevelFollows`).  Every other removal adds to `hazards`.
- *The chain.*  It stays whole at every step of an insert (`ChainDivided`: a leaf that splits leads to its new right half,
  which leads where it led), although the levels above do not know the new leaf yet, and a leaf that becomes empty stays in
  it (`ChainRewritten`).
- *Range queries.*  `RangeQuery` is a loop with the position in the chain and the pairs put out so far.  Its invariant
  (`Walking`) is that these are, in ascending order, the pairs of the range up to the position (`Behind`), and that no
  more leaves are ahead (`Rest`) than there are steps left; `WalkFinds` concludes that it returns all pairs of its
  range, and `PairsAreFound` that these are what `Find` returns.
- *A split that fails half way.*  After each prefix of the writes that contains the cut of the leaf, the pages are such a
  tree but for two nodes (`Torn`; the climb carries this along as `StaysTorn`, since a new page that nothing leads to
  yet changes nothing, `TornOrphan`), and in the state that the failure leaves it is `Hanging`: no page leads to the right
  one of the two.  A descent to one of its keys goes to the left one and on to a leaf that does not have the key in its range,
  but begins no later (`Reaches`, `DescentHanging`); `WalkFinds` needs no more than that.
- *Save and reopen.*  `SaveFollows` writes over the word behind the root's keys, which no node uses that is not full;
  `ReopenFollows` needs that the root has not moved.

TLC does not search for a picture, which is a function on all integers; it checks the property itself, in the runs `BTree`
and `BTreeFaults`.  That the condition on `hazards` is needed is what `BTreeRemove` and `BTreeSave` show.

*Induction.*  Where a proof counts (a greatest page, a bound of `PagesOf`, the elements of a fold) it uses
induction over a set of numbers (`SetInduction`, `UpTo`), proved from the well-foundedness of `<` on `Nat`.

Every invariant, action property and refinement that a passing run checks is proved.  *Out of the prover's reach*, and
only model-checked: liveness (`CallsReturn`).

## 8. What is not modelled

- `FileIO::Resize` (nothing calls it) and an `fstat` that fails (the constructor ignores it, see the hazards).
- An `fsync` that drops the pages it failed on: a later successful one counts for all earlier writes.
- The checkpoint's bytes: a page has a graph and a part of it.  The header does not store the dimension or M,
  which the caller passes to `Load`; that a caller passes others than it saved with is not modelled.  Neither
  are other threads in the pool during `Save` and `Load`: two callers take each other's frames (`SharedFrames`),
  and what the checkpoint does then is what any caller does.
- Distances: the index needs an order on them, and the model takes a table; NaN is not in it.
- Ids out of sequence, and a live id that is inserted again.  `Insert` accepts both (hnsw.cpp:132): the second
  replaces a live node as a re-insertion replaces a removed one.  `MayInsert` gives ids as types.h:24 numbers
  them, 0, 1, 2 and so on, as every caller in the source's tests does, and a second time only when they were removed.
- `VisitedList::Reset` and the counter that wraps round: each search makes a list of its own and never resets.
- The C API and the wrapper: `vv_open` makes a struct and opens no file, `vv_close` deletes it, the
  operations on records return an error without touching it, and `vectorvault.hpp` forwards to them.  A model
  would have nothing between the calls to check.
- Filter and query executor (stubs); configuration (one validation of a struct), error texts (a thread-local
  string), platform macros and CLI: straight-line code without state.

## 9. Plan

The components that have behaviour are modelled, and what the runs check of them is proved, but for liveness.  What is
left waits for the code: the **C API**, when it is more than stubs, with readers and writers over the shared mutex
and the components behind it.
