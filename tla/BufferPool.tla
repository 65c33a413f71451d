----------------------------- MODULE BufferPool -----------------------------
(***************************************************************************)
(* The page cache of storage/buffer_pool.cpp: Capacity frames, a table     *)
(* from page ids to frames, and a least-recently-used list, over the file  *)
(* of FileIO.  Every public call holds mu_ from its first line to its      *)
(* return, so each call is one action; what a call returns is "ret".       *)
(*                                                                         *)
(* GetPage hands its caller a raw Frame*, which the caller uses after mu_  *)
(* is released: "held" is that pointer.  A caller reads the frame, or      *)
(* writes it and then calls MarkDirty, before its next call of the pool,   *)
(* as PageManager::AllocPage, the B+tree and the checkpoint code do.       *)
(*                                                                         *)
(* lru_pos_ is not a variable: it is an index into lru_, and it holds an   *)
(* entry, for the last occurrence, exactly for the pages of page_table_.   *)
(***************************************************************************)
EXTENDS FileIO, SequencesExt

CONSTANTS
  Capacity,        (* frames in the pool                                  *)
  Threads,         (* the pool's callers                                  *)
  FirstDataPage,   (* FIRST_DATA_PAGE_ID: the ids below it are reserved   *)
  MaxPins          (* bound on a frame's pin_count                        *)

ASSUME PoolAssumption ==
  /\ Capacity \in Nat \ {0}
  /\ FirstDataPage \in 0 .. (MaxPageId + 1)      (* a page that is reserved is numbered *)
  /\ MaxPins \in Nat

VARIABLES
  frames,          (* Frame[Capacity]                                     *)
  page_table,      (* page id -> frame, or NoFrame                        *)
  lru,             (* lru_, least recently used first                     *)
  next_page_id,
  held,            (* the Frame* each thread got from its last GetPage    *)
  ret,             (* the last call, or restart, and the code it returned *)
  file, disk       (* the file now, and as of the last successful fsync   *)

vars == <<frames, page_table, lru, next_page_id, held, ret, file, disk>>

Frames == 1 .. Capacity
NoFrame == 0
NoPage == -1                        (* static_cast<PageID>(-1) *)
Cached == {p \in PageIds : page_table[p] # NoFrame}

Frame == [page_id : PageIds \cup {NoPage}, data : Page,
          dirty : BOOLEAN, pin : 0 .. MaxPins]
Idle == [page |-> NoPage, frame |-> NoFrame, wrote |-> FALSE]
Hold == [page : PageIds \cup {NoPage}, frame : Frames \cup {NoFrame}, wrote : BOOLEAN]
Ops == {"none", "GetPage", "NewPage", "MarkDirty", "FlushAllDirty", "Close", "Crash"}
Codes == {"OK", "NOMEM", "IO", "NOT_FOUND"}
Returned(op, rc) == [op |-> op, rc |-> rc]
NoCall == Returned("none", "OK")

TypeOK ==
  /\ frames \in [Frames -> Frame]
  /\ page_table \in [PageIds -> Frames \cup {NoFrame}]
  /\ lru \in Seq(PageIds)
  /\ next_page_id \in Nat
  /\ held \in [Threads -> Hold]
  /\ ret \in [op : Ops, rc : Codes]
  /\ file \in FileState
  /\ disk \in FileState

-----------------------------------------------------------------------------
(* The constructor: no page is cached, and new ids start after the file. *)

LastIdAgain(fs) ==                                                    (* mutant *)
  IF PageCount(fs) > FirstDataPage THEN PageCount(fs) - 1 ELSE FirstDataPage

FirstNewId(fs) ==
  IF PageCount(fs) > FirstDataPage THEN PageCount(fs) ELSE FirstDataPage

EmptyFrames ==
  [f \in Frames |->
     [page_id |-> NoPage, data |-> ZeroPage, dirty |-> FALSE, pin |-> 0]]
EmptyTable == [p \in PageIds |-> NoFrame]
AllIdle == [t \in Threads |-> Idle]

Init ==
  /\ frames = EmptyFrames
  /\ page_table = EmptyTable
  /\ lru = << >>
  /\ next_page_id = FirstNewId(EmptyFile)
  /\ held = AllIdle
  /\ ret = NoCall
  /\ file = EmptyFile
  /\ disk = EmptyFile

(* A new pool over file fs, of which "synced" is on the medium. *)
Reopened(fs, synced) ==
  /\ frames' = EmptyFrames
  /\ page_table' = EmptyTable
  /\ lru' = << >>
  /\ next_page_id' = FirstNewId(fs)
  /\ held' = AllIdle
  /\ file' = fs
  /\ disk' = synced

-----------------------------------------------------------------------------
(* Evict and AllocFrame: the private steps of GetPage and NewPage. *)

Full == Cardinality(Cached) >= Capacity

VictimPinnedOrNot(i) == i \in DOMAIN lru /\ i = 1                      (* mutant *)
VictimAtHeadOnly(i) ==                                                (* mutant *)
  i \in DOMAIN lru /\ i = 1 /\ frames[page_table[lru[i]]].pin = 0

(* The first unpinned page in LRU order is at position i of lru_. *)
Victim(i) ==
  /\ i \in DOMAIN lru
  /\ frames[page_table[lru[i]]].pin = 0
  /\ \A j \in 1 .. (i - 1) : frames[page_table[lru[j]]].pin > 0

EvictedUnwritten(i) ==                                                (* mutant *)
  [frames |-> [frames EXCEPT ![page_table[lru[i]]] =
                 [@ EXCEPT !.page_id = NoPage, !.dirty = FALSE]],
   page_table |-> [page_table EXCEPT ![lru[i]] = NoFrame],
   lru |-> RemoveAt(lru, i),
   file |-> file]

(* The pool after Evict has dropped the page at position i, writing it if dirty. *)
Evicted(i) ==
  LET p == lru[i]
      f == page_table[p]
  IN  [frames |-> [frames EXCEPT ![f] = [@ EXCEPT !.page_id = NoPage, !.dirty = FALSE]],
       page_table |-> [page_table EXCEPT ![p] = NoFrame],
       lru |-> RemoveAt(lru, i),
       file |-> IF frames[f].dirty THEN Write(file, p, frames[f].data, Parts) ELSE file]

(* The pool when a call has made room: at most one outcome. *)
Room ==
  IF Full
  THEN {Evicted(i) : i \in {j \in DOMAIN lru : Victim(j)}}
  ELSE {[frames |-> frames, page_table |-> page_table, lru |-> lru, file |-> file]}

(* AllocFrame: f is the first unused frame of fs. *)
FirstUnused(fs, f) ==
  /\ fs[f].page_id = NoPage
  /\ \A g \in 1 .. (f - 1) : fs[g].page_id # NoPage

(* Evict's write of a dirty victim fails, maybe after part of the page: nothing
   but the file has changed when the call returns. *)
EvictWriteFails(op) ==
  /\ Full
  /\ \E i \in DOMAIN lru, n \in 0 .. (Parts - 1) :
       LET f == page_table[lru[i]]
       IN  /\ Victim(i)
           /\ frames[f].dirty
           /\ file' = Write(file, lru[i], frames[f].data, n)
  /\ ret' = Returned(op, "IO")
  /\ UNCHANGED <<frames, page_table, lru, next_page_id, held, disk>>

(* Every cached page is pinned, or there is room and no frame is unused. *)
NoFrameFree(op) ==
  /\ \/ Full /\ ~ \E i \in DOMAIN lru : Victim(i)
     \/ ~Full /\ \A f \in Frames : frames[f].page_id # NoPage
  /\ ret' = Returned(op, "NOMEM")
  /\ UNCHANGED <<frames, page_table, lru, next_page_id, held, file, disk>>

-----------------------------------------------------------------------------
(* GetPage, for any id: the code does not compare it with next_page_id. *)

MayGet(t, p) == held[t] = Idle

TouchedTwice(p) == Append(lru, p)                                     (* mutant *)

(* TouchLRU: the last occurrence of p moves to the end. *)
Touched(p) ==
  LET i == CHOOSE i \in DOMAIN lru :
             lru[i] = p /\ \A j \in DOMAIN lru : lru[j] = p => j <= i
  IN  Append(RemoveAt(lru, i), p)

GetPageHit(t, p) ==
  /\ MayGet(t, p)
  /\ p \in Cached
  /\ lru' = Touched(p)
  /\ held' = [held EXCEPT ![t] = [page |-> p, frame |-> page_table[p], wrote |-> FALSE]]
  /\ ret' = Returned("GetPage", "OK")
  /\ UNCHANGED <<frames, page_table, next_page_id, file, disk>>

LoadedCleared(s, f, p) == ZeroPage                                    (* mutant *)

(* A page with no byte in the file is zeroed; a page cut short by the end of the
   file keeps the frame's old bytes behind what was read. *)
Loaded(s, f, p) ==
  IF Covered(s.file, p, 1) THEN Read(s.file, p, s.frames[f].data) ELSE ZeroPage

GetPageMiss(t, p) ==
  /\ MayGet(t, p)
  /\ p \notin Cached
  /\ \E s \in Room, f \in Frames :
       /\ FirstUnused(s.frames, f)
       /\ frames' = [s.frames EXCEPT ![f] =
                       [page_id |-> p, data |-> Loaded(s, f, p), dirty |-> FALSE, pin |-> 0]]
       /\ page_table' = [s.page_table EXCEPT ![p] = f]
       /\ lru' = Append(s.lru, p)
       /\ file' = s.file
       /\ held' = [held EXCEPT ![t] = [page |-> p, frame |-> f, wrote |-> FALSE]]
  /\ ret' = Returned("GetPage", "OK")
  /\ UNCHANGED <<next_page_id, disk>>

(* pread fails after the frame was taken: its page_id is set and stays set, and
   no table entry leads to it. *)
GetPageReadFails(t, p) ==
  /\ MayGet(t, p)
  /\ p \notin Cached
  /\ \E s \in Room, f \in Frames :
       /\ FirstUnused(s.frames, f)
       /\ frames' = [s.frames EXCEPT ![f].page_id = p]
       /\ page_table' = s.page_table
       /\ lru' = s.lru
       /\ file' = s.file
  /\ ret' = Returned("GetPage", "IO")
  /\ UNCHANGED <<next_page_id, held, disk>>

GetPageNoRoom(t, p) ==
  /\ MayGet(t, p)
  /\ p \notin Cached
  /\ EvictWriteFails("GetPage") \/ NoFrameFree("GetPage")

(* NewPage takes the next id, never looking whether that id is cached. *)
NewPage(t, d) ==
  /\ held[t] = Idle
  /\ next_page_id <= MaxPageId                   (* bound of the model *)
  /\ \E s \in Room, f \in Frames :
       /\ FirstUnused(s.frames, f)
       /\ frames' = [s.frames EXCEPT ![f] =
                       [page_id |-> next_page_id, data |-> d, dirty |-> TRUE, pin |-> 0]]
       /\ page_table' = [s.page_table EXCEPT ![next_page_id] = f]
       /\ lru' = Append(s.lru, next_page_id)
       /\ file' = s.file
  /\ next_page_id' = next_page_id + 1
  /\ ret' = Returned("NewPage", "OK")
  /\ UNCHANGED <<held, disk>>

NewPageNoRoom(t) ==
  /\ held[t] = Idle
  /\ next_page_id <= MaxPageId
  /\ EvictWriteFails("NewPage") \/ NoFrameFree("NewPage")

-----------------------------------------------------------------------------
(* What a caller does with the frame it was given. *)

(* memcpy into f->data, without mu_. *)
WriteFrame(t, d) ==
  /\ held[t] # Idle
  /\ ~held[t].wrote
  /\ frames' = [frames EXCEPT ![held[t].frame].data = d]
  /\ held' = [held EXCEPT ![t].wrote = TRUE]
  /\ ret' = NoCall
  /\ UNCHANGED <<page_table, lru, next_page_id, file, disk>>

(* MarkDirty looks the page up again; the caller is done with the frame. *)
MarkDirty(t) ==
  LET p == held[t].page
  IN  /\ held[t].wrote
      /\ IF p \in Cached
         THEN /\ frames' = [frames EXCEPT ![page_table[p]].dirty = TRUE]
              /\ ret' = Returned("MarkDirty", "OK")
         ELSE /\ ret' = Returned("MarkDirty", "NOT_FOUND")
              /\ UNCHANGED frames
      /\ held' = [held EXCEPT ![t] = Idle]
      /\ UNCHANGED <<page_table, lru, next_page_id, file, disk>>

(* The caller has only read the frame. *)
Release(t) ==
  /\ held[t] # Idle
  /\ ~held[t].wrote
  /\ held' = [held EXCEPT ![t] = Idle]
  /\ ret' = NoCall
  /\ UNCHANGED <<frames, page_table, lru, next_page_id, file, disk>>

(* pin_count is a public field that the holder of a frame counts up and down. *)
Pin(t) ==
  /\ held[t] # Idle
  /\ frames[held[t].frame].pin < MaxPins
  /\ frames' = [frames EXCEPT ![held[t].frame].pin = @ + 1]
  /\ ret' = NoCall
  /\ UNCHANGED <<page_table, lru, next_page_id, held, file, disk>>

UnpinUnchecked(t) ==                                                  (* mutant *)
  /\ held[t] # Idle
  /\ frames' = [frames EXCEPT ![held[t].frame].pin = @ - 1]
  /\ ret' = NoCall
  /\ UNCHANGED <<page_table, lru, next_page_id, held, file, disk>>

Unpin(t) ==
  /\ held[t] # Idle
  /\ frames[held[t].frame].pin > 0
  /\ frames' = [frames EXCEPT ![held[t].frame].pin = @ - 1]
  /\ ret' = NoCall
  /\ UNCHANGED <<page_table, lru, next_page_id, held, file, disk>>

-----------------------------------------------------------------------------
(* FlushAllDirty writes the dirty pages in the hash table's order, which is any. *)

DirtyPages == {p \in Cached : frames[page_table[p]].dirty}

(* The file and the frames when exactly the pages of S have been written. *)
WrittenFile(S) ==
  LET top == {p \in S : \A q \in S : q <= p}
  IN  [data |-> [p \in PageIds |->
                   IF p \in S THEN frames[page_table[p]].data ELSE file.data[p]],
       size |-> IF \E p \in top : ~Covered(file, p, Parts)
                THEN (CHOOSE p \in top : TRUE) * Parts + Parts
                ELSE file.size]

AllCleaned(S) == [f \in Frames |-> [frames[f] EXCEPT !.dirty = FALSE]]  (* mutant *)

CleanedFrames(S) ==
  [f \in Frames |-> IF \E p \in S : page_table[p] = f
                    THEN [frames[f] EXCEPT !.dirty = FALSE] ELSE frames[f]]

FlushOK(t) ==
  /\ held[t] = Idle
  /\ file' = WrittenFile(DirtyPages)
  /\ disk' = file'
  /\ frames' = CleanedFrames(DirtyPages)
  /\ ret' = Returned("FlushAllDirty", "OK")
  /\ UNCHANGED <<page_table, lru, next_page_id, held>>

(* The write of page p fails half way after the pages of S went through. *)
FlushWriteFails(t) ==
  /\ held[t] = Idle
  /\ \E p \in DirtyPages : \E S \in SUBSET (DirtyPages \ {p}), n \in 0 .. (Parts - 1) :
       /\ file' = Write(WrittenFile(S), p, frames[page_table[p]].data, n)
       /\ frames' = CleanedFrames(S)
  /\ ret' = Returned("FlushAllDirty", "IO")
  /\ UNCHANGED <<page_table, lru, next_page_id, held, disk>>

(* fsync fails after every write went through: the frames are clean already. *)
FlushSyncFails(t) ==
  /\ held[t] = Idle
  /\ file' = WrittenFile(DirtyPages)
  /\ frames' = CleanedFrames(DirtyPages)
  /\ ret' = Returned("FlushAllDirty", "IO")
  /\ UNCHANGED <<page_table, lru, next_page_id, held, disk>>

-----------------------------------------------------------------------------
(* The destructor flushes and frees the frames; a new pool then opens the file.
   A destructor whose flush fails is FlushWriteFails or FlushSyncFails, and then
   the pool and what it held are gone as after a kill. *)
CloseAndOpen ==
  /\ \A t \in Threads : held[t] = Idle
  /\ Reopened(WrittenFile(DirtyPages), WrittenFile(DirtyPages))
  /\ ret' = Returned("Close", "OK")

(* The process is killed: the operating system still has what was written. *)
KillAndOpen ==
  /\ Reopened(file, disk)
  /\ ret' = Returned("Crash", "OK")

(* The machine stops: of what was written since the last fsync, any part is lost. *)
PowerLossAndOpen ==
  /\ \E fs \in AfterCrash(file, disk) : Reopened(fs, fs)
  /\ ret' = Returned("Crash", "OK")

GetPage(t, p) ==
  \/ GetPageHit(t, p)
  \/ GetPageMiss(t, p)
  \/ GetPageReadFails(t, p)
  \/ GetPageNoRoom(t, p)

(* Callers ask for pages that have been allocated since the pool was opened or lie
   in the file: every id they keep, without a crash. *)
UsesPool(t) ==
  \/ \E p \in PageIds : p < next_page_id /\ GetPage(t, p)
  \/ \E v \in Values : NewPage(t, [k \in 1 .. Parts |-> v])
  \/ NewPageNoRoom(t)
  \/ \E v \in Values : WriteFrame(t, [k \in 1 .. Parts |-> v])
  \/ MarkDirty(t)
  \/ Release(t)
  \/ Pin(t)
  \/ Unpin(t)
  \/ FlushOK(t)
  \/ FlushWriteFails(t)
  \/ FlushSyncFails(t)

Next ==
  \/ \E t \in Threads : UsesPool(t)
  \/ CloseAndOpen
  \/ KillAndOpen
  \/ PowerLossAndOpen

Spec == Init /\ [][Next]_vars

-----------------------------------------------------------------------------
(* lru_ lists every cached page exactly once and nothing else, each table entry
   leads to the frame of its page, and no two entries to one frame: Evict never
   follows a null entry (buffer_pool.cpp:92) and never drops a page twice. *)
PoolStructure ==
  /\ IsInjective(lru)
  /\ ToSet(lru) = Cached
  /\ \A p \in Cached : frames[page_table[p]].page_id = p

(* A Frame* that GetPage handed out (buffer_pool.cpp:44) is still the frame of
   that page when its holder reads it, writes it or calls MarkDirty. *)
HeldFrameStillHoldsPage ==
  \A t \in Threads :
    held[t] # Idle => /\ page_table[held[t].page] = held[t].frame
                      /\ frames[held[t].frame].page_id = held[t].page

(* Page p is newer in its frame than in the file, or is about to be. *)
BeingWritten(p) == \E t \in Threads : held[t].page = p /\ held[t].wrote
Newer(p) == p \in Cached /\ (frames[page_table[p]].dirty \/ BeingWritten(p))

(* A frame that is not dirty and not being written holds what the file holds, so
   evicting it without a write (buffer_pool.cpp:94) loses nothing. *)
CleanFramesMatchFile ==
  \A p \in Cached :
    ~Newer(p) => frames[page_table[p]].data = file.data[p]
=============================================================================
