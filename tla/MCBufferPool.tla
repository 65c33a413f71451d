---------------------------- MODULE MCBufferPool ----------------------------
(* BufferPool on small instances, and its refinement of PageStore. *)
EXTENDS BufferPool

CONSTANT Torn

ASSUME TornAssumption == Torn \notin Page

(* Page p is not newer in its frame, and lies across the end of the file, or did when
   it was loaded: the frame has old bytes behind what was read (buffer_pool.cpp:38),
   and differs from the file even after that has grown. *)
ReadShort(p) ==
  /\ ~Newer(p)
  /\ CutShort(file, p) \/ (p \in Cached /\ frames[page_table[p]].data # file.data[p])

(* What a caller finds in page p: its frame if it has one, or else the file.  That a
   loaded page has other bytes than the file makes it Torn too, which a page that
   was not Torn becomes in a crash only: a wrong load is no step of PageStore. *)
storeContent ==
  [p \in PageIds |->
     IF ReadShort(p) THEN Torn
     ELSE IF p \in Cached THEN frames[page_table[p]].data ELSE file.data[p]]

(* Page p as the file fs has it. *)
Content(fs, p) == IF CutShort(fs, p) THEN Torn ELSE fs.data[p]

(* A write to come, beyond what the medium has of the page, may be cut short. *)
MayBeCutShort(p) == Newer(p) /\ ~Covered(disk, p, Parts)

storeSurvivors ==
  [p \in PageIds |->
     {storeContent[p], file.data[p], disk.data[p], Content(file, p), Content(disk, p)}
     \cup (IF MayBeCutShort(p) THEN {Torn} ELSE {})]

(* A step is a stop or a close if the pool's last step was one, and nothing else. *)
storeEvent ==
  CASE ret = Returned("FlushAllDirty", "OK") -> "sync"
    [] ret.op = "Close" -> "close"
    [] ret.op = "Crash" -> "crash"
    [] OTHER -> "call"

storeWriting == {p \in PageIds : BeingWritten(p)}

Store == INSTANCE PageStore WITH
  content <- storeContent,
  survivors <- storeSurvivors,
  used <- 0 .. (next_page_id - 1),
  writing <- storeWriting,
  event <- storeEvent

(* The pool implements the page store.  GetPage, with its eviction, its load and each
   of its failures, MarkDirty, a failed flush and a close change no page's content;
   NewPage and the holder of a frame change that of one page; only a kill or a power
   loss loses content, and none that a FlushAllDirty that returned VV_OK had seen; no
   id in use is issued again (buffer_pool.cpp:9-107). *)
ImplementsPageStore == Store!Spec

(* types.h:75, "can't evict if >0": when a call reports VV_ERR_NOMEM, every frame
   is pinned. *)
NoMemMeansAllPinned ==
  ret.rc = "NOMEM" => \A f \in Frames : frames[f].pin > 0
=============================================================================
