-------------------------- MODULE BufferPoolProofs --------------------------
(***************************************************************************)
(* Proofs about BufferPool, for every number of frames, pages, threads and *)
(* parts: type correctness, the structure of the page table and the LRU    *)
(* list, and, for a single caller, that a frame stays the frame of its     *)
(* page while it is held.                                                  *)
(*                                                                         *)
(* Then, for one caller at a time, what the calls do to the file: each     *)
(* writes back pages that are newer in their frames than in the file, some *)
(* of them perhaps in part, and changes at most one frame's content        *)
(* (WritesBack).  From this follow the invariant of the two files          *)
(* (FileInv) and that a frame that is not dirty needs no write.            *)
(* PageStoreProofs and CheckpointProofs build on it.                       *)
(***************************************************************************)
EXTENDS BufferPool, SequenceFacts

-----------------------------------------------------------------------------
(* The file: every operation on a file state yields a file state. *)

LEMMA OffsetIsNat ==
  ASSUME NEW p \in PageIds
  PROVE  p * Parts \in Nat
BY FileAssumption DEF PageIds

LEMMA PageCountIsNat ==
  ASSUME NEW fs
  PROVE  PageCount(fs) \in Nat
<1>1. IsFiniteSet(PageIds)
  BY FileAssumption, FS_Interval DEF PageIds
<1>2. IsFiniteSet({p \in PageIds : Covered(fs, p, 1)})
  BY <1>1, FS_Subset
<1> QED
  BY <1>2, FS_CardinalityType DEF PageCount

LEMMA EmptyFileType == ZeroPage \in Page /\ EmptyFile \in FileState
BY FileAssumption DEF ZeroPage, Page, EmptyFile, FileState

LEMMA WriteType ==
  ASSUME NEW fs \in FileState, NEW p \in PageIds, NEW d \in Page, NEW n \in 0 .. Parts
  PROVE  Write(fs, p, d, n) \in FileState
<1>1. p * Parts \in Nat /\ p * Parts + n \in Nat
  BY OffsetIsNat, FileAssumption
<1>2. [k \in 1 .. Parts |-> IF k <= n THEN d[k] ELSE fs.data[p][k]] \in Page
  BY DEF FileState, Page
<1> QED
  BY <1>1, <1>2 DEF Write, FileState

LEMMA ReadType ==
  ASSUME NEW fs \in FileState, NEW p \in PageIds, NEW buf \in Page
  PROVE  Read(fs, p, buf) \in Page
BY DEF Read, FileState, Page

LEMMA RemainsType ==
  ASSUME NEW fs \in FileState, NEW gs \in FileState, NEW back, NEW sz \in Nat
  PROVE  Remains(fs, gs, back, sz) \in FileState
<1>1. \A p \in PageIds :
        [k \in 1 .. Parts |-> IF p * Parts + k > sz THEN Zero
                              ELSE IF <<p, k>> \in back THEN fs.data[p][k]
                              ELSE gs.data[p][k]] \in Page
  BY FileAssumption DEF FileState, Page
<1> QED
  BY <1>1 DEF Remains, FileState

LEMMA AfterCrashType ==
  ASSUME NEW fs \in FileState, NEW gs \in FileState, NEW hs \in AfterCrash(fs, gs)
  PROVE  hs \in FileState
<1>1. \E sz \in SizesSince(fs, gs) : \E back : hs = Remains(fs, gs, back, sz)
  BY DEF AfterCrash
<1>2. SizesSince(fs, gs) \subseteq Nat
  BY DEF FileState, SizesSince
<1> QED
  BY <1>1, <1>2, RemainsType

-----------------------------------------------------------------------------
(* The inductive invariant: the types, the structure of the table and the list,
   and that NewPage's next id is above every cached id, so that the entry it
   writes is a new one. *)

Consistent(fr, pt, l) ==
  /\ IsInjective(l)
  /\ ToSet(l) = {p \in PageIds : pt[p] # NoFrame}
  /\ \A p \in PageIds : pt[p] # NoFrame => fr[pt[p]].page_id = p

PoolType(s) ==
  /\ s.frames \in [Frames -> Frame]
  /\ s.page_table \in [PageIds -> Frames \cup {NoFrame}]
  /\ s.lru \in Seq(PageIds)
  /\ s.file \in FileState

IdsIssued == \A p \in Cached : p < next_page_id

PoolInv == TypeOK /\ PoolStructure /\ IdsIssued

LEMMA StructureIsConsistent == PoolStructure <=> Consistent(frames, page_table, lru)
BY DEF PoolStructure, Consistent, Cached

(* What Evict does to a consistent pool: the victim is in no table entry and in
   no list entry any more, and its frame is unused. *)
LEMMA EvictedConsistent ==
  ASSUME TypeOK, PoolStructure, NEW i \in DOMAIN lru
  PROVE  LET s == Evicted(i)
         IN  /\ PoolType(s)
             /\ Consistent(s.frames, s.page_table, s.lru)
             /\ \A p \in PageIds : s.page_table[p] # NoFrame => p \in Cached
<1> DEFINE p == lru[i]
           f == page_table[p]
           s == Evicted(i)
<1>1. TypeOK /\ Consistent(frames, page_table, lru)
  BY StructureIsConsistent
<1>2. p \in PageIds /\ p \in ToSet(lru)
  BY <1>1 DEF TypeOK, ToSet
<1>3. p \in Cached /\ f \in Frames /\ frames[f].page_id = p
  BY <1>1, <1>2 DEF Consistent, Cached, TypeOK
<1>4. frames[f] \in Frame
  BY <1>1, <1>3 DEF TypeOK
<1>5. /\ s.lru \in Seq(PageIds)
      /\ IsInjective(s.lru)
      /\ ToSet(s.lru) = ToSet(lru) \ {p}
  BY <1>1, RemoveAtElements, RemoveAtInjective DEF Evicted, TypeOK, Consistent
<1>6. s.file \in FileState
  <2>1. Write(file, p, frames[f].data, Parts) \in FileState
    BY <1>1, <1>2, <1>4, WriteType, FileAssumption DEF TypeOK, Frame
  <2> QED BY <1>1, <2>1 DEF Evicted, TypeOK
<1>7. s.frames = [frames EXCEPT ![f] = [@ EXCEPT !.page_id = NoPage, !.dirty = FALSE]]
  BY DEF Evicted
<1>8. s.frames \in [Frames -> Frame]
  BY <1>1, <1>3, <1>4, <1>7 DEF TypeOK, Frame
<1>9. s.page_table = [page_table EXCEPT ![p] = NoFrame]
  BY DEF Evicted
<1>10. s.page_table \in [PageIds -> Frames \cup {NoFrame}]
  BY <1>1, <1>9 DEF TypeOK
<1> HIDE DEF s, p, f
<1>11. \A q \in PageIds :
         s.page_table[q] # NoFrame <=> (page_table[q] # NoFrame /\ q # p)
  BY <1>1, <1>9 DEF TypeOK
<1>12. ToSet(s.lru) = {q \in PageIds : s.page_table[q] # NoFrame}
  BY <1>1, <1>5, <1>11 DEF Consistent
<1>13. ASSUME NEW q \in PageIds, s.page_table[q] # NoFrame
       PROVE s.frames[s.page_table[q]].page_id = q
  <2>1. page_table[q] # NoFrame /\ q # p /\ s.page_table[q] = page_table[q]
    BY <1>1, <1>9, <1>11, <1>13 DEF TypeOK
  <2>2. frames[page_table[q]].page_id = q /\ page_table[q] \in Frames
    BY <1>1, <2>1 DEF Consistent, TypeOK
  <2>3. page_table[q] # f
    BY <1>3, <2>1, <2>2
  <2>4. s.frames[page_table[q]] = frames[page_table[q]]
    BY <1>1, <1>7, <2>2, <2>3 DEF TypeOK
  <2> QED BY <2>1, <2>2, <2>4
<1>14. \A q \in PageIds : s.page_table[q] # NoFrame => q \in Cached
  BY <1>11 DEF Cached
<1> QED
  BY <1>5, <1>6, <1>8, <1>10, <1>12, <1>13, <1>14 DEF PoolType, Consistent, s

(* What GetPage and NewPage find once there is room. *)
LEMMA RoomOfStructure ==
  ASSUME TypeOK, PoolStructure, NEW s \in Room
  PROVE  /\ PoolType(s)
         /\ Consistent(s.frames, s.page_table, s.lru)
         /\ \A p \in PageIds : s.page_table[p] # NoFrame => p \in Cached
<1>1. CASE Full
  <2>1. PICK i \in DOMAIN lru : s = Evicted(i)
    BY <1>1 DEF Room
  <2> QED BY <2>1, EvictedConsistent
<1>2. CASE ~Full
  <2>1. s = [frames |-> frames, page_table |-> page_table, lru |-> lru, file |-> file]
    BY <1>2 DEF Room
  <2> QED
    BY <2>1, StructureIsConsistent DEF TypeOK, PoolType, Cached
<1> QED
  BY <1>1, <1>2

LEMMA RoomConsistent ==
  ASSUME PoolInv, NEW s \in Room
  PROVE  /\ PoolType(s)
         /\ Consistent(s.frames, s.page_table, s.lru)
         /\ \A p \in PageIds : s.page_table[p] # NoFrame => p \in Cached
BY RoomOfStructure DEF PoolInv

(* Filling an unused frame with page p, which the list then has once if it was not
   cached. *)
LEMMA InstallConsistent ==
  ASSUME NEW s, PoolType(s), Consistent(s.frames, s.page_table, s.lru),
         NEW f \in Frames, FirstUnused(s.frames, f),
         NEW p \in PageIds, NEW e \in Frame, e.page_id = p
  PROVE  LET fr == [s.frames EXCEPT ![f] = e]
             pt == [s.page_table EXCEPT ![p] = f]
             l == Append(s.lru, p)
         IN  /\ fr \in [Frames -> Frame]
             /\ pt \in [PageIds -> Frames \cup {NoFrame}]
             /\ l \in Seq(PageIds)
             /\ s.page_table[p] = NoFrame => IsInjective(l)
             /\ ToSet(l) = {q \in PageIds : pt[q] # NoFrame}
             /\ \A q \in PageIds : pt[q] # NoFrame => fr[pt[q]].page_id = q
<1> DEFINE fr == [s.frames EXCEPT ![f] = e]
           pt == [s.page_table EXCEPT ![p] = f]
           l == Append(s.lru, p)
<1>1. fr \in [Frames -> Frame] /\ pt \in [PageIds -> Frames \cup {NoFrame}]
  BY DEF PoolType
<1>2. l \in Seq(PageIds) /\ ToSet(l) = ToSet(s.lru) \cup {p}
  BY AppendElements DEF PoolType
<1>3. ASSUME s.page_table[p] = NoFrame PROVE IsInjective(l)
  <2>1. p \notin ToSet(s.lru)
    BY <1>3 DEF Consistent
  <2> QED BY <2>1, AppendInjectiveSeq DEF PoolType, Consistent
<1>4. f # NoFrame
  BY DEF Frames, NoFrame
<1>5. ToSet(l) = {q \in PageIds : pt[q] # NoFrame}
  BY <1>2, <1>4 DEF PoolType, Consistent
<1>6. ASSUME NEW q \in PageIds, pt[q] # NoFrame
      PROVE fr[pt[q]].page_id = q
  <2>1. CASE q = p
    BY <2>1 DEF PoolType
  <2>2. CASE q # p
    <3>1. pt[q] = s.page_table[q] /\ s.page_table[q] \in Frames
      BY <1>6, <2>2 DEF PoolType
    <3>2. s.frames[s.page_table[q]].page_id = q
      BY <1>6, <3>1 DEF Consistent
    <3>3. s.page_table[q] # f
      BY <3>2 DEF FirstUnused, NoPage, PageIds
    <3> QED BY <3>1, <3>2, <3>3 DEF PoolType
  <2> QED BY <2>1, <2>2
<1> QED
  BY <1>1, <1>2, <1>3, <1>5, <1>6

(* TouchLRU leaves the list with the same pages, each once. *)
LEMMA TouchedConsistent ==
  ASSUME TypeOK, PoolStructure, NEW p \in Cached
  PROVE  /\ Touched(p) \in Seq(PageIds)
         /\ Consistent(frames, page_table, Touched(p))
<1> DEFINE i == CHOOSE i \in DOMAIN lru :
                  lru[i] = p /\ \A j \in DOMAIN lru : lru[j] = p => j <= i
           r == RemoveAt(lru, i)
<1>1. lru \in Seq(PageIds) /\ Consistent(frames, page_table, lru)
  BY StructureIsConsistent DEF TypeOK
<1>2. p \in PageIds /\ page_table[p] # NoFrame /\ p \in ToSet(lru)
  BY <1>1 DEF Consistent, Cached
<1>3. DOMAIN lru = 1 .. Len(lru) /\ Len(lru) \in Nat
  BY <1>1, LenProperties
<1>4. PICK k \in DOMAIN lru : lru[k] = p
  BY <1>2 DEF ToSet
<1>5. \A j \in DOMAIN lru : lru[j] = p => j <= k
  BY <1>1, <1>3, <1>4 DEF Consistent, IsInjective
<1>6. i \in DOMAIN lru /\ lru[i] = p
  BY <1>4, <1>5
<1> HIDE DEF i
<1>7. r \in Seq(PageIds) /\ IsInjective(r) /\ ToSet(r) = ToSet(lru) \ {p}
  BY <1>1, <1>6, RemoveAtElements, RemoveAtInjective DEF Consistent
<1> HIDE DEF r
<1>8. /\ Append(r, p) \in Seq(PageIds)
      /\ IsInjective(Append(r, p))
      /\ ToSet(Append(r, p)) = ToSet(r) \cup {p}
  BY <1>2, <1>7, AppendInjectiveSeq
<1>9. Consistent(frames, page_table, Append(r, p))
  BY <1>1, <1>2, <1>7, <1>8 DEF Consistent
<1> QED
  BY <1>8, <1>9 DEF Touched, r, i

(* Any set of cached pages can be written back, in any order. *)
LEMMA WrittenFileType ==
  ASSUME TypeOK, NEW S \in SUBSET Cached
  PROVE  WrittenFile(S) \in FileState
<1> DEFINE top == {p \in S : \A q \in S : q <= p}
           dt == [p \in PageIds |->
                    IF p \in S THEN frames[page_table[p]].data ELSE file.data[p]]
           sz == IF \E p \in top : ~Covered(file, p, Parts)
                 THEN (CHOOSE p \in top : TRUE) * Parts + Parts ELSE file.size
<1>1. dt \in [PageIds -> Page]
  BY DEF TypeOK, Cached, FileState, Frame
<1>2. sz \in Nat
  <2>1. file.size \in Nat
    BY DEF TypeOK, FileState
  <2>2. ASSUME NEW p \in top PROVE (CHOOSE q \in top : TRUE) \in PageIds
    BY <2>2 DEF Cached
  <2>3. ASSUME NEW p \in PageIds PROVE p * Parts + Parts \in Nat
    BY OffsetIsNat, FileAssumption
  <2> QED BY <2>1, <2>2, <2>3
<1> HIDE DEF dt, sz
<1>3. WrittenFile(S) = [data |-> dt, size |-> sz]
  BY DEF WrittenFile, dt, sz
<1> QED
  BY <1>1, <1>2, <1>3 DEF FileState

LEMMA CleanedFramesType ==
  ASSUME TypeOK, NEW S
  PROVE  /\ CleanedFrames(S) \in [Frames -> Frame]
         /\ \A f \in Frames : CleanedFrames(S)[f].page_id = frames[f].page_id
BY DEF TypeOK, CleanedFrames, Frame

(* A step that leaves the table and the list alone, and every frame with its
   page, keeps the structure. *)
LEMMA SamePages ==
  ASSUME TypeOK, PoolStructure,
         UNCHANGED <<page_table, lru>>,
         \A f \in Frames : frames'[f].page_id = frames[f].page_id
  PROVE  PoolStructure' /\ Cached' = Cached
<1>1. Cached' = Cached
  BY DEF Cached
<1>2. \A p \in Cached : page_table[p] \in Frames
  BY DEF TypeOK, Cached
<1> QED
  BY <1>1, <1>2 DEF PoolStructure

(* A new pool over any file. *)
LEMMA ReopenedInv ==
  ASSUME NEW fs \in FileState, NEW gs \in FileState, Reopened(fs, gs),
         NEW op \in Ops, ret' = Returned(op, "OK")
  PROVE  PoolInv'
<1>1. FirstNewId(fs) \in Nat
  BY PageCountIsNat, PoolAssumption DEF FirstNewId
<1>2. EmptyFrames \in [Frames -> Frame]
  BY EmptyFileType, PoolAssumption DEF EmptyFrames, Frame
<1>3. TypeOK'
  <2>1. AllIdle \in [Threads -> Hold]
    BY DEF AllIdle, Idle, Hold
  <2>2. ret' \in [op : Ops, rc : Codes]
    BY DEF Returned, Codes
  <2>3. EmptyTable \in [PageIds -> Frames \cup {NoFrame}] /\ << >> \in Seq(PageIds)
    BY DEF EmptyTable
  <2> QED BY <1>1, <1>2, <2>1, <2>2, <2>3 DEF Reopened, TypeOK
<1>4. Cached' = {}
  BY DEF Reopened, Cached, EmptyTable
<1>5. IsInjective(lru') /\ ToSet(lru') = {}
  BY DEF Reopened, IsInjective, ToSet
<1> QED
  BY <1>3, <1>4, <1>5 DEF PoolInv, PoolStructure, IdsIssued

LEMMA InitInv == Init => PoolInv
<1> SUFFICES ASSUME Init PROVE PoolInv
  OBVIOUS
<1>1. FirstNewId(EmptyFile) \in Nat
  BY PageCountIsNat, PoolAssumption DEF FirstNewId
<1>2. EmptyFrames \in [Frames -> Frame]
  BY EmptyFileType, PoolAssumption DEF EmptyFrames, Frame
<1>3. TypeOK
  <2>1. AllIdle \in [Threads -> Hold]
    BY DEF AllIdle, Idle, Hold
  <2>2. NoCall \in [op : Ops, rc : Codes]
    BY DEF NoCall, Returned, Ops, Codes
  <2>3. EmptyTable \in [PageIds -> Frames \cup {NoFrame}] /\ << >> \in Seq(PageIds)
    BY DEF EmptyTable
  <2> QED BY <1>1, <1>2, <2>1, <2>2, <2>3, EmptyFileType DEF Init, TypeOK
<1>4. Cached = {}
  BY DEF Init, Cached, EmptyTable
<1>5. IsInjective(lru) /\ ToSet(lru) = {}
  BY DEF Init, IsInjective, ToSet
<1> QED
  BY <1>3, <1>4, <1>5 DEF PoolInv, PoolStructure, IdsIssued

-----------------------------------------------------------------------------
(* Every step keeps the invariant: one lemma for the calls that make room, one
   step per action below. *)

(* A write of a dirty victim that fails changes the file alone. *)
LEMMA EvictWriteFailsType ==
  ASSUME TypeOK, PoolStructure, NEW op \in {"GetPage", "NewPage"}, EvictWriteFails(op)
  PROVE  TypeOK'
<1>1. PICK i \in DOMAIN lru, n \in 0 .. (Parts - 1) :
        file' = Write(file, lru[i], frames[page_table[lru[i]]].data, n)
  BY DEF EvictWriteFails
<1>2. Consistent(frames, page_table, lru) /\ TypeOK
  BY StructureIsConsistent
<1>3. lru[i] \in PageIds /\ lru[i] \in ToSet(lru)
  BY <1>2 DEF TypeOK, ToSet
<1>4. page_table[lru[i]] \in Frames
  BY <1>2, <1>3 DEF Consistent, TypeOK
<1>5. frames[page_table[lru[i]]].data \in Page /\ n \in 0 .. Parts
  BY <1>2, <1>4, FileAssumption DEF TypeOK, Frame
<1>6. file' \in FileState
  BY <1>1, <1>2, <1>3, <1>5, WriteType DEF TypeOK
<1> QED
  BY <1>2, <1>6 DEF TypeOK, EvictWriteFails, Returned, Ops, Codes

LEMMA NoRoomStructure ==
  ASSUME TypeOK, PoolStructure, NEW op \in {"GetPage", "NewPage"},
         EvictWriteFails(op) \/ NoFrameFree(op)
  PROVE  TypeOK' /\ PoolStructure' /\ Cached' = Cached /\ UNCHANGED next_page_id
<1>1. UNCHANGED <<frames, page_table, lru, next_page_id>>
  BY DEF EvictWriteFails, NoFrameFree
<1>2. ASSUME EvictWriteFails(op) PROVE TypeOK'
  BY <1>2, EvictWriteFailsType
<1>3. ASSUME NoFrameFree(op) PROVE TypeOK'
  <2>1. UNCHANGED <<held, file, disk>> /\ ret' \in [op : Ops, rc : Codes]
    BY <1>3 DEF NoFrameFree, Returned, Ops, Codes
  <2> QED BY <1>1, <2>1 DEF TypeOK
<1>4. PoolStructure' /\ Cached' = Cached
  BY <1>1, SamePages
<1> QED
  BY <1>1, <1>2, <1>3, <1>4

(* GetPage, of an id that may not even have been issued. *)
LEMMA GetPageStructure ==
  ASSUME TypeOK, PoolStructure, NEW t \in Threads, NEW p \in PageIds, GetPage(t, p)
  PROVE  /\ TypeOK' /\ PoolStructure'
         /\ Cached' \subseteq Cached \cup {p} /\ UNCHANGED next_page_id
<1>1. TypeOK /\ Consistent(frames, page_table, lru)
  BY StructureIsConsistent
<1>2. CASE GetPageHit(t, p)
  <2>1. p \in Cached /\ lru' = Touched(p)
    BY <1>2 DEF GetPageHit
  <2>2. Touched(p) \in Seq(PageIds) /\ Consistent(frames, page_table, Touched(p))
    BY <2>1, TouchedConsistent
  <2>3. held' \in [Threads -> Hold]
    BY <1>1, <1>2 DEF GetPageHit, TypeOK, Hold
  <2>4. TypeOK'
    BY <1>1, <1>2, <2>1, <2>2, <2>3 DEF GetPageHit, TypeOK, Returned, Ops, Codes
  <2>5. PoolStructure'
    BY <1>1, <1>2, <2>1, <2>2 DEF GetPageHit, PoolStructure, Consistent, Cached
  <2> QED BY <1>2, <2>4, <2>5 DEF GetPageHit, Cached
<1>3. CASE GetPageMiss(t, p)
  <2>1. PICK s \in Room, f \in Frames :
          /\ FirstUnused(s.frames, f)
          /\ frames' = [s.frames EXCEPT ![f] =
                          [page_id |-> p, data |-> Loaded(s, f, p), dirty |-> FALSE, pin |-> 0]]
          /\ page_table' = [s.page_table EXCEPT ![p] = f]
          /\ lru' = Append(s.lru, p)
          /\ file' = s.file
          /\ held' = [held EXCEPT ![t] = [page |-> p, frame |-> f, wrote |-> FALSE]]
    BY <1>3 DEF GetPageMiss
  <2> DEFINE e == [page_id |-> p, data |-> Loaded(s, f, p), dirty |-> FALSE, pin |-> 0]
  <2>2. /\ PoolType(s)
        /\ Consistent(s.frames, s.page_table, s.lru)
        /\ \A q \in PageIds : s.page_table[q] # NoFrame => q \in Cached
    BY RoomOfStructure
  <2>3. s.page_table[p] = NoFrame
    BY <1>3, <2>2 DEF GetPageMiss
  <2>4. Loaded(s, f, p) \in Page
    BY <2>2, ReadType, EmptyFileType DEF Loaded, PoolType, Frame
  <2>5. e \in Frame /\ e.page_id = p
    BY <2>4, PoolAssumption DEF Frame
  <2>6. /\ frames' \in [Frames -> Frame]
        /\ page_table' \in [PageIds -> Frames \cup {NoFrame}]
        /\ lru' \in Seq(PageIds)
        /\ Consistent(frames', page_table', lru')
    BY <2>1, <2>2, <2>3, <2>5, InstallConsistent DEF Consistent
  <2>7. TypeOK'
    <3>1. held' \in [Threads -> Hold]
      BY <1>1, <2>1 DEF TypeOK, Hold
    <3>2. file' \in FileState
      BY <2>1, <2>2 DEF PoolType
    <3> QED
      BY <1>1, <1>3, <2>6, <3>1, <3>2 DEF GetPageMiss, TypeOK, Returned, Ops, Codes
  <2>8. PoolStructure'
    BY <2>6 DEF PoolStructure, Consistent, Cached
  <2>9. Cached' \subseteq Cached \cup {p}
    BY <2>1, <2>2 DEF Cached, PoolType
  <2> QED BY <1>3, <2>7, <2>8, <2>9 DEF GetPageMiss
<1>4. CASE GetPageReadFails(t, p)
  <2>1. PICK s \in Room, f \in Frames :
          /\ FirstUnused(s.frames, f)
          /\ frames' = [s.frames EXCEPT ![f].page_id = p]
          /\ page_table' = s.page_table
          /\ lru' = s.lru
          /\ file' = s.file
    BY <1>4 DEF GetPageReadFails
  <2>2. /\ PoolType(s)
        /\ Consistent(s.frames, s.page_table, s.lru)
        /\ \A q \in PageIds : s.page_table[q] # NoFrame => q \in Cached
    BY RoomOfStructure
  <2>3. frames' \in [Frames -> Frame]
    BY <2>1, <2>2 DEF PoolType, Frame
  <2>4. TypeOK'
    BY <1>1, <1>4, <2>1, <2>2, <2>3
       DEF GetPageReadFails, TypeOK, PoolType, Returned, Ops, Codes
  <2>5. ASSUME NEW q \in PageIds, s.page_table[q] # NoFrame
        PROVE frames'[s.page_table[q]].page_id = q
    <3>1. s.page_table[q] \in Frames /\ s.frames[s.page_table[q]].page_id = q
      BY <2>2, <2>5 DEF PoolType, Consistent
    <3>2. s.page_table[q] # f
      BY <2>1, <3>1 DEF FirstUnused, NoPage, PageIds
    <3> QED BY <2>1, <2>2, <3>1, <3>2 DEF PoolType
  <2>6. PoolStructure'
    BY <2>1, <2>2, <2>5 DEF PoolStructure, Consistent, Cached
  <2>7. Cached' \subseteq Cached
    BY <2>1, <2>2 DEF Cached
  <2> QED BY <1>4, <2>4, <2>6, <2>7 DEF GetPageReadFails
<1>5. CASE GetPageNoRoom(t, p)
  BY <1>5, NoRoomStructure DEF GetPageNoRoom
<1> QED
  BY <1>2, <1>3, <1>4, <1>5 DEF GetPage
(* The calls that neither look for a page nor make one leave every frame with its
   page. *)
LEMMA FrameUseStructure ==
  ASSUME TypeOK, PoolStructure, NEW t \in Threads,
         \/ \E v \in Values : WriteFrame(t, [k \in 1 .. Parts |-> v])
         \/ MarkDirty(t) \/ Release(t) \/ Pin(t) \/ Unpin(t)
         \/ FlushOK(t) \/ FlushWriteFails(t) \/ FlushSyncFails(t)
  PROVE  TypeOK' /\ PoolStructure' /\ Cached' = Cached /\ UNCHANGED next_page_id
<1>1. TypeOK /\ PoolStructure
  OBVIOUS
<1>2. ASSUME NEW v \in Values, WriteFrame(t, [k \in 1 .. Parts |-> v]) PROVE TypeOK' /\ PoolStructure' /\ Cached' = Cached
  <2>1. [k \in 1 .. Parts |-> v] \in Page
    BY DEF Page
  <2>2. frames' \in [Frames -> Frame]
    BY <1>1, <1>2, <2>1 DEF WriteFrame, TypeOK, Frame
  <2>3. TypeOK'
    BY <1>1, <1>2, <2>2 DEF WriteFrame, TypeOK, Hold, NoCall, Returned, Ops, Codes
  <2>4. \A f \in Frames : frames'[f].page_id = frames[f].page_id
    BY <1>1, <1>2 DEF WriteFrame, TypeOK, Frame
  <2> QED BY <1>1, <1>2, <2>3, <2>4, SamePages DEF WriteFrame
<1>3. CASE MarkDirty(t)
  <2>1. /\ frames' \in [Frames -> Frame]
        /\ \A f \in Frames : frames'[f].page_id = frames[f].page_id
    <3> DEFINE p == held[t].page
    <3>1. CASE p \in Cached
      <4>1. page_table[p] \in Frames
        BY <1>1, <3>1 DEF TypeOK, Cached
      <4>2. frames' = [frames EXCEPT ![page_table[p]].dirty = TRUE]
        BY <1>3, <3>1 DEF MarkDirty
      <4> QED BY <1>1, <4>1, <4>2 DEF TypeOK, Frame
    <3>2. CASE p \notin Cached
      BY <1>1, <1>3, <3>2 DEF MarkDirty, TypeOK
    <3> QED BY <3>1, <3>2
  <2>2. TypeOK'
    BY <1>1, <1>3, <2>1 DEF MarkDirty, TypeOK, Hold, Idle, Returned, Ops, Codes
  <2> QED BY <1>1, <1>3, <2>1, <2>2, SamePages DEF MarkDirty
<1>4. CASE Release(t)
  <2>1. TypeOK'
    BY <1>1, <1>4 DEF Release, TypeOK, Hold, Idle, NoCall, Returned, Ops, Codes
  <2> QED BY <1>1, <1>4, <2>1, SamePages DEF Release
<1>5. CASE Pin(t)
  <2>1. /\ frames' \in [Frames -> Frame]
        /\ \A f \in Frames : frames'[f].page_id = frames[f].page_id
    <3> DEFINE g == held[t].frame
    <3>1. CASE g \in Frames
      <4>1. frames[g].pin + 1 \in 0 .. MaxPins
        BY <1>1, <1>5, <3>1, PoolAssumption DEF Pin, TypeOK, Frame
      <4> QED BY <1>1, <1>5, <3>1, <4>1 DEF Pin, TypeOK, Frame
    <3>2. CASE g \notin Frames
      BY <1>1, <1>5, <3>2 DEF Pin, TypeOK
    <3> QED BY <3>1, <3>2
  <2>2. TypeOK'
    BY <1>1, <1>5, <2>1 DEF Pin, TypeOK, NoCall, Returned, Ops, Codes
  <2> QED BY <1>1, <1>5, <2>1, <2>2, SamePages DEF Pin
<1>6. CASE Unpin(t)
  <2>1. /\ frames' \in [Frames -> Frame]
        /\ \A f \in Frames : frames'[f].page_id = frames[f].page_id
    <3> DEFINE g == held[t].frame
    <3>1. CASE g \in Frames
      <4>1. frames[g].pin - 1 \in 0 .. MaxPins
        BY <1>1, <1>6, <3>1, PoolAssumption DEF Unpin, TypeOK, Frame
      <4> QED BY <1>1, <1>6, <3>1, <4>1 DEF Unpin, TypeOK, Frame
    <3>2. CASE g \notin Frames
      BY <1>1, <1>6, <3>2 DEF Unpin, TypeOK
    <3> QED BY <3>1, <3>2
  <2>2. TypeOK'
    BY <1>1, <1>6, <2>1 DEF Unpin, TypeOK, NoCall, Returned, Ops, Codes
  <2> QED BY <1>1, <1>6, <2>1, <2>2, SamePages DEF Unpin
<1>7. CASE FlushOK(t)
  <2>1. WrittenFile(DirtyPages) \in FileState
    BY <1>1, WrittenFileType DEF DirtyPages
  <2>2. TypeOK'
    BY <1>1, <1>7, <2>1, CleanedFramesType
       DEF FlushOK, TypeOK, Returned, Ops, Codes
  <2> QED BY <1>1, <1>7, <2>2, CleanedFramesType, SamePages DEF FlushOK
<1>8. CASE FlushWriteFails(t)
  <2>1. PICK p \in DirtyPages : \E S \in SUBSET (DirtyPages \ {p}), n \in 0 .. (Parts - 1) :
          /\ file' = Write(WrittenFile(S), p, frames[page_table[p]].data, n)
          /\ frames' = CleanedFrames(S)
    BY <1>8 DEF FlushWriteFails
  <2>2. PICK S \in SUBSET (DirtyPages \ {p}), n \in 0 .. (Parts - 1) :
          /\ file' = Write(WrittenFile(S), p, frames[page_table[p]].data, n)
          /\ frames' = CleanedFrames(S)
    BY <2>1
  <2>3. WrittenFile(S) \in FileState
    BY <1>1, WrittenFileType DEF DirtyPages
  <2>4. p \in PageIds /\ frames[page_table[p]].data \in Page /\ n \in 0 .. Parts
    BY <1>1, FileAssumption DEF DirtyPages, Cached, TypeOK, Frame
  <2>5. file' \in FileState
    BY <2>2, <2>3, <2>4, WriteType
  <2>6. TypeOK'
    BY <1>1, <1>8, <2>2, <2>5, CleanedFramesType
       DEF FlushWriteFails, TypeOK, Returned, Ops, Codes
  <2> QED
    BY <1>1, <1>8, <2>2, <2>6, CleanedFramesType, SamePages DEF FlushWriteFails
<1>9. CASE FlushSyncFails(t)
  <2>1. WrittenFile(DirtyPages) \in FileState
    BY <1>1, WrittenFileType DEF DirtyPages
  <2>2. TypeOK'
    BY <1>1, <1>9, <2>1, CleanedFramesType
       DEF FlushSyncFails, TypeOK, Returned, Ops, Codes
  <2> QED BY <1>1, <1>9, <2>2, CleanedFramesType, SamePages DEF FlushSyncFails
<1>10. UNCHANGED next_page_id
  BY DEF WriteFrame, MarkDirty, Release, Pin, Unpin, FlushOK, FlushWriteFails, FlushSyncFails
<1> QED
  BY <1>2, <1>3, <1>4, <1>5, <1>6, <1>7, <1>8, <1>9, <1>10

(* NewPage, whose next id may be cached: lru_ then has it twice. *)
LEMMA NewPageStructure ==
  ASSUME TypeOK, PoolStructure, NEW t \in Threads, NEW d \in Page, NewPage(t, d)
  PROVE  /\ TypeOK' /\ ToSet(lru') = Cached'
         /\ \A p \in Cached' : frames'[page_table'[p]].page_id = p
         /\ Cached' \subseteq Cached \cup {next_page_id} /\ next_page_id \in PageIds
         /\ next_page_id \notin Cached => PoolStructure'
<1> DEFINE p == next_page_id
           e == [page_id |-> p, data |-> d, dirty |-> TRUE, pin |-> 0]
<1>1. TypeOK
  OBVIOUS
<1>2. PICK s \in Room, f \in Frames :
        /\ FirstUnused(s.frames, f)
        /\ frames' = [s.frames EXCEPT ![f] = e]
        /\ page_table' = [s.page_table EXCEPT ![p] = f]
        /\ lru' = Append(s.lru, p)
        /\ file' = s.file
  BY DEF NewPage
<1>3. /\ PoolType(s)
      /\ Consistent(s.frames, s.page_table, s.lru)
      /\ \A q \in PageIds : s.page_table[q] # NoFrame => q \in Cached
  BY RoomOfStructure
<1>4. p \in PageIds
  BY <1>1, FileAssumption DEF NewPage, TypeOK, PageIds
<1>5. e \in Frame /\ e.page_id = p
  BY <1>4, PoolAssumption DEF Frame
<1>6. /\ frames' \in [Frames -> Frame]
      /\ page_table' \in [PageIds -> Frames \cup {NoFrame}]
      /\ lru' \in Seq(PageIds)
      /\ s.page_table[p] = NoFrame => IsInjective(lru')
      /\ ToSet(lru') = Cached'
      /\ \A q \in Cached' : frames'[page_table'[q]].page_id = q
  BY <1>2, <1>3, <1>4, <1>5, InstallConsistent DEF Cached
<1>7. TypeOK'
  <2>1. file' \in FileState
    BY <1>2, <1>3 DEF PoolType
  <2> QED
    BY <1>1, <1>6, <2>1 DEF NewPage, TypeOK, Returned, Ops, Codes
<1>8. Cached' \subseteq Cached \cup {p}
  BY <1>2, <1>3 DEF Cached, PoolType
<1>9. p \notin Cached => s.page_table[p] = NoFrame
  BY <1>3, <1>4
<1> QED
  BY <1>4, <1>6, <1>7, <1>8, <1>9 DEF PoolStructure

LEMMA UsesPoolInv ==
  ASSUME PoolInv, NEW t \in Threads, UsesPool(t)
  PROVE  PoolInv'
<1>1. TypeOK /\ PoolStructure /\ IdsIssued
  BY DEF PoolInv
<1>2. ASSUME NEW p \in PageIds, p < next_page_id, GetPage(t, p) PROVE PoolInv'
  BY <1>1, <1>2, GetPageStructure DEF PoolInv, IdsIssued
<1>3. ASSUME NEW v \in Values, NewPage(t, [k \in 1 .. Parts |-> v]) PROVE PoolInv'
  <2> PICK p : p = next_page_id
    OBVIOUS
  <2>1. [k \in 1 .. Parts |-> v] \in Page
    BY DEF Page
  <2>2. /\ TypeOK' /\ Cached' \subseteq Cached \cup {p} /\ p \in PageIds
        /\ p \notin Cached => PoolStructure'
    BY <1>1, <1>3, <2>1, NewPageStructure
  <2>3. p \notin Cached /\ p < p + 1 /\ \A q \in Cached : q < p + 1
    BY <1>1, <2>2 DEF IdsIssued, PageIds, Cached
  <2>4. next_page_id' = p + 1
    BY <1>3 DEF NewPage
  <2>5. IdsIssued'
    BY <2>2, <2>3, <2>4 DEF IdsIssued
  <2> QED BY <2>2, <2>3, <2>5 DEF PoolInv
<1>4. CASE NewPageNoRoom(t)
  <2>1. EvictWriteFails("NewPage") \/ NoFrameFree("NewPage")
    BY <1>4 DEF NewPageNoRoom
  <2> QED BY <1>1, <2>1, NoRoomStructure DEF PoolInv, IdsIssued
<1>5. CASE \/ \E v \in Values : WriteFrame(t, [k \in 1 .. Parts |-> v])
           \/ MarkDirty(t) \/ Release(t) \/ Pin(t) \/ Unpin(t)
           \/ FlushOK(t) \/ FlushWriteFails(t) \/ FlushSyncFails(t)
  BY <1>1, <1>5, FrameUseStructure DEF PoolInv, IdsIssued
<1> QED
  BY <1>2, <1>3, <1>4, <1>5 DEF UsesPool

LEMMA NextInv == PoolInv /\ [Next]_vars => PoolInv'
<1> SUFFICES ASSUME PoolInv, [Next]_vars PROVE PoolInv'
  OBVIOUS
<1>1. file \in FileState /\ disk \in FileState
  BY DEF PoolInv, TypeOK
<1>2. ASSUME NEW t \in Threads, UsesPool(t) PROVE PoolInv'
  BY <1>2, UsesPoolInv
<1>3. CASE CloseAndOpen
  <2>1. WrittenFile(DirtyPages) \in FileState
    BY WrittenFileType DEF DirtyPages, PoolInv
  <2>2. "Close" \in Ops
    BY DEF Ops
  <2> QED BY <1>3, <2>1, <2>2, ReopenedInv DEF CloseAndOpen
<1>4. CASE KillAndOpen
  <2>1. "Crash" \in Ops
    BY DEF Ops
  <2> QED BY <1>1, <1>4, <2>1, ReopenedInv DEF KillAndOpen
<1>5. CASE PowerLossAndOpen
  <2>1. PICK fs \in AfterCrash(file, disk) : Reopened(fs, fs)
    BY <1>5 DEF PowerLossAndOpen
  <2>2. "Crash" \in Ops /\ ret' = Returned("Crash", "OK")
    BY <1>5 DEF PowerLossAndOpen, Ops
  <2> QED BY <1>1, <2>1, <2>2, AfterCrashType, ReopenedInv
<1>6. CASE UNCHANGED vars
  BY <1>6 DEF vars, PoolInv, TypeOK, PoolStructure, IdsIssued, Cached
<1> QED
  BY <1>2, <1>3, <1>4, <1>5, <1>6 DEF Next

-----------------------------------------------------------------------------
LEMMA Invariance == Spec => []PoolInv
<1> QED
  BY InitInv, NextInv, PTL DEF Spec

(* The pool never reaches a state outside its types: whatever calls its threads
   make, fail or crash in, no frame number leaves the array, no pin count goes
   below zero, and the file stays a file. *)
THEOREM TypeCorrect == Spec => []TypeOK
<1>1. PoolInv => TypeOK
  BY DEF PoolInv
<1> QED
  BY <1>1, Invariance, PTL

(* The list and the table agree in every state: each cached page is in lru_ once,
   its entry leads to its frame, and no frame is the frame of two pages, also
   after a read failed with its frame taken (buffer_pool.cpp:37). *)
THEOREM StructureCorrect == Spec => []PoolStructure
<1>1. PoolInv => PoolStructure
  BY DEF PoolInv
<1> QED
  BY <1>1, Invariance, PTL

-----------------------------------------------------------------------------
(* One caller at a time.  With two, run SharedFrames shows the opposite. *)

OneCaller == \A t, u \in Threads : t = u

(* The Frame* that GetPage returned is the frame of the page asked for until its
   holder lets go of it (buffer_pool.cpp:44): no one else can call in between. *)
HeldInv ==
  \A t \in Threads :
    held[t] # Idle => /\ held[t].page \in Cached
                      /\ page_table[held[t].page] = held[t].frame
                      /\ frames[held[t].frame].page_id = held[t].page

LEMMA HeldInit == Init => HeldInv
BY DEF Init, HeldInv, AllIdle

(* A step that leaves the table, and every frame with its page, keeps the frame
   of a holder whose page and frame are the same as before. *)
LEMMA SameHeld ==
  ASSUME TypeOK, HeldInv,
         page_table' = page_table,
         \A f \in Frames : frames'[f].page_id = frames[f].page_id,
         \A u \in Threads : held'[u] # Idle =>
           /\ held[u] # Idle
           /\ held'[u].page = held[u].page
           /\ held'[u].frame = held[u].frame
  PROVE  HeldInv'
<1>1. Cached' = Cached
  BY DEF Cached
<1>2. \A p \in Cached : page_table[p] \in Frames
  BY DEF TypeOK, Cached
<1> QED
  BY <1>1, <1>2 DEF HeldInv

(* With one caller, every call that could evict a page finds nothing held. *)
LEMMA HeldGetPage ==
  ASSUME OneCaller, TypeOK, PoolStructure, NEW t \in Threads, NEW p \in PageIds, GetPage(t, p)
  PROVE  HeldInv'
<1>1. TypeOK' /\ PoolStructure'
  BY GetPageStructure
<1>2. held[t] = Idle /\ \A u \in Threads : u = t
  BY DEF GetPage, GetPageHit, GetPageMiss, GetPageReadFails, GetPageNoRoom, MayGet, OneCaller
<1>3. SUFFICES ASSUME held'[t] # Idle PROVE HeldInv'
  BY <1>2 DEF HeldInv
<1>4. held'[t].page = p /\ page_table'[p] = held'[t].frame /\ held'[t].frame \in Frames
  <2>1. CASE GetPageHit(t, p)
    BY <2>1 DEF GetPageHit, TypeOK, Cached
  <2>2. CASE GetPageMiss(t, p)
    <3>1. PICK s \in Room, f \in Frames :
            /\ page_table' = [s.page_table EXCEPT ![p] = f]
            /\ held' = [held EXCEPT ![t] = [page |-> p, frame |-> f, wrote |-> FALSE]]
      BY <2>2 DEF GetPageMiss
    <3>2. s.page_table \in [PageIds -> Frames \cup {NoFrame}]
      BY RoomOfStructure DEF PoolType
    <3> QED BY <3>1, <3>2 DEF TypeOK
  <2>3. CASE GetPageReadFails(t, p) \/ GetPageNoRoom(t, p)
    BY <1>2, <1>3, <2>3 DEF GetPageReadFails, GetPageNoRoom, EvictWriteFails, NoFrameFree
  <2> QED BY <2>1, <2>2, <2>3 DEF GetPage
<1>5. p \in Cached'
  BY <1>4 DEF Cached, Frames, NoFrame
<1>6. frames'[page_table'[p]].page_id = p
  BY <1>1, <1>5 DEF PoolStructure
<1> QED
  BY <1>2, <1>4, <1>5, <1>6 DEF HeldInv

LEMMA HeldUsesPool ==
  ASSUME OneCaller, PoolInv, HeldInv, NEW t \in Threads, UsesPool(t)
  PROVE  HeldInv'
<1>1. TypeOK /\ TypeOK' /\ PoolStructure /\ PoolStructure'
  BY UsesPoolInv DEF PoolInv
<1>2. \A u \in Threads : u = t
  BY DEF OneCaller
<1>3. ASSUME held'[t] = Idle PROVE HeldInv'
  BY <1>2, <1>3 DEF HeldInv
<1>4. ASSUME NEW p \in PageIds, GetPage(t, p) PROVE HeldInv'
  BY <1>1, <1>4, HeldGetPage
<1>5. ASSUME NEW d, NewPage(t, d) PROVE HeldInv'
  BY <1>3, <1>5 DEF NewPage
<1>6. CASE NewPageNoRoom(t)
  BY <1>3, <1>6 DEF NewPageNoRoom, EvictWriteFails, NoFrameFree
<1>7. ASSUME NEW d, WriteFrame(t, d) PROVE HeldInv'
  <2>1. \A f \in Frames : frames'[f].page_id = frames[f].page_id
    BY <1>1, <1>7 DEF WriteFrame, TypeOK, Frame
  <2>2. /\ held'[t].page = held[t].page
        /\ held'[t].frame = held[t].frame
        /\ held[t] # Idle
        /\ page_table' = page_table
    BY <1>1, <1>7 DEF WriteFrame, TypeOK, Hold
  <2> QED BY <1>1, <1>2, <2>1, <2>2, SameHeld
<1>8. CASE MarkDirty(t) \/ Release(t)
  <2>1. held'[t] = Idle
    BY <1>1, <1>8 DEF MarkDirty, Release, TypeOK
  <2> QED BY <1>3, <2>1
<1>9. CASE Pin(t) \/ Unpin(t)
  <2>1. held' = held /\ page_table' = page_table
    BY <1>9 DEF Pin, Unpin
  <2>2. CASE held[t] = Idle
    BY <1>3, <2>1, <2>2
  <2>3. CASE held[t] # Idle
    <3>1. held[t].frame \in Frames
      BY <1>1, <2>3 DEF HeldInv, TypeOK, Cached
    <3>2. CASE Pin(t)
      <4>1. \A f \in Frames : frames'[f].page_id = frames[f].page_id
        BY <1>1, <3>1, <3>2 DEF Pin, TypeOK, Frame
      <4> QED BY <1>1, <2>1, <4>1, SameHeld
    <3>3. CASE Unpin(t)
      <4>1. \A f \in Frames : frames'[f].page_id = frames[f].page_id
        BY <1>1, <3>1, <3>3 DEF Unpin, TypeOK, Frame
      <4> QED BY <1>1, <2>1, <4>1, SameHeld
    <3> QED BY <1>9, <3>2, <3>3
  <2> QED BY <2>2, <2>3
<1>10. CASE FlushOK(t) \/ FlushWriteFails(t) \/ FlushSyncFails(t)
  <2>1. held'[t] = Idle
    BY <1>10 DEF FlushOK, FlushWriteFails, FlushSyncFails
  <2> QED BY <1>3, <2>1
<1> QED
  BY <1>4, <1>5, <1>6, <1>7, <1>8, <1>9, <1>10 DEF UsesPool

LEMMA HeldNext ==
  ASSUME OneCaller, PoolInv, HeldInv, [Next]_vars
  PROVE  HeldInv'
<1>1. ASSUME NEW t \in Threads, UsesPool(t) PROVE HeldInv'
  BY <1>1, HeldUsesPool
<1>2. CASE CloseAndOpen \/ KillAndOpen \/ PowerLossAndOpen
  <2>1. held' = AllIdle
    BY <1>2 DEF CloseAndOpen, KillAndOpen, PowerLossAndOpen, Reopened
  <2> QED BY <2>1 DEF HeldInv, AllIdle
<1>3. CASE UNCHANGED vars
  BY <1>3 DEF vars, HeldInv, Cached
<1> QED
  BY <1>1, <1>2, <1>3 DEF Next

-----------------------------------------------------------------------------
(* Offsets in the file *)

LEMMA OffsetOrder ==
  ASSUME NEW p \in PageIds, NEW q \in PageIds, p < q
  PROVE  p * Parts + Parts <= q * Parts
<1>1. p \in Int /\ q \in Int /\ q - p - 1 \in Nat
  BY DEF PageIds
<1>2. Parts \in Nat
  BY FileAssumption
<1>3. (q - p - 1) * Parts \in Nat
  BY <1>1, <1>2
<1>4. (q - p - 1) * Parts = q * Parts - p * Parts - Parts
  BY <1>1, <1>2
<1>5. p * Parts \in Int /\ q * Parts \in Int
  BY <1>1, <1>2
<1> QED
  BY <1>2, <1>3, <1>4, <1>5

LEMMA PageCountBound ==
  ASSUME NEW fs
  PROVE  PageCount(fs) <= MaxPageId + 1
<1>1. IsFiniteSet(PageIds) /\ Cardinality(PageIds) = MaxPageId + 1
  BY FileAssumption, FS_Interval DEF PageIds
<1>2. {p \in PageIds : Covered(fs, p, 1)} \in SUBSET PageIds
  OBVIOUS
<1> QED
  BY <1>1, <1>2, FS_Subset DEF PageCount

(* The count of pages is the first id behind the file's last byte. *)
LEMMA PageCountCovers ==
  ASSUME NEW fs \in FileState, NEW p \in PageIds
  PROVE  p < PageCount(fs) <=> Covered(fs, p, 1)
<1> DEFINE C == {q \in PageIds : Covered(fs, q, 1)}
<1>1. PageCount(fs) = Cardinality(C)
  BY DEF PageCount
<1>2. fs.size \in Nat /\ MaxPageId \in Nat /\ Parts \in Nat \ {0}
  BY FileAssumption DEF FileState
<1>3. ASSUME NEW q \in C, NEW r \in PageIds, r < q PROVE r \in C
  <2>1. r * Parts + Parts <= q * Parts
    BY <1>3, OffsetOrder
  <2>2. q * Parts + 1 <= fs.size
    BY DEF Covered
  <2>3. r * Parts \in Nat /\ q * Parts \in Nat
    BY OffsetIsNat
  <2>4. r * Parts + 1 <= fs.size
    BY <1>2, <2>1, <2>2, <2>3
  <2> QED BY <2>4 DEF Covered
<1>4. C \in SUBSET (0 .. MaxPageId)
  BY DEF PageIds
<1> HIDE DEF C
<1>5. CASE C = {}
  <2>1. PageCount(fs) = 0
    BY <1>1, <1>5, FS_EmptySet
  <2>2. p \in Int /\ p >= 0 /\ p \notin C
    BY <1>5 DEF PageIds
  <2> QED BY <2>1, <2>2 DEF C
<1>6. CASE C # {}
  <2>1. PICK m \in C : \A q \in C : q <= m
    BY <1>2, <1>4, <1>6, Greatest
  <2>2. m \in Nat /\ m <= MaxPageId
    BY <1>4
  <2>3. ASSUME NEW r \in 0 .. m PROVE r \in C
    <3>1. r \in PageIds
      BY <1>2, <2>2 DEF PageIds
    <3>2. r = m \/ r < m
      BY <2>2
    <3> QED BY <1>3, <2>1, <3>1, <3>2
  <2>4. C = 0 .. m
    <3>1. \A q \in C : q \in Int /\ 0 <= q /\ q <= m
      BY <1>4, <2>1
    <3>2. C \subseteq 0 .. m
      BY <2>2, <3>1
    <3> QED BY <2>3, <3>2
  <2>5. PageCount(fs) = m + 1
    BY <1>1, <2>2, <2>4, FS_Interval
  <2>6. p \in Nat
    BY DEF PageIds
  <2>7. p < m + 1 <=> p \in C
    BY <2>2, <2>4, <2>6
  <2>8. p \in C <=> Covered(fs, p, 1)
    BY DEF C
  <2> QED BY <2>5, <2>7, <2>8
<1> QED
  BY <1>5, <1>6

-----------------------------------------------------------------------------
(* What writing does to the file *)

(* No byte behind the end of the file was ever written. *)
ZeroBeyond(fs) ==
  \A p \in PageIds, k \in 1 .. Parts : ~Covered(fs, p, k) => fs.data[p][k] = Zero

(* The file gs is fs with the pages of S written from their frames and the pages
   of R partly; every other page is as it was, and none is cut short by it. *)
WroteBack(fs, gs, S, R) ==
  /\ gs.size >= fs.size
  /\ \A q \in S : gs.data[q] = frames[page_table[q]].data /\ Covered(gs, q, Parts)
  /\ \A q \in R, k \in 1 .. Parts :
       gs.data[q][k] \in {fs.data[q][k], frames[page_table[q]].data[k]}
  /\ \A q \in PageIds \ (S \cup R) :
       gs.data[q] = fs.data[q] /\ (CutShort(gs, q) => CutShort(fs, q))
  /\ ZeroBeyond(fs) => ZeroBeyond(gs)
  /\ \A q \in PageIds :
       Covered(gs, q, 1) => Covered(fs, q, 1) \/ \E r \in S \cup R : q <= r

(* Only the page written can be cut short by a write. *)
LEMMA WriteEffect ==
  ASSUME NEW fs \in FileState, NEW p \in PageIds, NEW d \in Page, NEW n \in 0 .. Parts
  PROVE  LET gs == Write(fs, p, d, n)
         IN  /\ gs.size >= fs.size
             /\ n > 0 => Covered(gs, p, n)
             /\ n = Parts => gs.data[p] = d
             /\ \A k \in 1 .. Parts : gs.data[p][k] \in {fs.data[p][k], d[k]}
             /\ \A q \in PageIds \ {p} :
                  gs.data[q] = fs.data[q] /\ (CutShort(gs, q) => CutShort(fs, q))
             /\ ZeroBeyond(fs) => ZeroBeyond(gs)
             /\ \A q \in PageIds : Covered(gs, q, 1) => Covered(fs, q, 1) \/ q <= p
<1> DEFINE gs == Write(fs, p, d, n)
           new == [k \in 1 .. Parts |-> IF k <= n THEN d[k] ELSE fs.data[p][k]]
<1>1. fs.size \in Nat /\ Parts \in Nat \ {0} /\ n \in Nat /\ n <= Parts
  BY FileAssumption DEF FileState
<1>2. \A q \in PageIds : q \in Int /\ q * Parts \in Nat
  BY OffsetIsNat DEF PageIds
<1>3. CASE n = 0
  <2>1. gs = fs
    BY <1>3 DEF Write
  <2> QED BY <1>1, <1>3, <2>1
<1>4. CASE n # 0
  <2>1. /\ gs.data = [fs.data EXCEPT ![p] = new]
        /\ gs.size = IF Covered(fs, p, n) THEN fs.size ELSE p * Parts + n
    BY <1>4 DEF Write
  <2>2. gs.data[p] = new /\ \A q \in PageIds \ {p} : gs.data[q] = fs.data[q]
    BY <2>1 DEF FileState
  <2> HIDE DEF gs
  <2>3. gs.size \in Nat /\ gs.size >= fs.size /\ Covered(gs, p, n)
    BY <1>1, <1>2, <2>1 DEF Covered
  <2>4. n = Parts => new = d
    BY DEF Page
  <2>5. \A k \in 1 .. Parts : new[k] \in {fs.data[p][k], d[k]}
    OBVIOUS
  <2>6. ASSUME NEW q \in PageIds \ {p}, CutShort(gs, q) PROVE CutShort(fs, q)
    <3>1. q \in PageIds /\ q # p /\ q * Parts \in Nat /\ p * Parts \in Nat /\ q \in Int /\ p \in Int
      BY <1>2
    <3>2. q * Parts + 1 <= gs.size /\ ~(q * Parts + Parts <= gs.size)
      BY <2>6 DEF CutShort, Covered
    <3>3. CASE p < q
      <4>1. p * Parts + Parts <= q * Parts
        BY <3>1, <3>3, OffsetOrder
      <4>2. gs.size = fs.size
        BY <1>1, <2>1, <3>1, <3>2, <4>1
      <4> QED BY <2>6, <4>2 DEF CutShort, Covered
    <3>4. CASE q < p
      <4>1. q * Parts + Parts <= p * Parts
        BY <3>1, <3>4, OffsetOrder
      <4>2. p * Parts + n <= gs.size
        BY <2>3 DEF Covered
      <4> QED BY <1>1, <2>3, <3>1, <3>2, <4>1, <4>2
    <3> QED BY <3>1, <3>3, <3>4
  <2>7. ASSUME ZeroBeyond(fs) PROVE ZeroBeyond(gs)
    <3>1. SUFFICES ASSUME NEW q \in PageIds, NEW k \in 1 .. Parts, ~Covered(gs, q, k)
                   PROVE gs.data[q][k] = Zero
      BY DEF ZeroBeyond
    <3>2. ~Covered(fs, q, k)
      BY <1>1, <1>2, <2>3, <3>1 DEF Covered
    <3>3. fs.data[q][k] = Zero
      BY <2>7, <3>2 DEF ZeroBeyond
    <3>4. CASE q = p
      <4>1. ~(k <= n)
        BY <1>1, <1>2, <2>3, <3>1, <3>4 DEF Covered
      <4> QED BY <2>2, <3>3, <3>4, <4>1
    <3> QED BY <2>2, <3>3, <3>4
  <2>8. ASSUME NEW q \in PageIds, Covered(gs, q, 1), ~(q <= p) PROVE Covered(fs, q, 1)
    <3>1. p * Parts + Parts <= q * Parts
      BY <1>2, <2>8, OffsetOrder
    <3>2. gs.size = fs.size
      BY <1>1, <1>2, <2>1, <2>8, <3>1 DEF Covered
    <3> QED BY <2>8, <3>2 DEF Covered
  <2> QED BY <2>2, <2>3, <2>4, <2>5, <2>6, <2>7, <2>8 DEF gs
<1> QED
  BY <1>1, <1>3, <1>4

(* FlushAllDirty's writes, in any order: the file grows to the highest page. *)
LEMMA WrittenFileEffect ==
  ASSUME PoolInv, NEW S \in SUBSET Cached
  PROVE  WroteBack(file, WrittenFile(S), S, {})
<1> DEFINE gs == WrittenFile(S)
           top == {p \in S : \A q \in S : q <= p}
<1>1. file.size \in Nat /\ Parts \in Nat \ {0} /\ MaxPageId \in Nat /\ file \in FileState
  BY FileAssumption DEF PoolInv, TypeOK, FileState
<1>2. \A q \in PageIds : q \in Int /\ q * Parts \in Nat
  BY OffsetIsNat DEF PageIds
<1>3. S \subseteq PageIds
  BY DEF Cached
<1>4. \A q \in PageIds : gs.data[q] = IF q \in S THEN frames[page_table[q]].data ELSE file.data[q]
  BY DEF WrittenFile
<1>5. gs.size = IF \E p \in top : ~Covered(file, p, Parts)
                THEN (CHOOSE p \in top : TRUE) * Parts + Parts ELSE file.size
  BY DEF WrittenFile
<1> HIDE DEF gs
<1>6. ASSUME S = {} PROVE WroteBack(file, gs, S, {})
  <2>1. gs.size = file.size
    BY <1>5, <1>6
  <2>2. \A q \in PageIds, k \in 1 .. Parts : Covered(gs, q, k) <=> Covered(file, q, k)
    BY <2>1 DEF Covered
  <2>3. \A q \in PageIds : CutShort(gs, q) => CutShort(file, q)
    BY <2>1 DEF CutShort, Covered
  <2>4. \A q \in PageIds : Covered(gs, q, 1) => Covered(file, q, 1)
    BY <2>1 DEF Covered
  <2>5. \A q \in PageIds : gs.data[q] = file.data[q]
    BY <1>4, <1>6
  <2>6. ZeroBeyond(file) => ZeroBeyond(gs)
    BY <2>2, <2>5 DEF ZeroBeyond
  <2>7. gs.size >= file.size
    BY <1>1, <2>1
  <2> QED BY <1>6, <2>3, <2>4, <2>5, <2>6, <2>7 DEF WroteBack
<1>7. ASSUME S # {} PROVE WroteBack(file, gs, S, {})
  <2>1. PICK m \in S : \A q \in S : q <= m
    BY <1>1, <1>3, <1>7, Greatest DEF PageIds
  <2>2. m \in top /\ \A p \in top : p = m
    BY <1>2, <1>3, <2>1
  <2>3. gs.size = IF ~Covered(file, m, Parts) THEN m * Parts + Parts ELSE file.size
    BY <1>5, <2>2
  <2> HIDE DEF top
  <2>4. m \in PageIds /\ m * Parts \in Nat /\ m \in Int
    BY <1>2, <1>3
  <2>5. gs.size \in Nat /\ gs.size >= file.size /\ m * Parts + Parts <= gs.size
    BY <1>1, <2>3, <2>4 DEF Covered
  <2>6. ASSUME NEW q \in S PROVE Covered(gs, q, Parts)
    <3>1. q \in PageIds /\ q * Parts \in Nat /\ q \in Int
      BY <1>2, <1>3
    <3>2. q = m \/ q < m
      BY <2>1, <2>4, <3>1
    <3>3. q * Parts + Parts <= m * Parts + Parts
      BY <1>1, <2>4, <3>1, <3>2, OffsetOrder
    <3> QED BY <1>1, <2>4, <2>5, <3>1, <3>3 DEF Covered
  <2>7. ASSUME NEW q \in PageIds \ S, CutShort(gs, q) PROVE CutShort(file, q)
    <3>1. q \in PageIds /\ q # m /\ q * Parts \in Nat /\ q \in Int
      BY <1>2
    <3>2. q * Parts + 1 <= gs.size /\ ~(q * Parts + Parts <= gs.size)
      BY <2>7 DEF CutShort, Covered
    <3>3. CASE m < q
      <4>1. m * Parts + Parts <= q * Parts
        BY <2>4, <3>1, <3>3, OffsetOrder
      <4>2. gs.size = file.size
        BY <1>1, <2>3, <2>4, <3>1, <3>2, <4>1
      <4> QED BY <2>7, <4>2 DEF CutShort, Covered
    <3>4. CASE q < m
      <4>1. q * Parts + Parts <= m * Parts
        BY <2>4, <3>1, <3>4, OffsetOrder
      <4> QED BY <1>1, <2>4, <2>5, <3>1, <3>2, <4>1
    <3> QED BY <2>4, <3>1, <3>3, <3>4
  <2>8. ASSUME ZeroBeyond(file) PROVE ZeroBeyond(gs)
    <3>1. SUFFICES ASSUME NEW q \in PageIds, NEW k \in 1 .. Parts, ~Covered(gs, q, k)
                   PROVE gs.data[q][k] = Zero
      BY DEF ZeroBeyond
    <3>2. ~Covered(file, q, k) /\ ~Covered(gs, q, Parts)
      BY <1>1, <1>2, <2>5, <3>1 DEF Covered
    <3> QED BY <1>4, <2>6, <2>8, <3>2 DEF ZeroBeyond
  <2>9. ASSUME NEW q \in PageIds, Covered(gs, q, 1), ~(q <= m) PROVE Covered(file, q, 1)
    <3>1. m * Parts + Parts <= q * Parts
      BY <1>2, <2>4, <2>9, OffsetOrder
    <3>2. gs.size = file.size
      BY <1>1, <1>2, <2>3, <2>4, <2>9, <3>1 DEF Covered
    <3> QED BY <2>9, <3>2 DEF Covered
  <2>10. \A q \in PageIds : Covered(gs, q, 1) => Covered(file, q, 1) \/ \E r \in S \cup {} : q <= r
    BY <2>9
  <2>11. \A q \in S : gs.data[q] = frames[page_table[q]].data
    BY <1>3, <1>4
  <2>12. \A q \in PageIds \ (S \cup {}) : gs.data[q] = file.data[q]
    BY <1>4
  <2> QED BY <2>5, <2>6, <2>7, <2>8, <2>10, <2>11, <2>12 DEF WroteBack
<1> QED
  BY <1>6, <1>7 DEF gs

(* A page written, whole or in part, when those of S have been. *)
LEMMA WriteBackOne ==
  ASSUME PoolInv, NEW S \in SUBSET Cached, NEW fs \in FileState,
         WroteBack(file, fs, S, {}),
         NEW p \in Cached, p \notin S, NEW n \in 0 .. Parts
  PROVE  /\ WroteBack(file, Write(fs, p, frames[page_table[p]].data, n), S, {p})
         /\ n = Parts => WroteBack(file, Write(fs, p, frames[page_table[p]].data, n),
                                   S \cup {p}, {})
<1> DEFINE d == frames[page_table[p]].data
           gs == Write(fs, p, d, n)
<1>1. p \in PageIds /\ d \in Page /\ S \subseteq PageIds
  BY DEF PoolInv, TypeOK, Cached, Frame
<1>2. /\ gs.size >= fs.size
      /\ n > 0 => Covered(gs, p, n)
      /\ n = Parts => gs.data[p] = d
      /\ \A k \in 1 .. Parts : gs.data[p][k] \in {fs.data[p][k], d[k]}
      /\ \A q \in PageIds \ {p} :
           gs.data[q] = fs.data[q] /\ (CutShort(gs, q) => CutShort(fs, q))
      /\ ZeroBeyond(fs) => ZeroBeyond(gs)
      /\ \A q \in PageIds : Covered(gs, q, 1) => Covered(fs, q, 1) \/ q <= p
  BY <1>1, WriteEffect
<1>3. gs \in FileState
  BY <1>1, WriteType
<1>4. gs.size \in Nat /\ fs.size \in Nat /\ file.size \in Nat /\ Parts \in Nat \ {0}
  BY <1>3, FileAssumption DEF FileState, PoolInv, TypeOK
<1> HIDE DEF gs, d
<1>5. gs.size >= file.size
  BY <1>2, <1>4 DEF WroteBack
<1>6. ASSUME NEW q \in S
      PROVE gs.data[q] = frames[page_table[q]].data /\ Covered(gs, q, Parts)
  <2>1. Covered(fs, q, Parts) /\ fs.data[q] = frames[page_table[q]].data
    BY DEF WroteBack
  <2>2. q * Parts \in Nat /\ q \in PageIds /\ q # p
    BY <1>1, OffsetIsNat
  <2>3. Covered(gs, q, Parts)
    BY <1>2, <1>4, <2>1, <2>2 DEF Covered
  <2> QED BY <1>2, <2>1, <2>2, <2>3
<1>7. \A k \in 1 .. Parts : gs.data[p][k] \in {file.data[p][k], d[k]}
  <2>1. fs.data[p] = file.data[p]
    BY <1>1 DEF WroteBack
  <2> QED BY <1>2, <2>1
<1>8. \A q \in PageIds \ (S \cup {p}) :
        gs.data[q] = file.data[q] /\ (CutShort(gs, q) => CutShort(file, q))
  BY <1>2 DEF WroteBack
<1>9. ZeroBeyond(file) => ZeroBeyond(gs)
  BY <1>2 DEF WroteBack
<1>10. \A q \in PageIds :
         Covered(gs, q, 1) => Covered(file, q, 1) \/ \E r \in S \cup {p} : q <= r
  BY <1>2 DEF WroteBack
<1>11. WroteBack(file, gs, S, {p})
  BY <1>5, <1>6, <1>7, <1>8, <1>9, <1>10 DEF WroteBack, d
<1>12. ASSUME n = Parts PROVE WroteBack(file, gs, S \cup {p}, {})
  <2>1. gs.data[p] = d /\ Covered(gs, p, Parts)
    BY <1>2, <1>4, <1>12
  <2> QED BY <1>5, <1>6, <1>8, <1>9, <1>10, <2>1 DEF WroteBack, d
<1> QED
  BY <1>11, <1>12 DEF gs, d

LEMMA WroteNothing ==
  ASSUME PoolInv
  PROVE  WroteBack(file, file, {}, {})
BY DEF WroteBack, PoolInv, TypeOK, FileState

(* What Evict writes: the victim, if it is dirty, and then it drops it; every other
   cached page keeps its frame as it is. *)
LEMMA RoomEffect ==
  ASSUME PoolInv, NEW s \in Room
  PROVE  \E S \in SUBSET DirtyPages :
           /\ WroteBack(file, s.file, S, {})
           /\ \A q \in DirtyPages : s.page_table[q] = NoFrame => q \in S
           /\ \A q \in PageIds : s.page_table[q] # NoFrame =>
                /\ s.page_table[q] = page_table[q]
                /\ s.frames[page_table[q]] = frames[page_table[q]]
<1>1. CASE Full
  <2>1. PICK i \in DOMAIN lru : s = Evicted(i)
    BY <1>1 DEF Room
  <2> DEFINE v == lru[i]
             f == page_table[v]
  <2>2. v \in Cached
    BY DEF PoolInv, PoolStructure, ToSet
  <2>3. /\ s.frames = [frames EXCEPT ![f] = [@ EXCEPT !.page_id = NoPage, !.dirty = FALSE]]
        /\ s.page_table = [page_table EXCEPT ![v] = NoFrame]
        /\ s.file = IF frames[f].dirty THEN Write(file, v, frames[f].data, Parts) ELSE file
    BY <2>1 DEF Evicted
  <2> HIDE DEF v
  <2>4. TypeOK /\ PoolStructure /\ file \in FileState /\ Parts \in 0 .. Parts
    BY FileAssumption DEF PoolInv, TypeOK
  <2>5. v \in PageIds /\ f \in Frames
    BY <2>2, <2>4 DEF TypeOK, Cached
  <2>6. ASSUME NEW q \in PageIds, s.page_table[q] # NoFrame
        PROVE /\ s.page_table[q] = page_table[q]
              /\ s.frames[page_table[q]] = frames[page_table[q]]
    <3>1. q # v /\ s.page_table[q] = page_table[q]
      BY <2>3, <2>4, <2>6 DEF TypeOK
    <3>2. q \in Cached
      BY <2>6, <3>1 DEF Cached
    <3>3. page_table[q] # f
      BY <2>2, <2>4, <3>1, <3>2 DEF PoolStructure
    <3> QED BY <2>3, <2>4, <3>1, <3>3 DEF TypeOK
  <2>7. ASSUME NEW q \in DirtyPages, s.page_table[q] = NoFrame PROVE q = v
    BY <2>3, <2>4, <2>7 DEF TypeOK, DirtyPages, Cached
  <2>8. CASE frames[f].dirty
    <3>1. v \in DirtyPages
      BY <2>2, <2>8 DEF DirtyPages
    <3>2. WroteBack(file, s.file, {} \cup {v}, {})
      <4>1. WroteBack(file, file, {}, {}) /\ {} \in SUBSET Cached /\ v \notin {}
        BY WroteNothing
      <4>2. \A n \in 0 .. Parts : n = Parts =>
              WroteBack(file, Write(file, v, frames[page_table[v]].data, n), {} \cup {v}, {})
        BY <2>2, <2>4, <4>1, WriteBackOne
      <4> QED BY <2>3, <2>4, <2>8, <4>2
    <3>3. {} \cup {v} = {v}
      OBVIOUS
    <3> QED BY <2>6, <2>7, <3>1, <3>2, <3>3
  <2>9. CASE ~frames[f].dirty
    <3>1. v \notin DirtyPages
      BY <2>9 DEF DirtyPages
    <3>2. WroteBack(file, s.file, {}, {})
      BY <2>3, <2>9, WroteNothing
    <3> QED BY <2>6, <2>7, <3>1, <3>2
  <2> QED BY <2>8, <2>9
<1>2. CASE ~Full
  <2>1. s = [frames |-> frames, page_table |-> page_table, lru |-> lru, file |-> file]
    BY <1>2 DEF Room
  <2>2. \A q \in DirtyPages : s.page_table[q] # NoFrame
    BY <2>1 DEF DirtyPages, Cached
  <2> QED BY <2>1, <2>2, WroteNothing
<1> QED
  BY <1>1, <1>2

-----------------------------------------------------------------------------
(* The inductive invariant of the two files: bytes behind the end of either are
   zero, the medium has no page that the file has not, every page of the file has
   an id below the next one to be given out, and a page with such an id has been
   written or is in a frame that will be. *)

IssuedStored ==
  \A p \in PageIds :
    FirstDataPage <= p /\ p < next_page_id => Covered(file, p, 1) \/ Newer(p)

FileInv ==
  /\ disk.size <= file.size
  /\ ZeroBeyond(file)
  /\ ZeroBeyond(disk)
  /\ FirstDataPage <= next_page_id /\ next_page_id <= MaxPageId + 1
  /\ \A p \in PageIds : Covered(file, p, 1) => p < next_page_id
  /\ IssuedStored

(* What the frame of q holds is not changed, q does not get newer than the file,
   and if it stops being newer it was written. *)
Keeps(S, q) ==
  /\ q \in Cached /\ q \in Cached' => frames'[page_table'[q]].data = frames[page_table[q]].data
  /\ Newer(q)' => Newer(q)
  /\ Newer(q) /\ ~Newer(q)' => q \in S

(* The frame of q holds what the file holds, unless it is newer. *)
Matches(q) == ~Newer(q) => frames[page_table[q]].data = file.data[q]

LEMMA KeepsMatch ==
  ASSUME NEW S, NEW R, \A r \in S \cup R : Newer(r), WroteBack(file, file', S, R),
         NEW q \in Cached, q \in Cached', Keeps(S, q), Matches(q)
  PROVE  Matches(q)'
<1>1. SUFFICES ASSUME ~Newer(q)' PROVE frames'[page_table'[q]].data = file'.data[q]
  BY DEF Matches
<1>2. q \in PageIds /\ frames'[page_table'[q]].data = frames[page_table[q]].data
  BY DEF Keeps, Cached
<1>3. CASE q \in S
  BY <1>2, <1>3 DEF WroteBack
<1>4. CASE q \notin S
  <2>1. ~Newer(q) /\ q \notin S \cup R
    BY <1>1, <1>4 DEF Keeps
  <2>2. frames[page_table[q]].data = file.data[q]
    BY <2>1 DEF Matches
  <2> QED BY <1>2, <2>1, <2>2 DEF WroteBack
<1> QED
  BY <1>3, <1>4


(* A step writes back pages that are newer, some in part, and keeps the frames of
   all pages but those of W. *)
WritesBack(W) ==
  \E S \in SUBSET Cached, R \in SUBSET Cached :
    /\ \A r \in S \cup R : Newer(r) /\ r \notin W
    /\ WroteBack(file, file', S, R)
    /\ \A q \in PageIds \ W : Keeps(S, q)

(* Ids are given out one after the other; the page of a new one is changed. *)
NextId(W) ==
  /\ next_page_id' \in {next_page_id, next_page_id + 1}
  /\ next_page_id' <= MaxPageId + 1
  /\ next_page_id' # next_page_id => next_page_id \in W

LEMMA FileInvStep ==
  ASSUME PoolInv, FileInv, disk' \in {disk, file'}, NEW W \in SUBSET PageIds,
         WritesBack(W), NextId(W), \A p \in W : Newer(p)', file' \in FileState
  PROVE  FileInv'
<1>1. PICK S \in SUBSET Cached, R \in SUBSET Cached :
        /\ \A r \in S \cup R : Newer(r) /\ r \notin W
        /\ WroteBack(file, file', S, R)
        /\ \A q \in PageIds \ W : Keeps(S, q)
  BY DEF WritesBack
<1>2. /\ file.size \in Nat /\ file'.size \in Nat /\ disk.size \in Nat
      /\ next_page_id \in Nat /\ next_page_id' \in Nat /\ FirstDataPage \in Nat
      /\ next_page_id <= next_page_id'
  BY PoolAssumption, FileAssumption DEF PoolInv, TypeOK, FileState, NextId
<1>3. file'.size >= file.size /\ ZeroBeyond(file')
  BY <1>1 DEF WroteBack, FileInv
<1>4. ASSUME NEW p \in PageIds, Covered(file', p, 1) PROVE p < next_page_id'
  <2>1. p \in Int
    BY DEF PageIds
  <2>2. CASE Covered(file, p, 1)
    BY <1>2, <2>1, <2>2 DEF FileInv
  <2>3. CASE \E r \in S \cup R : p <= r
    <3>1. PICK r \in Cached : p <= r
      BY <2>3
    <3>2. r < next_page_id /\ r \in Int
      BY DEF PoolInv, IdsIssued, Cached, PageIds
    <3> QED BY <1>2, <2>1, <3>1, <3>2
  <2> QED BY <1>1, <1>4, <2>2, <2>3 DEF WroteBack
<1>5. disk'.size <= file'.size
  BY <1>2, <1>3 DEF FileInv
<1>6. FirstDataPage <= next_page_id' /\ next_page_id' <= MaxPageId + 1
  BY <1>2 DEF FileInv, NextId
<1>7. ZeroBeyond(disk')
  BY <1>3 DEF FileInv
<1>8. ASSUME NEW p \in PageIds, FirstDataPage <= p, p < next_page_id'
      PROVE Covered(file', p, 1) \/ Newer(p)'
  <2>1. SUFFICES ASSUME p \notin W, ~Newer(p)' PROVE Covered(file', p, 1)
    OBVIOUS
  <2>2. p \in Int /\ p * Parts \in Nat /\ Parts \in Nat \ {0}
    BY OffsetIsNat, FileAssumption DEF PageIds
  <2>3. p < next_page_id
    <3>1. next_page_id' = next_page_id \/ (next_page_id' = next_page_id + 1 /\ p # next_page_id)
      BY <2>1 DEF NextId
    <3> QED BY <1>2, <1>8, <2>2, <3>1
  <2>4. CASE Covered(file, p, 1)
    BY <1>2, <1>3, <2>2, <2>4 DEF Covered
  <2>5. CASE Newer(p)
    <3>1. p \in S
      BY <1>1, <2>1, <2>5 DEF Keeps
    <3>2. Covered(file', p, Parts)
      BY <1>1, <3>1 DEF WroteBack
    <3> QED BY <1>2, <2>2, <3>2 DEF Covered
  <2> QED BY <1>8, <2>3, <2>4, <2>5 DEF FileInv, IssuedStored
<1>9. IssuedStored'
  BY <1>8 DEF IssuedStored, Covered
<1> QED
  BY <1>3, <1>4, <1>5, <1>6, <1>7, <1>9 DEF FileInv, ZeroBeyond, Covered

(* A new pool over a file: ids start behind it. *)
LEMMA FileInvReopened ==
  ASSUME NEW fs \in FileState, NEW gs \in FileState, Reopened(fs, gs),
         gs.size <= fs.size, ZeroBeyond(fs), ZeroBeyond(gs)
  PROVE  FileInv'
<1>1. file' = fs /\ disk' = gs /\ next_page_id' = FirstNewId(fs)
  BY DEF Reopened
<1>2. PageCount(fs) \in Nat /\ FirstDataPage \in Nat
  BY PageCountIsNat, PoolAssumption, FileAssumption
<1>3. /\ FirstDataPage <= FirstNewId(fs) /\ PageCount(fs) <= FirstNewId(fs)
      /\ FirstNewId(fs) \in Nat /\ FirstNewId(fs) <= MaxPageId + 1
  BY <1>2, PageCountBound, PoolAssumption DEF FirstNewId
<1>4. ASSUME NEW p \in PageIds, Covered(fs, p, 1) PROVE p < FirstNewId(fs)
  <2>1. p < PageCount(fs) /\ p \in Int
    BY <1>4, PageCountCovers DEF PageIds
  <2> QED BY <1>2, <1>3, <2>1
<1>5. ASSUME NEW p \in PageIds, FirstDataPage <= p, p < FirstNewId(fs)
      PROVE Covered(fs, p, 1)
  <2>1. p \in Int
    BY DEF PageIds
  <2>2. p < PageCount(fs)
    BY <1>2, <1>5, <2>1 DEF FirstNewId
  <2> QED BY <2>2, PageCountCovers
<1>6. IssuedStored'
  BY <1>1, <1>5 DEF IssuedStored, Covered
<1> QED
  BY <1>1, <1>3, <1>4, <1>6 DEF FileInv, ZeroBeyond, Covered

(* The file and a frame that held the same part of a page after the step. *)
LEMMA WritesBackMatch ==
  ASSUME NEW W \in SUBSET PageIds, WritesBack(W), NEW q \in Cached, q \in Cached',
         q \in W => Newer(q)', Matches(q)
  PROVE  Matches(q)'
<1>1. CASE q \in W
  BY <1>1 DEF Matches
<1>2. CASE q \notin W
  <2>1. q \in PageIds
    BY DEF Cached
  <2> QED BY <1>2, <2>1, KeepsMatch DEF WritesBack
<1> QED
  BY <1>1, <1>2
-----------------------------------------------------------------------------
(* The calls of one caller, each as such a step *)

(* With one caller that holds nothing, the dirty pages are the newer ones. *)
LEMMA IdleNewer ==
  ASSUME OneCaller, NEW t \in Threads, held[t] = Idle
  PROVE  \A q : Newer(q) <=> q \in DirtyPages
<1>1. \A u \in Threads : ~held[u].wrote
  BY DEF OneCaller, Idle
<1> QED
  BY <1>1 DEF Newer, BeingWritten, DirtyPages, Cached

(* Room is made and f filled with page p, or taken for a read that failed. *)
LEMMA InstallKeeps ==
  ASSUME OneCaller, PoolInv, NEW t \in Threads, held[t] = Idle, ~held'[t].wrote,
         NEW s \in Room, NEW f \in Frames, FirstUnused(s.frames, f), NEW e,
         frames' = [s.frames EXCEPT ![f] = e], NEW p \in PageIds,
         page_table' \in {s.page_table, [s.page_table EXCEPT ![p] = f]},
         file' = s.file
  PROVE  \E S \in SUBSET DirtyPages :
           /\ WroteBack(file, file', S, {})
           /\ \A q \in PageIds : q # p \/ page_table' = s.page_table => Keeps(S, q)
<1>1. PICK S \in SUBSET DirtyPages :
        /\ WroteBack(file, s.file, S, {})
        /\ \A q \in DirtyPages : s.page_table[q] = NoFrame => q \in S
        /\ \A q \in PageIds : s.page_table[q] # NoFrame =>
             /\ s.page_table[q] = page_table[q]
             /\ s.frames[page_table[q]] = frames[page_table[q]]
  BY RoomEffect
<1>2. PoolType(s) /\ Consistent(s.frames, s.page_table, s.lru)
  BY RoomConsistent
<1>3. \A q : Newer(q) <=> q \in DirtyPages
  BY IdleNewer
<1>4. \A q : Newer(q)' <=> q \in Cached' /\ frames'[page_table'[q]].dirty
  <2>1. \A u \in Threads : ~held'[u].wrote
    BY DEF OneCaller
  <2> QED BY <2>1 DEF Newer, BeingWritten
<1>5. ASSUME NEW q \in PageIds, q # p \/ page_table' = s.page_table,
             s.page_table[q] # NoFrame
      PROVE page_table'[q] = page_table[q] /\ frames'[page_table'[q]] = frames[page_table[q]]
  <2>1. s.page_table[q] \in Frames /\ s.frames[s.page_table[q]].page_id = q
    BY <1>2, <1>5 DEF PoolType, Consistent
  <2>2. s.page_table[q] # f
    BY <2>1 DEF FirstUnused, NoPage, PageIds
  <2>3. page_table'[q] = s.page_table[q]
    BY <1>2, <1>5 DEF PoolType
  <2>4. frames'[s.page_table[q]] = s.frames[s.page_table[q]]
    BY <1>2, <2>1, <2>2 DEF PoolType
  <2> QED BY <1>1, <1>5, <2>3, <2>4
<1>6. ASSUME NEW q \in PageIds, q # p \/ page_table' = s.page_table
      PROVE Keeps(S, q)
  <2>1. page_table'[q] = s.page_table[q]
    BY <1>2, <1>6 DEF PoolType
  <2>2. CASE s.page_table[q] = NoFrame
    <3>1. ~Newer(q)' /\ q \notin Cached'
      BY <1>4, <2>1, <2>2 DEF Cached
    <3>2. Newer(q) => q \in S
      BY <1>1, <1>3, <2>2
    <3> QED BY <3>1, <3>2 DEF Keeps
  <2>3. CASE s.page_table[q] # NoFrame
    <3>1. page_table'[q] = page_table[q] /\ frames'[page_table'[q]] = frames[page_table[q]]
      BY <1>5, <1>6, <2>3
    <3>2. Newer(q)' <=> Newer(q)
      BY <1>3, <1>4, <3>1 DEF DirtyPages, Cached
    <3> QED BY <3>1, <3>2 DEF Keeps
  <2> QED BY <2>2, <2>3
<1> QED
  BY <1>1, <1>6

(* The write of a dirty victim that fails leaves part of it in the file. *)
LEMMA EvictWritesPart ==
  ASSUME PoolInv, NEW op, EvictWriteFails(op)
  PROVE  \E r \in DirtyPages : WroteBack(file, file', {}, {r})
<1>1. PICK i \in DOMAIN lru, n \in 0 .. (Parts - 1) :
        /\ frames[page_table[lru[i]]].dirty
        /\ file' = Write(file, lru[i], frames[page_table[lru[i]]].data, n)
  BY DEF EvictWriteFails
<1> DEFINE r == lru[i]
<1>2. r \in Cached
  BY DEF PoolInv, PoolStructure, ToSet
<1>3. r \in DirtyPages
  BY <1>1, <1>2 DEF DirtyPages
<1> HIDE DEF r
<1>4. n \in 0 .. Parts /\ file \in FileState
  BY FileAssumption DEF PoolInv, TypeOK
<1>5. WroteBack(file, file, {}, {}) /\ {} \in SUBSET Cached /\ r \notin {}
  BY WroteNothing
<1>6. WroteBack(file, Write(file, r, frames[page_table[r]].data, n), {}, {r})
  BY <1>2, <1>4, <1>5, WriteBackOne
<1> QED
  BY <1>1, <1>3, <1>6 DEF r

LEMMA GetPageWrites ==
  ASSUME OneCaller, PoolInv, NEW t \in Threads, NEW p \in PageIds, GetPage(t, p)
  PROVE  WritesBack({}) /\ UNCHANGED <<disk, next_page_id>>
<1>1. TypeOK /\ held \in [Threads -> Hold]
  BY DEF PoolInv, TypeOK
<1>2. held[t] = Idle
  BY DEF GetPage, GetPageHit, GetPageMiss, GetPageReadFails, GetPageNoRoom, MayGet
<1>3. ~held'[t].wrote
  BY <1>1, <1>2 DEF GetPage, GetPageHit, GetPageMiss, GetPageReadFails, GetPageNoRoom,
                    EvictWriteFails, NoFrameFree, Idle
<1>4. UNCHANGED <<disk, next_page_id>>
  BY DEF GetPage, GetPageHit, GetPageMiss, GetPageReadFails, GetPageNoRoom,
         EvictWriteFails, NoFrameFree
<1>5. \A q : Newer(q) <=> q \in DirtyPages
  BY <1>2, IdleNewer
<1>6. \A q : Newer(q)' <=> q \in Cached' /\ frames'[page_table'[q]].dirty
  <2>1. \A u \in Threads : ~held'[u].wrote
    BY <1>3 DEF OneCaller
  <2> QED BY <2>1 DEF Newer, BeingWritten
<1>7. ASSUME UNCHANGED <<frames, page_table>>, NEW S, NEW q PROVE Keeps(S, q)
  BY <1>5, <1>6, <1>7 DEF Keeps, DirtyPages, Cached
<1>8. DirtyPages \subseteq Cached
  BY DEF DirtyPages
<1>9. SUFFICES WritesBack({})
  BY <1>4
<1>10. ASSUME UNCHANGED <<frames, page_table, file>> PROVE WritesBack({})
  BY <1>7, <1>10, WroteNothing DEF WritesBack
<1>11. CASE GetPageHit(t, p)
  BY <1>10, <1>11 DEF GetPageHit
<1>12. CASE GetPageMiss(t, p)
  <2>1. PICK s \in Room, f \in Frames :
          /\ FirstUnused(s.frames, f)
          /\ frames' = [s.frames EXCEPT ![f] =
                          [page_id |-> p, data |-> Loaded(s, f, p), dirty |-> FALSE, pin |-> 0]]
          /\ page_table' = [s.page_table EXCEPT ![p] = f]
          /\ file' = s.file
    BY <1>12 DEF GetPageMiss
  <2>2. PICK S \in SUBSET DirtyPages :
          /\ WroteBack(file, file', S, {})
          /\ \A q \in PageIds : q # p \/ page_table' = s.page_table => Keeps(S, q)
    BY <1>2, <1>3, <2>1, InstallKeeps
  <2>3. PoolType(s)
    BY RoomConsistent
  <2>4. page_table'[p] = f /\ ~frames'[f].dirty
    BY <2>1, <2>3 DEF PoolType
  <2>5. ~Newer(p)' /\ ~Newer(p) /\ p \notin Cached
    BY <1>5, <1>6, <1>12, <2>4 DEF GetPageMiss, DirtyPages
  <2>6. \A q \in PageIds : Keeps(S, q)
    BY <2>2, <2>5 DEF Keeps
  <2> QED BY <1>5, <1>8, <2>2, <2>6 DEF WritesBack
<1>13. CASE GetPageReadFails(t, p)
  <2>1. PICK s \in Room, f \in Frames :
          /\ FirstUnused(s.frames, f)
          /\ frames' = [s.frames EXCEPT ![f].page_id = p]
          /\ page_table' = s.page_table
          /\ file' = s.file
    BY <1>13 DEF GetPageReadFails
  <2>2. frames' = [s.frames EXCEPT ![f] = [s.frames[f] EXCEPT !.page_id = p]]
    BY <2>1
  <2>3. PICK S \in SUBSET DirtyPages :
          /\ WroteBack(file, file', S, {})
          /\ \A q \in PageIds : q # p \/ page_table' = s.page_table => Keeps(S, q)
    BY <1>2, <1>3, <2>1, <2>2, InstallKeeps
  <2>4. \A q \in PageIds : Keeps(S, q)
    BY <2>1, <2>3
  <2> QED BY <1>5, <1>8, <2>3, <2>4 DEF WritesBack
<1>14. CASE GetPageNoRoom(t, p)
  <2>1. UNCHANGED <<frames, page_table>>
    BY <1>14 DEF GetPageNoRoom, EvictWriteFails, NoFrameFree
  <2>2. CASE file' = file
    BY <1>10, <2>1, <2>2
  <2>3. CASE EvictWriteFails("GetPage")
    <3>1. PICK r \in DirtyPages : WroteBack(file, file', {}, {r})
      BY <2>3, EvictWritesPart
    <3> QED BY <1>5, <1>7, <1>8, <2>1, <3>1 DEF WritesBack
  <2> QED BY <1>14, <2>2, <2>3 DEF GetPageNoRoom, NoFrameFree
<1> QED
  BY <1>11, <1>12, <1>13, <1>14 DEF GetPage

LEMMA NewPageNoRoomWrites ==
  ASSUME PoolInv, NEW t \in Threads, NewPageNoRoom(t)
  PROVE  WritesBack({}) /\ UNCHANGED <<disk, next_page_id>>
<1>1. UNCHANGED <<frames, page_table, next_page_id, held, disk>>
  BY DEF NewPageNoRoom, EvictWriteFails, NoFrameFree
<1>2. ASSUME NEW S, NEW q PROVE Keeps(S, q)
  BY <1>1 DEF Keeps, Newer, BeingWritten, Cached
<1>3. CASE EvictWriteFails("NewPage")
  <2>1. PICK r \in DirtyPages : WroteBack(file, file', {}, {r})
    BY <1>3, EvictWritesPart
  <2>2. r \in Cached /\ Newer(r)
    BY DEF DirtyPages, Newer
  <2> QED BY <1>1, <1>2, <2>1, <2>2 DEF WritesBack
<1>4. CASE NoFrameFree("NewPage")
  <2>1. WroteBack(file, file', {}, {})
    BY <1>4, WroteNothing DEF NoFrameFree
  <2> QED BY <1>1, <1>2, <2>1 DEF WritesBack
<1> QED
  BY <1>3, <1>4 DEF NewPageNoRoom

(* After the step the caller's change is in the frame of p. *)
Changed(p, d) ==
  /\ p \in PageIds
  /\ WritesBack({p})
  /\ disk' = disk
  /\ Newer(p)' /\ frames'[page_table'[p]].data = d
  /\ file'.data[p] = file.data[p]

LEMMA NewPageWrites ==
  ASSUME OneCaller, PoolInv, NEW t \in Threads, NEW d \in Page, NewPage(t, d),
         NEW p, p = next_page_id
  PROVE  p \notin Cached /\ Changed(p, d) /\ next_page_id' = p + 1 /\ p <= MaxPageId
<1>1. TypeOK /\ IdsIssued /\ next_page_id \in Nat /\ p \in PageIds
  BY FileAssumption DEF PoolInv, TypeOK, NewPage, PageIds
<1> DEFINE e == [page_id |-> p, data |-> d, dirty |-> TRUE, pin |-> 0]
<1>2. /\ held[t] = Idle /\ held' = held /\ disk' = disk
      /\ p <= MaxPageId /\ next_page_id' = p + 1
  BY DEF NewPage
<1>3. p \notin Cached
  BY <1>1 DEF IdsIssued
<1>4. PICK s \in Room, f \in Frames :
        /\ FirstUnused(s.frames, f)
        /\ frames' = [s.frames EXCEPT ![f] = e]
        /\ page_table' = [s.page_table EXCEPT ![p] = f]
        /\ file' = s.file
  BY DEF NewPage
<1>5. ~held'[t].wrote
  BY <1>2 DEF Idle
<1> HIDE DEF e
<1>6. PICK S \in SUBSET DirtyPages :
        /\ WroteBack(file, file', S, {})
        /\ \A q \in PageIds : q # p \/ page_table' = s.page_table => Keeps(S, q)
  BY <1>1, <1>2, <1>4, <1>5, InstallKeeps
<1>7. \A r \in S \cup {} : r \in Cached /\ Newer(r) /\ r # p
  BY <1>2, <1>3, IdleNewer DEF DirtyPages
<1>8. WritesBack({p})
  <2>1. S \in SUBSET Cached /\ {} \in SUBSET Cached
    BY <1>7
  <2>2. \A q \in PageIds \ {p} : Keeps(S, q)
    BY <1>6
  <2> QED BY <1>6, <1>7, <2>1, <2>2 DEF WritesBack
<1>9. Newer(p)' /\ frames'[page_table'[p]].data = d
  <2>1. PoolType(s)
    BY RoomConsistent
  <2>2. page_table'[p] = f /\ frames'[f] = e
    BY <1>1, <1>4, <2>1 DEF PoolType
  <2>3. f # NoFrame
    BY DEF Frames, NoFrame
  <2> QED BY <1>1, <2>2, <2>3 DEF Newer, Cached, e
<1>10. file'.data[p] = file.data[p]
  BY <1>1, <1>6, <1>7 DEF WroteBack
<1> QED
  BY <1>1, <1>2, <1>3, <1>8, <1>9, <1>10 DEF Changed

LEMMA WriteFrameWrites ==
  ASSUME OneCaller, PoolInv, HeldInv, NEW t \in Threads, NEW d \in Page, WriteFrame(t, d),
         NEW p, p = held[t].page
  PROVE  p \in Cached /\ Changed(p, d) /\ next_page_id' = next_page_id
<1> PICK f : f = held[t].frame
  OBVIOUS
<1>1. TypeOK /\ PoolStructure
  BY DEF PoolInv
<1>2. /\ frames' = [frames EXCEPT ![f].data = d]
      /\ held' = [held EXCEPT ![t].wrote = TRUE] /\ ~held[t].wrote
      /\ UNCHANGED <<page_table, next_page_id, file, disk>>
  BY DEF WriteFrame
<1>3. p \in Cached /\ page_table[p] = f
  BY DEF WriteFrame, HeldInv
<1>4. p \in PageIds /\ f \in Frames
  BY <1>1, <1>3 DEF TypeOK, Cached
<1>5. held'[t].page = p /\ held'[t].wrote
  BY <1>1, <1>2 DEF TypeOK, Hold
<1>6. frames'[f] = [frames[f] EXCEPT !.data = d] /\ \A g \in Frames \ {f} : frames'[g] = frames[g]
  BY <1>1, <1>2, <1>4 DEF TypeOK
<1>7. ASSUME NEW q \in PageIds \ {p} PROVE Keeps({}, q)
  <2>1. ~BeingWritten(q) /\ ~BeingWritten(q)'
    BY <1>2, <1>5 DEF BeingWritten, OneCaller
  <2>2. Cached' = Cached
    BY <1>2 DEF Cached
  <2>3. ASSUME q \in Cached PROVE frames'[page_table'[q]] = frames[page_table[q]]
    <3>1. page_table[q] \in Frames /\ page_table[q] # f
      BY <1>1, <1>3, <2>3 DEF TypeOK, Cached, PoolStructure
    <3> QED BY <1>2, <1>6, <3>1
  <2> QED BY <2>1, <2>2, <2>3 DEF Keeps, Newer
<1>8. WritesBack({p})
  BY <1>2, <1>7, WroteNothing DEF WritesBack
<1>9. Newer(p)'
  BY <1>2, <1>3, <1>5 DEF Newer, BeingWritten, Cached
<1>10. frames'[page_table'[p]].data = d
  BY <1>1, <1>2, <1>3, <1>4, <1>6 DEF TypeOK, Frame
<1> QED
  BY <1>2, <1>3, <1>4, <1>8, <1>9, <1>10 DEF Changed

LEMMA FrameUseWrites ==
  ASSUME OneCaller, PoolInv, HeldInv, NEW t \in Threads,
         MarkDirty(t) \/ Release(t) \/ Pin(t) \/ Unpin(t)
  PROVE  WritesBack({}) /\ UNCHANGED <<disk, next_page_id>>
<1>1. TypeOK /\ PoolInv /\ PoolStructure
  BY DEF PoolInv
<1>2. UNCHANGED <<page_table, next_page_id, file, disk>>
  BY DEF MarkDirty, Release, Pin, Unpin
<1>3. held[t] # Idle
  BY DEF MarkDirty, Release, Pin, Unpin, Idle
<1> PICK p, f : p = held[t].page /\ f = held[t].frame
  OBVIOUS
<1>4. p \in Cached /\ p \in PageIds /\ page_table[p] = f /\ f \in Frames
  BY <1>1, <1>3 DEF HeldInv, TypeOK, Cached
<1>5. \A q : BeingWritten(q) <=> q = p /\ held[t].wrote
  BY DEF BeingWritten, OneCaller
<1>6. Cached' = Cached
  BY <1>2 DEF Cached
<1>7. \A q \in Cached : page_table[q] \in Frames
  BY <1>1 DEF TypeOK, Cached
<1>8. SUFFICES ASSUME NEW q \in PageIds PROVE Keeps({}, q)
  BY <1>1, <1>2, WroteNothing DEF WritesBack
<1>9. CASE MarkDirty(t)
  <2>1. held[t].wrote /\ frames' = [frames EXCEPT ![f].dirty = TRUE]
    BY <1>4, <1>9 DEF MarkDirty
  <2>2. \A x : ~BeingWritten(x)'
    <3>1. ~held'[t].wrote
      BY <1>1, <1>9 DEF MarkDirty, TypeOK, Idle
    <3> QED BY <3>1 DEF BeingWritten, OneCaller
  <2>3. frames'[f] = [frames[f] EXCEPT !.dirty = TRUE] /\ \A g \in Frames \ {f} : frames'[g] = frames[g]
    BY <1>1, <1>4, <2>1 DEF TypeOK
  <2>4. frames'[f].dirty /\ frames'[f].data = frames[f].data
    BY <1>1, <1>4, <2>3 DEF TypeOK, Frame
  <2>5. CASE q = p
    BY <1>2, <1>4, <1>5, <1>6, <2>1, <2>4, <2>5 DEF Keeps, Newer
  <2>6. CASE q # p
    <3>1. q \in Cached => page_table[q] # f
      BY <1>1, <1>4, <2>6 DEF PoolStructure
    <3>2. q \in Cached => frames'[page_table'[q]] = frames[page_table[q]]
      BY <1>2, <1>7, <2>3, <3>1
    <3> QED BY <1>5, <1>6, <2>2, <2>6, <3>2 DEF Keeps, Newer
  <2> QED BY <2>5, <2>6
<1>10. CASE Release(t)
  <2>1. \A x : ~BeingWritten(x)' /\ ~BeingWritten(x)
    <3>1. ~held'[t].wrote /\ ~held[t].wrote
      BY <1>1, <1>10 DEF Release, TypeOK, Idle
    <3> QED BY <1>5, <3>1 DEF BeingWritten, OneCaller
  <2>2. frames' = frames
    BY <1>10 DEF Release
  <2> QED BY <1>2, <1>6, <2>1, <2>2 DEF Keeps, Newer
<1>11. CASE Pin(t) \/ Unpin(t)
  <2>1. \A x : BeingWritten(x)' <=> BeingWritten(x)
    BY <1>11 DEF Pin, Unpin, BeingWritten
  <2>2. \A g \in Frames : frames'[g].data = frames[g].data /\ frames'[g].dirty = frames[g].dirty
    <3>1. CASE Pin(t)
      <4>1. frames' = [frames EXCEPT ![f].pin = frames[f].pin + 1]
        BY <3>1 DEF Pin
      <4> QED BY <1>1, <1>4, <4>1 DEF TypeOK, Frame
    <3>2. CASE Unpin(t)
      <4>1. frames' = [frames EXCEPT ![f].pin = frames[f].pin - 1]
        BY <3>2 DEF Unpin
      <4> QED BY <1>1, <1>4, <4>1 DEF TypeOK, Frame
    <3> QED BY <1>11, <3>1, <3>2
  <2> QED BY <1>2, <1>6, <1>7, <2>1, <2>2 DEF Keeps, Newer
<1> QED
  BY <1>9, <1>10, <1>11

-----------------------------------------------------------------------------
(* FlushAllDirty *)

LEMMA CleanedEffect ==
  ASSUME PoolInv, NEW S \in SUBSET DirtyPages, NEW q \in Cached
  PROVE  LET g == CleanedFrames(S)[page_table[q]]
             f == frames[page_table[q]]
         IN  g.data = f.data /\ (g.dirty <=> f.dirty /\ q \notin S)
<1>1. TypeOK /\ PoolStructure /\ page_table[q] \in Frames
  BY DEF PoolInv, TypeOK, Cached
<1>2. S \subseteq Cached
  BY DEF DirtyPages
<1>3. (\E p \in S : page_table[p] = page_table[q]) <=> q \in S
  BY <1>1, <1>2 DEF PoolStructure
<1>4. CleanedFrames(S)[page_table[q]] =
        IF q \in S THEN [frames[page_table[q]] EXCEPT !.dirty = FALSE] ELSE frames[page_table[q]]
  BY <1>1, <1>3 DEF CleanedFrames
<1> QED
  BY <1>1, <1>4 DEF TypeOK, Frame

LEMMA FlushWrites ==
  ASSUME OneCaller, PoolInv, NEW t \in Threads,
         FlushOK(t) \/ FlushWriteFails(t) \/ FlushSyncFails(t)
  PROVE  /\ WritesBack({}) /\ UNCHANGED next_page_id
         /\ FlushOK(t) => disk' = file' /\ \A q \in PageIds : ~Newer(q)'
         /\ ~FlushOK(t) => disk' = disk
<1>1. TypeOK
  BY DEF PoolInv
<1>2. held[t] = Idle /\ UNCHANGED <<page_table, next_page_id, held>>
  BY DEF FlushOK, FlushWriteFails, FlushSyncFails
<1>3. \A q : Newer(q) <=> q \in DirtyPages
  BY <1>2, IdleNewer
<1>4. \A q : ~BeingWritten(q)'
  BY <1>2 DEF BeingWritten, OneCaller, Idle
<1>5. Cached' = Cached /\ DirtyPages \subseteq Cached
  BY <1>2 DEF Cached, DirtyPages
<1>6. ASSUME NEW S \in SUBSET DirtyPages, frames' = CleanedFrames(S), NEW q \in PageIds
      PROVE Keeps(S, q) /\ (Newer(q)' <=> q \in DirtyPages \ S)
  <2>1. CASE q \in Cached
    <3>1. /\ frames'[page_table[q]].data = frames[page_table[q]].data
          /\ frames'[page_table[q]].dirty <=> frames[page_table[q]].dirty /\ q \notin S
      BY <1>1, <1>6, <2>1, CleanedEffect
    <3>2. Newer(q)' <=> q \in DirtyPages \ S
      BY <1>2, <1>4, <1>5, <2>1, <3>1 DEF Newer, DirtyPages
    <3> QED BY <1>2, <1>3, <3>1, <3>2 DEF Keeps
  <2>2. CASE q \notin Cached
    <3>1. ~Newer(q)' /\ ~Newer(q) /\ q \notin DirtyPages
      BY <1>5, <2>2 DEF Newer
    <3> QED BY <2>2, <3>1 DEF Keeps
  <2> QED BY <2>1, <2>2
<1>7. CASE FlushOK(t) \/ FlushSyncFails(t)
  <2>1. /\ file' = WrittenFile(DirtyPages)
        /\ frames' = CleanedFrames(DirtyPages)
        /\ FlushOK(t) => disk' = file'
        /\ ~FlushOK(t) => disk' = disk
    BY <1>7 DEF FlushOK, FlushSyncFails
  <2>2. WroteBack(file, file', DirtyPages, {})
    BY <1>5, <2>1, WrittenFileEffect
  <2>3. \A q \in PageIds : Keeps(DirtyPages, q) /\ ~Newer(q)'
    BY <1>6, <2>1
  <2>4. WritesBack({})
    BY <1>3, <1>5, <2>2, <2>3 DEF WritesBack
  <2> QED BY <1>2, <2>1, <2>3, <2>4
<1>8. CASE FlushWriteFails(t)
  <2>1. PICK p \in DirtyPages : \E S \in SUBSET (DirtyPages \ {p}), n \in 0 .. (Parts - 1) :
          /\ file' = Write(WrittenFile(S), p, frames[page_table[p]].data, n)
          /\ frames' = CleanedFrames(S)
    BY <1>8 DEF FlushWriteFails
  <2>2. PICK S \in SUBSET (DirtyPages \ {p}), n \in 0 .. (Parts - 1) :
          /\ file' = Write(WrittenFile(S), p, frames[page_table[p]].data, n)
          /\ frames' = CleanedFrames(S)
    BY <2>1
  <2>3. S \in SUBSET Cached /\ {p} \in SUBSET Cached /\ p \in Cached /\ p \notin S /\ n \in 0 .. Parts
    BY <1>5, FileAssumption
  <2>4. WroteBack(file, WrittenFile(S), S, {}) /\ WrittenFile(S) \in FileState
    BY <2>3, WrittenFileEffect, WrittenFileType DEF PoolInv
  <2>5. WroteBack(file, file', S, {p})
    BY <2>2, <2>3, <2>4, WriteBackOne
  <2>6. \A q \in PageIds : Keeps(S, q)
    BY <1>6, <2>2
  <2>7. \A r \in S \cup {p} : Newer(r)
    BY <1>3
  <2>8. WritesBack({})
    BY <2>3, <2>5, <2>6, <2>7 DEF WritesBack
  <2>9. disk' = disk /\ ret' = Returned("FlushAllDirty", "IO")
    BY <1>8 DEF FlushWriteFails
  <2>10. ~FlushOK(t)
    BY <2>9 DEF FlushOK, Returned
  <2> QED BY <1>2, <2>8, <2>9, <2>10
<1> QED
  BY <1>7, <1>8

-----------------------------------------------------------------------------
(* The file after a restart *)

LEMMA ClosedFile ==
  ASSUME PoolInv, FileInv
  PROVE  LET fs == WrittenFile(DirtyPages)
         IN  /\ fs \in FileState /\ WroteBack(file, fs, DirtyPages, {}) /\ ZeroBeyond(fs)
             /\ \A q \in PageIds : Covered(fs, q, 1) => q < next_page_id
<1> DEFINE fs == WrittenFile(DirtyPages)
<1>1. WroteBack(file, fs, DirtyPages, {}) /\ fs \in FileState
  BY WrittenFileEffect, WrittenFileType DEF DirtyPages, PoolInv
<1> HIDE DEF fs
<1>2. ASSUME NEW q \in PageIds, NEW r \in DirtyPages, q <= r PROVE q < next_page_id
  <2>1. r < next_page_id /\ r \in Int /\ q \in Int /\ next_page_id \in Int
    BY DEF PoolInv, TypeOK, IdsIssued, DirtyPages, Cached, PageIds
  <2> QED BY <1>2, <2>1
<1>3. \A q \in PageIds : Covered(fs, q, 1) => q < next_page_id
  BY <1>1, <1>2 DEF WroteBack, FileInv
<1>4. ZeroBeyond(fs)
  BY <1>1 DEF WroteBack, FileInv
<1> QED
  BY <1>1, <1>3, <1>4 DEF fs

LEMMA CrashedFile ==
  ASSUME PoolInv, FileInv, NEW fs \in AfterCrash(file, disk)
  PROVE  /\ fs \in FileState /\ (fs.size \in {file.size, disk.size} \/ fs.size % Parts = 0)
         /\ disk.size <= fs.size /\ fs.size <= file.size /\ ZeroBeyond(fs)
         /\ \A q \in PageIds, k \in 1 .. Parts :
              fs.data[q][k] \in {file.data[q][k], disk.data[q][k]}
<1>1. file \in FileState /\ disk \in FileState /\ FileInv
  BY DEF PoolInv, TypeOK
<1>2. file.size \in Nat /\ disk.size \in Nat /\ disk.size <= file.size
  BY <1>1 DEF FileState, FileInv
<1>3. PICK sz, back : sz \in SizesSince(file, disk) /\ fs = Remains(file, disk, back, sz)
  BY DEF AfterCrash
<1>4. /\ fs \in FileState /\ fs.size = sz /\ sz \in Nat /\ disk.size <= sz /\ sz <= file.size
      /\ \A q \in PageIds, k \in 1 .. Parts :
           fs.data[q][k] = IF q * Parts + k > sz THEN Zero
                           ELSE IF <<q, k>> \in back THEN file.data[q][k]
                           ELSE disk.data[q][k]
  BY <1>1, <1>2, <1>3, AfterCrashType DEF Remains, SizesSince
<1>5. \A q \in PageIds, k \in 1 .. Parts : q * Parts + k \in Nat
  BY OffsetIsNat
<1>6. ZeroBeyond(fs)
  <2>1. ASSUME NEW q \in PageIds, NEW k \in 1 .. Parts, ~Covered(fs, q, k)
        PROVE fs.data[q][k] = Zero
    <3>1. q * Parts + k > sz
      BY <1>4, <1>5, <2>1 DEF Covered
    <3> QED BY <1>4, <3>1
  <2> QED BY <2>1 DEF ZeroBeyond
<1>7. ASSUME NEW q \in PageIds, NEW k \in 1 .. Parts
      PROVE fs.data[q][k] \in {file.data[q][k], disk.data[q][k]}
  <2>1. CASE q * Parts + k > sz
    <3>1. fs.data[q][k] = Zero
      BY <1>4, <2>1
    <3>2. ~Covered(disk, q, k)
      BY <1>2, <1>4, <1>5, <2>1 DEF Covered
    <3>3. disk.data[q][k] = Zero
      BY <1>1, <3>2 DEF FileInv, ZeroBeyond
    <3> QED BY <3>1, <3>3
  <2>2. CASE ~(q * Parts + k > sz)
    BY <1>4, <2>2
  <2> QED BY <2>1, <2>2
<1> QED
  BY <1>3, <1>4, <1>6, <1>7 DEF SizesSince

LEMMA FileInvRestart ==
  ASSUME PoolInv, FileInv, CloseAndOpen \/ KillAndOpen \/ PowerLossAndOpen
  PROVE  FileInv'
<1>1. file \in FileState /\ disk \in FileState
  BY DEF PoolInv, TypeOK
<1>2. \A fs \in FileState : fs.size <= fs.size
  BY DEF FileState
<1>3. CASE CloseAndOpen
  <2> PICK fs : fs = WrittenFile(DirtyPages)
    OBVIOUS
  <2>1. fs \in FileState /\ ZeroBeyond(fs) /\ Reopened(fs, fs)
    BY <1>3, ClosedFile DEF CloseAndOpen
  <2> QED BY <1>2, <2>1, FileInvReopened
<1>4. CASE KillAndOpen
  BY <1>1, <1>4, FileInvReopened DEF KillAndOpen, FileInv
<1>5. CASE PowerLossAndOpen
  <2>1. PICK fs \in AfterCrash(file, disk) : Reopened(fs, fs)
    BY <1>5 DEF PowerLossAndOpen
  <2>2. fs \in FileState /\ ZeroBeyond(fs)
    BY CrashedFile
  <2> QED BY <1>2, <2>1, <2>2, FileInvReopened
<1> QED
  BY <1>3, <1>4, <1>5

-----------------------------------------------------------------------------
(* All steps *)

StoredInv == PoolInv /\ HeldInv /\ FileInv

(* One call: W is the page whose content its caller changes, if it does. *)
LEMMA UsesPoolWrites ==
  ASSUME OneCaller, StoredInv, NEW t \in Threads, UsesPool(t)
  PROVE  \E W \in SUBSET PageIds :
           /\ WritesBack(W) /\ NextId(W) /\ disk' \in {disk, file'}
           /\ \A p \in W : Newer(p)'
<1>1. PoolInv /\ HeldInv /\ next_page_id \in Nat /\ next_page_id <= MaxPageId + 1
  BY DEF StoredInv, PoolInv, TypeOK, FileInv
<1>2. ASSUME WritesBack({}), next_page_id' = next_page_id, disk' \in {disk, file'}
      PROVE  \E W \in SUBSET PageIds :
               /\ WritesBack(W) /\ NextId(W) /\ disk' \in {disk, file'}
               /\ \A p \in W : Newer(p)'
  <2>1. NextId({})
    BY <1>1, <1>2 DEF NextId
  <2> QED BY <1>2, <2>1
<1>3. ASSUME NEW p, NEW d, Changed(p, d), NextId({p})
      PROVE  \E W \in SUBSET PageIds :
               /\ WritesBack(W) /\ NextId(W) /\ disk' \in {disk, file'}
               /\ \A q \in W : Newer(q)'
  <2>1. {p} \in SUBSET PageIds /\ \A q \in {p} : Newer(q)'
    BY <1>3 DEF Changed
  <2> QED BY <1>3, <2>1 DEF Changed
<1>4. ASSUME NEW v PROVE v \in Values => [k \in 1 .. Parts |-> v] \in Page
  BY DEF Page
<1>5. ASSUME NEW p \in PageIds, GetPage(t, p) PROVE WritesBack({}) /\ UNCHANGED <<disk, next_page_id>>
  BY <1>1, <1>5, GetPageWrites
<1>6. CASE \E p \in PageIds : p < next_page_id /\ GetPage(t, p)
  BY <1>2, <1>5, <1>6
<1>7. CASE \E v \in Values : NewPage(t, [k \in 1 .. Parts |-> v])
  <2>1. PICK d \in Page : NewPage(t, d)
    BY <1>4, <1>7
  <2> PICK p : p = next_page_id
    OBVIOUS
  <2>2. Changed(p, d) /\ next_page_id' = p + 1 /\ p <= MaxPageId
    BY <1>1, <2>1, NewPageWrites
  <2>3. NextId({p})
    BY <1>1, <2>2, FileAssumption DEF NextId
  <2> QED BY <1>3, <2>2, <2>3
<1>8. CASE NewPageNoRoom(t)
  BY <1>1, <1>2, <1>8, NewPageNoRoomWrites
<1>9. CASE \E v \in Values : WriteFrame(t, [k \in 1 .. Parts |-> v])
  <2>1. PICK d \in Page : WriteFrame(t, d)
    BY <1>4, <1>9
  <2> PICK p : p = held[t].page
    OBVIOUS
  <2>2. Changed(p, d) /\ next_page_id' = next_page_id
    BY <1>1, <2>1, WriteFrameWrites
  <2>3. NextId({p})
    BY <1>1, <2>2 DEF NextId
  <2> QED BY <1>3, <2>2, <2>3
<1>10. CASE MarkDirty(t) \/ Release(t) \/ Pin(t) \/ Unpin(t)
  BY <1>1, <1>2, <1>10, FrameUseWrites
<1>11. CASE FlushOK(t) \/ FlushWriteFails(t) \/ FlushSyncFails(t)
  BY <1>1, <1>2, <1>11, FlushWrites
<1> QED
  BY <1>6, <1>7, <1>8, <1>9, <1>10, <1>11 DEF UsesPool

LEMMA StoredInit == Init => StoredInv
<1> SUFFICES ASSUME Init PROVE FileInv
  BY InitInv, HeldInit DEF StoredInv
<1>1. file = EmptyFile /\ disk = EmptyFile /\ next_page_id = FirstNewId(EmptyFile)
  BY DEF Init
<1>2. EmptyFile \in FileState /\ EmptyFile.size = 0 /\ \A q \in PageIds : EmptyFile.data[q] = ZeroPage
  BY EmptyFileType DEF EmptyFile
<1>3. ASSUME NEW q \in PageIds, NEW k \in 1 .. Parts PROVE ~Covered(EmptyFile, q, k)
  BY <1>2, OffsetIsNat DEF Covered
<1>4. 1 \in 1 .. Parts /\ MaxPageId \in Nat /\ FirstDataPage \in 0 .. (MaxPageId + 1)
  BY FileAssumption, PoolAssumption
<1>5. next_page_id = FirstDataPage
  <2>1. {q \in PageIds : Covered(EmptyFile, q, 1)} = {}
    BY <1>3, <1>4
  <2>2. PageCount(EmptyFile) = 0
    BY <2>1, FS_EmptySet DEF PageCount
  <2> QED BY <1>1, <1>4, <2>2 DEF FirstNewId
<1>6. ZeroBeyond(EmptyFile)
  BY <1>2 DEF ZeroBeyond, ZeroPage
<1>7. IssuedStored
  <2>1. \A p \in PageIds : ~(FirstDataPage <= p /\ p < next_page_id)
    BY <1>4, <1>5 DEF PageIds
  <2> QED BY <2>1 DEF IssuedStored
<1> QED
  BY <1>1, <1>2, <1>3, <1>4, <1>5, <1>6, <1>7 DEF FileInv

LEMMA StoredNext ==
  ASSUME OneCaller, StoredInv, [Next]_vars
  PROVE  StoredInv'
<1>1. PoolInv' /\ HeldInv'
  BY NextInv, HeldNext DEF StoredInv
<1>2. file' \in FileState
  BY <1>1 DEF PoolInv, TypeOK
<1>3. ASSUME NEW t \in Threads, UsesPool(t) PROVE FileInv'
  <2>1. PICK W \in SUBSET PageIds :
          WritesBack(W) /\ NextId(W) /\ disk' \in {disk, file'} /\ \A p \in W : Newer(p)'
    BY <1>3, UsesPoolWrites
  <2> QED BY <1>2, <2>1, FileInvStep DEF StoredInv
<1>4. CASE CloseAndOpen \/ KillAndOpen \/ PowerLossAndOpen
  BY <1>1, <1>4, FileInvRestart DEF StoredInv
<1>5. CASE UNCHANGED vars
  <2>1. UNCHANGED <<file, disk, next_page_id>>
    BY <1>5 DEF vars
  <2>2. \A q : Newer(q)' <=> Newer(q)
    BY <1>5 DEF vars, Newer, BeingWritten, Cached
  <2>3. \A q \in PageIds, k \in 1 .. Parts :
          (Covered(file, q, k)' <=> Covered(file, q, k)) /\ (Covered(disk, q, k)' <=> Covered(disk, q, k))
    BY <2>1 DEF Covered
  <2>4. \A q \in PageIds : Covered(file, q, 1)' <=> Covered(file, q, 1)
    BY <2>1 DEF Covered
  <2>5. IssuedStored' /\ (\A p \in PageIds : Covered(file, p, 1) => p < next_page_id)'
    BY <2>1, <2>2, <2>4 DEF StoredInv, FileInv, IssuedStored
  <2>6. ZeroBeyond(file)' /\ ZeroBeyond(disk)'
    BY <2>1, <2>3 DEF StoredInv, FileInv, ZeroBeyond
  <2> QED BY <1>1, <2>1, <2>5, <2>6 DEF StoredInv, FileInv
<1> QED
  BY <1>1, <1>3, <1>4, <1>5 DEF Next, StoredInv
-----------------------------------------------------------------------------
(* The frames that need not be written *)

LEMMA NoPageEnters ==
  ASSUME PoolInv, NEW t \in Threads, UsesPool(t),
         \A p \in PageIds : ~GetPageMiss(t, p), \A d : ~NewPage(t, d)
  PROVE  Cached' \subseteq Cached
<1>1. ASSUME page_table' = page_table PROVE Cached' \subseteq Cached
  BY <1>1 DEF Cached
<1>2. ASSUME NEW s \in Room, page_table' = s.page_table PROVE Cached' \subseteq Cached
  <2>1. \A p \in PageIds : s.page_table[p] # NoFrame => p \in Cached
    BY RoomConsistent
  <2> QED BY <1>2, <2>1 DEF Cached
<1>3. ASSUME NEW p \in PageIds, GetPage(t, p) PROVE Cached' \subseteq Cached
  <2>1. CASE GetPageHit(t, p) \/ GetPageNoRoom(t, p)
    BY <1>1, <2>1 DEF GetPageHit, GetPageNoRoom, EvictWriteFails, NoFrameFree
  <2>2. CASE GetPageReadFails(t, p)
    BY <1>2, <2>2 DEF GetPageReadFails
  <2> QED BY <1>3, <2>1, <2>2 DEF GetPage
<1>4. CASE NewPageNoRoom(t)
  BY <1>1, <1>4 DEF NewPageNoRoom, EvictWriteFails, NoFrameFree
<1>5. ASSUME NEW d, WriteFrame(t, d) PROVE Cached' \subseteq Cached
  BY <1>1, <1>5 DEF WriteFrame
<1>6. CASE MarkDirty(t) \/ Release(t) \/ Pin(t) \/ Unpin(t)
  BY <1>1, <1>6 DEF MarkDirty, Release, Pin, Unpin
<1>7. CASE FlushOK(t) \/ FlushWriteFails(t) \/ FlushSyncFails(t)
  BY <1>1, <1>7 DEF FlushOK, FlushWriteFails, FlushSyncFails
<1> QED
  BY <1>3, <1>4, <1>5, <1>6, <1>7 DEF UsesPool

(* A page that enters the table is either dirty or just as the file has it. *)
LEMMA EnteredMatches ==
  ASSUME PoolInv, FileInv', NEW t \in Threads, UsesPool(t),
         NEW q \in PageIds, q \in Cached', q \notin Cached, ~CutShort(file', q)
  PROVE  Matches(q)'
<1>1. ASSUME NEW p \in PageIds, GetPageMiss(t, p) PROVE Matches(q)'
  <2>1. PICK s \in Room, f \in Frames :
          /\ frames' = [s.frames EXCEPT ![f] =
                          [page_id |-> p, data |-> Loaded(s, f, p), dirty |-> FALSE, pin |-> 0]]
          /\ page_table' = [s.page_table EXCEPT ![p] = f]
          /\ file' = s.file
    BY <1>1 DEF GetPageMiss
  <2>2. PoolType(s) /\ \A r \in PageIds : s.page_table[r] # NoFrame => r \in Cached
    BY RoomConsistent
  <2>3. page_table'[p] = f /\ frames'[f].data = Loaded(s, f, p)
        /\ \A r \in PageIds \ {p} : page_table'[r] = s.page_table[r]
    BY <2>1, <2>2 DEF PoolType
  <2>4. q = p
    BY <2>2, <2>3 DEF Cached
  <2>5. s.file.data[p] \in Page
    BY <2>2 DEF PoolType, FileState
  <2>6. s.file.data[p] = [k \in 1 .. Parts |-> s.file.data[p][k]]
    BY <2>5 DEF Page
  <2>7. CASE Covered(s.file, p, 1)
    <3>1. \A k \in 1 .. Parts : Covered(s.file, p, k)
      <4>1. p * Parts \in Nat /\ s.file.size \in Nat /\ Covered(s.file, p, Parts)
        BY <2>1, <2>2, <2>4, <2>7, OffsetIsNat DEF PoolType, FileState, CutShort
      <4> QED BY <4>1, FileAssumption DEF Covered
    <3>2. Read(s.file, p, s.frames[f].data) = [k \in 1 .. Parts |-> s.file.data[p][k]]
      BY <3>1 DEF Read
    <3> QED BY <2>1, <2>3, <2>4, <2>6, <2>7, <3>2 DEF Loaded, Matches
  <2>8. CASE ~Covered(s.file, p, 1)
    <3>1. \A k \in 1 .. Parts : ~Covered(s.file, p, k)
      <4>1. p * Parts \in Nat /\ s.file.size \in Nat
        BY <2>2, OffsetIsNat DEF PoolType, FileState
      <4> QED BY <2>8, <4>1, FileAssumption DEF Covered
    <3>2. ZeroBeyond(s.file)
      BY <2>1 DEF FileInv, ZeroBeyond, Covered
    <3>3. \A k \in 1 .. Parts : s.file.data[p][k] = Zero
      BY <3>1, <3>2 DEF ZeroBeyond
    <3>4. s.file.data[p] = ZeroPage
      BY <2>6, <3>3 DEF ZeroPage
    <3> QED BY <2>1, <2>3, <2>4, <2>8, <3>4 DEF Loaded, Matches
  <2> QED BY <2>7, <2>8
<1>2. ASSUME NEW d, NewPage(t, d) PROVE Matches(q)'
  <2> PICK p : p = next_page_id
    OBVIOUS
  <2>1. PICK s \in Room, f \in Frames :
          /\ frames' = [s.frames EXCEPT ![f] =
                          [page_id |-> p, data |-> d, dirty |-> TRUE, pin |-> 0]]
          /\ page_table' = [s.page_table EXCEPT ![p] = f]
    BY <1>2 DEF NewPage
  <2>2. PoolType(s) /\ \A r \in PageIds : s.page_table[r] # NoFrame => r \in Cached
    BY RoomConsistent
  <2>3. frames'[f].dirty
    BY <2>1, <2>2 DEF PoolType
  <2>4. q = p
    BY <2>1, <2>2 DEF Cached, PoolType
  <2>5. page_table'[q] = f
    BY <2>1, <2>2, <2>4 DEF PoolType
  <2>6. Newer(q)'
    BY <2>3, <2>5 DEF Newer
  <2> QED BY <2>6 DEF Matches
<1> QED
  BY <1>1, <1>2, NoPageEnters DEF Cached

LEMMA CleanFramesNext ==
  ASSUME OneCaller, Parts = 1, StoredInv, CleanFramesMatchFile, [Next]_vars
  PROVE  CleanFramesMatchFile'
<1>1. StoredInv' /\ PoolInv /\ FileInv' /\ \A q \in Cached : Matches(q)
  BY StoredNext DEF StoredInv, CleanFramesMatchFile, Matches
<1>2. SUFFICES ASSUME NEW q \in PageIds, q \in Cached' PROVE Matches(q)'
  BY <1>1 DEF CleanFramesMatchFile, Matches, Cached
<1>3. ASSUME NEW t \in Threads, UsesPool(t) PROVE Matches(q)'
  <2>1. CASE q \in Cached
    <3>1. PICK W \in SUBSET PageIds : WritesBack(W) /\ \A p \in W : Newer(p)'
      BY <1>3, UsesPoolWrites
    <3> QED BY <1>1, <1>2, <2>1, <3>1, WritesBackMatch
  <2>2. CASE q \notin Cached
    <3>1. ~CutShort(file', q)
      BY DEF CutShort
    <3> QED BY <1>1, <1>2, <1>3, <2>2, <3>1, EnteredMatches
  <2> QED BY <2>1, <2>2
<1>4. CASE CloseAndOpen \/ KillAndOpen \/ PowerLossAndOpen
  BY <1>2, <1>4 DEF CloseAndOpen, KillAndOpen, PowerLossAndOpen, Reopened, EmptyTable, Cached
<1>5. CASE UNCHANGED vars
  <2>1. q \in Cached
    BY <1>2, <1>5 DEF vars, Cached
  <2>2. Newer(q)' <=> Newer(q)
    BY <1>5 DEF vars, Newer, BeingWritten, Cached
  <2> QED BY <1>1, <1>5, <2>1, <2>2 DEF vars, Matches
<1> QED
  BY <1>3, <1>4, <1>5 DEF Next

LEMMA CleanFramesInit == Init => CleanFramesMatchFile
BY DEF Init, Cached, EmptyTable, CleanFramesMatchFile

(* With one caller at a time, and transfers that move a page whole or not at all,
   a frame that is not dirty holds what the file holds: Evict, which drops it
   without a write (buffer_pool.cpp:94), loses nothing. *)
THEOREM CleanFramesNeedNoWrite ==
  ASSUME OneCaller, Parts = 1
  PROVE  Spec => []CleanFramesMatchFile
<1>1. Init => StoredInv /\ CleanFramesMatchFile
  BY StoredInit, CleanFramesInit
<1>2. StoredInv /\ CleanFramesMatchFile /\ [Next]_vars => StoredInv' /\ CleanFramesMatchFile'
  BY StoredNext, CleanFramesNext
<1> QED
  BY <1>1, <1>2, PTL DEF Spec
=============================================================================
