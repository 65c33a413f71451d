--------------------------- MODULE PageStoreProofs ---------------------------
(***************************************************************************)
(* Proofs that the buffer pool implements PageStore, for every number of   *)
(* frames, pages, page contents and parts of a page, when one caller at a  *)
(* time uses it: no eviction, load, failed call or orderly restart changes *)
(* what a page holds, only a kill or a power loss does, and neither loses  *)
(* what a flush that reported success has seen.                            *)
(***************************************************************************)
EXTENDS MCBufferPool, BufferPoolProofs

-----------------------------------------------------------------------------
(* Contents *)

(* What is left as it was is one of the contents that could survive. *)
LEMMA MixesKeep ==
  ASSUME NEW X \in SUBSET (Page \cup {Torn})
  PROVE  X \subseteq Store!Mixes(X)
<1>1. SUFFICES ASSUME ~ \E d \in X : X = {d}, NEW c \in X, c # Torn
               PROVE c \in Store!Mixes(X)
  BY DEF Store!Mixes
<1>2. c \in Page /\ \A k \in 1 .. Parts : \E e \in X \ {Torn} : c[k] = e[k]
  BY <1>1
<1> QED
  BY <1>1, <1>2 DEF Store!Mixes, Store!Page, Page

(* A page put together from the parts of two is a mix of them. *)
LEMMA MixOfTwo ==
  ASSUME NEW X \in SUBSET (Page \cup {Torn}), NEW a \in X, NEW b \in X,
         a \in Page, b \in Page, NEW c \in Page,
         \A k \in 1 .. Parts : c[k] \in {a[k], b[k]}
  PROVE  c \in Store!Mixes(X)
<1>1. CASE \E d \in X : X = {d}
  <2>1. PICK d \in X : X = {d}
    BY <1>1
  <2>2. a \in {d} /\ b \in {d}
    BY <2>1
  <2>3. a = b
    BY <2>2
  <2>4. \A k \in 1 .. Parts : c[k] = a[k]
    BY <2>3
  <2>5. c = a
    <3>1. c = [k \in 1 .. Parts |-> c[k]] /\ a = [k \in 1 .. Parts |-> a[k]]
      BY DEF Page
    <3> QED BY <2>4, <3>1
  <2> QED BY <1>1, <2>5 DEF Store!Mixes
<1>2. CASE ~ \E d \in X : X = {d}
  <2>1. a # Torn /\ b # Torn
    BY TornAssumption
  <2>2. \A k \in 1 .. Parts : \E e \in X \ {Torn} : c[k] = e[k]
    BY <2>1
  <2> QED BY <1>2, <2>2 DEF Store!Mixes, Store!Page, Page
<1> QED
  BY <1>1, <1>2

LEMMA SurvivorsType ==
  ASSUME PoolInv, NEW q \in PageIds
  PROVE  /\ q \in Cached => frames[page_table[q]].data \in Page
         /\ file.data[q] \in Page /\ disk.data[q] \in Page
         /\ storeContent[q] \in Page \cup {Torn}
         /\ storeSurvivors[q] \in SUBSET (Page \cup {Torn})
<1>1. q \in Cached => frames[page_table[q]].data \in Page
  BY DEF PoolInv, TypeOK, Cached, Frame
<1>2. file.data[q] \in Page /\ disk.data[q] \in Page
  BY DEF PoolInv, TypeOK, FileState
<1>3. Content(file, q) \in Page \cup {Torn} /\ Content(disk, q) \in Page \cup {Torn}
  BY <1>2 DEF Content
<1>4. storeContent[q] \in Page \cup {Torn}
  BY <1>1, <1>2 DEF storeContent
<1> QED
  BY <1>1, <1>2, <1>3, <1>4 DEF storeSurvivors

(* What the content of a page is, unless it is torn. *)
LEMMA Readable ==
  ASSUME PoolInv, NEW q \in PageIds
  PROVE  storeContent[q] # Torn <=>
           \/ Newer(q)
           \/ ~CutShort(file, q) /\ (q \in Cached => frames[page_table[q]].data = file.data[q])
<1>1. /\ q \in Cached => frames[page_table[q]].data \in Page
      /\ file.data[q] \in Page
  BY SurvivorsType
<1>2. \A d \in Page : d # Torn
  BY TornAssumption
<1> QED
  BY <1>1, <1>2 DEF storeContent, ReadShort

(* The content of a page that is not torn: what its frame holds, and what the file
   holds if the frame is not newer. *)
LEMMA ReadableContent ==
  ASSUME NEW q \in PageIds,
         \/ Newer(q)
         \/ ~CutShort(file, q) /\ (q \in Cached => frames[page_table[q]].data = file.data[q])
  PROVE  /\ q \in Cached => storeContent[q] = frames[page_table[q]].data
         /\ ~Newer(q) => storeContent[q] = file.data[q]
BY DEF storeContent, ReadShort, Newer

-----------------------------------------------------------------------------
(* One page in a step that writes back some of the pages that are newer in their
   frames than in the file. *)

LoadedRight(q) ==
  q \notin Cached /\ q \in Cached' /\ ~CutShort(file', q) => Matches(q)'

LEMMA SettlesPage ==
  ASSUME StoredInv, PoolInv', disk' = disk, NEW S, NEW R,
         \A r \in S \cup R : r \in PageIds /\ Newer(r),
         WroteBack(file, file', S, R), NEW q \in PageIds, Keeps(S, q), LoadedRight(q)
  PROVE  Store!Settles(q)
<1> DEFINE X == storeSurvivors[q]
           fr == frames[page_table[q]].data
<1>1. /\ file.size \in Nat /\ file'.size \in Nat /\ disk.size \in Nat
      /\ q * Parts + Parts \in Nat
      /\ disk.size <= file.size /\ file.size <= file'.size
      /\ file'.data[q] \in Page
  BY OffsetIsNat, FileAssumption
     DEF StoredInv, PoolInv, FileInv, TypeOK, FileState, WroteBack
<1>2. X \in SUBSET (Page \cup {Torn}) /\ X \subseteq Store!Mixes(X)
  BY SurvivorsType, MixesKeep DEF StoredInv
<1>3. Newer(q) => storeContent[q] = fr
  BY ReadableContent DEF Newer
<1>4. \/ Newer(q)'
      \/ /\ ~CutShort(file', q)
         /\ q \in Cached' => frames'[page_table'[q]].data = file'.data[q]
      => /\ q \in Cached' => storeContent'[q] = frames'[page_table'[q]].data
         /\ ~Newer(q)' => storeContent'[q] = file'.data[q]
  BY DEF storeContent, ReadShort, Newer, CutShort, Covered
<1>5. X = {storeContent[q], file.data[q], disk.data[q], Content(file, q), Content(disk, q)}
            \cup (IF MayBeCutShort(q) THEN {Torn} ELSE {})
  BY DEF storeSurvivors
<1>6. storeSurvivors'[q] =
        {storeContent'[q], file'.data[q], disk.data[q], Content(file', q), Content(disk, q)}
            \cup (IF MayBeCutShort(q)' THEN {Torn} ELSE {})
  BY DEF storeSurvivors, Content, CutShort, Covered
<1>7. MayBeCutShort(q)' => Torn \in X
  BY <1>5 DEF MayBeCutShort, Keeps, Covered
<1> HIDE DEF X
<1>8. SUFFICES ASSUME storeContent[q] # Torn
               PROVE /\ storeContent'[q] = storeContent[q]
                     /\ storeSurvivors'[q] \subseteq Store!Mixes(X)
  BY DEF Store!Settles, X
<1>9. q \in S => file'.data[q] = fr /\ ~CutShort(file', q)
  BY DEF WroteBack, CutShort
<1>10. q \notin S \cup R => /\ file'.data[q] = file.data[q]
                            /\ CutShort(file', q) => CutShort(file, q)
  BY DEF WroteBack
<1>11. storeContent'[q] = storeContent[q]
  <2>1. CASE Newer(q)'
    <3>1. q \in Cached /\ q \in Cached' /\ Newer(q)
      BY <2>1 DEF Keeps, Newer
    <3> QED BY <1>3, <1>4, <2>1, <3>1 DEF Keeps
  <2>2. CASE ~Newer(q)' /\ Newer(q)
    <3>1. q \in S /\ q \in Cached
      BY <2>2 DEF Keeps, Newer
    <3>2. q \in Cached' => frames'[page_table'[q]].data = file'.data[q]
      BY <1>9, <3>1 DEF Keeps
    <3> QED BY <1>3, <1>4, <1>9, <2>2, <3>1, <3>2
  <2>3. CASE ~Newer(q)' /\ ~Newer(q)
    <3>1. q \notin S \cup R
      BY <2>3
    <3>2. /\ ~CutShort(file, q)
          /\ q \in Cached => frames[page_table[q]].data = file.data[q]
      BY <1>8, <2>3, Readable DEF StoredInv
    <3>3. storeContent[q] = file.data[q]
      BY <2>3, <3>2, ReadableContent
    <3>4. ~CutShort(file', q) /\ file'.data[q] = file.data[q]
      BY <1>10, <3>1, <3>2
    <3>5. q \in Cached' => frames'[page_table'[q]].data = file'.data[q]
      <4>1. CASE q \in Cached
        BY <3>2, <3>4, <4>1 DEF Keeps
      <4>2. CASE q \notin Cached
        BY <2>3, <3>4, <4>2 DEF LoadedRight, Matches
      <4> QED BY <4>1, <4>2
    <3> QED BY <1>4, <2>3, <3>3, <3>4, <3>5
  <2> QED BY <2>1, <2>2, <2>3
<1>12. file'.data[q] \in Store!Mixes(X)
  <2>1. CASE q \in S \cup R
    <3>1. Newer(q) /\ fr \in Page /\ file.data[q] \in Page
      BY <2>1, SurvivorsType DEF StoredInv, Newer
    <3>2. fr \in X /\ file.data[q] \in X
      BY <1>3, <1>5, <3>1
    <3>3. \A k \in 1 .. Parts : file'.data[q][k] \in {file.data[q][k], fr[k]}
      BY <2>1 DEF WroteBack
    <3> QED BY <1>1, <1>2, <3>1, <3>2, <3>3, MixOfTwo
  <2>2. CASE q \notin S \cup R
    BY <1>2, <1>5, <1>10, <2>2
  <2> QED BY <2>1, <2>2
<1>13. CutShort(file', q) => Torn \in X
  <2>1. SUFFICES ASSUME CutShort(file', q) PROVE Torn \in X
    OBVIOUS
  <2>2. CASE q \in R
    <3>1. ~Covered(file', q, Parts)
      BY <2>1 DEF CutShort
    <3>2. ~Covered(disk, q, Parts)
      BY <1>1, <3>1 DEF Covered
    <3>3. MayBeCutShort(q)
      BY <2>2, <3>2 DEF MayBeCutShort
    <3> QED BY <1>5, <3>3
  <2>3. CASE q \notin S \cup R
    <3>1. Content(file, q) = Torn
      BY <1>10, <2>1, <2>3 DEF Content
    <3> QED BY <1>5, <3>1
  <2> QED BY <1>9, <2>1, <2>2, <2>3
<1>14. Content(file', q) \in Store!Mixes(X)
  BY <1>2, <1>12, <1>13 DEF Content
<1>15. {storeContent[q], disk.data[q], Content(disk, q)} \subseteq X
  BY <1>5
<1> QED
  BY <1>2, <1>6, <1>7, <1>11, <1>12, <1>14, <1>15

-----------------------------------------------------------------------------
(* The calls *)

(* A call that is not a flush returning OK. *)
PlainCall ==
  ret # Returned("FlushAllDirty", "OK") /\ ret.op # "Close" /\ ret.op # "Crash"

(* No caller starts to write a page. *)
NoneStarts == \A p \in PageIds : BeingWritten(p)' => BeingWritten(p)

(* The pages that a step does not change settle. *)
LEMMA OthersSettle ==
  ASSUME StoredInv, PoolInv', disk' = disk, NEW W \in SUBSET PageIds, WritesBack(W),
         NEW q \in PageIds \ W, LoadedRight(q)
  PROVE  Store!Settles(q)
<1>1. PICK S \in SUBSET Cached, R \in SUBSET Cached :
        /\ \A r \in S \cup R : Newer(r)
        /\ WroteBack(file, file', S, R)
        /\ Keeps(S, q)
  BY DEF WritesBack
<1>2. \A r \in S \cup R : r \in PageIds /\ Newer(r)
  BY <1>1 DEF Cached
<1> QED
  BY <1>1, <1>2, SettlesPage

(* The calls that write pages back and change no content. *)
LEMMA SettleStep ==
  ASSUME StoredInv, PoolInv', WritesBack({}), UNCHANGED <<disk, next_page_id>>, PlainCall',
         NoneStarts, \A q \in PageIds : LoadedRight(q)
  PROVE  Store!Next
<1>1. \A q \in PageIds : Store!Settles(q)
  BY OthersSettle
<1>2. storeEvent' = "call"
  BY DEF PlainCall, storeEvent
<1>3. storeWriting' \subseteq storeWriting
  BY DEF storeWriting, NoneStarts
<1>4. Store!Settle
  BY <1>1, <1>2, <1>3 DEF Store!Settle
<1> QED
  BY <1>4 DEF Store!Next

(* The page that is written may survive as it was, as it is now, or torn. *)
LEMMA ChangedPage ==
  ASSUME PoolInv, NEW p \in PageIds, NEW d \in Page,
         storeContent'[p] = d, file'.data[p] = file.data[p], disk' = disk
  PROVE  storeSurvivors'[p] \subseteq Store!Mixes(storeSurvivors[p] \cup {d, Torn})
<1> DEFINE X == storeSurvivors[p] \cup {d, Torn}
<1>1. X \in SUBSET (Page \cup {Torn})
  BY SurvivorsType
<1>2. {file.data[p], disk.data[p], Content(disk, p)} \subseteq X
  BY DEF storeSurvivors
<1>3. Content(file', p) \in {file.data[p], Torn}
  BY DEF Content
<1>4. storeSurvivors'[p] =
        {storeContent'[p], file'.data[p], disk.data[p], Content(file', p), Content(disk, p)}
            \cup (IF MayBeCutShort(p)' THEN {Torn} ELSE {})
  BY DEF storeSurvivors, Content, CutShort, Covered
<1>5. storeSurvivors'[p] \subseteq X
  BY <1>2, <1>3, <1>4
<1> QED
  BY <1>1, <1>5, MixesKeep

(* A step that changes the content of page p, at least. *)
LEMMA ChangeStep ==
  ASSUME StoredInv, PoolInv', NEW p, NEW d \in Page, Changed(p, d),
         \A q \in PageIds : LoadedRight(q)
  PROVE  p \in PageIds /\ Store!Changes(p, d)
<1>1. /\ p \in PageIds /\ WritesBack({p}) /\ disk' = disk /\ file'.data[p] = file.data[p]
      /\ Newer(p)' /\ frames'[page_table'[p]].data = d
  BY DEF Changed
<1>2. storeContent'[p] = d
  <2>1. Newer(p)' => storeContent'[p] = frames'[page_table'[p]].data
    BY <1>1 DEF storeContent, ReadShort, Newer
  <2> QED BY <1>1, <2>1
<1>3. storeSurvivors'[p] \subseteq Store!Mixes(storeSurvivors[p] \cup {d, Torn})
  BY <1>1, <1>2, ChangedPage DEF StoredInv
<1>4. \A q \in PageIds \ {p} : Store!Settles(q)
  BY <1>1, OthersSettle
<1> QED
  BY <1>1, <1>2, <1>3, <1>4 DEF Store!Changes

LEMMA NewPageStep ==
  ASSUME OneCaller, StoredInv, PoolInv', NEW t \in Threads, NEW d \in Page, NewPage(t, d),
         \A q \in PageIds : LoadedRight(q)
  PROVE  Store!Next
<1> PICK p : p = next_page_id
  OBVIOUS
<1>1. Changed(p, d) /\ next_page_id' = p + 1 /\ p <= MaxPageId /\ p \in Nat
  BY NewPageWrites DEF StoredInv, PoolInv, TypeOK
<1>2. p \in PageIds /\ Store!Changes(p, d)
  BY <1>1, ChangeStep
<1>3. p \notin 0 .. (next_page_id - 1)
  BY <1>1
<1>4. (0 .. (next_page_id - 1))' = (0 .. (next_page_id - 1)) \cup {p}
  <2>1. 0 .. (p + 1 - 1) = (0 .. (p - 1)) \cup {p}
    BY <1>1
  <2> QED BY <1>1, <2>1
<1>5. storeEvent' = "call"
  BY DEF storeEvent, NewPage, Returned
<1>6. storeWriting' = storeWriting
  BY DEF storeWriting, BeingWritten, NewPage
<1>7. Store!Alloc(p, d)
  BY <1>2, <1>3, <1>4, <1>5, <1>6 DEF Store!Alloc
<1> QED
  BY <1>2, <1>7 DEF Store!Next, Store!Page, Page

LEMMA WriteFrameStep ==
  ASSUME OneCaller, StoredInv, PoolInv', NEW t \in Threads, NEW d \in Page, WriteFrame(t, d),
         \A q \in PageIds : LoadedRight(q)
  PROVE  Store!Next
<1> PICK p : p = held[t].page
  OBVIOUS
<1>1. p \in Cached /\ Changed(p, d) /\ next_page_id' = next_page_id
  BY WriteFrameWrites DEF StoredInv
<1>2. p \in PageIds /\ Store!Changes(p, d)
  BY <1>1, ChangeStep
<1>3. p \in 0 .. (next_page_id - 1)
  BY <1>1 DEF StoredInv, PoolInv, TypeOK, IdsIssued, Cached, PageIds
<1>4. storeEvent' = "call"
  BY DEF storeEvent, WriteFrame, NoCall, Returned
<1>5. p \notin storeWriting /\ storeWriting' = storeWriting \cup {p}
  <2>1. /\ \A u \in Threads : u = t
        /\ ~held[t].wrote /\ held' = [held EXCEPT ![t].wrote = TRUE]
    BY DEF OneCaller, WriteFrame
  <2>2. held'[t].wrote /\ held'[t].page = p
    BY <2>1 DEF StoredInv, PoolInv, TypeOK, Hold
  <2>3. \A q : ~BeingWritten(q) /\ (BeingWritten(q)' <=> q = p)
    BY <2>1, <2>2 DEF BeingWritten
  <2> QED BY <1>2, <2>3 DEF storeWriting
<1>6. Store!Write(p, d)
  BY <1>1, <1>2, <1>3, <1>4, <1>5 DEF Store!Write
<1> QED
  BY <1>2, <1>6 DEF Store!Next, Store!Page, Page

(* Every dirty page has its content in the file when all have been written. *)
LEMMA AllWritten ==
  ASSUME PoolInv, \A q : Newer(q) <=> q \in DirtyPages,
         NEW q \in PageIds, storeContent[q] # Torn
  PROVE  /\ WrittenFile(DirtyPages).data[q] = storeContent[q]
         /\ ~CutShort(WrittenFile(DirtyPages), q)
<1> DEFINE fs == WrittenFile(DirtyPages)
<1>1. WroteBack(file, fs, DirtyPages, {})
  BY WrittenFileEffect DEF DirtyPages
<1> HIDE DEF fs
<1>2. CASE q \in DirtyPages
  <2>1. storeContent[q] = frames[page_table[q]].data
    BY <1>2, ReadableContent DEF Newer
  <2>2. fs.data[q] = storeContent[q] /\ ~CutShort(fs, q)
    BY <1>1, <1>2, <2>1 DEF WroteBack, CutShort
  <2> QED BY <2>2 DEF fs
<1>3. CASE q \notin DirtyPages
  <2>1. ~CutShort(file, q) /\ storeContent[q] = file.data[q]
    BY <1>3, Readable, ReadableContent
  <2>2. fs.data[q] = file.data[q] /\ (CutShort(fs, q) => CutShort(file, q))
    BY <1>1, <1>3 DEF WroteBack
  <2> QED BY <2>1, <2>2 DEF fs
<1> QED
  BY <1>2, <1>3

LEMMA FlushStep ==
  ASSUME OneCaller, StoredInv, PoolInv', NEW t \in Threads,
         FlushOK(t) \/ FlushWriteFails(t) \/ FlushSyncFails(t),
         \A q \in PageIds : LoadedRight(q)
  PROVE  Store!Next
<1>1. /\ WritesBack({}) /\ UNCHANGED next_page_id
      /\ FlushOK(t) => disk' = file' /\ \A q \in PageIds : ~Newer(q)'
      /\ ~FlushOK(t) => disk' = disk
  BY FlushWrites DEF StoredInv
<1>2. held' = held
  BY DEF FlushOK, FlushWriteFails, FlushSyncFails
<1>3. \A q : BeingWritten(q)' <=> BeingWritten(q)
  BY <1>2 DEF BeingWritten
<1>4. CASE FlushOK(t)
  <2>1. /\ file' = WrittenFile(DirtyPages) /\ disk' = file' /\ page_table' = page_table
        /\ ret' = Returned("FlushAllDirty", "OK") /\ \A q \in PageIds : ~Newer(q)'
    BY <1>1, <1>4 DEF FlushOK
  <2>2. \A q : Newer(q) <=> q \in DirtyPages
    BY <1>4, IdleNewer DEF FlushOK
  <2>3. ASSUME NEW q \in PageIds, storeContent[q] # Torn
        PROVE storeContent'[q] = storeContent[q] /\ storeSurvivors'[q] = {storeContent[q]}
    <3>1. ~Newer(q)'
      BY <2>1
    <3>2. file'.data[q] = storeContent[q] /\ ~CutShort(file', q)
      BY <2>1, <2>2, <2>3, AllWritten DEF StoredInv
    <3>3. Content(file', q) = storeContent[q]
      BY <3>2 DEF Content
    <3>4. q \in Cached' => frames'[page_table'[q]].data = storeContent[q]
      <4>1. Cached' = Cached
        BY <2>1 DEF Cached
      <4>2. q \in Cached => storeContent[q] = frames[page_table[q]].data
        BY <2>3, Readable, ReadableContent DEF StoredInv
      <4>3. q \in Cached /\ q \in Cached' =>
              frames'[page_table'[q]].data = frames[page_table[q]].data
        BY <1>1 DEF WritesBack, Keeps
      <4> QED BY <4>1, <4>2, <4>3
    <3>5. storeContent'[q] = storeContent[q]
      BY <3>1, <3>2, <3>4 DEF storeContent, ReadShort, CutShort, Covered
    <3>6. storeSurvivors'[q] =
            {storeContent'[q], file'.data[q], disk'.data[q], Content(file', q), Content(disk', q)}
              \cup (IF MayBeCutShort(q)' THEN {Torn} ELSE {})
      BY DEF storeSurvivors, Content, CutShort, Covered
    <3>7. ~MayBeCutShort(q)'
      BY <3>1 DEF MayBeCutShort
    <3> QED BY <2>1, <3>2, <3>3, <3>5, <3>6, <3>7
  <2>4. UNCHANGED (0 .. (next_page_id - 1)) /\ storeWriting' = storeWriting
    BY <1>1, <1>3 DEF storeWriting
  <2>5. storeEvent' = "sync"
    BY <2>1 DEF storeEvent, Returned
  <2>6. Store!Sync
    BY <2>3, <2>4, <2>5 DEF Store!Sync, Store!Hardens
  <2> QED BY <2>6 DEF Store!Next
<1>5. CASE ~FlushOK(t)
  <2>1. PlainCall'
    BY <1>5 DEF FlushWriteFails, FlushSyncFails, Returned, PlainCall
  <2> QED BY <1>1, <1>3, <1>5, <2>1, SettleStep DEF NoneStarts
<1> QED
  BY <1>4, <1>5

LEMMA UsesPoolStore ==
  ASSUME OneCaller, StoredInv, NEW t \in Threads, UsesPool(t)
  PROVE  Store!Next
<1>1. PoolInv' /\ PoolInv /\ HeldInv /\ FileInv' /\ held \in [Threads -> Hold]
  BY StoredNext DEF StoredInv, Next, PoolInv, TypeOK
<1>2. ASSUME NEW v PROVE v \in Values => [k \in 1 .. Parts |-> v] \in Page
  BY DEF Page
<1>3. \A q \in PageIds : LoadedRight(q)
  BY <1>1, EnteredMatches DEF LoadedRight
<1>4. ASSUME \A u \in Threads : held'[u].wrote => held'[u] = held[u] PROVE NoneStarts
  BY <1>4 DEF NoneStarts, BeingWritten
<1>5. ASSUME held' = held PROVE NoneStarts
  BY <1>4, <1>5
<1>6. ASSUME NEW p \in PageIds, GetPage(t, p) PROVE Store!Next
  <2>1. PlainCall'
    BY <1>6 DEF GetPage, GetPageHit, GetPageMiss, GetPageReadFails, GetPageNoRoom,
                EvictWriteFails, NoFrameFree, Returned, PlainCall
  <2>2. CASE held' = held
    BY <1>1, <1>3, <1>5, <1>6, <2>1, <2>2, GetPageWrites, SettleStep
  <2>3. CASE \E f : held' = [held EXCEPT ![t] = [page |-> p, frame |-> f, wrote |-> FALSE]]
    <3>1. \A u \in Threads : held'[u].wrote => held'[u] = held[u]
      BY <1>1, <2>3
    <3> QED BY <1>1, <1>3, <1>4, <1>6, <2>1, <3>1, GetPageWrites, SettleStep
  <2> QED BY <1>6, <2>2, <2>3 DEF GetPage, GetPageHit, GetPageMiss, GetPageReadFails,
                GetPageNoRoom, EvictWriteFails, NoFrameFree
<1>7. ASSUME NEW v \in Values, NewPage(t, [k \in 1 .. Parts |-> v]) PROVE Store!Next
  BY <1>1, <1>2, <1>3, <1>7, NewPageStep
<1>8. CASE NewPageNoRoom(t)
  <2>1. PlainCall' /\ held' = held
    BY <1>8 DEF NewPageNoRoom, EvictWriteFails, NoFrameFree, Returned, PlainCall
  <2> QED BY <1>1, <1>3, <1>5, <1>8, <2>1, NewPageNoRoomWrites, SettleStep
<1>9. ASSUME NEW v \in Values, WriteFrame(t, [k \in 1 .. Parts |-> v]) PROVE Store!Next
  BY <1>1, <1>2, <1>3, <1>9, WriteFrameStep
<1>10. CASE MarkDirty(t) \/ Release(t) \/ Pin(t) \/ Unpin(t)
  <2>1. PlainCall'
    BY <1>10 DEF MarkDirty, Release, Pin, Unpin, NoCall, Returned, PlainCall
  <2>2. \A u \in Threads : held'[u].wrote => held'[u] = held[u]
    BY <1>1, <1>10 DEF MarkDirty, Release, Pin, Unpin, Idle
  <2> QED BY <1>1, <1>3, <1>4, <1>10, <2>1, <2>2, FrameUseWrites, SettleStep
<1>11. CASE FlushOK(t) \/ FlushWriteFails(t) \/ FlushSyncFails(t)
  BY <1>1, <1>3, <1>11, FlushStep
<1> QED
  BY <1>6, <1>7, <1>8, <1>9, <1>10, <1>11 DEF UsesPool

-----------------------------------------------------------------------------
(* Restarts and crashes *)

(* A new pool over the file fs, with gs on the medium. *)
LEMMA ReopenedStore ==
  ASSUME NEW fs \in FileState, NEW gs \in FileState, Reopened(fs, gs)
  PROVE  /\ file' = fs /\ disk' = gs /\ next_page_id' = FirstNewId(fs) /\ storeWriting' = {}
         /\ \A q \in PageIds :
              /\ storeContent'[q] = Content(fs, q)
              /\ storeSurvivors'[q] = {Content(fs, q), fs.data[q], gs.data[q], Content(gs, q)}
<1>1. /\ file' = fs /\ disk' = gs /\ next_page_id' = FirstNewId(fs)
      /\ Cached' = {} /\ held' = AllIdle
  BY DEF Reopened, Cached, EmptyTable
<1>2. ASSUME NEW q \in PageIds
      PROVE /\ storeContent'[q] = Content(fs, q)
            /\ storeSurvivors'[q] = {Content(fs, q), fs.data[q], gs.data[q], Content(gs, q)}
  <2>1. ~Newer(q)' /\ ~MayBeCutShort(q)'
    BY <1>1 DEF Newer, MayBeCutShort
  <2>2. storeContent'[q] = Content(fs, q)
    BY <1>1, <2>1 DEF storeContent, ReadShort, Content, CutShort, Covered
  <2>3. storeSurvivors'[q] =
          {storeContent'[q], file'.data[q], disk'.data[q], Content(file', q), Content(disk', q)}
            \cup (IF MayBeCutShort(q)' THEN {Torn} ELSE {})
    BY DEF storeSurvivors, Content, CutShort, Covered
  <2> QED BY <1>1, <2>1, <2>2, <2>3
<1>3. storeWriting' = {}
  BY <1>1 DEF storeWriting, BeingWritten, AllIdle, Idle
<1> QED
  BY <1>1, <1>2, <1>3

(* The next id of a pool opened over a file that has no page that was not issued. *)
LEMMA NextIdReopened ==
  ASSUME StoredInv, NEW fs \in FileState,
         \A q \in PageIds : Covered(fs, q, 1) => q < next_page_id
  PROVE  /\ next_page_id \in Nat /\ next_page_id <= MaxPageId + 1
         /\ FirstDataPage \in Nat /\ FirstDataPage <= next_page_id
         /\ PageCount(fs) \in Nat /\ FirstNewId(fs) \in Nat
         /\ FirstDataPage <= FirstNewId(fs) /\ PageCount(fs) <= FirstNewId(fs)
         /\ FirstNewId(fs) <= next_page_id
<1>1. PageCount(fs) \in Nat /\ FirstNewId(fs) \in Nat /\ FirstDataPage \in Nat
  BY PageCountIsNat, PoolAssumption, FileAssumption DEF FirstNewId
<1>2. next_page_id \in Nat /\ next_page_id <= MaxPageId + 1 /\ FirstDataPage <= next_page_id
  BY DEF StoredInv, FileInv, PoolInv, TypeOK
<1>3. PageCount(fs) <= FirstNewId(fs) /\ FirstDataPage <= FirstNewId(fs)
  BY <1>1 DEF FirstNewId
<1>4. CASE PageCount(fs) = 0
  BY <1>1, <1>2, <1>3, <1>4 DEF FirstNewId
<1>5. CASE PageCount(fs) # 0
  <2>1. PageCount(fs) - 1 \in PageIds
    BY <1>1, <1>5, PageCountBound, FileAssumption DEF PageIds
  <2>2. PageCount(fs) - 1 < PageCount(fs)
    BY <1>1
  <2>3. PageCount(fs) - 1 < next_page_id
    BY <2>1, <2>2, PageCountCovers
  <2> QED BY <1>1, <1>2, <1>3, <2>3 DEF FirstNewId
<1> QED
  BY <1>1, <1>2, <1>3, <1>4, <1>5

LEMMA CrashStep ==
  ASSUME StoredInv, NEW fs \in FileState, NEW gs \in FileState, Reopened(fs, gs),
         ret' = Returned("Crash", "OK"), ZeroBeyond(fs),
         \A q \in PageIds : Covered(fs, q, 1) => q < next_page_id,
         \A q \in PageIds : {Content(fs, q), fs.data[q], gs.data[q], Content(gs, q)}
                              \subseteq Store!Mixes(storeSurvivors[q])
  PROVE  Store!Next
<1>1. /\ file' = fs /\ disk' = gs /\ next_page_id' = FirstNewId(fs) /\ storeWriting' = {}
      /\ \A q \in PageIds :
           /\ storeContent'[q] = Content(fs, q)
           /\ storeSurvivors'[q] = {Content(fs, q), fs.data[q], gs.data[q], Content(gs, q)}
  BY ReopenedStore
<1>2. /\ next_page_id \in Nat /\ next_page_id <= MaxPageId + 1
      /\ PageCount(fs) \in Nat /\ FirstNewId(fs) \in Nat
      /\ PageCount(fs) <= FirstNewId(fs) /\ FirstNewId(fs) <= next_page_id
  BY NextIdReopened
<1> DEFINE before == 0 .. (next_page_id - 1)
           after == 0 .. (FirstNewId(fs) - 1)
<1>3. after \in SUBSET before
  BY <1>2
<1>4. ASSUME NEW q \in before \ after PROVE storeContent'[q] = ZeroPage
  <2>1. q \in PageIds /\ q \in Int /\ ~(q < FirstNewId(fs))
    BY <1>2, FileAssumption DEF PageIds
  <2>2. ~(q < PageCount(fs))
    BY <1>2, <2>1
  <2>3. ~Covered(fs, q, 1)
    BY <2>1, <2>2, PageCountCovers
  <2>4. \A k \in 1 .. Parts : ~Covered(fs, q, k)
    <3>1. q * Parts \in Nat /\ fs.size \in Nat
      BY <2>1, OffsetIsNat DEF FileState
    <3> QED BY <2>3, <3>1, FileAssumption DEF Covered
  <2>5. fs.data[q] \in Page /\ \A k \in 1 .. Parts : fs.data[q][k] = Zero
    BY <2>1, <2>4 DEF ZeroBeyond, FileState
  <2>6. fs.data[q] = ZeroPage
    <3>1. fs.data[q] = [k \in 1 .. Parts |-> fs.data[q][k]]
      BY <2>5 DEF Page
    <3> QED BY <2>5, <3>1 DEF ZeroPage
  <2>7. Content(fs, q) = fs.data[q]
    BY <2>3 DEF Content, CutShort
  <2> QED BY <1>1, <2>1, <2>6, <2>7
<1>5. \A q \in PageIds :
        /\ storeContent'[q] \in Store!Mixes(storeSurvivors[q])
        /\ storeSurvivors'[q] \subseteq Store!Mixes(storeSurvivors[q])
  BY <1>1
<1>6. storeEvent' = "crash"
  BY DEF storeEvent, Returned
<1>7. before' = after
  BY <1>1
<1>8. Store!Crash
  BY <1>1, <1>3, <1>4, <1>5, <1>6, <1>7 DEF Store!Crash
<1> QED
  BY <1>8 DEF Store!Next

(* A close writes every page that is newer, and the new pool goes on where the old
   one was: each id that was issued is of a page in the file. *)
LEMMA CloseStep ==
  ASSUME StoredInv, CloseAndOpen
  PROVE  Store!Next
<1> PICK fs : fs = WrittenFile(DirtyPages)
  OBVIOUS
<1>1. /\ Reopened(fs, fs) /\ ret' = Returned("Close", "OK")
      /\ \A t \in Threads : held[t] = Idle
      /\ PoolInv /\ FileInv
  BY DEF CloseAndOpen, StoredInv
<1>2. \A q : Newer(q) <=> q \in DirtyPages
  BY <1>1 DEF Newer, BeingWritten, DirtyPages, Cached, Idle
<1>3. /\ fs \in FileState /\ WroteBack(file, fs, DirtyPages, {})
      /\ \A q \in PageIds : Covered(fs, q, 1) => q < next_page_id
  BY <1>1, ClosedFile
<1>4. /\ next_page_id' = FirstNewId(fs) /\ storeWriting' = {}
      /\ \A q \in PageIds :
           /\ storeContent'[q] = Content(fs, q)
           /\ storeSurvivors'[q] = {Content(fs, q), fs.data[q], fs.data[q], Content(fs, q)}
  BY <1>1, <1>3, ReopenedStore
<1>5. ASSUME NEW q \in PageIds, storeContent[q] # Torn
      PROVE storeContent'[q] = storeContent[q] /\ storeSurvivors'[q] = {storeContent[q]}
  <2>1. fs.data[q] = storeContent[q] /\ ~CutShort(fs, q)
    BY <1>1, <1>2, <1>5, AllWritten
  <2>2. Content(fs, q) = storeContent[q]
    BY <2>1 DEF Content
  <2> QED BY <1>4, <2>1, <2>2
<1>6. ASSUME NEW q \in PageIds, FirstDataPage <= q, q < next_page_id
      PROVE Covered(fs, q, 1)
  <2>1. q * Parts \in Nat /\ file.size \in Nat /\ fs.size \in Nat /\ Parts \in Nat \ {0}
    BY <1>1, <1>3, OffsetIsNat, FileAssumption DEF PoolInv, TypeOK, FileState
  <2>2. CASE Covered(file, q, 1)
    <3>1. file.size <= fs.size
      BY <1>3, <2>1 DEF WroteBack
    <3> QED BY <2>1, <2>2, <3>1 DEF Covered
  <2>3. CASE q \in DirtyPages
    <3>1. Covered(fs, q, Parts)
      BY <1>3, <2>3 DEF WroteBack
    <3> QED BY <2>1, <3>1 DEF Covered
  <2> QED BY <1>1, <1>2, <1>6, <2>2, <2>3 DEF FileInv, IssuedStored
<1>7. next_page_id' = next_page_id
  <2>1. /\ next_page_id \in Nat /\ next_page_id <= MaxPageId + 1
        /\ FirstDataPage \in Nat /\ FirstDataPage <= next_page_id
        /\ PageCount(fs) \in Nat /\ FirstNewId(fs) \in Nat
        /\ FirstDataPage <= FirstNewId(fs) /\ PageCount(fs) <= FirstNewId(fs)
        /\ FirstNewId(fs) <= next_page_id
    BY <1>3, NextIdReopened
  <2>2. CASE next_page_id = FirstDataPage
    BY <1>4, <2>1, <2>2
  <2>3. CASE next_page_id # FirstDataPage
    <3>1. /\ next_page_id - 1 \in PageIds /\ FirstDataPage <= next_page_id - 1
          /\ next_page_id - 1 < next_page_id
      BY <2>1, <2>3, FileAssumption DEF PageIds
    <3>2. next_page_id - 1 < PageCount(fs)
      BY <1>3, <1>6, <3>1, PageCountCovers
    <3> QED BY <1>4, <2>1, <3>2
  <2> QED BY <2>2, <2>3
<1>8. storeEvent' = "close" /\ storeWriting = {}
  BY <1>1 DEF storeEvent, Returned, storeWriting, BeingWritten, Idle
<1>9. UNCHANGED (0 .. (next_page_id - 1))
  BY <1>7
<1>10. Store!Close
  BY <1>4, <1>5, <1>8, <1>9 DEF Store!Close, Store!Hardens
<1> QED
  BY <1>10 DEF Store!Next

LEMMA DividedExactly ==
  ASSUME NEW a \in Nat, NEW b \in Int, b > 0, a % b = 0
  PROVE  \E m \in Int : a = m * b
OBVIOUS

(* A file that ends behind a page cuts none short. *)
LEMMA WholePages ==
  ASSUME NEW fs \in FileState, fs.size % Parts = 0, NEW q \in PageIds
  PROVE  ~CutShort(fs, q)
<1>1. fs.size \in Nat /\ Parts \in Nat \ {0} /\ q \in Int
  BY FileAssumption DEF FileState, PageIds
<1>2. \A a \in Nat, b \in Int : b > 0 /\ a % b = 0 => \E m \in Int : a = m * b
  BY DividedExactly
<1>3. PICK n \in Int : fs.size = n * Parts
  <2>1. Parts \in Int /\ Parts > 0
    BY <1>1
  <2> QED BY <1>1, <1>2, <2>1
<1>4. CASE n <= q
  <2>1. (q - n) * Parts \in Nat
    <3>1. q - n \in Nat
      BY <1>1, <1>4
    <3> QED BY <1>1, <3>1
  <2>2. (q - n) * Parts = q * Parts - n * Parts
    BY <1>1
  <2>3. q * Parts \in Int /\ n * Parts \in Int
    BY <1>1
  <2> QED BY <1>1, <1>3, <2>1, <2>2, <2>3 DEF CutShort, Covered
<1>5. CASE q < n
  <2>1. (n - q - 1) * Parts \in Nat
    <3>1. n - q - 1 \in Nat
      BY <1>1, <1>5
    <3> QED BY <1>1, <3>1
  <2>2. (n - q - 1) * Parts = n * Parts - q * Parts - Parts
    BY <1>1
  <2>3. q * Parts \in Int /\ n * Parts \in Int
    BY <1>1
  <2> QED BY <1>1, <1>3, <2>1, <2>2, <2>3 DEF CutShort, Covered
<1> QED
  BY <1>1, <1>4, <1>5

LEMMA StopStep ==
  ASSUME StoredInv, KillAndOpen \/ PowerLossAndOpen
  PROVE  Store!Next
<1>1. PoolInv /\ FileInv /\ file \in FileState /\ disk \in FileState
  BY DEF StoredInv, PoolInv, TypeOK
<1>2. ret' = Returned("Crash", "OK")
  BY DEF KillAndOpen, PowerLossAndOpen
<1>3. \A q \in PageIds : /\ storeSurvivors[q] \in SUBSET (Page \cup {Torn})
                         /\ storeSurvivors[q] \subseteq Store!Mixes(storeSurvivors[q])
  BY <1>1, SurvivorsType, MixesKeep
<1>4. \A q \in PageIds :
        {storeContent[q], file.data[q], disk.data[q], Content(file, q), Content(disk, q)}
          \subseteq storeSurvivors[q]
  BY DEF storeSurvivors
<1>5. CASE KillAndOpen
  <2>1. Reopened(file, disk)
    BY <1>5 DEF KillAndOpen
  <2>2. \A q \in PageIds : {Content(file, q), file.data[q], disk.data[q], Content(disk, q)}
                             \subseteq Store!Mixes(storeSurvivors[q])
    BY <1>3, <1>4
  <2> QED BY <1>1, <1>2, <2>1, <2>2, CrashStep DEF FileInv
<1>6. CASE PowerLossAndOpen
  <2>1. PICK fs \in AfterCrash(file, disk) : Reopened(fs, fs)
    BY <1>6 DEF PowerLossAndOpen
  <2>2. /\ fs \in FileState /\ (fs.size \in {file.size, disk.size} \/ fs.size % Parts = 0)
        /\ disk.size <= fs.size /\ fs.size <= file.size /\ ZeroBeyond(fs)
        /\ \A q \in PageIds, k \in 1 .. Parts :
             fs.data[q][k] \in {file.data[q][k], disk.data[q][k]}
    BY <1>1, CrashedFile
  <2>3. \A q \in PageIds : Covered(fs, q, 1) => q < next_page_id
    <3>1. fs.size \in Nat /\ file.size \in Nat
      BY <1>1, <2>2 DEF FileState
    <3>2. \A q \in PageIds : Covered(fs, q, 1) => Covered(file, q, 1)
      BY <2>2, <3>1, OffsetIsNat DEF Covered
    <3> QED BY <1>1, <3>2 DEF FileInv
  <2>4. ASSUME NEW q \in PageIds
        PROVE fs.data[q] \in Store!Mixes(storeSurvivors[q])
    <3>1. file.data[q] \in Page /\ disk.data[q] \in Page /\ fs.data[q] \in Page
      BY <1>1, <2>2 DEF FileState
    <3>2. file.data[q] \in storeSurvivors[q] /\ disk.data[q] \in storeSurvivors[q]
      BY <1>4
    <3> QED BY <1>3, <2>2, <3>1, <3>2, MixOfTwo
  <2>5. ASSUME NEW q \in PageIds
        PROVE Content(fs, q) \in Store!Mixes(storeSurvivors[q])
    <3>1. CASE CutShort(fs, q)
      <4>1. CutShort(file, q) \/ CutShort(disk, q)
        BY <2>2, <3>1, WholePages DEF CutShort, Covered
      <4>2. Content(file, q) = Torn \/ Content(disk, q) = Torn
        BY <4>1 DEF Content
      <4>3. Content(fs, q) = Torn
        BY <3>1 DEF Content
      <4> QED BY <1>3, <1>4, <4>2, <4>3
    <3>2. CASE ~CutShort(fs, q)
      BY <2>4, <3>2 DEF Content
    <3> QED BY <3>1, <3>2
  <2> QED BY <1>2, <2>1, <2>2, <2>3, <2>4, <2>5, CrashStep
<1> QED
  BY <1>5, <1>6

-----------------------------------------------------------------------------
LEMMA StoreInit ==
  Init => Store!Init
<1> SUFFICES ASSUME Init PROVE Store!Init
  OBVIOUS
<1>1. file = EmptyFile /\ disk = EmptyFile /\ next_page_id = FirstNewId(EmptyFile) /\ Cached = {}
  BY DEF Init, Cached, EmptyTable
<1>2. EmptyFile \in FileState /\ EmptyFile.size = 0 /\ \A q \in PageIds : EmptyFile.data[q] = ZeroPage
  BY EmptyFileType DEF EmptyFile
<1>3. ASSUME NEW q \in PageIds, NEW k \in 1 .. Parts PROVE ~Covered(EmptyFile, q, k)
  BY <1>2, OffsetIsNat DEF Covered
<1>4. 1 \in 1 .. Parts /\ MaxPageId \in Nat /\ FirstDataPage \in 0 .. (MaxPageId + 1)
  BY FileAssumption, PoolAssumption
<1>5. next_page_id = FirstDataPage
  <2>1. {q \in PageIds : Covered(EmptyFile, q, 1)} = {}
    BY <1>3, <1>4
  <2>2. PageCount(EmptyFile) = 0
    BY <2>1, FS_EmptySet DEF PageCount
  <2> QED BY <1>1, <1>4, <2>2 DEF FirstNewId
<1>8. ASSUME NEW q \in PageIds
      PROVE Content(file, q) = ZeroPage /\ Content(disk, q) = ZeroPage
  BY <1>1, <1>2, <1>3, <1>4 DEF Content, CutShort
<1>9. \A q \in PageIds : ~Newer(q) /\ ~MayBeCutShort(q) /\ ~CutShort(file, q)
  BY <1>1, <1>3, <1>4 DEF Newer, MayBeCutShort, CutShort
<1>10. storeContent = [q \in PageIds |-> ZeroPage]
  BY <1>1, <1>2, <1>9 DEF storeContent, ReadShort
<1>11. storeSurvivors = [q \in PageIds |-> {ZeroPage}]
  <2>1. ASSUME NEW q \in PageIds
        PROVE {storeContent[q], file.data[q], disk.data[q], Content(file, q), Content(disk, q)}
                \cup (IF MayBeCutShort(q) THEN {Torn} ELSE {}) = {ZeroPage}
    BY <1>1, <1>2, <1>8, <1>9, <1>10
  <2> QED BY <2>1 DEF storeSurvivors
<1>12. storeEvent = "call" /\ storeWriting = {}
  BY DEF Init, NoCall, Returned, storeEvent, storeWriting, BeingWritten, AllIdle, Idle
<1>13. 0 .. (next_page_id - 1) \in SUBSET PageIds
  BY <1>4, <1>5 DEF PageIds
<1>14. Store!Init
  BY <1>10, <1>11, <1>12, <1>13 DEF Store!Init
<1> QED
  BY <1>14

LEMMA StoreNext ==
  ASSUME OneCaller, StoredInv, [Next]_vars
  PROVE  [Store!Next]_Store!storeVars
<1>1. ASSUME NEW t \in Threads, UsesPool(t) PROVE Store!Next
  BY <1>1, UsesPoolStore
<1>2. CASE CloseAndOpen \/ KillAndOpen \/ PowerLossAndOpen
  BY <1>2, CloseStep, StopStep
<1>3. CASE UNCHANGED vars
  BY <1>3 DEF vars, Store!storeVars, storeContent, storeSurvivors, storeEvent, storeWriting,
              ReadShort, Newer, BeingWritten, MayBeCutShort, Content, CutShort, Covered, Cached
<1> QED
  BY <1>1, <1>2, <1>3 DEF Next

(* With one caller at a time, the pool implements the page store whatever the
   number of frames, pages and parts, and whichever write or read fails, wherever
   it stops half way: a GetPage, with its eviction and its load, a failed call, a
   failed flush and a close leave every page as it was, NewPage and a write change
   one page, and what a kill or a power loss leaves of a page is what a
   FlushAllDirty that returned VV_OK has seen or something written since
   (buffer_pool.cpp:9-107). *)
THEOREM PoolImplementsPageStore ==
  ASSUME OneCaller
  PROVE  Spec => ImplementsPageStore
<1>1. Init => StoredInv /\ Store!Init
  BY StoredInit, StoreInit
<1>2. StoredInv /\ [Next]_vars => StoredInv' /\ [Store!Next]_Store!storeVars
  BY StoredNext, StoreNext
<1> QED
  BY <1>1, <1>2, PTL DEF Spec, ImplementsPageStore, Store!Spec
=============================================================================
