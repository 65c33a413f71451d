-------------------------- MODULE CheckpointProofs ---------------------------
(***************************************************************************)
(* Proofs about the HNSW checkpoint, for every number of graphs, pages and *)
(* frames: Save and Load ask the pool only for pages with ids it has       *)
(* issued, through failures, restarts and crashes, until a crash loses     *)
(* pages of a chain; the pool's structure survives that but for an id that *)
(* is twice in lru_.  The pages that Load can reach from the header are    *)
(* closed under the links in them, in the newest contents and, by          *)
(* themselves, in the contents of the last sync.                           *)
(*                                                                         *)
(* Then, that the checkpoint implements GraphStore.  What is stored is a   *)
(* property of the contents of the pages alone (StoredIn), of those that   *)
(* the header leads to: a step that leaves these leaves it, and the two    *)
(* steps that change it, the write of the header and a crash, are shown to *)
(* replace it by the graph of the index and by the graph of the last sync. *)
(***************************************************************************)
EXTENDS MCHNSWCheckpoint, BufferPoolProofs

-----------------------------------------------------------------------------
(* The inductive invariant *)

(* The call under way: what it holds, and where in the chain it is. *)
JobInv ==
  /\ held[caller] # Idle =>
       \/ Step("save", "link") /\ held[caller].page = job.page
       \/ job.op \in {"save", "load"} /\ job.step = "header" /\ held[caller].page = HNSWPage
       \/ Step("load", "chain") /\ held[caller].page = job.page
  /\ Step("save", "nodes") => job.part = 0
  /\ Step("save", "alloc") => 1 <= job.part /\ job.part <= PagesOf[job.graph]
  /\ Step("save", "link") => 2 <= job.part /\ job.part <= PagesOf[job.graph]
  /\ Step("load", "chain") => 1 <= job.part

(* N is closed under the links in the newest contents of its pages, D under those
   in the synced contents, and no page of D but the header has changed since. *)
Closed(N, D) ==
  /\ {0, HNSWPage} \subseteq N
  /\ {0, HNSWPage} \subseteq D
  /\ \A p \in N : p < next_page_id /\ Newest(p).next \in N
  /\ \A p \in D : Synced(p).next \in D /\ (FirstDataPage <= p => Covered(disk, p, 1))
  /\ \A p \in D \ {HNSWPage} : Newest(p) = Synced(p) /\ file.data[p][1] = Synced(p)

(* The call under way asks for pages of N; the pages that Save links to each other
   are new ones. *)
JobPages(N, D) ==
  /\ {job.page, job.fresh, job.head} \subseteq N
  /\ job.op = "save" /\ job.step \in {"alloc", "link"} /\ job.part > 1 =>
       job.page \notin D /\ Newest(job.page).kind = "nodes"
  /\ Step("save", "link") => job.fresh \notin D /\ Newest(job.fresh).kind = "nodes"

ChainInv == \E N, D \in SUBSET PageIds : Closed(N, D) /\ JobPages(N, D)

CkInv ==
  /\ CkTypeOK /\ PoolStructureUnlessUnordered /\ HeldInv /\ JobInv
  /\ hazards = {} => StoredInv /\ CleanFramesMatchFile /\ ChainInv

-----------------------------------------------------------------------------
(* Constants and contents *)

LEMMA OneThread == OneCaller /\ Parts = 1 /\ caller \in Threads /\ Threads = {caller}
<1>1. PICK t \in Threads : Threads = {t}
  BY CheckpointAssumption
<1>2. caller = t
  BY <1>1 DEF caller
<1> QED
  BY <1>1, <1>2, CheckpointAssumption DEF OneCaller

(* A finite set of numbers has a bound. *)
LEMMA Bounded ==
  ASSUME NEW S, IsFiniteSet(S), NEW f \in [S -> Nat]
  PROVE  \E n \in Nat : \A x \in S : f[x] <= n
<1> DEFINE T == {k \in Nat : \A A \in SUBSET S :
                    IsFiniteSet(A) /\ Cardinality(A) = k => \E n \in Nat : \A x \in A : f[x] <= n}
<1>1. 0 \in T
  <2>1. ASSUME NEW A \in SUBSET S, IsFiniteSet(A), Cardinality(A) = 0
        PROVE \E n \in Nat : \A x \in A : f[x] <= n
    BY <2>1, FS_EmptySet
  <2> QED BY <2>1
<1>2. ASSUME NEW k \in Nat, k \in T PROVE k + 1 \in T
  <2>1. ASSUME NEW A \in SUBSET S, IsFiniteSet(A), Cardinality(A) = k + 1
        PROVE \E n \in Nat : \A x \in A : f[x] <= n
    <3>1. A # {}
      BY <2>1, FS_EmptySet
    <3>2. PICK a \in A : TRUE
      BY <3>1
    <3>3. IsFiniteSet(A \ {a}) /\ Cardinality(A \ {a}) = k
      <4>1. Cardinality(A \ {a}) = Cardinality(A) - 1 /\ IsFiniteSet(A \ {a})
        BY <2>1, FS_RemoveElement
      <4> QED BY <2>1, <4>1
    <3>4. PICK n \in Nat : \A x \in A \ {a} : f[x] <= n
      BY <1>2, <3>3
    <3>5. f[a] \in Nat /\ \A x \in A : f[x] \in Nat
      <4>1. \A x \in A : x \in S
        OBVIOUS
      <4> QED BY <3>2, <4>1
    <3>6. CASE f[a] <= n
      BY <3>4, <3>6
    <3>7. CASE ~(f[a] <= n)
      <4>1. \A x \in A : f[x] <= f[a]
        BY <3>4, <3>5, <3>7
      <4> QED BY <3>5, <4>1
    <3> QED BY <3>6, <3>7
  <2> QED BY <2>1
<1> HIDE DEF T
<1>3. Nat \subseteq T
  BY <1>1, <1>2, SetInduction
<1>4. Cardinality(S) \in T
  BY <1>3, FS_CardinalityType
<1> QED
  BY <1>4 DEF T

LEMMA MaxPagesBound == MaxPages \in Nat /\ \A g \in Graphs : PagesOf[g] \in Nat /\ PagesOf[g] <= MaxPages
<1> DEFINE S == {PagesOf[g] : g \in Graphs}
<1>1. PagesOf \in [Graphs -> Nat] /\ S \in SUBSET Nat /\ S # {}
  BY CheckpointAssumption
<1>2. PICK n \in Nat : \A g \in Graphs : PagesOf[g] <= n
  BY <1>1, CheckpointAssumption, Bounded
<1>3. S \in SUBSET (0 .. n)
  BY <1>1, <1>2
<1>4. PICK m \in S : \A k \in S : k <= m
  BY <1>1, <1>3, Greatest
<1>5. \A g \in Graphs : PagesOf[g] <= m
  BY <1>4
<1>6. MaxPages \in S /\ \A g \in Graphs : PagesOf[g] <= MaxPages
  BY <1>4, <1>5 DEF MaxPages
<1> QED
  BY <1>1, <1>6

LEMMA NoGraphNoPages == 0 \in Graphs /\ 0 \in 0 .. MaxPages
BY MaxPagesBound, CheckpointAssumption

LEMMA FirstPages == 0 \in PageIds /\ HNSWPage \in PageIds /\ 0 < FirstDataPage /\ HNSWPage < FirstDataPage
BY CheckpointAssumption, FileAssumption, PoolAssumption DEF PageIds

LEMMA ContentsType ==
  ASSUME NEW c \in Contents
  PROVE  c.next \in PageIds /\ c.graph \in Graphs /\ c.n \in 0 .. MaxPages
BY DEF Contents

LEMMA FixedContents == ZeroContent \in Contents /\ OtherContent \in Contents
BY FirstPages, NoGraphNoPages DEF ZeroContent, OtherContent, Content, Contents

LEMMA NodePageType ==
  ASSUME NEW g \in Graphs, NEW n \in 0 .. MaxPages, NEW p \in PageIds
  PROVE  /\ NodePage(g, n, p) \in Contents /\ NodePage(g, n, p).next = p
         /\ NodePage(g, n, p).kind = "nodes"
         /\ Header(g, n, p) \in Contents /\ Header(g, n, p).next = p
BY DEF NodePage, Header, Content, Contents

LEMMA LinkedType ==
  ASSUME NEW c \in Contents, NEW p \in PageIds
  PROVE  /\ [c EXCEPT !.next = p] \in Contents
         /\ [c EXCEPT !.next = p].next = p /\ [c EXCEPT !.next = p].kind = c.kind
BY DEF Contents

(* What is in a page. *)
LEMMA PageContent ==
  ASSUME NEW d \in Page
  PROVE  d[1] \in Contents /\ d = PageWith(d[1])
<1>1. d \in [1 .. 1 -> Contents]
  BY CheckpointAssumption DEF Page
<1>2. d = [k \in 1 .. 1 |-> d[k]]
  BY <1>1
<1>3. [k \in 1 .. 1 |-> d[k]] = [k \in 1 .. 1 |-> d[1]]
  OBVIOUS
<1> QED
  BY <1>1, <1>2, <1>3, CheckpointAssumption DEF PageWith

LEMMA PageWithType ==
  ASSUME NEW c \in Contents
  PROVE  PageWith(c) \in Page /\ PageWith(c)[1] = c /\ c \in Values
BY CheckpointAssumption DEF Page, PageWith

-----------------------------------------------------------------------------
(* The frame that Save or Load looks into *)

LEMMA FramedType ==
  ASSUME TypeOK, HeldInv, held[caller] # Idle
  PROVE  /\ Framed \in Contents
         /\ held[caller].page \in Cached
         /\ page_table[held[caller].page] = held[caller].frame
<1>1. /\ held[caller].page \in Cached
      /\ page_table[held[caller].page] = held[caller].frame
  BY OneThread DEF HeldInv
<1>2. held[caller].frame \in Frames
  BY <1>1 DEF TypeOK, Cached
<1>3. frames[held[caller].frame].data \in Page
  BY <1>2 DEF TypeOK, Frame
<1> QED
  BY <1>1, <1>3, PageContent DEF Framed

(* It holds the page's newest content. *)
LEMMA FramedNewest ==
  ASSUME TypeOK, HeldInv, CleanFramesMatchFile, held[caller] # Idle
  PROVE  Framed = Newest(held[caller].page)
<1> DEFINE p == held[caller].page
<1>1. p \in Cached /\ page_table[p] = held[caller].frame
  BY FramedType
<1>2. Framed = frames[page_table[p]].data[1]
  BY <1>1 DEF Framed
<1>3. ~Newer(p) => frames[page_table[p]].data = file.data[p]
  BY <1>1 DEF CleanFramesMatchFile
<1> QED
  BY <1>2, <1>3 DEF Newest

LEMMA GetsPage ==
  ASSUME NEW p
  PROVE  /\ Gets(p) => GetPage(caller, p) /\ held[caller] = Idle
         /\ FailsToGet(p) => GetPage(caller, p) /\ held[caller] = Idle /\ held' = held
<1>1. Gets(p) => GetPage(caller, p) /\ held[caller] = Idle
  BY DEF Gets, GetPage, GetPageHit, GetPageMiss, MayGet
<1>2. FailsToGet(p) => GetPage(caller, p) /\ held[caller] = Idle /\ held' = held
  BY DEF FailsToGet, GetPage, GetPageReadFails, GetPageNoRoom, EvictWriteFails, NoFrameFree,
         MayGet
<1> QED
  BY <1>1, <1>2

LEMMA GetsHeld ==
  ASSUME TypeOK, NEW p, Gets(p)
  PROVE  held'[caller].page = p /\ held'[caller] # Idle
<1>1. held \in [Threads -> Hold] /\ caller \in Threads
  BY OneThread DEF TypeOK
<1>2. CASE GetPageHit(caller, p)
  <2>1. held' = [held EXCEPT ![caller] = [page |-> p, frame |-> page_table[p], wrote |-> FALSE]]
        /\ p \in Cached
    BY <1>2 DEF GetPageHit
  <2>2. held'[caller] = [page |-> p, frame |-> page_table[p], wrote |-> FALSE]
    BY <1>1, <2>1
  <2>3. page_table[p] # NoFrame
    BY <2>1 DEF Cached
  <2> QED BY <2>2, <2>3 DEF Idle
<1>3. CASE GetPageMiss(caller, p)
  <2>1. PICK f \in Frames :
          held' = [held EXCEPT ![caller] = [page |-> p, frame |-> f, wrote |-> FALSE]]
    BY <1>3 DEF GetPageMiss
  <2>2. held'[caller] = [page |-> p, frame |-> f, wrote |-> FALSE]
    BY <1>1, <2>1
  <2>3. f # NoFrame
    BY DEF Frames, NoFrame
  <2> QED BY <2>2, <2>3 DEF Idle
<1> QED
  BY <1>2, <1>3 DEF Gets

LEMMA Freed ==
  ASSUME TypeOK, Release(caller) \/ MarkDirty(caller)
  PROVE  held'[caller] = Idle /\ held[caller] # Idle
<1>1. held \in [Threads -> Hold] /\ caller \in Threads
  BY OneThread DEF TypeOK
<1>2. held' = [held EXCEPT ![caller] = Idle] /\ held[caller] # Idle
  BY DEF Release, MarkDirty, Idle
<1> QED
  BY <1>1, <1>2

(* The pages asked for have been issued, while the chains are sound. *)
LEMMA AskedIssued ==
  ASSUME CkInv, hazards = {}
  PROVE  /\ HNSWPage \in PageIds /\ HNSWPage < next_page_id
         /\ job.page \in PageIds /\ job.page < next_page_id
         /\ Wanted \in PageIds /\ Wanted < next_page_id
<1>1. PICK N, D \in SUBSET PageIds : Closed(N, D) /\ JobPages(N, D)
  BY DEF CkInv, ChainInv
<1>2. HNSWPage \in N /\ job.page \in N
  BY <1>1 DEF Closed, JobPages
<1> QED
  BY <1>1, <1>2 DEF Closed, Wanted

LEMMA AllocContent ==
  ASSUME CkInv, At("save", "alloc")
  PROVE  NodePage(job.graph, job.part, 0) \in Contents
<1>1. job.graph \in Graphs /\ job.part \in 0 .. (MaxPages + 1) /\ 1 <= job.part
      /\ job.part <= PagesOf[job.graph]
  BY DEF CkInv, CkTypeOK, Jobs, JobInv, At
<1>2. job.part \in 0 .. MaxPages
  BY <1>1, MaxPagesBound
<1> QED
  BY <1>1, <1>2, FirstPages, NodePageType

(* What Save writes into a frame: a page with its link set, or the header. *)
LEMMA WrittenContent ==
  ASSUME CkInv, SaveWrite
  PROVE  \E c \in Contents :
           /\ WriteFrame(caller, PageWith(c))
           /\ c.next = IF job.step = "link" THEN job.fresh ELSE job.head
           /\ held[caller].page = Wanted
           /\ hazards = {} /\ job.step = "link" => c.kind = "nodes"
<1>1. Saving /\ held[caller] # Idle /\ held[caller].page = Wanted
  <2>1. Saving /\ held[caller] # Idle
    BY DEF SaveWrite, WriteFrame
  <2> QED BY <2>1 DEF CkInv, JobInv, Step, Saving, Wanted
<1>2. job.fresh \in PageIds /\ job.head \in PageIds /\ job.entry \in Graphs /\ job.graph \in Graphs
  BY DEF CkInv, CkTypeOK, Jobs
<1>3. CASE job.step = "link"
  <2>1. Framed \in Contents
    BY <1>1, FramedType DEF CkInv, CkTypeOK
  <2>2. ASSUME hazards = {} PROVE Framed.kind = "nodes"
    <3>0. Framed = Newest(job.page)
      BY <1>1, <1>3, <2>2, FramedNewest DEF CkInv, CkTypeOK, Wanted
    <3>1. Step("save", "link")
      BY <1>1, <1>3 DEF Saving, Step
    <3>2. job.part \in Int /\ 2 <= job.part
      BY <3>1, MaxPagesBound DEF CkInv, CkTypeOK, Jobs, JobInv
    <3>3. job.part > 1
      BY <3>2
    <3> QED BY <2>2, <3>0, <3>1, <3>3 DEF CkInv, ChainInv, JobPages, Step
  <2> PICK c : c = [Framed EXCEPT !.next = job.fresh]
    OBVIOUS
  <2>3. c \in Contents /\ c.next = job.fresh /\ (hazards = {} => c.kind = "nodes")
    BY <1>2, <2>1, <2>2, LinkedType
  <2>4. WriteFrame(caller, PageWith(c))
    BY <1>3 DEF SaveWrite
  <2> QED BY <1>1, <1>3, <2>3, <2>4
<1>4. CASE job.step # "link"
  <2> PICK c : c = Header(job.entry, PagesOf[job.graph], job.head)
    OBVIOUS
  <2>1. PagesOf[job.graph] \in 0 .. MaxPages
    BY <1>2, MaxPagesBound
  <2>2. c \in Contents /\ c.next = job.head
    BY <1>2, <2>1, NodePageType
  <2>3. WriteFrame(caller, PageWith(c))
    BY <1>4 DEF SaveWrite
  <2> QED BY <1>1, <1>4, <2>2, <2>3
<1> QED
  BY <1>3, <1>4

(* Load's last step. *)
LEMMA NodesLoaded ==
  ASSUME LoadNodes
  PROVE  /\ At("load", "chain") /\ LastPart(job) /\ Release(caller)
         /\ job' = NoJob /\ hazards' = hazards
         /\ \E g \in Graphs : /\ g \in Deserialized(Append(job.read, Framed))
                              /\ index' = [entry |-> index.entry, nodes |-> g, count |-> g]
<1>1. At("load", "chain") /\ LastPart(job) /\ Release(caller) /\ job' = NoJob /\ hazards' = hazards
  BY DEF LoadNodes
<1>2. PICK g \in Deserialized(Append(job.read, Framed)) :
        index' = [entry |-> index.entry, nodes |-> g, count |-> g]
  BY Zenon DEF LoadNodes
<1>3. g \in Graphs
  BY DEF Deserialized
<1> QED
  BY <1>1, <1>2, <1>3, Zenon

-----------------------------------------------------------------------------
(* The steps of the checkpoint, as steps of the pool *)

LEMMA UsesPoolIsNext == UsesPool(caller) => Next
BY OneThread DEF Next

LEMMA PoolStep ==
  ASSUME CkInv, hazards = {}, [CkNext]_ckptVars
  PROVE  [Next]_vars
<1>1. ASSUME NEW p \in PageIds, p < next_page_id, GetPage(caller, p) PROVE Next
  BY <1>1, UsesPoolIsNext DEF UsesPool
<1>2. ASSUME NEW c \in Contents, NewPage(caller, PageWith(c)) PROVE Next
  BY <1>2, UsesPoolIsNext, PageWithType DEF UsesPool, PageWith
<1>3. CASE UNCHANGED ckptVars
  BY <1>3 DEF ckptVars, vars
<1>4. CASE SaveBegin \/ SaveNodes \/ Insert \/ InsertUndefined \/ LoadUndefined
  BY <1>4 DEF SaveBegin, SaveNodes, Insert, InsertUndefined, LoadUndefined
<1>5. CASE SaveAlloc
  <2>1. CASE NewPage(caller, PageWith(NodePage(job.graph, job.part, 0)))
    BY <1>2, <1>5, <2>1, AllocContent DEF SaveAlloc
  <2>2. CASE NewPageNoRoom(caller)
    BY <2>2, UsesPoolIsNext DEF UsesPool
  <2> QED BY <1>5, <2>1, <2>2 DEF SaveAlloc
<1>6. CASE SaveGet \/ SaveGetFails
  <2>1. GetPage(caller, Wanted)
    BY <1>6, GetsPage DEF SaveGet, SaveGetFails
  <2> QED BY <1>1, <2>1, AskedIssued
<1>7. CASE LoadGetHeader \/ LoadGetHeaderFails
  <2>1. GetPage(caller, HNSWPage)
    BY <1>7, GetsPage DEF LoadGetHeader, LoadGetHeaderFails
  <2> QED BY <1>1, <2>1, AskedIssued
<1>8. CASE LoadGet \/ LoadGetFails
  <2>1. GetPage(caller, job.page)
    BY <1>8, GetsPage DEF LoadGet, LoadGetFails
  <2> QED BY <1>1, <2>1, AskedIssued
<1>9. CASE SaveWrite
  <2>1. PICK c \in Contents : WriteFrame(caller, PageWith(c))
    BY <1>9, WrittenContent
  <2> QED BY <2>1, UsesPoolIsNext, PageWithType DEF UsesPool, PageWith
<1>10. CASE SaveMarkDirty \/ LoadNothing \/ LoadHeader \/ LoadPart \/ LoadNodes
  <2>1. MarkDirty(caller) \/ Release(caller)
    BY <1>10, NodesLoaded DEF SaveMarkDirty, LoadNothing, LoadHeader, LoadPart
  <2> QED BY <2>1, UsesPoolIsNext DEF UsesPool
<1>11. CASE OtherPage
  <2>1. OtherContent \in Contents
    BY FixedContents
  <2> QED BY <1>2, <1>11, <2>1 DEF OtherPage
<1>12. CASE Flush
  BY <1>12, UsesPoolIsNext DEF Flush, UsesPool
<1>13. CASE Close \/ Crash
  BY <1>13 DEF Close, Crash, Next
<1> QED
  BY <1>3, <1>4, <1>5, <1>6, <1>7, <1>8, <1>9, <1>10, <1>11, <1>12, <1>13
     DEF CkNext, SaveStep, LoadStep

(* Nothing that the checkpoint does not survive is forgotten. *)
LEMMA HazardsStay ==
  ASSUME [CkNext]_ckptVars
  PROVE  hazards \subseteq hazards'
<1>1. SaveBegin \/ SaveStep => hazards' = hazards
  BY DEF SaveBegin, SaveStep, SaveNodes, SaveAlloc, SaveGet, SaveGetFails, SaveWrite, SaveMarkDirty
<1>2. LoadGetHeader \/ LoadGetHeaderFails \/ LoadStep => hazards \subseteq hazards'
  BY NodesLoaded DEF LoadGetHeader, LoadGetHeaderFails, LoadStep, LoadNothing, LoadHeader, LoadGet,
         LoadGetFails, LoadPart, LoadUndefined
<1>3. Insert \/ InsertUndefined \/ OtherPage \/ Flush \/ Close \/ Crash => hazards \subseteq hazards'
  BY DEF Insert, InsertUndefined, OtherPage, Flush, Close, Crash
<1> QED
  BY <1>1, <1>2, <1>3 DEF CkNext, ckptVars

LEMMA StructureWeaker ==
  /\ PoolStructure => PoolStructureUnlessUnordered
  /\ PoolStructureUnlessUnordered /\ Defined => PoolStructure
  /\ PoolStructure' => PoolStructureUnlessUnordered'
BY DEF PoolStructure, PoolStructureUnlessUnordered, Defined

(* Every step has found the pool in order. *)
LEMMA StepsDefined ==
  ASSUME CkNext
  PROVE  Defined
<1>1. SaveBegin \/ SaveStep => Defined
  BY DEF SaveBegin, SaveStep, SaveNodes, SaveAlloc, SaveGet, SaveGetFails, SaveWrite, SaveMarkDirty,
         At, Saving
<1>2. LoadGetHeader \/ LoadGetHeaderFails \/ LoadStep => Defined
  BY NodesLoaded DEF LoadGetHeader, LoadGetHeaderFails, LoadStep, LoadNothing, LoadHeader, LoadGet,
         LoadGetFails, LoadPart, LoadUndefined, At
<1>3. Insert \/ InsertUndefined \/ OtherPage \/ Flush \/ Close \/ Crash => Defined
  BY DEF Insert, InsertUndefined, OtherPage, Flush, Close, Crash
<1> QED
  BY <1>1, <1>2, <1>3 DEF CkNext

LEMMA UsedFrame ==
  ASSUME TypeOK, PoolStructure, HeldInv,
         \/ \E c \in Contents : WriteFrame(caller, PageWith(c))
         \/ MarkDirty(caller) \/ Release(caller)
         \/ FlushOK(caller) \/ FlushWriteFails(caller) \/ FlushSyncFails(caller)
  PROVE  TypeOK' /\ PoolStructure' /\ HeldInv'
<1>1. caller \in Threads /\ held \in [Threads -> Hold] /\ \A u \in Threads : u = caller
  BY OneThread DEF TypeOK
<1>2. TypeOK' /\ PoolStructure'
  <2>1. ASSUME NEW c \in Contents, WriteFrame(caller, PageWith(c))
        PROVE  \E v \in Values : WriteFrame(caller, [k \in 1 .. Parts |-> v])
    <3>1. c \in Values /\ PageWith(c) = [k \in 1 .. Parts |-> c]
      BY CheckpointAssumption DEF PageWith
    <3> QED BY <2>1, <3>1
  <2> QED BY <1>1, <2>1, FrameUseStructure
<1>3. CASE \E c \in Contents : WriteFrame(caller, PageWith(c))
  <2>1. PICK c \in Contents : WriteFrame(caller, PageWith(c))
    BY <1>3
  <2>2. /\ page_table' = page_table /\ held[caller] # Idle
        /\ held' = [held EXCEPT ![caller].wrote = TRUE]
        /\ frames' = [frames EXCEPT ![held[caller].frame].data = PageWith(c)]
    BY <2>1 DEF WriteFrame
  <2>3. held'[caller].page = held[caller].page /\ held'[caller].frame = held[caller].frame
    BY <1>1, <2>2 DEF Hold
  <2>4. \A f \in Frames : frames'[f].page_id = frames[f].page_id
    BY <2>2 DEF TypeOK, Frame
  <2>5. \A u \in Threads : held'[u] # Idle =>
          held[u] # Idle /\ held'[u].page = held[u].page /\ held'[u].frame = held[u].frame
    BY <1>1, <2>2, <2>3
  <2>6. TypeOK /\ HeldInv /\ page_table' = page_table
    BY <2>2
  <2> QED BY <2>4, <2>5, <2>6, <1>2, SameHeld
<1>4. CASE ~ \E c \in Contents : WriteFrame(caller, PageWith(c))
  <2>1. held'[caller] = Idle
    BY <1>1, <1>4, Freed DEF FlushOK, FlushWriteFails, FlushSyncFails
  <2> QED BY <1>1, <1>2, <2>1 DEF HeldInv
<1> QED
  BY <1>2, <1>3, <1>4

(* After a crash that the checkpoint may not survive, Load asks for any page, and
   NewPage may install a page that is cached. *)
LEMMA HazardStep ==
  ASSUME CkInv, hazards # {}, [CkNext]_ckptVars
  PROVE  TypeOK' /\ PoolStructureUnlessUnordered' /\ HeldInv' /\ hazards' # {}
<1>1. TypeOK /\ PoolStructureUnlessUnordered /\ HeldInv /\ job.page \in PageIds /\ JobInv
  BY DEF CkInv, CkTypeOK, Jobs
<1>2. hazards \subseteq hazards' /\ hazards' # {}
  BY HazardsStay
<1>3. CASE UNCHANGED vars
  <2>1. TypeOK'
    BY <1>1, <1>3 DEF vars, TypeOK
  <2>2. PoolStructureUnlessUnordered'
    BY <1>1, <1>2, <1>3 DEF vars, PoolStructureUnlessUnordered, Cached
  <2>3. HeldInv'
    BY <1>1, <1>3 DEF vars, HeldInv, Cached
  <2> QED BY <1>2, <2>1, <2>2, <2>3
<1>4. SUFFICES ASSUME CkNext PROVE TypeOK' /\ PoolStructureUnlessUnordered' /\ HeldInv'
  BY <1>2, <1>3 DEF ckptVars, vars
<1>5. PoolStructure /\ "unordered" \in hazards
  <2>1. Defined
    BY <1>4, StepsDefined
  <2>2. hazards \subseteq Hazards
    BY DEF CkInv, CkTypeOK
  <2> QED BY <1>1, <2>1, <2>2, StructureWeaker DEF Defined, Hazards
<1>6. ASSUME TypeOK', PoolStructure', HeldInv'
      PROVE  TypeOK' /\ PoolStructureUnlessUnordered' /\ HeldInv'
  BY <1>6, StructureWeaker
<1>7. ASSUME NEW p \in PageIds, GetPage(caller, p) PROVE TypeOK' /\ PoolStructure' /\ HeldInv'
  BY <1>1, <1>5, <1>7, OneThread, GetPageStructure, HeldGetPage
<1>8. ASSUME NEW c \in Contents, NewPage(caller, PageWith(c))
      PROVE  TypeOK' /\ PoolStructureUnlessUnordered' /\ HeldInv'
  <2>1. PageWith(c) \in Page
    BY PageWithType
  <2>2. /\ TypeOK' /\ ToSet(lru') = Cached'
        /\ \A p \in Cached' : frames'[page_table'[p]].page_id = p
    BY <1>1, <1>5, <1>8, <2>1, OneThread, NewPageStructure
  <2>3. held'[caller] = Idle
    BY <1>8 DEF NewPage
  <2> QED BY <1>2, <1>5, <2>2, <2>3, OneThread DEF PoolStructureUnlessUnordered, HeldInv
<1>9. ASSUME NewPageNoRoom(caller) PROVE TypeOK' /\ PoolStructure' /\ HeldInv'
  <2>1. TypeOK' /\ PoolStructure'
    BY <1>1, <1>5, <1>9, NoRoomStructure DEF NewPageNoRoom
  <2>2. held'[caller] = Idle
    BY <1>9 DEF NewPageNoRoom, EvictWriteFails, NoFrameFree
  <2> QED BY <2>1, <2>2, OneThread DEF HeldInv
<1>10. ASSUME NEW fs \in FileState, NEW gs \in FileState, Reopened(fs, gs),
              NEW op \in Ops, ret' = Returned(op, "OK")
       PROVE  TypeOK' /\ PoolStructure' /\ HeldInv'
  <2>1. TypeOK' /\ PoolStructure'
    BY <1>10, ReopenedInv DEF PoolInv
  <2>2. \A t \in Threads : held'[t] = Idle
    BY <1>10 DEF Reopened, AllIdle
  <2> QED BY <2>1, <2>2 DEF HeldInv
<1>11. file \in FileState /\ disk \in FileState
  BY <1>1 DEF TypeOK
<1>12. CASE SaveBegin \/ SaveNodes \/ Insert \/ InsertUndefined \/ LoadUndefined
  BY <1>3, <1>12 DEF SaveBegin, SaveNodes, Insert, InsertUndefined, LoadUndefined
<1>13. CASE SaveAlloc
  BY <1>6, <1>8, <1>9, <1>13, AllocContent DEF SaveAlloc
<1>14. CASE SaveGet \/ SaveGetFails
  <2>1. GetPage(caller, Wanted)
    BY <1>14, GetsPage DEF SaveGet, SaveGetFails
  <2>2. Wanted \in PageIds
    BY <1>1, FirstPages DEF Wanted
  <2> QED BY <1>6, <1>7, <2>1, <2>2
<1>15. CASE SaveWrite
  BY <1>1, <1>5, <1>6, <1>15, WrittenContent, UsedFrame
<1>16. CASE SaveMarkDirty \/ LoadNothing \/ LoadHeader \/ LoadPart \/ LoadNodes
  <2>1. MarkDirty(caller) \/ Release(caller)
    BY <1>16, NodesLoaded DEF SaveMarkDirty, LoadNothing, LoadHeader, LoadPart
  <2> QED BY <1>1, <1>5, <1>6, <2>1, UsedFrame
<1>17. CASE LoadGetHeader \/ LoadGetHeaderFails
  <2>1. GetPage(caller, HNSWPage)
    BY <1>17, GetsPage DEF LoadGetHeader, LoadGetHeaderFails
  <2> QED BY <1>6, <1>7, <2>1, FirstPages
<1>18. CASE LoadGet \/ LoadGetFails
  <2>1. GetPage(caller, job.page)
    BY <1>18, GetsPage DEF LoadGet, LoadGetFails
  <2> QED BY <1>1, <1>6, <1>7, <2>1
<1>19. CASE OtherPage
  BY <1>8, <1>19, FixedContents DEF OtherPage
<1>20. CASE Flush
  BY <1>1, <1>5, <1>6, <1>20, UsedFrame DEF Flush
<1>21. CASE Close
  <2>1. DirtyPages \in SUBSET Cached
    BY DEF DirtyPages
  <2>2. WrittenFile(DirtyPages) \in FileState
    BY <1>1, <2>1, WrittenFileType
  <2>3. /\ Reopened(WrittenFile(DirtyPages), WrittenFile(DirtyPages))
        /\ ret' = Returned("Close", "OK") /\ "Close" \in Ops
    BY <1>21 DEF Close, CloseAndOpen, Ops
  <2> QED BY <1>6, <1>10, <2>2, <2>3
<1>22. CASE Crash
  <2>1. "Crash" \in Ops
    BY DEF Ops
  <2>2. CASE KillAndOpen
    BY <1>6, <1>10, <1>11, <2>1, <2>2 DEF KillAndOpen
  <2>3. CASE PowerLossAndOpen
    <3>1. PICK fs \in AfterCrash(file, disk) : Reopened(fs, fs) /\ ret' = Returned("Crash", "OK")
      BY <2>3 DEF PowerLossAndOpen
    <3>2. fs \in FileState
      BY <1>11, AfterCrashType
    <3> QED BY <1>6, <1>10, <2>1, <3>1, <3>2
  <2> QED BY <1>22, <2>2, <2>3 DEF Crash
<1> QED
  BY <1>4, <1>12, <1>13, <1>14, <1>15, <1>16, <1>17, <1>18, <1>19, <1>20, <1>21, <1>22
     DEF CkNext, SaveStep, LoadStep

-----------------------------------------------------------------------------
(* The call under way *)

JobType ==
  /\ index \in [entry : Graphs, nodes : Graphs, count : Graphs]
  /\ job \in Jobs
  /\ hazards \subseteq Hazards

LEMMA NoJobType == NoJob \in Jobs /\ NoJob.op = "none"
BY FirstPages, MaxPagesBound, CheckpointAssumption DEF NoJob, Jobs

(* A step that ends the call, or makes none. *)
LEMMA NoJobStep ==
  ASSUME JobType, index' \in [entry : Graphs, nodes : Graphs, count : Graphs],
         job' = NoJob, hazards' \subseteq Hazards, held'[caller] = Idle
  PROVE  JobType' /\ JobInv'
<1>1. JobType'
  BY NoJobType DEF JobType
<1>2. JobInv'
  BY NoJobType DEF JobInv, Step
<1> QED
  BY <1>1, <1>2

(* A step that leaves the call and its frame. *)
LEMMA SameJobStep ==
  ASSUME JobType, JobInv, index' \in [entry : Graphs, nodes : Graphs, count : Graphs],
         job' = job, hazards' \subseteq Hazards,
         held'[caller] # Idle => held[caller] # Idle /\ held'[caller].page = held[caller].page
  PROVE  JobType' /\ JobInv'
<1>1. JobType'
  BY DEF JobType
<1>2. JobInv'
  BY DEF JobInv, Step
<1> QED
  BY <1>1, <1>2

(* Save goes on to its next page. *)
LEMMA SaveGoesOn ==
  ASSUME JobType, hazards' \subseteq Hazards, index' = index,
         NEW j \in Jobs, j.op = "save", NEW p \in PageIds, j.part <= PagesOf[j.graph],
         job' = AfterPart(j, p), held'[caller] = Idle
  PROVE  JobType' /\ JobInv'
<1>1. /\ j.part \in 0 .. (MaxPages + 1) /\ j.graph \in Graphs /\ MaxPages \in Nat
      /\ PagesOf[j.graph] \in Nat /\ PagesOf[j.graph] <= MaxPages
  BY MaxPagesBound DEF Jobs
<1>2. j.part + 1 \in 0 .. (MaxPages + 1) /\ 1 <= j.part + 1
  BY <1>1
<1>3. job' = [j EXCEPT !.page = p, !.part = j.part + 1,
                       !.step = IF j.part < PagesOf[j.graph] THEN "alloc" ELSE "header"]
  BY DEF AfterPart
<1>4. /\ job' \in Jobs /\ job'.op = "save" /\ job'.graph = j.graph /\ job'.part = j.part + 1
      /\ job'.step = IF j.part < PagesOf[j.graph] THEN "alloc" ELSE "header"
  BY <1>2, <1>3 DEF Jobs
<1>5. JobType'
  BY <1>4 DEF JobType
<1>6. job'.step = "alloc" => 1 <= job'.part /\ job'.part <= PagesOf[job'.graph]
  BY <1>1, <1>2, <1>4
<1>7. JobInv'
  BY <1>4, <1>6 DEF JobInv, Step
<1> QED
  BY <1>5, <1>7

LEMMA SaveJobStep ==
  ASSUME CkInv, SaveBegin \/ SaveStep
  PROVE  JobType' /\ JobInv'
<1>1. JobType /\ JobInv /\ TypeOK /\ HeldInv /\ job \in Jobs
  BY DEF CkInv, CkTypeOK, JobType
<1>2. /\ index' = index /\ hazards' = hazards
      /\ index' \in [entry : Graphs, nodes : Graphs, count : Graphs]
      /\ hazards' \subseteq Hazards
  BY <1>1 DEF SaveBegin, SaveStep, SaveNodes, SaveAlloc, SaveGet, SaveGetFails, SaveWrite,
              SaveMarkDirty, JobType
<1>4. CASE SaveBegin
  <2>1. /\ job' = [NoJob EXCEPT !.op = "save", !.step = "nodes", !.entry = index.entry]
        /\ job = NoJob /\ held' = held
    BY <1>4 DEF SaveBegin, vars
  <2>2. held[caller] = Idle
    BY <1>1, <2>1 DEF JobInv, Step, NoJob
  <2>3. index.entry \in Graphs
    BY <1>1 DEF JobType
  <2>4. /\ job' \in Jobs /\ job'.op = "save" /\ job'.step = "nodes" /\ job'.part = 0
    BY <2>1, <2>3, NoJobType DEF Jobs, NoJob
  <2> QED BY <1>1, <1>2, <2>1, <2>2, <2>4 DEF JobType, JobInv, Step
<1>5. CASE SaveNodes
  <2> PICK j : j = [job EXCEPT !.graph = index.nodes]
    OBVIOUS
  <2>1. /\ Step("save", "nodes") /\ job' = AfterPart(j, 0) /\ held' = held
    BY <1>5 DEF SaveNodes, At, vars
  <2>2. held[caller] = Idle
    BY <1>1, <2>1 DEF JobInv, Step
  <2>3. index.nodes \in Graphs
    BY <1>1 DEF JobType
  <2>4. j \in Jobs /\ j.op = "save" /\ j.part = 0 /\ j.graph = index.nodes
    BY <1>1, <2>1, <2>3 DEF Jobs, JobInv, Step
  <2>5. j.part <= PagesOf[j.graph]
    BY <2>3, <2>4, MaxPagesBound
  <2> QED BY <1>1, <1>2, <2>1, <2>2, <2>4, <2>5, FirstPages, SaveGoesOn
<1>6. CASE SaveAlloc
  <2>1. Step("save", "alloc") /\ 1 <= job.part /\ job.part <= PagesOf[job.graph]
    BY <1>1, <1>6 DEF SaveAlloc, At, JobInv
  <2>2. held' = held /\ held[caller] = Idle
    BY <1>6 DEF SaveAlloc, NewPage, NewPageNoRoom, EvictWriteFails, NoFrameFree
  <2>3. CASE NewPageNoRoom(caller) /\ job' = NoJob
    BY <1>1, <1>2, <2>2, <2>3, NoJobStep
  <2>4. ASSUME NewPage(caller, PageWith(NodePage(job.graph, job.part, 0))),
               job' = Chained(job, next_page_id)
        PROVE JobType' /\ JobInv'
    <3> PICK p : p = next_page_id
      OBVIOUS
    <3>1. p \in PageIds
      BY <1>1, <2>4, FileAssumption DEF NewPage, PageIds, TypeOK
    <3>2. CASE job.part = 1
      <4> PICK j : j = [job EXCEPT !.head = p]
        OBVIOUS
      <4>1. job' = AfterPart(j, p)
        BY <2>4, <3>2 DEF Chained
      <4>2. j \in Jobs /\ j.op = "save" /\ j.part <= PagesOf[j.graph]
        BY <1>1, <2>1, <3>1 DEF Jobs, Step
      <4> QED BY <1>1, <1>2, <2>2, <3>1, <4>1, <4>2, SaveGoesOn
    <3>3. CASE job.part # 1
      <4>1. job' = [job EXCEPT !.step = "link", !.fresh = p]
        BY <2>4, <3>3 DEF Chained
      <4>2. /\ job' \in Jobs /\ job'.op = "save" /\ job'.step = "link" /\ job'.part = job.part
            /\ job'.graph = job.graph
        BY <1>1, <2>1, <3>1, <4>1 DEF Jobs, Step
      <4>3. 2 <= job.part
        BY <1>1, <2>1, <3>3, MaxPagesBound DEF Jobs
      <4> QED BY <1>1, <1>2, <2>1, <2>2, <4>2, <4>3 DEF JobType, JobInv, Step
    <3> QED BY <3>2, <3>3
  <2> QED BY <1>6, <2>3, <2>4 DEF SaveAlloc
<1>7. CASE SaveGet
  <2>1. Saving /\ Gets(Wanted) /\ job' = job
    BY <1>7 DEF SaveGet
  <2>2. held'[caller].page = Wanted
    BY <1>1, <2>1, GetsHeld
  <2>3. JobType'
    BY <1>1, <1>2, <2>1 DEF JobType
  <2>4. JobInv'
    BY <1>1, <1>2, <2>1, <2>2 DEF JobInv, Step, Saving, Wanted
  <2> QED BY <2>3, <2>4
<1>8. CASE SaveGetFails
  <2>1. held'[caller] = Idle /\ job' = NoJob
    BY <1>8, GetsPage DEF SaveGetFails
  <2> QED BY <1>1, <1>2, <2>1, NoJobStep
<1>9. CASE SaveWrite
  <2>1. /\ held[caller] # Idle /\ job' = job
        /\ held' = [held EXCEPT ![caller].wrote = TRUE]
    BY <1>9 DEF SaveWrite, WriteFrame
  <2>2. held'[caller].page = held[caller].page
    BY <1>1, <2>1, OneThread DEF TypeOK, Hold
  <2> QED BY <1>1, <1>2, <2>1, <2>2, SameJobStep
<1>10. CASE SaveMarkDirty
  <2>1. /\ Saving /\ held'[caller] = Idle
        /\ job' = IF job.step = "link" THEN AfterPart(job, job.fresh) ELSE NoJob
    BY <1>1, <1>10, Freed DEF SaveMarkDirty
  <2>2. CASE job.step = "link"
    <3>1. job.op = "save" /\ job.part <= PagesOf[job.graph] /\ job.fresh \in PageIds
      BY <1>1, <2>1, <2>2 DEF JobInv, Step, Saving, Jobs
    <3> QED BY <1>1, <1>2, <2>1, <2>2, <3>1, SaveGoesOn
  <2>3. CASE job.step # "link"
    BY <1>1, <1>2, <2>1, <2>3, NoJobStep
  <2> QED BY <2>2, <2>3
<1> QED
  BY <1>4, <1>5, <1>6, <1>7, <1>8, <1>9, <1>10 DEF SaveStep

LEMMA LoadJobStep ==
  ASSUME CkInv, LoadGetHeader \/ LoadGetHeaderFails \/ LoadStep
  PROVE  JobType' /\ JobInv'
<1>1. JobType /\ JobInv /\ TypeOK /\ HeldInv /\ job \in Jobs
  BY DEF CkInv, CkTypeOK, JobType
<1>2. index \in [entry : Graphs, nodes : Graphs, count : Graphs] /\ hazards \subseteq Hazards
  BY <1>1 DEF JobType
<1>3. CASE LoadGetHeader
  <2>1. /\ job' = [NoJob EXCEPT !.op = "load", !.step = "header"] /\ Gets(HNSWPage)
        /\ index' = index /\ hazards' = hazards
    BY <1>3 DEF LoadGetHeader
  <2>2. held'[caller].page = HNSWPage
    BY <1>1, <2>1, GetsHeld
  <2>3. job' \in Jobs /\ job'.op = "load" /\ job'.step = "header"
    BY <2>1, NoJobType DEF Jobs, NoJob
  <2> QED BY <1>1, <2>1, <2>2, <2>3 DEF JobType, JobInv, Step
<1>4. CASE LoadGetHeaderFails
  <2>1. held' = held /\ job' = job /\ index' = index /\ hazards' = hazards
    BY <1>4, GetsPage DEF LoadGetHeaderFails
  <2> QED BY <1>1, <1>2, <2>1, SameJobStep
<1>5. CASE LoadNothing
  <2>1. held'[caller] = Idle /\ job' = NoJob /\ index' = index /\ hazards' = hazards
    BY <1>1, <1>5, Freed DEF LoadNothing
  <2> QED BY <1>1, <1>2, <2>1, NoJobStep
<1>6. CASE LoadHeader
  <2>1. held[caller] # Idle /\ held'[caller] = Idle
    BY <1>1, <1>6, Freed DEF LoadHeader
  <2> PICK c : c = Framed
    OBVIOUS
  <2>2. c \in Contents
    BY <1>1, <2>1, FramedType
  <2>3. c.next \in PageIds /\ c.graph \in Graphs /\ c.n \in 0 .. MaxPages /\ 0 \in Graphs
    BY <2>2, ContentsType, CheckpointAssumption
  <2>4. /\ index' = [entry |-> c.graph, nodes |-> 0, count |-> IF c.n = 0 THEN 0 ELSE index.count]
        /\ job' = IF c.n = 0 THEN NoJob
                  ELSE [NoJob EXCEPT !.op = "load", !.step = "chain", !.part = c.n, !.page = c.next]
        /\ hazards' = hazards
    BY <1>6 DEF LoadHeader
  <2>5. index' \in [entry : Graphs, nodes : Graphs, count : Graphs]
    BY <1>2, <2>3, <2>4
  <2>6. CASE c.n = 0
    BY <1>1, <1>2, <2>1, <2>4, <2>5, <2>6, NoJobStep
  <2>7. CASE c.n # 0
    <3>0. c.n \in 0 .. (MaxPages + 1)
      BY <2>3, MaxPagesBound
    <3>1. /\ job' \in Jobs /\ job'.op = "load" /\ job'.step = "chain" /\ job'.part = c.n
      <4>1. job' = [NoJob EXCEPT !.op = "load", !.step = "chain", !.part = c.n, !.page = c.next]
        BY <2>4, <2>7
      <4> QED BY <2>3, <3>0, <4>1, NoJobType DEF Jobs, NoJob
    <3>2. 1 <= c.n
      BY <2>3, <2>7, MaxPagesBound
    <3> QED BY <1>1, <1>2, <2>1, <2>4, <2>5, <3>1, <3>2 DEF JobType, JobInv, Step
  <2> QED BY <2>6, <2>7
<1>7. CASE LoadGet
  <2>1. Step("load", "chain") /\ Gets(job.page) /\ index' = index /\ job' = job /\ hazards' = hazards
    BY <1>7 DEF LoadGet, At
  <2>2. held'[caller].page = job.page
    BY <1>1, <2>1, GetsHeld
  <2> QED BY <1>1, <2>1, <2>2 DEF JobType, JobInv, Step
<1>8. CASE LoadGetFails
  <2>1. held'[caller] = Idle /\ job' = NoJob /\ index' = index /\ hazards' = hazards
    BY <1>8, GetsPage DEF LoadGetFails
  <2> QED BY <1>1, <1>2, <2>1, NoJobStep
<1>9. CASE LoadPart
  <2>1. held[caller] # Idle /\ held'[caller] = Idle
    BY <1>1, <1>9, Freed DEF LoadPart
  <2> PICK c : c = Framed
    OBVIOUS
  <2>2. c \in Contents /\ c.next \in PageIds
    BY <1>1, <2>1, FramedType, ContentsType
  <2>3. /\ job' = [job EXCEPT !.part = job.part - 1, !.page = c.next, !.read = Append(job.read, c)]
        /\ Step("load", "chain") /\ job.part # 1 /\ index' = index /\ hazards' = hazards
    BY <1>9 DEF LoadPart, PartRead, LastPart, At
  <2>4. job.part \in 0 .. (MaxPages + 1) /\ 1 <= job.part /\ MaxPages \in Nat
    BY <1>1, <2>3, MaxPagesBound DEF Jobs, JobInv
  <2>5. job.part - 1 \in 0 .. (MaxPages + 1) /\ 1 <= job.part - 1
    BY <2>3, <2>4
  <2>6. Append(job.read, c) \in Seq(Contents)
    BY <1>1, <2>2 DEF Jobs
  <2>7. /\ job' \in Jobs /\ job'.op = "load" /\ job'.step = "chain" /\ job'.part = job.part - 1
    BY <1>1, <2>2, <2>3, <2>5, <2>6 DEF Jobs, Step
  <2> QED BY <1>1, <2>1, <2>3, <2>5, <2>7 DEF JobType, JobInv, Step
<1>10. CASE LoadNodes
  <2>1. held'[caller] = Idle /\ job' = NoJob /\ hazards' = hazards
    BY <1>1, <1>10, NodesLoaded, Freed
  <2>2. PICK g \in Graphs : index' = [entry |-> index.entry, nodes |-> g, count |-> g]
    BY <1>10, NodesLoaded
  <2>3. index' \in [entry : Graphs, nodes : Graphs, count : Graphs]
    BY <1>2, <2>2
  <2> QED BY <1>1, <1>2, <2>1, <2>3, NoJobStep
<1>11. CASE LoadUndefined
  <2>1. /\ Step("load", "chain") /\ job' = job /\ index' = index /\ held' = held
        /\ hazards' = hazards \cup {"undefined"}
    BY <1>11 DEF LoadUndefined, At, vars
  <2>2. hazards' \subseteq Hazards
    BY <1>2, <2>1 DEF Hazards
  <2> QED BY <1>1, <1>2, <2>1, <2>2, SameJobStep
<1> QED
  BY <1>3, <1>4, <1>5, <1>6, <1>7, <1>8, <1>9, <1>10, <1>11 DEF LoadStep

LEMMA OtherJobStep ==
  ASSUME CkInv, Insert \/ InsertUndefined \/ OtherPage \/ Flush \/ Close \/ Crash
  PROVE  JobType' /\ JobInv'
<1>1. JobType /\ JobInv /\ TypeOK /\ HeldInv /\ job \in Jobs
  BY DEF CkInv, CkTypeOK, JobType
<1>2. index \in [entry : Graphs, nodes : Graphs, count : Graphs] /\ hazards \subseteq Hazards
  BY <1>1 DEF JobType
<1>3. CASE Insert
  <2>1. /\ job' = job /\ hazards' = hazards /\ held' = held
        /\ index' = IndexOf(index.nodes + 1) /\ index.nodes + 1 \in Graphs
    BY <1>3 DEF Insert, vars
  <2>2. index' \in [entry : Graphs, nodes : Graphs, count : Graphs]
    BY <2>1 DEF IndexOf
  <2> QED BY <1>1, <1>2, <2>1, <2>2, SameJobStep
<1>4. CASE InsertUndefined
  <2>1. /\ job' = job /\ hazards' = hazards \cup {"undefined"} /\ held' = held /\ index' = index
    BY <1>4 DEF InsertUndefined, vars
  <2>2. hazards' \subseteq Hazards
    BY <1>2, <2>1 DEF Hazards
  <2> QED BY <1>1, <1>2, <2>1, <2>2, SameJobStep
<1>5. CASE OtherPage \/ Flush
  <2>1. job' = job /\ hazards' = hazards /\ held' = held /\ index' = index
    BY <1>5 DEF OtherPage, Flush, NewPage, FlushOK, FlushWriteFails, FlushSyncFails
  <2> QED BY <1>1, <1>2, <2>1, SameJobStep
<1>6. CASE Close \/ Crash
  <2>1. \E fs, gs : Reopened(fs, gs)
    BY <1>6 DEF Close, Crash, CloseAndOpen, KillAndOpen, PowerLossAndOpen
  <2>2. held'[caller] = Idle
    BY <2>1, OneThread DEF Reopened, AllIdle
  <2>3. job' = NoJob /\ index' = IndexOf(0)
    BY <1>6 DEF Close, Crash, Restarted
  <2>4. hazards' \subseteq Hazards
    BY <1>2, <1>6 DEF Close, Crash, Hazards
  <2>5. index' \in [entry : Graphs, nodes : Graphs, count : Graphs]
    BY <2>3, CheckpointAssumption DEF IndexOf
  <2> QED BY <1>1, <2>2, <2>3, <2>4, <2>5, NoJobStep
<1> QED
  BY <1>3, <1>4, <1>5, <1>6

LEMMA JobStep ==
  ASSUME CkInv, [CkNext]_ckptVars
  PROVE  JobType' /\ JobInv'
<1>1. CASE UNCHANGED ckptVars
  <2>1. UNCHANGED <<index, job, hazards, held>>
    BY <1>1 DEF ckptVars
  <2>2. JobType /\ JobInv
    BY DEF CkInv, CkTypeOK, JobType
  <2> QED BY <2>1, <2>2, SameJobStep DEF JobType, JobInv
<1> QED
  BY <1>1, SaveJobStep, LoadJobStep, OtherJobStep DEF CkNext

-----------------------------------------------------------------------------
(* The chains *)

LEMMA NewestType ==
  ASSUME TypeOK, NEW q \in PageIds
  PROVE  Newest(q) \in Contents /\ file.data[q][1] \in Contents /\ Newest(q).next \in PageIds
<1>1. file.data[q] \in Page
  BY DEF TypeOK, FileState
<1>2. q \in Cached => frames[page_table[q]].data \in Page
  <2>1. q \in Cached => page_table[q] \in Frames
    BY DEF TypeOK, Cached
  <2> QED BY <2>1 DEF TypeOK, Frame
<1>3. Newest(q) \in Contents
  BY <1>1, <1>2, PageContent DEF Newest, Newer
<1> QED
  BY <1>1, <1>3, PageContent, ContentsType

(* A page that is written back keeps its newest content, and a file that holds
   this content already keeps it, also when only a part is written. *)
LEMMA NewestKept ==
  ASSUME NEW W, WritesBack(W), NEW q \in PageIds
  PROVE  /\ q \notin W => Newest(q)' = Newest(q)
         /\ file.data[q][1] = Newest(q) => file'.data[q][1] = file.data[q][1]
<1>1. PICK S \in SUBSET Cached, R \in SUBSET Cached :
        /\ \A r \in S \cup R : Newer(r) /\ r \notin W
        /\ WroteBack(file, file', S, R)
        /\ \A r \in PageIds \ W : Keeps(S, r)
  BY DEF WritesBack
<1>2. /\ q \in S => file'.data[q] = frames[page_table[q]].data
      /\ q \in R => file'.data[q][1] \in {file.data[q][1], frames[page_table[q]].data[1]}
      /\ q \notin S /\ q \notin R => file'.data[q] = file.data[q]
  <2>1. 1 \in 1 .. Parts
    BY FileAssumption
  <2> QED BY <1>1, <2>1 DEF WroteBack
<1>3. Newer(q) => Newest(q) = frames[page_table[q]].data[1]
  BY DEF Newest
<1>4. file.data[q][1] = Newest(q) => file'.data[q][1] = file.data[q][1]
  BY <1>1, <1>2, <1>3
<1>5. ASSUME q \notin W PROVE Newest(q)' = Newest(q)
  <2>1. Keeps(S, q)
    BY <1>1, <1>5
  <2>2. CASE Newer(q)'
    <3>1. Newer(q) /\ q \in Cached /\ q \in Cached'
      BY <2>1, <2>2 DEF Keeps, Newer
    <3>2. frames'[page_table'[q]].data = frames[page_table[q]].data
      BY <2>1, <3>1 DEF Keeps
    <3>3. Newest(q)' = frames'[page_table'[q]].data[1]
      BY <2>2 DEF Newest
    <3> QED BY <1>3, <3>1, <3>2, <3>3
  <2>3. CASE ~Newer(q)' /\ Newer(q)
    <3>1. file'.data[q] = frames[page_table[q]].data
      BY <1>2, <2>1, <2>3 DEF Keeps
    <3> QED BY <1>3, <2>3, <3>1 DEF Newest
  <2>4. CASE ~Newer(q)' /\ ~Newer(q)
    <3>1. file'.data[q] = file.data[q]
      BY <1>1, <1>2, <2>4
    <3> QED BY <2>4, <3>1 DEF Newest
  <2> QED BY <2>2, <2>3, <2>4
<1> QED
  BY <1>4, <1>5

(* The last sync's pages have been issued. *)
LEMMA DurableIssued ==
  ASSUME StoredInv, NEW N \in SUBSET PageIds, NEW D \in SUBSET PageIds, Closed(N, D), NEW p \in D
  PROVE  p < next_page_id
<1>1. FileInv /\ TypeOK
  BY DEF StoredInv, PoolInv
<1>2. /\ p \in Int /\ FirstDataPage \in Int /\ next_page_id \in Int /\ FirstDataPage <= next_page_id
      /\ p * Parts \in Int /\ disk.size \in Int /\ file.size \in Int /\ disk.size <= file.size
  BY <1>1, PoolAssumption, OffsetIsNat DEF PageIds, TypeOK, FileInv, FileState
<1>3. CASE FirstDataPage <= p
  <2>1. Covered(disk, p, 1)
    BY <1>3 DEF Closed
  <2>2. Covered(file, p, 1)
    BY <1>2, <2>1 DEF Covered
  <2> QED BY <1>1, <2>2 DEF FileInv
<1>4. CASE ~(FirstDataPage <= p)
  BY <1>2, <1>4
<1> QED
  BY <1>3, <1>4

(* The pages of W change their content; M may have new pages. *)
LEMMA ChainsStep ==
  ASSUME NEW N \in SUBSET PageIds, NEW D \in SUBSET PageIds, Closed(N, D),
         disk' = disk, NEW W \in SUBSET PageIds, WritesBack(W), W \cap D \subseteq {HNSWPage},
         NEW M \in SUBSET PageIds, N \subseteq M,
         \A p \in M : p < next_page_id',
         \A p \in M : p \notin N \/ p \in W => Newest(p)'.next \in M
  PROVE  Closed(M, D)'
<1>1. ASSUME NEW p \in M PROVE Newest(p)'.next \in M
  <2>1. CASE p \notin N \/ p \in W
    BY <2>1
  <2>2. CASE p \in N /\ p \notin W
    BY <2>2, NewestKept DEF Closed
  <2> QED BY <2>1, <2>2
<1>2. ASSUME NEW p \in D
      PROVE  Synced(p)' = Synced(p) /\ (Covered(disk, p, 1)' <=> Covered(disk, p, 1))
  BY DEF Synced, Covered
<1>3. ASSUME NEW p \in D \ {HNSWPage}
      PROVE  Newest(p)' = Synced(p)' /\ file'.data[p][1] = Synced(p)'
  <2>1. p \notin W /\ p \in PageIds
    OBVIOUS
  <2>2. Newest(p) = Synced(p) /\ file.data[p][1] = Synced(p)
    BY DEF Closed
  <2> QED BY <1>2, <2>1, <2>2, NewestKept
<1>4. ASSUME NEW p \in D
      PROVE  Synced(p)'.next \in D /\ (FirstDataPage <= p => Covered(disk, p, 1)')
  BY <1>2 DEF Closed
<1>5. {0, HNSWPage} \subseteq M /\ {0, HNSWPage} \subseteq D
  BY DEF Closed
<1> QED
  BY <1>1, <1>3, <1>4, <1>5 DEF Closed

(* A step that changes no page. *)
LEMMA QuietStep ==
  ASSUME NEW N \in SUBSET PageIds, NEW D \in SUBSET PageIds, Closed(N, D),
         WritesBack({}), UNCHANGED <<disk, next_page_id>>
  PROVE  Closed(N, D)' /\ \A p \in PageIds : Newest(p)' = Newest(p)
<1>1. \A p \in PageIds : Newest(p)' = Newest(p)
  BY NewestKept
<1>2. \A p \in N : p < next_page_id'
  BY DEF Closed
<1> QED
  BY <1>1, <1>2, ChainsStep

(* Save and Load ask for no page of a chain but the first ones. *)
LEMMA NoJobPages ==
  ASSUME NEW N \in SUBSET PageIds, NEW D \in SUBSET PageIds, Closed(N, D)',
         job'.page = 0, job'.fresh = 0, job'.head = 0,
         job'.op = "save" /\ job'.step \in {"alloc", "link"} => job'.step = "alloc" /\ ~(job'.part > 1)
  PROVE  ChainInv'
<1>1. 0 \in N
  BY DEF Closed
<1>2. JobPages(N, D)'
  BY <1>1 DEF JobPages, Step
<1> QED
  BY <1>2 DEF ChainInv

LEMMA SameJobPages ==
  ASSUME NEW N \in SUBSET PageIds, NEW D \in SUBSET PageIds, Closed(N, D)', JobPages(N, D),
         job' = job,
         job.page \notin D => Newest(job.page)'.kind = Newest(job.page).kind,
         job.fresh \notin D => Newest(job.fresh)'.kind = Newest(job.fresh).kind
  PROVE  ChainInv'
<1> PICK j, p, q : j = job /\ p = job.page /\ q = job.fresh
  OBVIOUS
<1>1. job' = j /\ j.page = p /\ j.fresh = q
  OBVIOUS
<1>2. p \notin D => Newest(p)'.kind = Newest(p).kind
  OBVIOUS
<1>3. q \notin D => Newest(q)'.kind = Newest(q).kind
  OBVIOUS
<1>4. JobPages(N, D)'
  BY <1>1, <1>2, <1>3 DEF JobPages, Step
<1> QED
  BY <1>4 DEF ChainInv

(* Everything that N names is on the medium, and nothing is newer. *)
LEMMA SyncedChains ==
  ASSUME StoredInv', NEW N \in SUBSET PageIds, {0, HNSWPage} \subseteq N,
         \A p \in N : /\ ~Newer(p)'
                      /\ file'.data[p][1].next \in N
                      /\ disk'.data[p][1] = file'.data[p][1]
                      /\ FirstDataPage <= p => Covered(disk', p, 1),
         job' = NoJob
  PROVE  ChainInv'
<1>1. ASSUME NEW p \in N
      PROVE  /\ Newest(p)' = Synced(p)' /\ file'.data[p][1] = Synced(p)' /\ Synced(p)'.next \in N
             /\ FirstDataPage <= p => Covered(disk, p, 1)'
  BY DEF Newest, Synced, Covered
<1>2. ASSUME NEW p \in N PROVE p < next_page_id'
  <2>1. FileInv' /\ TypeOK'
    BY DEF StoredInv, PoolInv
  <2>2. /\ p \in Int /\ FirstDataPage \in Int /\ next_page_id' \in Int
        /\ FirstDataPage <= next_page_id'
        /\ p * Parts \in Int /\ disk'.size \in Int /\ file'.size \in Int /\ disk'.size <= file'.size
    BY <2>1, PoolAssumption, OffsetIsNat DEF PageIds, TypeOK, FileInv, FileState
  <2>3. CASE FirstDataPage <= p
    <3>1. Covered(disk', p, 1)
      BY <2>3
    <3>2. Covered(file, p, 1)'
      BY <2>2, <3>1 DEF Covered
    <3> QED BY <2>1, <3>2 DEF FileInv
  <2>4. CASE ~(FirstDataPage <= p)
    BY <2>2, <2>4
  <2> QED BY <2>3, <2>4
<1>3. Closed(N, N)'
  BY <1>1, <1>2 DEF Closed
<1> QED
  BY <1>3, NoJobPages DEF NoJob

LEMMA SaveAllocChains ==
  ASSUME CkInv, hazards = {}, SaveAlloc
  PROVE  ChainInv'
<1>1. StoredInv /\ OneCaller /\ PoolInv /\ FileInv /\ TypeOK
  BY OneThread DEF CkInv, StoredInv, PoolInv
<1>2. PICK N, D \in SUBSET PageIds : Closed(N, D) /\ JobPages(N, D)
  BY DEF CkInv, ChainInv
<1>3. CASE NewPageNoRoom(caller) /\ job' = NoJob
  <2>1. Closed(N, D)'
    BY <1>1, <1>2, <1>3, OneThread, NewPageNoRoomWrites, QuietStep
  <2> QED BY <1>3, <2>1, NoJobPages DEF NoJob
<1>4. ASSUME NewPage(caller, PageWith(NodePage(job.graph, job.part, 0))),
             job' = Chained(job, next_page_id)
      PROVE  ChainInv'
  <2> PICK p, c, j : p = next_page_id /\ c = NodePage(job.graph, job.part, 0) /\ j = job
    OBVIOUS
  <2>1. c \in Contents /\ PageWith(c) \in Page /\ PageWith(c)[1] = c
    BY AllocContent, PageWithType DEF SaveAlloc
  <2>2. c.next = 0 /\ c.kind = "nodes"
    BY DEF NodePage, Content
  <2>3. Changed(p, PageWith(c)) /\ next_page_id' = p + 1 /\ p \in PageIds
    BY <1>1, <1>4, <2>1, OneThread, NewPageWrites DEF Changed
  <2>4. Newest(p)' = c
    BY <2>1, <2>3 DEF Changed, Newest
  <2>5. p \notin N /\ p \notin D /\ \A q \in N : q \in Int /\ q < p
    <3>1. \A q \in PageIds : q \in Int /\ ~(q < q)
      BY DEF PageIds
    <3>2. \A q \in N : q < p
      BY <1>2 DEF Closed
    <3>3. \A q \in D : q < p
      BY <1>1, <1>2, DurableIssued
    <3> QED BY <2>3, <3>1, <3>2, <3>3
  <2> DEFINE M == N \cup {p}
  <2>6. Closed(M, D)'
    <3>1. M \in SUBSET PageIds /\ {p} \in SUBSET PageIds /\ N \subseteq M
      BY <2>3
    <3>2. WritesBack({p}) /\ disk' = disk /\ {p} \cap D \subseteq {HNSWPage}
      BY <2>3, <2>5 DEF Changed
    <3>3. \A q \in M : q < next_page_id'
      <4>1. p \in Int /\ next_page_id' = p + 1
        BY <2>3 DEF PageIds
      <4> QED BY <2>5, <4>1
    <3>4. \A q \in M : q \notin N \/ q \in {p} => Newest(q)'.next \in M
      <4>1. 0 \in M
        BY <1>2 DEF Closed
      <4> QED BY <2>2, <2>4, <4>1
    <3> HIDE DEF M
    <3> QED BY <1>2, <3>1, <3>2, <3>3, <3>4, ChainsStep
  <2>7. Step("save", "alloc") /\ j.op = "save" /\ j.step = "alloc" /\ j \in Jobs /\ j.part \in Int /\ 1 <= j.part
    BY MaxPagesBound DEF SaveAlloc, At, Step, CkInv, CkTypeOK, Jobs, JobInv
  <2>8. p \in M /\ {j.page, j.fresh, j.head} \subseteq M
    BY <1>2 DEF JobPages
  <2>9. CASE j.part = 1
    <3>1. job' = AfterPart([j EXCEPT !.head = p], p)
      BY <1>4, <2>9 DEF Chained
    <3>2. /\ job'.page = p /\ job'.head = p /\ job'.fresh = j.fresh
          /\ job'.step \in {"alloc", "header"}
      BY <2>7, <3>1 DEF AfterPart, Jobs
    <3>3. JobPages(M, D)'
      BY <2>2, <2>4, <2>5, <2>8, <3>2 DEF JobPages, Step
    <3> QED BY <2>3, <2>6, <3>3 DEF ChainInv
  <2>10. CASE j.part # 1
    <3>1. job' = [j EXCEPT !.step = "link", !.fresh = p]
      BY <1>4, <2>10 DEF Chained
    <3>2. job'.page = j.page /\ job'.head = j.head /\ job'.fresh = p
      BY <2>7, <3>1 DEF Jobs
    <3> PICK q : q = j.page
      OBVIOUS
    <3>3. q \in N /\ q \notin D /\ Newest(q).kind = "nodes"
      <4>1. j.part > 1
        BY <2>7, <2>10
      <4> QED BY <1>2, <2>7, <4>1 DEF JobPages
    <3>4. Newest(q)' = Newest(q)
      <4>1. q \notin {p} /\ q \in PageIds
        BY <2>5, <3>3
      <4> QED BY <2>3, <4>1, NewestKept DEF Changed
    <3>5. JobPages(M, D)'
      BY <2>2, <2>4, <2>5, <2>8, <3>2, <3>3, <3>4 DEF JobPages, Step
    <3> QED BY <2>3, <2>6, <3>5 DEF ChainInv
  <2> QED BY <2>9, <2>10
<1> QED
  BY <1>3, <1>4 DEF SaveAlloc

LEMMA SaveWriteChains ==
  ASSUME CkInv, hazards = {}, SaveWrite
  PROVE  ChainInv'
<1>1. StoredInv /\ OneCaller /\ PoolInv /\ FileInv /\ TypeOK /\ HeldInv
  BY OneThread DEF CkInv, StoredInv, PoolInv
<1>2. PICK N, D \in SUBSET PageIds : Closed(N, D) /\ JobPages(N, D)
  BY DEF CkInv, ChainInv
<1>3. PICK c \in Contents :
        /\ WriteFrame(caller, PageWith(c))
        /\ c.next = IF job.step = "link" THEN job.fresh ELSE job.head
        /\ held[caller].page = Wanted
        /\ job.step = "link" => c.kind = "nodes"
  BY WrittenContent
<1> PICK p, j : p = held[caller].page /\ j = job
  OBVIOUS
<1>4. Saving /\ job' = j /\ j.op = "save" /\ j.step \in {"link", "header"}
  BY DEF SaveWrite, Saving
<1>5. /\ j.part \in Int /\ (j.step = "link" => j.part > 1)
      /\ (j.step = "link" => p = j.page) /\ (j.step # "link" => p = HNSWPage)
  <2>1. j.part \in Int /\ (j.step = "link" => 2 <= j.part)
    BY <1>4, MaxPagesBound DEF CkInv, CkTypeOK, Jobs, JobInv, Step
  <2> QED BY <1>3, <1>4, <2>1 DEF Wanted
<1>6. PageWith(c) \in Page /\ PageWith(c)[1] = c
  BY PageWithType
<1>7. Changed(p, PageWith(c)) /\ next_page_id' = next_page_id
  BY <1>1, <1>3, <1>6, OneThread, WriteFrameWrites
<1>8. Newest(p)' = c /\ WritesBack({p}) /\ disk' = disk /\ p \in PageIds
  BY <1>6, <1>7 DEF Changed, Newest
<1>9. {p} \cap D \subseteq {HNSWPage}
  BY <1>2, <1>4, <1>5 DEF JobPages
<1>10. c.next \in N
  BY <1>2, <1>3 DEF JobPages
<1>11. Closed(N, D)'
  <2>1. \A q \in N : q < next_page_id'
    BY <1>2, <1>7 DEF Closed
  <2>2. \A q \in N : q \notin N \/ q \in {p} => Newest(q)'.next \in N
    BY <1>8, <1>10
  <2>3. {p} \in SUBSET PageIds
    BY <1>8
  <2> QED BY <1>2, <1>8, <1>9, <2>1, <2>2, <2>3, ChainsStep
<1>12. JobPages(N, D)'
  <2>1. CASE j.step = "link"
    <3> PICK q, r : q = j.page /\ r = j.fresh
      OBVIOUS
    <3>1. /\ {j.page, j.fresh, j.head} \subseteq N
          /\ q \notin D
          /\ r \notin D /\ Newest(r).kind = "nodes"
      BY <1>2, <1>4, <1>5, <2>1 DEF JobPages, Step
    <3>2. q = p /\ Newest(q)'.kind = "nodes"
      BY <1>3, <1>5, <1>8, <2>1
    <3>3. Newest(r)'.kind = "nodes"
      <4>1. CASE r = p
        BY <3>2, <4>1
      <4>2. CASE r # p
        BY <1>8, <3>1, <4>2, NewestKept
      <4> QED BY <4>1, <4>2
    <3> QED BY <1>4, <3>1, <3>2, <3>3 DEF JobPages, Step
  <2>2. CASE j.step # "link"
    <3>1. {j.page, j.fresh, j.head} \subseteq N
      BY <1>2 DEF JobPages
    <3> QED BY <1>4, <2>2, <3>1 DEF JobPages, Step
  <2> QED BY <2>1, <2>2
<1> QED
  BY <1>11, <1>12 DEF ChainInv

(* The calls of the pool that change no page. *)
LEMMA QuietCalls ==
  ASSUME StoredInv, NEW N \in SUBSET PageIds, NEW D \in SUBSET PageIds, Closed(N, D),
         \/ \E p \in PageIds : GetPage(caller, p)
         \/ Release(caller)
         \/ MarkDirty(caller)
         \/ UNCHANGED vars
  PROVE  Closed(N, D)' /\ \A p \in PageIds : Newest(p)' = Newest(p)
<1>1. OneCaller /\ PoolInv /\ HeldInv /\ caller \in Threads
  BY OneThread DEF StoredInv
<1>2. CASE \E p \in PageIds : GetPage(caller, p)
  BY <1>1, <1>2, GetPageWrites, QuietStep
<1>3. CASE Release(caller) \/ MarkDirty(caller)
  BY <1>1, <1>3, FrameUseWrites, QuietStep
<1>4. CASE UNCHANGED vars
  <2>1. WroteBack(file, file', {}, {})
    BY <1>1, <1>4, WroteNothing DEF vars
  <2>2. \A q \in PageIds : Keeps({}, q)
    BY <1>4 DEF vars, Keeps, Newer, BeingWritten, Cached
  <2>3. WritesBack({})
    BY <2>1, <2>2 DEF WritesBack
  <2>4. UNCHANGED <<disk, next_page_id>>
    BY <1>4 DEF vars
  <2> QED BY <2>3, <2>4, QuietStep
<1> QED
  BY <1>2, <1>3, <1>4

LEMMA SaveOtherChains ==
  ASSUME CkInv, hazards = {}, SaveBegin \/ SaveNodes \/ SaveGet \/ SaveGetFails \/ SaveMarkDirty
  PROVE  ChainInv'
<1>1. StoredInv /\ job \in Jobs /\ JobInv
  BY DEF CkInv, CkTypeOK
<1>2. PICK N, D \in SUBSET PageIds : Closed(N, D) /\ JobPages(N, D)
  BY DEF CkInv, ChainInv
<1>3. Wanted \in PageIds
  BY AskedIssued
<1>4. Closed(N, D)' /\ \A p \in PageIds : Newest(p)' = Newest(p)
  <2>1. CASE SaveBegin \/ SaveNodes
    <3>1. UNCHANGED vars
      BY <2>1 DEF SaveBegin, SaveNodes
    <3> QED BY <1>1, <1>2, <3>1, QuietCalls
  <2>2. CASE SaveGet \/ SaveGetFails
    <3>1. GetPage(caller, Wanted)
      BY <2>2, GetsPage DEF SaveGet, SaveGetFails
    <3> QED BY <1>1, <1>2, <1>3, <3>1, QuietCalls
  <2>3. CASE SaveMarkDirty
    <3>1. MarkDirty(caller)
      BY <2>3 DEF SaveMarkDirty
    <3> QED BY <1>1, <1>2, <3>1, QuietCalls
  <2> QED BY <2>1, <2>2, <2>3
<1>5. CASE SaveBegin
  <2>1. /\ job'.page = 0 /\ job'.fresh = 0 /\ job'.head = 0 /\ job'.step = "nodes"
    BY <1>5 DEF SaveBegin, NoJob
  <2> QED BY <1>4, <2>1, NoJobPages
<1>6. CASE SaveNodes
  <2> PICK j : j = [job EXCEPT !.graph = index.nodes]
    OBVIOUS
  <2>1. job' = AfterPart(j, 0) /\ Step("save", "nodes") /\ job.part = 0
    BY <1>1, <1>6 DEF SaveNodes, At, JobInv
  <2>2. j.op = "save" /\ j.part = 0 /\ j.head = job.head /\ j.fresh = job.fresh
    BY <1>1, <2>1 DEF Jobs, Step
  <2>3. job' = [j EXCEPT !.page = 0, !.part = j.part + 1,
                         !.step = IF j.part < PagesOf[j.graph] THEN "alloc" ELSE "header"]
    BY <2>1 DEF AfterPart
  <2>4. DOMAIN j = DOMAIN job /\ {"page", "part", "step", "head", "fresh"} \subseteq DOMAIN job
    BY <1>1 DEF Jobs
  <2>5. /\ job'.page = 0 /\ job'.part = 0 + 1 /\ job'.step \in {"alloc", "header"}
        /\ job'.head = job.head /\ job'.fresh = job.fresh
    BY <2>2, <2>3, <2>4
  <2>6. {0, job.fresh, job.head} \subseteq N
    BY <1>2 DEF Closed, JobPages
  <2>7. JobPages(N, D)'
    BY <2>5, <2>6 DEF JobPages, Step
  <2> QED BY <1>4, <2>7 DEF ChainInv
<1>7. CASE SaveGet
  <2>1. job' = job /\ job.page \in PageIds /\ job.fresh \in PageIds
    BY <1>1, <1>7 DEF SaveGet, Jobs
  <2>2. Newest(job.page)' = Newest(job.page) /\ Newest(job.fresh)' = Newest(job.fresh)
    <3> PICK p, q : p = job.page /\ q = job.fresh
      OBVIOUS
    <3>1. Newest(p)' = Newest(p) /\ Newest(q)' = Newest(q)
      BY <1>4, <2>1
    <3> QED BY <2>1, <3>1
  <2> QED BY <1>2, <1>4, <2>1, <2>2, SameJobPages
<1>8. CASE SaveGetFails
  <2>1. job' = NoJob
    BY <1>8 DEF SaveGetFails
  <2> QED BY <1>4, <2>1, NoJobPages DEF NoJob
<1>9. CASE SaveMarkDirty
  <2> PICK j, q : j = job /\ q = job.fresh
    OBVIOUS
  <2>1. /\ Saving /\ j.op = "save"
        /\ job' = IF j.step = "link" THEN AfterPart(j, q) ELSE NoJob
    BY <1>9 DEF SaveMarkDirty, Saving
  <2>2. CASE j.step = "link"
    <3>1. job' = [j EXCEPT !.page = q, !.part = j.part + 1,
                           !.step = IF j.part < PagesOf[j.graph] THEN "alloc" ELSE "header"]
      BY <2>1, <2>2 DEF AfterPart
    <3>2. /\ job'.page = q /\ job'.step \in {"alloc", "header"}
          /\ job'.head = j.head /\ job'.fresh = q
      BY <1>1, <3>1 DEF Jobs
    <3>3. q \in N /\ j.head \in N /\ q \notin D /\ Newest(q).kind = "nodes"
      BY <1>2, <2>1, <2>2 DEF JobPages, Step
    <3>4. Newest(q)'.kind = "nodes"
      BY <1>4, <3>3
    <3>5. JobPages(N, D)'
      BY <3>2, <3>3, <3>4 DEF JobPages, Step
    <3> QED BY <1>4, <3>5 DEF ChainInv
  <2>3. CASE j.step # "link"
    BY <1>4, <2>1, <2>3, NoJobPages DEF NoJob
  <2> QED BY <2>2, <2>3
<1> QED
  BY <1>5, <1>6, <1>7, <1>8, <1>9

LEMMA LoadChains ==
  ASSUME CkInv, hazards = {}, hazards' = {},
         LoadGetHeader \/ LoadGetHeaderFails \/ LoadStep
  PROVE  ChainInv'
<1>1. StoredInv /\ job \in Jobs /\ JobInv /\ TypeOK /\ HeldInv /\ CleanFramesMatchFile
  BY DEF CkInv, CkTypeOK
<1>2. PICK N, D \in SUBSET PageIds : Closed(N, D) /\ JobPages(N, D)
  BY DEF CkInv, ChainInv
<1>3. HNSWPage \in PageIds /\ job.page \in PageIds
  BY AskedIssued
<1>4. ~LoadUndefined
  BY DEF LoadUndefined
<1>5. Closed(N, D)' /\ \A p \in PageIds : Newest(p)' = Newest(p)
  <2>1. CASE LoadGetHeader \/ LoadGetHeaderFails
    <3>1. GetPage(caller, HNSWPage)
      BY <2>1, GetsPage DEF LoadGetHeader, LoadGetHeaderFails
    <3> QED BY <1>1, <1>2, <1>3, <3>1, QuietCalls
  <2>2. CASE LoadGet \/ LoadGetFails
    <3>1. GetPage(caller, job.page)
      BY <2>2, GetsPage DEF LoadGet, LoadGetFails
    <3> QED BY <1>1, <1>2, <1>3, <3>1, QuietCalls
  <2>3. CASE LoadNothing \/ LoadHeader \/ LoadPart \/ LoadNodes
    <3>1. Release(caller)
      BY <2>3, NodesLoaded DEF LoadNothing, LoadHeader, LoadPart
    <3> QED BY <1>1, <1>2, <3>1, QuietCalls
  <2> QED BY <1>4, <2>1, <2>2, <2>3 DEF LoadStep
<1>6. CASE LoadGetHeader
  <2>1. job' = [NoJob EXCEPT !.op = "load", !.step = "header"]
    BY <1>6 DEF LoadGetHeader
  <2>2. job'.page = 0 /\ job'.fresh = 0 /\ job'.head = 0 /\ job'.op = "load"
    BY <2>1 DEF NoJob
  <2> QED BY <1>5, <2>2, NoJobPages
<1>7. CASE LoadGetHeaderFails \/ LoadGet
  <2>1. job' = job /\ job.page \in PageIds /\ job.fresh \in PageIds
    BY <1>1, <1>7 DEF LoadGetHeaderFails, LoadGet, Jobs
  <2> PICK p, q : p = job.page /\ q = job.fresh
    OBVIOUS
  <2>2. Newest(p)' = Newest(p) /\ Newest(q)' = Newest(q)
    BY <1>5, <2>1
  <2>3. Newest(job.page)' = Newest(job.page) /\ Newest(job.fresh)' = Newest(job.fresh)
    BY <2>1, <2>2
  <2> QED BY <1>2, <1>5, <2>1, <2>3, SameJobPages
<1>8. CASE LoadNothing \/ LoadGetFails \/ LoadNodes
  <2>1. job' = NoJob
    BY <1>8, NodesLoaded DEF LoadNothing, LoadGetFails
  <2> QED BY <1>5, <2>1, NoJobPages DEF NoJob
<1>9. CASE LoadHeader
  <2> PICK c : c = Framed
    OBVIOUS
  <2>1. /\ job' = IF c.n = 0 THEN NoJob
                  ELSE [NoJob EXCEPT !.op = "load", !.step = "chain", !.part = c.n, !.page = c.next]
        /\ Step("load", "header") /\ held[caller] # Idle
    BY <1>9 DEF LoadHeader, At, Release
  <2>2. held[caller].page = HNSWPage
    BY <1>1, <2>1 DEF JobInv, Step
  <2>3. c = Newest(HNSWPage)
    BY <1>1, <2>1, <2>2, FramedNewest
  <2>4. c.next \in N /\ 0 \in N
    BY <1>2, <2>3 DEF Closed
  <2>5. CASE c.n = 0
    BY <1>5, <2>1, <2>5, NoJobPages DEF NoJob
  <2>6. CASE c.n # 0
    <3>1. job'.page = c.next /\ job'.fresh = 0 /\ job'.head = 0 /\ job'.op = "load"
      BY <2>1, <2>6 DEF NoJob
    <3>2. JobPages(N, D)'
      BY <2>4, <3>1 DEF JobPages, Step
    <3> QED BY <1>5, <3>2 DEF ChainInv
  <2> QED BY <2>5, <2>6
<1>10. CASE LoadPart
  <2> PICK c, j : c = Framed /\ j = job
    OBVIOUS
  <2>1. /\ job' = [j EXCEPT !.part = j.part - 1, !.page = c.next, !.read = Append(j.read, c)]
        /\ Step("load", "chain") /\ held[caller] # Idle /\ j.op = "load"
    BY <1>10 DEF LoadPart, At, PartRead, Release, Step
  <2>2. held[caller].page = job.page
    BY <1>1, <2>1 DEF JobInv, Step
  <2>3. c = Newest(job.page) /\ job.page \in N
    BY <1>1, <1>2, <2>1, <2>2, FramedNewest DEF JobPages
  <2>4. c.next \in N /\ j.fresh \in N /\ j.head \in N
    BY <1>2, <2>3 DEF Closed, JobPages
  <2>5. job'.page = c.next /\ job'.fresh = j.fresh /\ job'.head = j.head /\ job'.op = "load"
    BY <1>1, <2>1 DEF Jobs
  <2>6. JobPages(N, D)'
    BY <2>4, <2>5 DEF JobPages, Step
  <2> QED BY <1>5, <2>6 DEF ChainInv
<1> QED
  BY <1>4, <1>6, <1>7, <1>8, <1>9, <1>10 DEF LoadStep

LEMMA OtherPageChains ==
  ASSUME CkInv, hazards = {}, OtherPage
  PROVE  ChainInv'
<1>1. hazards = {} /\ job' = job /\ job = NoJob /\ NewPage(caller, PageWith(OtherContent))
  BY DEF OtherPage
<1>2. StoredInv /\ OneCaller /\ PoolInv /\ TypeOK
  BY <1>1, OneThread DEF CkInv, StoredInv, PoolInv
<1>3. PICK N, D \in SUBSET PageIds : Closed(N, D) /\ JobPages(N, D)
  BY <1>1 DEF CkInv, ChainInv
<1> PICK p : p = next_page_id
  OBVIOUS
<1>4. /\ OtherContent \in Contents
      /\ PageWith(OtherContent) \in Page /\ PageWith(OtherContent)[1] = OtherContent
  BY FixedContents, PageWithType
<1>5. Changed(p, PageWith(OtherContent)) /\ next_page_id' = p + 1 /\ p \in PageIds
  BY <1>1, <1>2, <1>4, OneThread, NewPageWrites DEF Changed
<1>6. Newest(p)'.next = 0
  BY <1>4, <1>5 DEF Changed, Newest, OtherContent, Content
<1>7. \A q \in PageIds : q \in Int /\ ~(q < q)
  BY DEF PageIds
<1>8. (\A q \in N : q \in Int /\ q < p) /\ p \notin N /\ p \notin D
  <2>1. \A q \in N : q < p
    BY <1>3 DEF Closed
  <2>2. \A q \in D : q < p
    BY <1>2, <1>3, DurableIssued
  <2> QED BY <1>5, <1>7, <2>1, <2>2
<1> DEFINE M == N \cup {p}
<1>9. Closed(M, D)'
  <2>1. M \in SUBSET PageIds /\ {p} \in SUBSET PageIds /\ N \subseteq M
    BY <1>5
  <2>2. WritesBack({p}) /\ disk' = disk /\ {p} \cap D \subseteq {HNSWPage}
    BY <1>5, <1>8 DEF Changed
  <2>3. \A q \in M : q < next_page_id'
    <3>1. p \in Int /\ next_page_id' = p + 1
      BY <1>5, <1>7
    <3> QED BY <1>8, <3>1
  <2>4. \A q \in M : q \notin N \/ q \in {p} => Newest(q)'.next \in M
    <3>1. 0 \in M
      BY <1>3 DEF Closed
    <3> QED BY <1>6, <3>1
  <2> HIDE DEF M
  <2> QED BY <1>3, <2>1, <2>2, <2>3, <2>4, ChainsStep
<1>10. M \in SUBSET PageIds
  BY <1>5
<1> HIDE DEF M
<1> QED
  BY <1>1, <1>9, <1>10, NoJobPages DEF NoJob

LEMMA FlushChains ==
  ASSUME CkInv, hazards = {}, Flush
  PROVE  ChainInv'
<1>1. hazards = {} /\ job' = job /\ job = NoJob
  BY DEF Flush
<1>2. StoredInv /\ OneCaller /\ PoolInv
  BY <1>1, OneThread DEF CkInv, StoredInv
<1>3. PICK N, D \in SUBSET PageIds : Closed(N, D) /\ JobPages(N, D)
  BY <1>1 DEF CkInv, ChainInv
<1>4. CASE disk' = disk /\ WritesBack({}) /\ next_page_id' = next_page_id
  <2>1. Closed(N, D)'
    BY <1>3, <1>4, QuietStep
  <2> QED BY <1>1, <2>1, NoJobPages DEF NoJob
<1>5. CASE FlushOK(caller)
  <2>1. /\ disk' = file' /\ \A q \in PageIds : ~Newer(q)'
        /\ WritesBack({}) /\ next_page_id' = next_page_id
    BY <1>2, <1>5, OneThread, FlushWrites
  <2>2. StoredInv'
    <3>1. Next
      BY <1>5, UsesPoolIsNext DEF UsesPool
    <3> QED BY <1>2, <3>1, StoredNext
  <2>3. \A q \in PageIds : Newest(q)' = Newest(q)
    BY <2>1, NewestKept
  <2>4. ASSUME NEW p \in N
        PROVE  /\ ~Newer(p)' /\ file'.data[p][1].next \in N
               /\ disk'.data[p][1] = file'.data[p][1]
               /\ FirstDataPage <= p => Covered(disk', p, 1)
    <3>1. file'.data[p][1] = Newest(p)
      BY <2>1, <2>3 DEF Newest
    <3>2. Newest(p).next \in N /\ p < next_page_id'
      BY <1>3, <2>1 DEF Closed
    <3>3. FirstDataPage <= p => Covered(disk', p, 1)
      <4>1. FirstDataPage <= p => Covered(file, p, 1)' \/ Newer(p)'
        BY <2>2, <3>2 DEF StoredInv, FileInv, IssuedStored
      <4> QED BY <2>1, <4>1 DEF Covered
    <3> QED BY <2>1, <3>1, <3>2, <3>3
  <2>5. {0, HNSWPage} \subseteq N
    BY <1>3 DEF Closed
  <2> QED BY <1>1, <2>2, <2>4, <2>5, SyncedChains
<1> QED
  BY <1>2, <1>4, <1>5, OneThread, FlushWrites DEF Flush

(* A new pool has no page that is newer than its file. *)
LEMMA ReopenedNewer ==
  ASSUME NEW fs, NEW gs, Reopened(fs, gs), NEW p \in PageIds
  PROVE  ~Newer(p)'
BY DEF Reopened, EmptyTable, Newer, Cached

LEMMA CloseChains ==
  ASSUME CkInv, hazards = {}, Close
  PROVE  ChainInv'
<1> DEFINE fs == WrittenFile(DirtyPages)
<1>1. hazards = {} /\ job' = NoJob /\ Reopened(fs, fs) /\ \A t \in Threads : held[t] = Idle
  BY DEF Close, CloseAndOpen, Restarted
<1>2. StoredInv /\ OneCaller /\ PoolInv /\ FileInv
  BY <1>1, OneThread DEF CkInv, StoredInv
<1>3. PICK N, D \in SUBSET PageIds : Closed(N, D)
  BY <1>1 DEF CkInv, ChainInv
<1>4. StoredInv'
  <2>1. Next
    BY DEF Close, Next
  <2> QED BY <1>2, <2>1, StoredNext
<1>5. WroteBack(file, fs, DirtyPages, {}) /\ fs.size \in Nat
  BY <1>2, ClosedFile DEF FileState
<1> HIDE DEF fs
<1>6. file' = fs /\ disk' = fs
  BY <1>1 DEF Reopened
<1>7. \A q : Newer(q) <=> q \in DirtyPages
  BY <1>1, <1>2, OneThread, IdleNewer
<1>8. ASSUME NEW p \in N
      PROVE  /\ ~Newer(p)' /\ file'.data[p][1].next \in N
             /\ disk'.data[p][1] = file'.data[p][1]
             /\ FirstDataPage <= p => Covered(disk', p, 1)
  <2>1. fs.data[p][1] = Newest(p)
    <3>1. CASE p \in DirtyPages
      BY <1>5, <1>7, <3>1 DEF WroteBack, Newest
    <3>2. CASE p \notin DirtyPages
      BY <1>5, <1>7, <3>2 DEF WroteBack, Newest
    <3> QED BY <3>1, <3>2
  <2>2. Newest(p).next \in N /\ p < next_page_id
    BY <1>3 DEF Closed
  <2>3. ASSUME FirstDataPage <= p PROVE Covered(fs, p, 1)
    <3>1. p * Parts \in Nat /\ Parts = 1 /\ file.size \in Nat /\ file.size <= fs.size
      BY <1>2, <1>5, OffsetIsNat, OneThread DEF WroteBack, PoolInv, TypeOK, FileState
    <3>2. CASE Covered(file, p, 1)
      BY <1>5, <3>1, <3>2 DEF Covered
    <3>3. CASE Newer(p)
      BY <1>5, <1>7, <3>1, <3>3 DEF WroteBack
    <3> QED BY <1>2, <2>2, <2>3, <3>2, <3>3 DEF FileInv, IssuedStored
  <2>4. ~Newer(p)'
    BY <1>1, ReopenedNewer
  <2> QED BY <1>6, <2>1, <2>2, <2>3, <2>4
<1>9. {0, HNSWPage} \subseteq N
  BY <1>3 DEF Closed
<1> QED
  BY <1>1, <1>4, <1>8, <1>9, SyncedChains

(* After a crash that leaves the header of the last sync, everything that this
   header leads to is as it was at the last sync. *)
LEMMA CrashChains ==
  ASSUME CkInv, hazards = {}, Crash, hazards' = {}
  PROVE  ChainInv'
<1>1. hazards = {} /\ job' = NoJob /\ file'.data[HNSWPage] = disk.data[HNSWPage]
  BY DEF Crash, Restarted
<1>2. StoredInv /\ OneCaller /\ PoolInv /\ FileInv
  BY <1>1, OneThread DEF CkInv, StoredInv
<1>3. PICK N, D \in SUBSET PageIds : Closed(N, D)
  BY <1>1 DEF CkInv, ChainInv
<1>4. StoredInv'
  <2>1. Next
    BY DEF Crash, Next
  <2> QED BY <1>2, <2>1, StoredNext
<1>5. 1 \in 1 .. Parts
  BY FileAssumption
<1>6. PICK fs, gs :
        /\ Reopened(fs, gs)
        /\ \A p \in PageIds : fs.data[p][1] \in {file.data[p][1], disk.data[p][1]}
        /\ (fs = file /\ gs = disk) \/ (gs = fs /\ disk.size <= fs.size /\ fs.size \in Nat)
  <2>1. CASE KillAndOpen
    BY <2>1 DEF KillAndOpen
  <2>2. CASE PowerLossAndOpen
    <3>1. PICK fs \in AfterCrash(file, disk) : Reopened(fs, fs)
      BY <2>2 DEF PowerLossAndOpen
    <3>2. /\ disk.size <= fs.size /\ fs \in FileState
          /\ \A q \in PageIds, k \in 1 .. Parts :
               fs.data[q][k] \in {file.data[q][k], disk.data[q][k]}
      BY <1>2, CrashedFile
    <3> QED BY <1>5, <3>1, <3>2 DEF FileState
  <2> QED BY <2>1, <2>2 DEF Crash
<1>7. file' = fs /\ disk' = gs
  BY <1>6 DEF Reopened
<1>8. ASSUME NEW p \in D
      PROVE  /\ ~Newer(p)' /\ file'.data[p][1].next \in D
             /\ disk'.data[p][1] = file'.data[p][1]
             /\ FirstDataPage <= p => Covered(disk', p, 1)
  <2>1. fs.data[p][1] = Synced(p)
    <3>1. CASE p = HNSWPage
      BY <1>1, <1>7, <3>1 DEF Synced
    <3>2. CASE p # HNSWPage
      <4>1. file.data[p][1] = Synced(p)
        BY <1>3, <3>2 DEF Closed
      <4> QED BY <1>6, <4>1 DEF Synced
    <3> QED BY <3>1, <3>2
  <2>2. gs.data[p][1] = Synced(p)
    BY <1>6, <2>1 DEF Synced
  <2>3. Synced(p).next \in D
    BY <1>3 DEF Closed
  <2>4. ASSUME FirstDataPage <= p PROVE Covered(gs, p, 1)
    <3>1. Covered(disk, p, 1)
      BY <1>3, <2>4 DEF Closed
    <3>2. p * Parts \in Nat /\ disk.size \in Nat
      BY <1>2, OffsetIsNat DEF PoolInv, TypeOK, FileState
    <3> QED BY <1>6, <3>1, <3>2 DEF Covered
  <2>5. ~Newer(p)'
    BY <1>6, ReopenedNewer
  <2> QED BY <1>7, <2>1, <2>2, <2>3, <2>4, <2>5
<1>9. {0, HNSWPage} \subseteq D
  BY <1>3 DEF Closed
<1> QED
  BY <1>1, <1>4, <1>8, <1>9, SyncedChains

LEMMA ChainsNext ==
  ASSUME CkInv, hazards = {}, [CkNext]_ckptVars, hazards' = {}
  PROVE  ChainInv'
<1>1. CASE UNCHANGED ckptVars \/ Insert
  <2>1. UNCHANGED vars /\ job' = job
    BY <1>1 DEF Insert, ckptVars, vars
  <2>2. StoredInv /\ job.page \in PageIds /\ job.fresh \in PageIds
    BY DEF CkInv, CkTypeOK, Jobs
  <2>3. PICK N, D \in SUBSET PageIds : Closed(N, D) /\ JobPages(N, D)
    BY DEF CkInv, ChainInv
  <2>4. Closed(N, D)' /\ \A p \in PageIds : Newest(p)' = Newest(p)
    BY <2>1, <2>2, <2>3, QuietCalls
  <2> PICK p, q : p = job.page /\ q = job.fresh
    OBVIOUS
  <2>5. Newest(p)' = Newest(p) /\ Newest(q)' = Newest(q)
    BY <2>2, <2>4
  <2>6. Newest(job.page)' = Newest(job.page) /\ Newest(job.fresh)' = Newest(job.fresh)
    BY <2>1, <2>5
  <2> QED BY <2>1, <2>3, <2>4, <2>6, SameJobPages
<1>2. ~InsertUndefined
  BY DEF InsertUndefined
<1> QED
  BY <1>1, <1>2, SaveAllocChains, SaveWriteChains, SaveOtherChains, LoadChains, OtherPageChains,
     FlushChains, CloseChains, CrashChains DEF CkNext, SaveStep

-----------------------------------------------------------------------------
(* The theorems *)

LEMMA CkInitInv == CkInit => CkInv
<1> SUFFICES ASSUME CkInit PROVE CkInv
  OBVIOUS
<1>1. Init /\ index = IndexOf(0) /\ job = NoJob /\ hazards = {}
  BY DEF CkInit
<1>2. StoredInv /\ CleanFramesMatchFile
  BY <1>1, StoredInit, CleanFramesInit
<1>3. TypeOK /\ PoolStructureUnlessUnordered /\ HeldInv /\ FileInv
  BY <1>2, StructureWeaker DEF StoredInv, PoolInv
<1>4. CkTypeOK
  <2>1. index \in [entry : Graphs, nodes : Graphs, count : Graphs]
    BY <1>1, CheckpointAssumption DEF IndexOf
  <2>2. hazards \subseteq Hazards
    BY <1>1
  <2> QED BY <1>1, <1>3, <2>1, <2>2, NoJobType DEF CkTypeOK
<1>5. JobInv
  <2>1. held[caller] = Idle
    BY <1>1, OneThread DEF Init, AllIdle
  <2> QED BY <1>1, <2>1 DEF JobInv, Step, NoJob
<1>6. ASSUME NEW p \in PageIds PROVE Newest(p) = ZeroContent /\ Synced(p) = ZeroContent
                                     /\ file.data[p][1] = ZeroContent
  <2>1. file = EmptyFile /\ disk = EmptyFile /\ ~Newer(p)
    BY <1>1 DEF Init, EmptyTable, Newer, Cached
  <2>2. EmptyFile.data[p][1] = ZeroContent
    BY FileAssumption, CheckpointAssumption DEF EmptyFile, ZeroPage
  <2> QED BY <2>1, <2>2 DEF Newest, Synced
<1> DEFINE N == {0, HNSWPage}
<1>7. N \in SUBSET PageIds /\ ZeroContent.next = 0
  BY FirstPages DEF ZeroContent, Content
<1>8. ASSUME NEW p \in N PROVE p < next_page_id /\ ~(FirstDataPage <= p)
  <2>1. /\ p \in Int /\ FirstDataPage \in Int /\ next_page_id \in Int /\ p < FirstDataPage
        /\ FirstDataPage <= next_page_id
    BY <1>3, FirstPages, PoolAssumption DEF PageIds, TypeOK, FileInv
  <2> QED BY <2>1
<1>9. Closed(N, N)
  BY <1>6, <1>7, <1>8 DEF Closed
<1>10. JobPages(N, N)
  BY <1>1 DEF JobPages, NoJob, Step
<1>11. ChainInv
  BY <1>7, <1>9, <1>10 DEF ChainInv
<1> QED
  BY <1>2, <1>3, <1>4, <1>5, <1>11 DEF CkInv

LEMMA CkNextInv == CkInv /\ [CkNext]_ckptVars => CkInv'
<1> SUFFICES ASSUME CkInv, [CkNext]_ckptVars PROVE CkInv'
  OBVIOUS
<1>1. JobType' /\ JobInv'
  BY JobStep
<1>2. ASSUME TypeOK', PoolStructureUnlessUnordered', HeldInv',
             hazards' = {} => StoredInv' /\ CleanFramesMatchFile' /\ ChainInv'
      PROVE  CkInv'
  <2>1. CkTypeOK'
    BY <1>1, <1>2 DEF CkTypeOK, JobType
  <2> QED BY <1>1, <1>2, <2>1 DEF CkInv
<1>3. CASE hazards = {}
  <2>1. StoredInv /\ CleanFramesMatchFile /\ [Next]_vars
    BY <1>3, PoolStep DEF CkInv
  <2>2. StoredInv' /\ CleanFramesMatchFile'
    BY <2>1, OneThread, StoredNext, CleanFramesNext
  <2>3. TypeOK' /\ PoolStructureUnlessUnordered' /\ HeldInv'
    BY <2>2, StructureWeaker DEF StoredInv, PoolInv
  <2>4. hazards' = {} => ChainInv'
    BY <1>3, ChainsNext
  <2> QED BY <1>2, <2>2, <2>3, <2>4
<1>4. CASE hazards # {}
  BY <1>2, <1>4, HazardStep
<1> QED
  BY <1>3, <1>4

LEMMA CkInvariance == CkSpec => []CkInv
BY CkInitInv, CkNextInv, PTL DEF CkSpec

(* Save, Load, Insert and the other users of the pool never leave the types of the
   checkpoint, whatever fails or stops and whatever a page is found to hold: the
   count of the pages that Save has to write or Load has to read never goes below
   zero or above the longest chain by more than one (hnsw_io.cpp:117-129, 142-170). *)
THEOREM CkTypeCorrect == CkSpec => []CkTypeOK
<1>1. CkInv => CkTypeOK
  BY DEF CkInv
<1> QED
  BY <1>1, CkInvariance, PTL

(* The pool's table and list agree in every state of the checkpoint.  After a crash
   that it may not survive, Load follows links of any pages and has the pool cache
   ids that are not issued, Save and the other callers take new pages, and NewPage
   installs a page that is cached (buffer_pool.cpp:56-64): that the id is then twice
   in lru_ is all that it breaks, and before such a crash it does not happen. *)
THEOREM CkStructureUnlessUnordered == CkSpec => []PoolStructureUnlessUnordered
<1>1. CkInv => PoolStructureUnlessUnordered
  BY DEF CkInv
<1> QED
  BY <1>1, CkInvariance, PTL

(* Every id that Save and Load ask the pool for has been issued in this run of the
   program, although Load finds it in pages that an earlier run wrote and a crash
   may have left half written back: so NewPage, which does not look whether its
   next id is cached (buffer_pool.cpp:62), never takes over a cached page. *)
THEOREM ChainIds == CkSpec => []ChainIdsIssued
<1>1. CkInv => ChainIdsIssued
  BY DEF CkInv, StoredInv, PoolInv, IdsIssued, ChainIdsIssued
<1> QED
  BY <1>1, CkInvariance, PTL

-----------------------------------------------------------------------------
(* The graph in pages with contents F, as Stored has it *)

PageMaps == [PageIds -> Contents]

(* The pages that Load visits from "head" on, n of them. *)
Walks(F, head, n) ==
  {w \in [1 .. n -> PageIds] :
     \A i \in 1 .. n : w[i] = IF i = 1 THEN head ELSE F[w[i - 1]].next}

IsPart(content, g, i) == content.kind = "nodes" /\ content.graph = g /\ content.n = i

Carries(F, head, g) ==
  \E w \in Walks(F, head, PagesOf[g]) :
    \A i \in 1 .. PagesOf[g] : IsPart(F[w[i]], g, i)

StoredIn(F) ==
  LET h == F[HNSWPage]
  IN  IF h.kind # "header" THEN NoGraph
      ELSE IF h.n = PagesOf[h.graph] /\ Carries(F, h.next, h.graph) THEN h.graph ELSE Broken

NewestPages == [p \in PageIds |-> Newest(p)]
SyncedPages == [p \in PageIds |-> Synced(p)]

(* Chain for the newest contents, and for those of the last sync. *)
NewestChain(head, n) ==
  LET at[i \in 1 .. n] == IF i = 1 THEN head ELSE Newest(at[i - 1]).next
  IN  [i \in 1 .. n |-> Newest(at[i])]

SyncedChain(head, n) ==
  LET at[i \in 1 .. n] == IF i = 1 THEN head ELSE Synced(at[i - 1]).next
  IN  [i \in 1 .. n |-> Synced(at[i])]

-----------------------------------------------------------------------------
(* The inductive invariant, for a job j, an index x and pages with contents F *)

(* The nodes are none, or of the graph of the entry point, with the count of it. *)
IndexOK(x) ==
  /\ x.nodes \in {0, x.entry}
  /\ x.entry = x.nodes => x.count = x.entry

(* The header page: where there is no entry point, there is no chain, and a chain
   that it leads to is whole. *)
HeaderOK(F) ==
  LET h == F[HNSWPage]
  IN  /\ h.kind # "nodes"
      /\ h.kind = "header" /\ h.graph = 0 => h.n = 0
      /\ h.kind = "header" /\ h.n # 0 => StoredIn(F) # Broken

(* Save has written the parts before j.part; it is going to change no page of
   them but the last. *)
Written(j, F, new) ==
  \E w \in Walks(F, j.head, j.part - 1) :
    /\ \A i \in 1 .. (j.part - 1) :
         IsPart(F[w[i]], j.graph, i) /\ w[i] < new /\ (j.step = "link" => w[i] # j.fresh)
    /\ \A i \in 1 .. (j.part - 2) : w[i] # j.page
    /\ w[j.part - 1] = j.page

(* The pages that the stored header leads to are not those that Save changes. *)
Apart(j, F, new) ==
  \E R \in SUBSET PageIds :
    /\ HNSWPage \in R
    /\ \A p \in R : p < new /\ F[p].next \in R
    /\ j.page \notin R
    /\ j.step = "link" => j.fresh \notin R

SaveOK(j, x, F, new, wrote) ==
  /\ j.entry = x.entry
  /\ j.step # "nodes" => j.graph = x.nodes /\ 1 <= j.part
  /\ j.step # "nodes" /\ j.part > 1 => Written(j, F, new)
  /\ j.step \in {"alloc", "link"} /\ j.part > 1 => Apart(j, F, new)
  /\ j.step = "link" => /\ j.fresh < new /\ IsPart(F[j.fresh], j.graph, j.part)
                        /\ wrote => F[j.page].next = j.fresh
  /\ j.step = "header" => j.part = PagesOf[j.graph] + 1

(* The pages that Load has read are those of the stored chain, in their order. *)
LoadOK(j, x, F) ==
  LET h == F[HNSWPage]
  IN  /\ h.kind = "header" /\ h.graph = x.entry
      /\ j.part <= h.n /\ Len(j.read) = h.n - j.part
      /\ \E w \in Walks(F, h.next, h.n) :
           /\ j.page = w[h.n - j.part + 1]
           /\ \A i \in 1 .. Len(j.read) : j.read[i] = F[w[i]]

JobOK ==
  /\ job.op = "save" => SaveOK(job, index, NewestPages, next_page_id, held[caller].wrote)
  /\ Step("load", "chain") => LoadOK(job, index, NewestPages)

GraphInv ==
  /\ IndexOK(index)
  /\ HeaderOK(NewestPages) /\ HeaderOK(SyncedPages)
  /\ JobOK

CkGraphInv == CkInv /\ (hazards = {} => GraphInv)

(* The variables of GraphStore. *)
LoadedGraph == IF Whole THEN index.entry ELSE Broken
StoredGraph == StoredIn(NewestPages)
DurableGraph == StoredIn(SyncedPages)

-----------------------------------------------------------------------------
(* Walks and chains *)

(* Two sequences that start alike and go on alike are alike. *)
LEMMA GoOnAlike ==
  ASSUME NEW n \in Nat, NEW f, NEW g,
         1 <= n => f[1] = g[1],
         \A i \in 1 .. n : i # 1 /\ f[i - 1] = g[i - 1] => f[i] = g[i]
  PROVE  \A i \in 1 .. n : f[i] = g[i]
<1> DEFINE T == {k \in Nat : k \in 1 .. n => f[k] = g[k]}
<1>1. 0 \in T
  OBVIOUS
<1>2. ASSUME NEW k \in Nat, k \in T PROVE k + 1 \in T
  <2>1. CASE k = 0
    BY <2>1
  <2>2. CASE k # 0 /\ k + 1 \in 1 .. n
    <3>1. k \in 1 .. n /\ k + 1 # 1 /\ (k + 1) - 1 = k
      BY <2>2
    <3>2. f[(k + 1) - 1] = g[(k + 1) - 1]
      BY <1>2, <3>1
    <3>3. f[k + 1] = g[k + 1]
      BY <2>2, <3>1, <3>2
    <3> QED BY <3>3
  <2>3. CASE k + 1 \notin 1 .. n
    BY <2>3
  <2> QED BY <2>1, <2>2, <2>3
<1> HIDE DEF T
<1>3. Nat \subseteq T
  BY <1>1, <1>2, SetInduction
<1> QED
  BY <1>3 DEF T

LEMMA WalkExists ==
  ASSUME NEW F \in PageMaps, NEW head \in PageIds, NEW n \in Nat
  PROVE  \E w : w \in Walks(F, head, n)
<1>1. \A p \in PageIds : F[p].next \in PageIds
  BY ContentsType DEF PageMaps
<1> DEFINE T == {k \in Nat : \E w : w \in Walks(F, head, k)}
<1>2. 0 \in T
  <2>1. [i \in 1 .. 0 |-> head] \in Walks(F, head, 0)
    BY DEF Walks
  <2> QED BY <2>1
<1>3. ASSUME NEW k \in Nat, k \in T PROVE k + 1 \in T
  <2>1. PICK w \in [1 .. k -> PageIds] :
          \A i \in 1 .. k : w[i] = IF i = 1 THEN head ELSE F[w[i - 1]].next
    BY <1>3 DEF Walks
  <2> DEFINE v == [i \in 1 .. (k + 1) |->
                     IF i = 1 THEN head ELSE IF i = k + 1 THEN F[w[k]].next ELSE w[i]]
  <2>2. ASSUME NEW i \in 1 .. (k + 1) PROVE v[i] \in PageIds
    <3>1. CASE i = 1
      BY <3>1
    <3>2. CASE i # 1 /\ i = k + 1
      <4>1. k \in 1 .. k
        BY <3>2
      <4> QED BY <1>1, <2>1, <3>2, <4>1
    <3>3. CASE i # 1 /\ i # k + 1
      <4>1. i \in 1 .. k
        BY <3>3
      <4> QED BY <2>1, <3>3, <4>1
    <3> QED BY <3>1, <3>2, <3>3
  <2>3. ASSUME NEW i \in 1 .. (k + 1), i # 1 PROVE v[i] = F[v[i - 1]].next
    <3>1. i - 1 \in 1 .. k /\ i - 1 \in 1 .. (k + 1) /\ i - 1 # k + 1
      BY <2>3
    <3>2. v[i - 1] = w[i - 1]
      BY <2>1, <3>1
    <3>3. CASE i = k + 1
      BY <2>3, <3>2, <3>3
    <3>4. CASE i # k + 1
      <4>1. i \in 1 .. k
        BY <3>4
      <4> QED BY <2>1, <2>3, <3>2, <3>4, <4>1
    <3> QED BY <3>3, <3>4
  <2>4. 1 \in 1 .. (k + 1) => v[1] = head
    OBVIOUS
  <2>5. v \in [1 .. (k + 1) -> PageIds]
    BY <2>2
  <2> HIDE DEF v
  <2>6. v \in Walks(F, head, k + 1)
    BY <2>3, <2>4, <2>5 DEF Walks
  <2> QED BY <2>6
<1> HIDE DEF T
<1>4. Nat \subseteq T
  BY <1>2, <1>3, SetInduction
<1> QED
  BY <1>4 DEF T

LEMMA WalkUnique ==
  ASSUME NEW F, NEW G, NEW head, NEW n \in Nat,
         NEW v \in Walks(F, head, n), NEW w \in Walks(G, head, n),
         \A i \in 1 .. n : F[w[i]] = G[w[i]]
  PROVE  v = w
<1>1. /\ v \in [1 .. n -> PageIds] /\ w \in [1 .. n -> PageIds]
      /\ \A i \in 1 .. n : v[i] = IF i = 1 THEN head ELSE F[v[i - 1]].next
      /\ \A i \in 1 .. n : w[i] = IF i = 1 THEN head ELSE G[w[i - 1]].next
  BY DEF Walks
<1>2. ASSUME 1 <= n PROVE v[1] = w[1]
  <2>1. 1 \in 1 .. n
    BY <1>2
  <2> QED BY <1>1, <2>1
<1>3. ASSUME NEW i \in 1 .. n, i # 1, v[i - 1] = w[i - 1] PROVE v[i] = w[i]
  <2>1. i - 1 \in 1 .. n
    BY <1>3
  <2>2. F[w[i - 1]] = G[w[i - 1]]
    BY <2>1
  <2> QED BY <1>1, <1>3, <2>2
<1>4. \A i \in 1 .. n : v[i] = w[i]
  BY <1>2, <1>3, GoOnAlike
<1> QED
  BY <1>1, <1>4

(* The chain in the newest contents. *)
LEMMA NewestChainWalk ==
  ASSUME NEW head \in PageIds, NEW n \in Nat, NEW w \in Walks(NewestPages, head, n)
  PROVE  NewestChain(head, n) = [i \in 1 .. n |-> NewestPages[w[i]]]
<1> DEFINE AreLinks(f) == f = [i \in 1 .. n |-> IF i = 1 THEN head ELSE Newest(f[i - 1]).next]
           at == CHOOSE f : AreLinks(f)
<1>1. w \in [1 .. n -> PageIds]
      /\ \A i \in 1 .. n : w[i] = IF i = 1 THEN head ELSE NewestPages[w[i - 1]].next
  BY DEF Walks
<1>2. ASSUME NEW i \in 1 .. n, i # 1 PROVE NewestPages[w[i - 1]] = Newest(w[i - 1])
  <2>1. w[i - 1] \in PageIds
    BY <1>1, <1>2
  <2> QED BY <2>1 DEF NewestPages
<1>3. AreLinks(w)
  <2>1. \A i \in 1 .. n : w[i] = IF i = 1 THEN head ELSE Newest(w[i - 1]).next
    BY <1>1, <1>2
  <2> QED BY <1>1, <2>1
<1>4. AreLinks(at)
  BY <1>3
<1> HIDE DEF at
<1>5. at = w
  <2>1. 1 <= n => at[1] = w[1]
    BY <1>1, <1>4
  <2>2. ASSUME NEW i \in 1 .. n, i # 1, at[i - 1] = w[i - 1] PROVE at[i] = w[i]
    BY <1>1, <1>2, <1>4, <2>2
  <2>3. \A i \in 1 .. n : at[i] = w[i]
    BY <2>1, <2>2, GoOnAlike
  <2>4. at = [i \in 1 .. n |-> at[i]] /\ w = [i \in 1 .. n |-> w[i]]
    BY <1>1, <1>4
  <2> QED BY <2>3, <2>4
<1>6. NewestChain(head, n) = [i \in 1 .. n |-> Newest(at[i])]
  BY DEF NewestChain, at
<1>7. ASSUME NEW i \in 1 .. n PROVE Newest(w[i]) = NewestPages[w[i]]
  BY <1>1 DEF NewestPages
<1> QED
  BY <1>5, <1>6, <1>7

(* The same, in the contents of the last sync. *)
LEMMA SyncedChainWalk ==
  ASSUME NEW head \in PageIds, NEW n \in Nat, NEW w \in Walks(SyncedPages, head, n)
  PROVE  SyncedChain(head, n) = [i \in 1 .. n |-> SyncedPages[w[i]]]
<1> DEFINE AreLinks(f) == f = [i \in 1 .. n |-> IF i = 1 THEN head ELSE Synced(f[i - 1]).next]
           at == CHOOSE f : AreLinks(f)
<1>1. w \in [1 .. n -> PageIds]
      /\ \A i \in 1 .. n : w[i] = IF i = 1 THEN head ELSE SyncedPages[w[i - 1]].next
  BY DEF Walks
<1>2. ASSUME NEW i \in 1 .. n, i # 1 PROVE SyncedPages[w[i - 1]] = Synced(w[i - 1])
  <2>1. w[i - 1] \in PageIds
    BY <1>1, <1>2
  <2> QED BY <2>1 DEF SyncedPages
<1>3. AreLinks(w)
  <2>1. \A i \in 1 .. n : w[i] = IF i = 1 THEN head ELSE Synced(w[i - 1]).next
    BY <1>1, <1>2
  <2> QED BY <1>1, <2>1
<1>4. AreLinks(at)
  BY <1>3
<1> HIDE DEF at
<1>5. at = w
  <2>1. 1 <= n => at[1] = w[1]
    BY <1>1, <1>4
  <2>2. ASSUME NEW i \in 1 .. n, i # 1, at[i - 1] = w[i - 1] PROVE at[i] = w[i]
    BY <1>1, <1>2, <1>4, <2>2
  <2>3. \A i \in 1 .. n : at[i] = w[i]
    BY <2>1, <2>2, GoOnAlike
  <2>4. at = [i \in 1 .. n |-> at[i]] /\ w = [i \in 1 .. n |-> w[i]]
    BY <1>1, <1>4
  <2> QED BY <2>3, <2>4
<1>6. SyncedChain(head, n) = [i \in 1 .. n |-> Synced(at[i])]
  BY DEF SyncedChain, at
<1>7. ASSUME NEW i \in 1 .. n PROVE Synced(w[i]) = SyncedPages[w[i]]
  BY <1>1 DEF SyncedPages
<1> QED
  BY <1>5, <1>6, <1>7

(* What is stored is said by the contents of the pages. *)
LEMMA PagesType ==
  ASSUME TypeOK
  PROVE  NewestPages \in PageMaps /\ SyncedPages \in PageMaps
<1>1. \A p \in PageIds : Newest(p) \in Contents
  BY NewestType
<1>2. ASSUME NEW p \in PageIds PROVE Synced(p) \in Contents
  <2>1. disk.data[p] \in Page
    BY DEF TypeOK, FileState
  <2> QED BY <2>1, PageContent DEF Synced
<1> QED
  BY <1>1, <1>2 DEF NewestPages, SyncedPages, PageMaps

LEMMA PagesTypeNext ==
  /\ TypeOK => NewestPages \in PageMaps /\ SyncedPages \in PageMaps
  /\ TypeOK' => NewestPages' \in PageMaps /\ SyncedPages' \in PageMaps
<1>1. TypeOK => NewestPages \in PageMaps /\ SyncedPages \in PageMaps
  BY PagesType
<1>2. (TypeOK => NewestPages \in PageMaps /\ SyncedPages \in PageMaps)'
  BY <1>1, PTL
<1> QED
  BY <1>1, <1>2

LEMMA SerializedWalk ==
  ASSUME NEW F \in PageMaps, NEW head \in PageIds, NEW n \in Nat, NEW g \in Graphs,
         NEW w \in Walks(F, head, n), NEW s, s = [i \in 1 .. n |-> F[w[i]]]
  PROVE  Serialized(s, g) <=> n = PagesOf[g] /\ Carries(F, head, g)
<1>1. w \in [1 .. n -> PageIds] /\ PagesOf[g] \in Nat
  BY MaxPagesBound DEF Walks
<1>2. s \in Seq(Contents) /\ Len(s) = n /\ DOMAIN s = 1 .. n
  <2>1. \A i \in 1 .. n : F[w[i]] \in Contents
    BY <1>1 DEF PageMaps
  <2> QED BY <2>1
<1>3. \A i \in 1 .. n : s[i] = F[w[i]]
  OBVIOUS
<1>4. Serialized(s, g) <=> n = PagesOf[g] /\ \A i \in 1 .. n : IsPart(F[w[i]], g, i)
  BY <1>2, <1>3 DEF Serialized, IsPart
<1>5. ASSUME n = PagesOf[g], Carries(F, head, g) PROVE \A i \in 1 .. n : IsPart(F[w[i]], g, i)
  <2>1. PICK v \in Walks(F, head, n) : \A i \in 1 .. n : IsPart(F[v[i]], g, i)
    BY <1>5 DEF Carries
  <2>2. v = w
    BY WalkUnique
  <2> QED BY <2>1, <2>2
<1>6. ASSUME n = PagesOf[g], \A i \in 1 .. n : IsPart(F[w[i]], g, i) PROVE Carries(F, head, g)
  BY <1>6 DEF Carries
<1> QED
  BY <1>4, <1>5, <1>6

LEMMA StoredNewest == TypeOK => Stored(Newest) = StoredIn(NewestPages)
<1> SUFFICES ASSUME TypeOK PROVE Stored(Newest) = StoredIn(NewestPages)
  OBVIOUS
<1> PICK F, h : F = NewestPages /\ h = Newest(HNSWPage)
  OBVIOUS
<1>1. F \in PageMaps /\ F[HNSWPage] = h /\ h \in Contents
  <2>1. F \in PageMaps /\ F[HNSWPage] = h
    BY PagesType, FirstPages DEF NewestPages
  <2> QED BY <2>1, FirstPages DEF PageMaps
<1>2. h.next \in PageIds /\ h.n \in Nat /\ h.graph \in Graphs
  BY <1>1, ContentsType, MaxPagesBound
<1>3. PICK w : w \in Walks(F, h.next, h.n)
  BY <1>1, <1>2, WalkExists
<1>4. NewestChain(h.next, h.n) = [i \in 1 .. h.n |-> F[w[i]]]
  BY <1>2, <1>3, NewestChainWalk
<1>5. Serialized(NewestChain(h.next, h.n), h.graph)
        <=> h.n = PagesOf[h.graph] /\ Carries(F, h.next, h.graph)
  <2> PICK head, n, g, s : head = h.next /\ n = h.n /\ g = h.graph /\ s = NewestChain(h.next, h.n)
    OBVIOUS
  <2>1. head \in PageIds /\ n \in Nat /\ g \in Graphs /\ w \in Walks(F, head, n)
    BY <1>2, <1>3
  <2>2. s = [i \in 1 .. n |-> F[w[i]]]
    BY <1>4
  <2>3. Serialized(s, g) <=> n = PagesOf[g] /\ Carries(F, head, g)
    BY <1>1, <2>1, <2>2, SerializedWalk
  <2> QED BY <2>3
<1>6. Stored(Newest) = IF h.kind # "header" THEN NoGraph
                       ELSE IF Serialized(NewestChain(h.next, h.n), h.graph) THEN h.graph
                       ELSE Broken
  <2>1. Stored(Newest) =
          LET k == Newest(HNSWPage)
          IN  IF k.kind # "header" THEN NoGraph
              ELSE IF Serialized(NewestChain(k.next, k.n), k.graph) THEN k.graph ELSE Broken
    BY DEF Stored, Chain, NewestChain
  <2> QED BY <2>1
<1>7. StoredIn(F) = IF h.kind # "header" THEN NoGraph
                    ELSE IF h.n = PagesOf[h.graph] /\ Carries(F, h.next, h.graph) THEN h.graph
                    ELSE Broken
  BY <1>1 DEF StoredIn
<1> QED
  BY <1>5, <1>6, <1>7

LEMMA StoredSynced == TypeOK => Stored(Synced) = StoredIn(SyncedPages)
<1> SUFFICES ASSUME TypeOK PROVE Stored(Synced) = StoredIn(SyncedPages)
  OBVIOUS
<1> PICK F, h : F = SyncedPages /\ h = Synced(HNSWPage)
  OBVIOUS
<1>1. F \in PageMaps /\ F[HNSWPage] = h /\ h \in Contents
  <2>1. F \in PageMaps /\ F[HNSWPage] = h
    BY PagesType, FirstPages DEF SyncedPages
  <2> QED BY <2>1, FirstPages DEF PageMaps
<1>2. h.next \in PageIds /\ h.n \in Nat /\ h.graph \in Graphs
  BY <1>1, ContentsType, MaxPagesBound
<1>3. PICK w : w \in Walks(F, h.next, h.n)
  BY <1>1, <1>2, WalkExists
<1>4. SyncedChain(h.next, h.n) = [i \in 1 .. h.n |-> F[w[i]]]
  BY <1>2, <1>3, SyncedChainWalk
<1>5. Serialized(SyncedChain(h.next, h.n), h.graph)
        <=> h.n = PagesOf[h.graph] /\ Carries(F, h.next, h.graph)
  <2> PICK head, n, g, s : head = h.next /\ n = h.n /\ g = h.graph /\ s = SyncedChain(h.next, h.n)
    OBVIOUS
  <2>1. head \in PageIds /\ n \in Nat /\ g \in Graphs /\ w \in Walks(F, head, n)
    BY <1>2, <1>3
  <2>2. s = [i \in 1 .. n |-> F[w[i]]]
    BY <1>4
  <2>3. Serialized(s, g) <=> n = PagesOf[g] /\ Carries(F, head, g)
    BY <1>1, <2>1, <2>2, SerializedWalk
  <2> QED BY <2>3
<1>6. Stored(Synced) = IF h.kind # "header" THEN NoGraph
                       ELSE IF Serialized(SyncedChain(h.next, h.n), h.graph) THEN h.graph
                       ELSE Broken
  <2>1. Stored(Synced) =
          LET k == Synced(HNSWPage)
          IN  IF k.kind # "header" THEN NoGraph
              ELSE IF Serialized(SyncedChain(k.next, k.n), k.graph) THEN k.graph ELSE Broken
    BY DEF Stored, Chain, SyncedChain
  <2> QED BY <2>1
<1>7. StoredIn(F) = IF h.kind # "header" THEN NoGraph
                    ELSE IF h.n = PagesOf[h.graph] /\ Carries(F, h.next, h.graph) THEN h.graph
                    ELSE Broken
  BY <1>1 DEF StoredIn
<1> QED
  BY <1>5, <1>6, <1>7

(* It is said by the pages that the header leads to. *)
LEMMA SamePagesSameGraph ==
  ASSUME NEW F \in PageMaps, NEW G \in PageMaps, NEW R \in SUBSET PageIds, HNSWPage \in R,
         \A p \in R : F[p].next \in R /\ G[p] = F[p]
  PROVE  StoredIn(G) = StoredIn(F)
<1> PICK h : h = F[HNSWPage]
  OBVIOUS
<1>1. G[HNSWPage] = h /\ h.next \in R /\ h.graph \in Graphs
  BY ContentsType, FirstPages DEF PageMaps
<1>2. ASSUME NEW n \in Nat, NEW head \in R
      PROVE  /\ Walks(F, head, n) = Walks(G, head, n)
             /\ \A w \in Walks(F, head, n) : \A i \in 1 .. n : w[i] \in R
  <2>1. ASSUME NEW A, A = F \/ A = G, NEW w \in Walks(A, head, n)
        PROVE \A i \in 1 .. n : w[i] \in R
    <3> DEFINE T == {k \in Nat : k \in 1 .. n => w[k] \in R}
    <3>1. w \in [1 .. n -> PageIds]
          /\ \A i \in 1 .. n : w[i] = IF i = 1 THEN head ELSE A[w[i - 1]].next
      BY DEF Walks
    <3>2. 0 \in T
      OBVIOUS
    <3>3. ASSUME NEW k \in Nat, k \in T PROVE k + 1 \in T
      <4>1. CASE k = 0
        BY <3>1, <4>1
      <4>2. CASE k # 0 /\ k + 1 \in 1 .. n
        <5>1. k \in 1 .. n /\ k + 1 # 1 /\ (k + 1) - 1 = k
          BY <4>2
        <5>2. w[k] \in R /\ w[k + 1] = A[w[(k + 1) - 1]].next
          BY <3>1, <3>3, <4>2, <5>1
        <5>3. w[k + 1] = A[w[k]].next
          BY <5>1, <5>2
        <5>4. A[w[k]].next \in R
          BY <2>1, <5>2
        <5> QED BY <5>3, <5>4
      <4>3. CASE k + 1 \notin 1 .. n
        BY <4>3
      <4> QED BY <4>1, <4>2, <4>3
    <3> HIDE DEF T
    <3>4. Nat \subseteq T
      BY <3>2, <3>3, SetInduction
    <3> QED BY <3>4 DEF T
  <2>2. ASSUME NEW w \in [1 .. n -> PageIds], \A i \in 1 .. n : w[i] \in R, NEW i \in 1 .. n
        PROVE  i # 1 => F[w[i - 1]] = G[w[i - 1]]
    <3>1. i # 1 => i - 1 \in 1 .. n
      OBVIOUS
    <3> QED BY <2>2, <3>1
  <2>3. ASSUME NEW w \in Walks(F, head, n) PROVE w \in Walks(G, head, n)
    <3>1. \A i \in 1 .. n : w[i] \in R
      BY <2>1
    <3>2. /\ w \in [1 .. n -> PageIds]
          /\ \A i \in 1 .. n : w[i] = IF i = 1 THEN head ELSE F[w[i - 1]].next
      BY DEF Walks
    <3>3. \A i \in 1 .. n : i # 1 => F[w[i - 1]] = G[w[i - 1]]
      BY <2>2, <3>1, <3>2
    <3>4. \A i \in 1 .. n : w[i] = IF i = 1 THEN head ELSE G[w[i - 1]].next
      BY <3>2, <3>3
    <3> QED BY <3>2, <3>4 DEF Walks
  <2>4. ASSUME NEW w \in Walks(G, head, n) PROVE w \in Walks(F, head, n)
    <3>1. \A i \in 1 .. n : w[i] \in R
      BY <2>1
    <3>2. /\ w \in [1 .. n -> PageIds]
          /\ \A i \in 1 .. n : w[i] = IF i = 1 THEN head ELSE G[w[i - 1]].next
      BY DEF Walks
    <3>3. \A i \in 1 .. n : i # 1 => F[w[i - 1]] = G[w[i - 1]]
      BY <2>2, <3>1, <3>2
    <3>4. \A i \in 1 .. n : w[i] = IF i = 1 THEN head ELSE F[w[i - 1]].next
      BY <3>2, <3>3
    <3> QED BY <3>2, <3>4 DEF Walks
  <2> QED BY <2>1, <2>3, <2>4
<1>3. Carries(F, h.next, h.graph) <=> Carries(G, h.next, h.graph)
  <2> PICK n : n = PagesOf[h.graph]
    OBVIOUS
  <2>1. n \in Nat
    BY <1>1, MaxPagesBound
  <2>2. ASSUME NEW w \in Walks(F, h.next, n), NEW i \in 1 .. n PROVE F[w[i]] = G[w[i]]
    <3>1. w[i] \in R
      BY <1>1, <1>2, <2>1
    <3> QED BY <3>1
  <2>3. Walks(F, h.next, n) = Walks(G, h.next, n)
    BY <1>1, <1>2, <2>1
  <2> QED BY <2>2, <2>3 DEF Carries
<1>4. StoredIn(F) = IF h.kind # "header" THEN NoGraph
                    ELSE IF h.n = PagesOf[h.graph] /\ Carries(F, h.next, h.graph) THEN h.graph
                    ELSE Broken
  BY DEF StoredIn
<1>5. StoredIn(G) = IF h.kind # "header" THEN NoGraph
                    ELSE IF h.n = PagesOf[h.graph] /\ Carries(G, h.next, h.graph) THEN h.graph
                    ELSE Broken
  BY <1>1 DEF StoredIn
<1> QED
  BY <1>3, <1>4, <1>5

-----------------------------------------------------------------------------
(* Steps that change no page *)

LEMMA MappedNow ==
  /\ TypeOK => Stored(Newest) = StoredGraph /\ Stored(Synced) = DurableGraph
  /\ TypeOK' => Stored(Newest)' = StoredGraph' /\ Stored(Synced)' = DurableGraph'
<1>1. TypeOK => Stored(Newest) = StoredGraph /\ Stored(Synced) = DurableGraph
  BY StoredNewest, StoredSynced DEF StoredGraph, DurableGraph
<1>2. (TypeOK => Stored(Newest) = StoredIn(NewestPages))'
  BY StoredNewest, PTL
<1>3. (TypeOK => Stored(Synced) = StoredIn(SyncedPages))'
  BY StoredSynced, PTL
<1> QED
  BY <1>1, <1>2, <1>3 DEF StoredGraph, DurableGraph

(* The invariant after a step, from the values that the step leaves. *)
LEMMA GraphInvAfter ==
  ASSUME NEW x, NEW j, NEW F, NEW S, NEW n, NEW wr,
         index' = x, job' = j, NewestPages' = F, SyncedPages' = S, next_page_id' = n,
         held'[caller].wrote = wr,
         IndexOK(x), HeaderOK(F), HeaderOK(S),
         j.op = "save" => SaveOK(j, x, F, n, wr),
         j.op = "load" /\ j.step = "chain" => LoadOK(j, x, F)
  PROVE  GraphInv'
<1>1. JobOK'
  BY DEF JobOK, Step
<1> QED
  BY <1>1 DEF GraphInv

(* What the pages hold after a step. *)
LEMMA PagesAfter ==
  /\ NewestPages' = [p \in PageIds |-> Newest(p)']
  /\ \A p \in PageIds : NewestPages[p] = Newest(p) /\ NewestPages'[p] = Newest(p)'
  /\ NewestPages = [p \in PageIds |-> NewestPages[p]]
  /\ NewestPages' = [p \in PageIds |-> NewestPages'[p]]
<1>1. NewestPages' = [p \in PageIds |-> Newest(p)'] /\ NewestPages = [p \in PageIds |-> Newest(p)]
  BY DEF NewestPages
<1> QED
  BY <1>1

LEMMA PagesUnchanged ==
  ASSUME \A p \in PageIds : Newest(p)' = Newest(p), disk' = disk
  PROVE  NewestPages' = NewestPages /\ SyncedPages' = SyncedPages
<1>1. NewestPages' = NewestPages
  <2>1. \A p \in PageIds : NewestPages'[p] = NewestPages[p]
    BY PagesAfter
  <2>2. [p \in PageIds |-> NewestPages'[p]] = [p \in PageIds |-> NewestPages[p]]
    BY <2>1
  <2> QED BY <2>2, PagesAfter
<1>2. SyncedPages' = SyncedPages
  BY DEF SyncedPages, Synced
<1> QED
  BY <1>1, <1>2

LEMMA QuietPages ==
  ASSUME CkInv, hazards = {},
         \/ \E p \in PageIds : GetPage(caller, p)
         \/ Release(caller)
         \/ MarkDirty(caller)
         \/ UNCHANGED vars
  PROVE  NewestPages' = NewestPages /\ SyncedPages' = SyncedPages /\ next_page_id' = next_page_id
<1>1. StoredInv
  BY DEF CkInv
<1>2. PICK N, D \in SUBSET PageIds : Closed(N, D)
  BY DEF CkInv, ChainInv
<1>3. \A p \in PageIds : Newest(p)' = Newest(p)
  BY <1>1, <1>2, QuietCalls
<1>4. disk' = disk /\ next_page_id' = next_page_id
  BY DEF GetPage, GetPageHit, GetPageMiss, GetPageReadFails, GetPageNoRoom, EvictWriteFails,
         NoFrameFree, Release, MarkDirty, vars
<1>5. NewestPages' = NewestPages /\ SyncedPages' = SyncedPages
  BY <1>3, <1>4, PagesUnchanged
<1> QED
  BY <1>4, <1>5

LEMMA QuietGraphs ==
  ASSUME NewestPages' = NewestPages /\ SyncedPages' = SyncedPages
  PROVE  StoredGraph' = StoredGraph /\ DurableGraph' = DurableGraph
BY DEF StoredGraph, DurableGraph

(* A step that changes no page and after which no part of a chain is awaited. *)
LEMMA RestStep ==
  ASSUME GraphInv, IndexOK(index'),
         NewestPages' = NewestPages /\ SyncedPages' = SyncedPages /\ next_page_id' = next_page_id,
         job'.op # "save", ~(job'.op = "load" /\ job'.step = "chain")
  PROVE  GraphInv' /\ StoredGraph' = StoredGraph /\ DurableGraph' = DurableGraph
<1>1. HeaderOK(NewestPages') /\ HeaderOK(SyncedPages')
  BY DEF GraphInv
<1>2. GraphInv'
  BY <1>1, GraphInvAfter
<1> QED
  BY <1>2, QuietGraphs

LEMMA HeaderKept ==
  ASSUME NEW F, NEW G, HeaderOK(F), G[HNSWPage] = F[HNSWPage], StoredIn(G) = StoredIn(F)
  PROVE  HeaderOK(G)
BY DEF HeaderOK

LEMMA LoadedKept ==
  ASSUME index' = index
  PROVE  LoadedGraph' = LoadedGraph
BY DEF LoadedGraph, Whole, IndexOf

-----------------------------------------------------------------------------
(* Save, from part to part *)

LEMMA AfterPartFields ==
  ASSUME NEW j \in Jobs, NEW p, NEW k, k = AfterPart(j, p)
  PROVE  /\ k.page = p /\ k.part = j.part + 1 /\ k.head = j.head /\ k.graph = j.graph
         /\ k.entry = j.entry /\ k.op = j.op /\ k.fresh = j.fresh
         /\ k.step = IF j.part < PagesOf[j.graph] THEN "alloc" ELSE "header"
<1>1. k = [j EXCEPT !.page = p, !.part = j.part + 1,
                    !.step = IF j.part < PagesOf[j.graph] THEN "alloc" ELSE "header"]
  BY DEF AfterPart
<1> QED
  BY <1>1 DEF Jobs

(* The walk that goes on to page p. *)
LEMMA WalkLonger ==
  ASSUME NEW F, NEW head, NEW m \in Nat, 1 <= m, NEW w \in Walks(F, head, m),
         NEW p \in PageIds, F[w[m]].next = p
  PROVE  \E v \in Walks(F, head, m + 1) : v[m + 1] = p /\ \A i \in 1 .. m : v[i] = w[i]
<1>1. /\ w \in [1 .. m -> PageIds]
      /\ \A i \in 1 .. m : w[i] = IF i = 1 THEN head ELSE F[w[i - 1]].next
  BY DEF Walks
<1> DEFINE v == [i \in 1 .. (m + 1) |-> IF i = m + 1 THEN p ELSE w[i]]
<1>2. v \in [1 .. (m + 1) -> PageIds]
  <2>1. ASSUME NEW i \in 1 .. (m + 1) PROVE v[i] \in PageIds
    <3>1. CASE i = m + 1
      BY <3>1
    <3>2. CASE i # m + 1
      <4>1. i \in 1 .. m
        BY <3>2
      <4> QED BY <1>1, <3>2, <4>1
    <3> QED BY <3>1, <3>2
  <2> QED BY <2>1
<1>3. v[m + 1] = p
  OBVIOUS
<1>4. ASSUME NEW i \in 1 .. m PROVE v[i] = w[i]
  <2>1. i \in 1 .. (m + 1) /\ i # m + 1
    OBVIOUS
  <2> QED BY <2>1
<1> HIDE DEF v
<1>5. ASSUME NEW i \in 1 .. (m + 1) PROVE v[i] = IF i = 1 THEN head ELSE F[v[i - 1]].next
  <2>1. CASE i = m + 1
    <3>1. i # 1 /\ i - 1 = m /\ m \in 1 .. m
      BY <2>1
    <3>2. v[i - 1] = w[m]
      BY <1>4, <3>1
    <3> QED BY <1>3, <2>1, <3>1, <3>2
  <2>2. CASE i # m + 1 /\ i # 1
    <3>1. i \in 1 .. m /\ i - 1 \in 1 .. m
      BY <2>2
    <3>2. v[i] = w[i] /\ v[i - 1] = w[i - 1]
      BY <1>4, <3>1
    <3> QED BY <1>1, <2>2, <3>1, <3>2
  <2>3. CASE i # m + 1 /\ i = 1
    <3>1. i \in 1 .. m
      BY <2>3
    <3>2. v[i] = w[i]
      BY <1>4, <3>1
    <3> QED BY <1>1, <2>3, <3>1, <3>2
  <2> QED BY <2>1, <2>2, <2>3
<1>6. v \in Walks(F, head, m + 1)
  BY <1>2, <1>5 DEF Walks
<1> QED
  BY <1>3, <1>4, <1>6

(* A walk is one of other contents too if it meets the same links. *)
LEMMA WalkKept ==
  ASSUME NEW F, NEW G, NEW head, NEW m \in Nat, NEW w \in Walks(F, head, m),
         \A i \in 1 .. (m - 1) : G[w[i]].next = F[w[i]].next
  PROVE  w \in Walks(G, head, m)
<1>1. /\ w \in [1 .. m -> PageIds]
      /\ \A i \in 1 .. m : w[i] = IF i = 1 THEN head ELSE F[w[i - 1]].next
  BY DEF Walks
<1>2. ASSUME NEW i \in 1 .. m PROVE w[i] = IF i = 1 THEN head ELSE G[w[i - 1]].next
  <2>1. CASE i = 1
    BY <1>1, <2>1
  <2>2. CASE i # 1
    <3>1. i - 1 \in 1 .. (m - 1)
      BY <2>2
    <3> QED BY <1>1, <2>2, <3>1
  <2> QED BY <2>1, <2>2
<1> QED
  BY <1>1, <1>2 DEF Walks

(* The page before has been linked to the new one. *)
LEMMA SaveLinked ==
  ASSUME NEW j \in Jobs, NEW x, NEW F \in PageMaps, NEW n, SaveOK(j, x, F, n, TRUE),
         j.step = "link", 2 <= j.part, j.part <= PagesOf[j.graph],
         NEW k, k = AfterPart(j, j.fresh), NEW wr
  PROVE  SaveOK(k, x, F, n, wr)
<1>1. /\ k.page = j.fresh /\ k.part = j.part + 1 /\ k.head = j.head /\ k.graph = j.graph
      /\ k.entry = j.entry
      /\ k.step = IF j.part < PagesOf[j.graph] THEN "alloc" ELSE "header"
  BY AfterPartFields
<1>2. /\ j.part \in Nat /\ PagesOf[j.graph] \in Nat /\ j.part - 1 \in Nat /\ 1 <= j.part - 1
      /\ j.part > 1 /\ j.fresh \in PageIds
  BY MaxPagesBound DEF Jobs
<1>3. /\ j.entry = x.entry /\ j.graph = x.nodes /\ Written(j, F, n) /\ Apart(j, F, n)
      /\ j.fresh < n /\ IsPart(F[j.fresh], j.graph, j.part) /\ F[j.page].next = j.fresh
  BY <1>2 DEF SaveOK
<1>4. PICK w \in Walks(F, j.head, j.part - 1) :
        /\ \A i \in 1 .. (j.part - 1) : IsPart(F[w[i]], j.graph, i) /\ w[i] < n /\ w[i] # j.fresh
        /\ w[j.part - 1] = j.page
  BY <1>3 DEF Written
<1>5. F[w[j.part - 1]].next = j.fresh
  BY <1>3, <1>4
<1> PICK m : m = j.part - 1
  OBVIOUS
<1>6. /\ m \in Nat /\ 1 <= m /\ w \in Walks(F, j.head, m) /\ F[w[m]].next = j.fresh
      /\ m + 1 = j.part /\ k.part - 1 = m + 1 /\ k.part - 2 = m
  BY <1>1, <1>2, <1>4, <1>5
<1>7. PICK v \in Walks(F, j.head, m + 1) : v[m + 1] = j.fresh /\ \A i \in 1 .. m : v[i] = w[i]
  BY <1>2, <1>6, WalkLonger
<1>8. ASSUME NEW i \in 1 .. (m + 1) PROVE IsPart(F[v[i]], j.graph, i) /\ v[i] < n
  <2>1. CASE i = m + 1
    BY <1>3, <1>6, <1>7, <2>1
  <2>2. CASE i # m + 1
    <3>1. i \in 1 .. m /\ i \in 1 .. (j.part - 1)
      BY <1>6, <2>2
    <3> QED BY <1>4, <1>7, <3>1
  <2> QED BY <2>1, <2>2
<1>9. \A i \in 1 .. m : v[i] # j.fresh
  BY <1>4, <1>6, <1>7
<1>10. k.step # "link"
  BY <1>1
<1>11. Written(k, F, n)
  BY <1>1, <1>6, <1>7, <1>8, <1>9, <1>10 DEF Written
<1>12. k.step = "alloc" => Apart(k, F, n)
  BY <1>1, <1>3, <1>10 DEF Apart
<1>13. k.step = "header" => k.part = PagesOf[k.graph] + 1
  BY <1>1, <1>2
<1>14. 1 <= k.part
  BY <1>1, <1>2
<1> QED
  BY <1>1, <1>3, <1>10, <1>11, <1>12, <1>13, <1>14 DEF SaveOK

(* Save starts with the first part, or with the header if there is none. *)
LEMMA SaveFirst ==
  ASSUME NEW j \in Jobs, NEW x, NEW F, NEW n, j.part = 0, j.entry = x.entry, j.graph = x.nodes,
         j.graph \in Graphs, NEW k, k = AfterPart(j, 0), NEW wr
  PROVE  SaveOK(k, x, F, n, wr)
<1>1. /\ k.part = 1 /\ k.graph = j.graph /\ k.entry = j.entry
      /\ k.step = IF 0 < PagesOf[j.graph] THEN "alloc" ELSE "header"
  <2>1. k.part = j.part + 1 /\ k.graph = j.graph /\ k.entry = j.entry
        /\ k.step = IF j.part < PagesOf[j.graph] THEN "alloc" ELSE "header"
    BY AfterPartFields
  <2> QED BY <2>1
<1>2. PagesOf[j.graph] \in Nat
  BY MaxPagesBound
<1>3. k.step = "header" => k.part = PagesOf[k.graph] + 1
  BY <1>1, <1>2
<1>4. ~(k.part > 1) /\ 1 <= k.part /\ k.step # "link"
  BY <1>1
<1> QED
  BY <1>1, <1>3, <1>4 DEF SaveOK

LEMMA HeadFields ==
  ASSUME NEW j \in Jobs, j.part = 1, NEW p \in PageIds, NEW k, k = Chained(j, p)
  PROVE  /\ k.page = p /\ k.part = 2 /\ k.head = p /\ k.graph = j.graph /\ k.entry = j.entry
         /\ k.op = j.op
         /\ k.step = IF 1 < PagesOf[j.graph] THEN "alloc" ELSE "header"
<1> PICK i : i = [j EXCEPT !.head = p]
  OBVIOUS
<1>1. /\ i \in Jobs /\ i.part = 1 /\ i.head = p /\ i.graph = j.graph /\ i.entry = j.entry
      /\ i.op = j.op
  BY DEF Jobs
<1>2. k = AfterPart(i, p)
  BY DEF Chained
<1>3. k = [i EXCEPT !.page = p, !.part = 1 + 1,
                    !.step = IF 1 < PagesOf[j.graph] THEN "alloc" ELSE "header"]
  BY <1>1, <1>2 DEF AfterPart
<1> QED
  BY <1>1, <1>3 DEF Jobs

(* A new page p: the head of the chain, or the next page to link. *)
LEMMA SaveAllocated ==
  ASSUME NEW j \in Jobs, NEW x, NEW F, NEW G, NEW p \in PageIds, NEW wr,
         SaveOK(j, x, F, p, wr), j.step = "alloc", 1 <= j.part, j.part <= PagesOf[j.graph],
         \A q \in PageIds \ {p} : G[q] = F[q], IsPart(G[p], j.graph, j.part),
         NEW N \in SUBSET PageIds, HNSWPage \in N, \A q \in N : q < p /\ F[q].next \in N,
         NEW k, k = Chained(j, p)
  PROVE  SaveOK(k, x, G, p + 1, FALSE)
<1>1. /\ j.part \in Nat /\ PagesOf[j.graph] \in Nat /\ p \in Nat
      /\ j.entry = x.entry /\ j.graph = x.nodes
  BY MaxPagesBound DEF Jobs, SaveOK, PageIds
<1>2. \A q \in PageIds : q \in Int /\ (q < p => q # p /\ q < p + 1)
  BY <1>1 DEF PageIds
<1>3. CASE j.part = 1
  <2>1. /\ k.page = p /\ k.part = 2 /\ k.head = p /\ k.graph = j.graph /\ k.entry = j.entry
        /\ k.step = IF 1 < PagesOf[j.graph] THEN "alloc" ELSE "header"
    BY <1>3, HeadFields
  <2>2. k.part - 1 = 1 /\ k.part - 2 = 0 /\ k.step # "link"
    BY <2>1
  <2>3. Written(k, G, p + 1)
    <3> DEFINE w == [a \in 1 .. 1 |-> p]
    <3>1. w \in Walks(G, p, 1) /\ w[1] = p
      BY DEF Walks
    <3> HIDE DEF w
    <3>2. \A a \in 1 .. 1 : IsPart(G[w[a]], k.graph, a) /\ w[a] < p + 1
      BY <1>1, <1>3, <2>1, <3>1
    <3> QED BY <2>1, <2>2, <3>1, <3>2 DEF Written
  <2>4. Apart(k, G, p + 1)
    <3>1. ASSUME NEW q \in N PROVE q < p + 1 /\ G[q].next \in N /\ q # p
      BY <1>2
    <3> QED BY <2>1, <2>2, <3>1 DEF Apart
  <2>5. k.step = "header" => k.part = PagesOf[k.graph] + 1
    <3>1. PagesOf[k.graph] \in Nat /\ 1 <= PagesOf[k.graph]
      BY <1>1, <1>3, <2>1
    <3>2. k.step = "header" => ~(1 < PagesOf[k.graph])
      BY <2>1
    <3> QED BY <2>1, <3>1, <3>2
  <2> QED BY <1>1, <2>1, <2>2, <2>3, <2>4, <2>5 DEF SaveOK
<1>4. CASE j.part # 1
  <2>1. k = [j EXCEPT !.step = "link", !.fresh = p]
    BY <1>4 DEF Chained
  <2>2. /\ k.step = "link" /\ k.fresh = p /\ k.part = j.part /\ k.page = j.page /\ k.head = j.head
        /\ k.graph = j.graph /\ k.entry = j.entry
    BY <2>1 DEF Jobs
  <2>3. j.part > 1 /\ Written(j, F, p) /\ Apart(j, F, p)
    BY <1>1, <1>4 DEF SaveOK
  <2>4. Written(k, G, p + 1)
    <3> PICK m : m = j.part - 1
      OBVIOUS
    <3>1. PICK w \in Walks(F, j.head, m) :
            /\ \A i \in 1 .. m : IsPart(F[w[i]], j.graph, i) /\ w[i] < p
            /\ \A i \in 1 .. (j.part - 2) : w[i] # j.page
            /\ w[m] = j.page
      BY <2>3 DEF Written
    <3>2. ASSUME NEW i \in 1 .. m PROVE w[i] < p + 1 /\ w[i] # p /\ G[w[i]] = F[w[i]]
      <4>1. w[i] \in PageIds
        BY DEF Walks
      <4> QED BY <1>2, <3>1, <4>1
    <3>3. m \in Nat /\ \A i \in 1 .. (m - 1) : i \in 1 .. m
      BY <1>1, <1>4
    <3>4. w \in Walks(G, j.head, m)
      BY <3>2, <3>3, WalkKept
    <3> QED BY <2>2, <3>1, <3>2, <3>4 DEF Written
  <2>5. Apart(k, G, p + 1)
    <3>1. PICK R \in SUBSET PageIds :
            /\ HNSWPage \in R /\ j.page \notin R
            /\ \A q \in R : q < p /\ F[q].next \in R
      BY <2>3 DEF Apart
    <3>2. ASSUME NEW q \in R PROVE q < p + 1 /\ G[q].next \in R /\ q # p
      BY <1>2, <3>1
    <3> QED BY <2>2, <3>1, <3>2 DEF Apart
  <2>6. p < p + 1
    BY <1>1
  <2> QED BY <1>1, <2>2, <2>4, <2>5, <2>6 DEF SaveOK
<1> QED
  BY <1>3, <1>4

(* The page before gets its link: only its link changes. *)
LEMMA SaveLinks ==
  ASSUME NEW j \in Jobs, NEW x, NEW F \in PageMaps, NEW G, NEW n, NEW wr,
         SaveOK(j, x, F, n, wr), j.step = "link", 2 <= j.part,
         \A q \in PageIds \ {j.page} : G[q] = F[q], G[j.page] = [F[j.page] EXCEPT !.next = j.fresh]
  PROVE  SaveOK(j, x, G, n, TRUE)
<1>1. j.part \in Nat /\ j.part - 1 \in Nat /\ 1 <= j.part - 1 /\ j.part > 1
  BY MaxPagesBound DEF Jobs
<1>2. /\ j.entry = x.entry /\ j.graph = x.nodes /\ Written(j, F, n) /\ Apart(j, F, n)
      /\ j.fresh < n /\ IsPart(F[j.fresh], j.graph, j.part)
  BY <1>1 DEF SaveOK
<1> PICK m : m = j.part - 1
  OBVIOUS
<1>3. PICK w \in Walks(F, j.head, m) :
        /\ \A i \in 1 .. m : IsPart(F[w[i]], j.graph, i) /\ w[i] < n /\ w[i] # j.fresh
        /\ \A i \in 1 .. (j.part - 2) : w[i] # j.page
        /\ w[m] = j.page
  BY <1>2 DEF Written
<1>4. \A i \in 1 .. m : w[i] \in PageIds
  BY DEF Walks
<1>5. /\ G[j.page].next = j.fresh
      /\ \A g, i : IsPart(F[j.page], g, i) => IsPart(G[j.page], g, i)
  <2>1. j.page \in PageIds
    BY DEF Jobs
  <2>2. F[j.page] \in Contents
    BY <2>1 DEF PageMaps
  <2>3. DOMAIN F[j.page] = {"kind", "graph", "n", "next"}
    BY <2>2 DEF Contents
  <2> QED BY <2>3 DEF IsPart
<1>6. Written(j, G, n)
  <2>1. ASSUME NEW i \in 1 .. m PROVE IsPart(G[w[i]], j.graph, i)
    BY <1>3, <1>4, <1>5
  <2>2. ASSUME NEW i \in 1 .. (m - 1) PROVE G[w[i]].next = F[w[i]].next
    <3>1. i \in 1 .. (j.part - 2) /\ i \in 1 .. m
      BY <1>1
    <3> QED BY <1>3, <1>4, <3>1
  <2>3. w \in Walks(G, j.head, m)
    BY <1>1, <2>2, WalkKept
  <2> QED BY <1>3, <2>1, <2>3 DEF Written
<1>7. Apart(j, G, n)
  BY <1>2 DEF Apart
<1>8. IsPart(G[j.fresh], j.graph, j.part)
  <2>1. j.fresh \in PageIds /\ j.fresh # j.page
    BY <1>1, <1>3 DEF Jobs
  <2> QED BY <1>2, <2>1
<1> QED
  BY <1>1, <1>2, <1>5, <1>6, <1>7, <1>8 DEF SaveOK

(* With the header written, the graph of the index is the one that is stored. *)
LEMMA SaveStores ==
  ASSUME NEW j \in Jobs, NEW x \in [entry : Graphs, nodes : Graphs, count : Graphs],
         NEW F \in PageMaps, NEW G \in PageMaps, NEW n, NEW wr,
         SaveOK(j, x, F, n, wr), IndexOK(x), j.step = "header", HeaderOK(F),
         \A q \in PageIds \ {HNSWPage} : G[q] = F[q],
         G[HNSWPage] = Header(j.entry, PagesOf[j.graph], j.head)
  PROVE  /\ StoredIn(G) = IF x = IndexOf(x.entry) THEN x.entry ELSE Broken
         /\ HeaderOK(G)
<1>1. /\ j.entry = x.entry /\ j.graph = x.nodes /\ j.part = PagesOf[j.graph] + 1
      /\ x.entry \in Graphs /\ x.nodes \in Graphs
      /\ PagesOf[x.entry] \in Nat /\ PagesOf[x.nodes] \in Nat
  BY MaxPagesBound DEF SaveOK
<1> PICK m, g : m = PagesOf[x.nodes] /\ g = x.nodes
  OBVIOUS
<1>2. /\ G[HNSWPage].kind = "header" /\ G[HNSWPage].graph = x.entry
      /\ G[HNSWPage].n = m /\ G[HNSWPage].next = j.head
  BY <1>1 DEF Header, Content
<1>3. ASSUME x.entry = x.nodes => StoredIn(G) = x.entry PROVE HeaderOK(G)
  <2>1. x.entry = 0 \/ x.entry # x.nodes => m = 0
    BY <1>1, CheckpointAssumption DEF IndexOK
  <2>2. m # 0 => StoredIn(G) # Broken
    BY <1>1, <1>3, <2>1, GraphNames
  <2> QED BY <1>2, <2>1, <2>2 DEF HeaderOK
<1>4. x = IndexOf(x.entry) <=> x.entry = x.nodes
  BY DEF IndexOK, IndexOf
<1>5. StoredIn(G) = IF m = PagesOf[x.entry] /\ Carries(G, j.head, x.entry) THEN x.entry ELSE Broken
  BY <1>2 DEF StoredIn
<1>6. m # 0 => \E w \in Walks(G, j.head, m) : \A i \in 1 .. m : IsPart(G[w[i]], g, i)
  <2>1. SUFFICES ASSUME m # 0
                 PROVE  \E w \in Walks(G, j.head, m) : \A i \in 1 .. m : IsPart(G[w[i]], g, i)
    OBVIOUS
  <2>2. j.part > 1 /\ j.part - 1 = m
    BY <1>1, <2>1
  <2>3. Written(j, F, n)
    BY <2>2 DEF SaveOK
  <2>4. PICK w \in Walks(F, j.head, m) : \A i \in 1 .. m : IsPart(F[w[i]], g, i)
    BY <1>1, <2>2, <2>3 DEF Written
  <2>5. ASSUME NEW i \in 1 .. m PROVE G[w[i]] = F[w[i]]
    <3>1. w[i] \in PageIds
      BY DEF Walks
    <3>2. w[i] # HNSWPage
      BY <2>4 DEF IsPart, HeaderOK
    <3> QED BY <3>1, <3>2
  <2>6. w \in Walks(G, j.head, m)
    <3>1. m \in Nat /\ \A i \in 1 .. (m - 1) : i \in 1 .. m
      BY <1>1
    <3> QED BY <2>5, <3>1, WalkKept
  <2> QED BY <2>4, <2>5, <2>6
<1>7. CASE x.entry = x.nodes
  <2>1. Carries(G, j.head, x.entry)
    <3>1. CASE m = 0
      <4>1. [i \in 1 .. 0 |-> 0] \in Walks(G, j.head, 0)
        BY DEF Walks
      <4>2. \A i \in 1 .. 0 : FALSE
        OBVIOUS
      <4> QED BY <1>7, <3>1, <4>1, <4>2 DEF Carries
    <3>2. CASE m # 0
      BY <1>6, <1>7, <3>2 DEF Carries
    <3> QED BY <3>1, <3>2
  <2> QED BY <1>3, <1>4, <1>5, <1>7, <2>1
<1>8. CASE x.entry # x.nodes
  <2>1. ~(m = PagesOf[x.entry] /\ Carries(G, j.head, x.entry))
    <3>1. SUFFICES ASSUME m = PagesOf[x.entry], Carries(G, j.head, x.entry) PROVE FALSE
      OBVIOUS
    <3>2. m # 0
      <4>1. m = 0 => x.entry = 0 /\ x.nodes = 0
        BY <1>1, <3>1, CheckpointAssumption
      <4> QED BY <1>8, <4>1
    <3>3. PICK v \in Walks(G, j.head, m) : \A i \in 1 .. m : IsPart(G[v[i]], x.entry, i)
      BY <3>1 DEF Carries
    <3>4. PICK w \in Walks(G, j.head, m) : \A i \in 1 .. m : IsPart(G[w[i]], g, i)
      BY <1>6, <3>2
    <3>5. 1 \in 1 .. m
      BY <1>1, <3>2
    <3>6. v[1] = w[1]
      BY <3>5 DEF Walks
    <3> QED BY <1>8, <3>3, <3>4, <3>5, <3>6 DEF IsPart
  <2> QED BY <1>3, <1>4, <1>5, <1>8, <2>1
<1> QED
  BY <1>7, <1>8

-----------------------------------------------------------------------------
(* The steps of Save *)

LEMMA GetsUnwritten ==
  ASSUME TypeOK, NEW p, Gets(p)
  PROVE  ~held'[caller].wrote
<1>1. held \in [Threads -> Hold] /\ caller \in Threads
  BY OneThread DEF TypeOK
<1>2. \E f : held' = [held EXCEPT ![caller] = [page |-> p, frame |-> f, wrote |-> FALSE]]
  <2>1. CASE GetPageHit(caller, p)
    BY <2>1 DEF GetPageHit
  <2>2. CASE GetPageMiss(caller, p)
    BY <2>2 DEF GetPageMiss
  <2> QED BY <2>1, <2>2 DEF Gets
<1> QED
  BY <1>1, <1>2

LEMMA QuietSaveSteps ==
  ASSUME CkInv, GraphInv, hazards = {},
         SaveBegin \/ SaveNodes \/ SaveGet \/ SaveGetFails \/ SaveMarkDirty
  PROVE  /\ GraphInv'
         /\ LoadedGraph' = LoadedGraph /\ StoredGraph' = StoredGraph
         /\ DurableGraph' = DurableGraph
<1>1. /\ TypeOK /\ HeldInv /\ JobInv /\ job \in Jobs /\ IndexOK(index)
      /\ index \in [entry : Graphs, nodes : Graphs, count : Graphs]
      /\ HeaderOK(NewestPages) /\ HeaderOK(SyncedPages)
      /\ NewestPages \in PageMaps
  BY PagesType DEF CkInv, CkTypeOK, GraphInv
<1>2. /\ NewestPages' = NewestPages /\ SyncedPages' = SyncedPages
      /\ next_page_id' = next_page_id
  <2>1. CASE SaveBegin \/ SaveNodes
    <3>1. UNCHANGED vars
      BY <2>1 DEF SaveBegin, SaveNodes
    <3> QED BY <3>1, QuietPages
  <2>2. CASE SaveGet \/ SaveGetFails
    <3>1. GetPage(caller, Wanted) /\ Wanted \in PageIds
      BY <2>2, GetsPage, AskedIssued DEF SaveGet, SaveGetFails
    <3> QED BY <3>1, QuietPages
  <2>3. CASE SaveMarkDirty
    <3>1. MarkDirty(caller)
      BY <2>3 DEF SaveMarkDirty
    <3> QED BY <3>1, QuietPages
  <2> QED BY <2>1, <2>2, <2>3
<1>3. index' = index
  BY DEF SaveBegin, SaveNodes, SaveGet, SaveGetFails, SaveMarkDirty
<1> PICK j, x, F, n : j = job /\ x = index /\ F = NewestPages /\ n = next_page_id
  OBVIOUS
<1>4. job.op = "save" => SaveOK(j, x, F, n, held[caller].wrote)
  BY DEF GraphInv, JobOK
<1> PICK k, wr : k = job' /\ wr = held'[caller].wrote
  OBVIOUS
<1>5. (k.op = "save" /\ SaveOK(k, x, F, n, wr)) \/ k = NoJob
  <2>1. CASE SaveBegin
    <3>1. k = [NoJob EXCEPT !.op = "save", !.step = "nodes", !.entry = x.entry]
      BY <2>1 DEF SaveBegin
    <3>2. k.op = "save" /\ k.step = "nodes" /\ k.entry = x.entry
      BY <3>1 DEF NoJob
    <3> QED BY <3>2 DEF SaveOK
  <2>2. CASE SaveNodes
    <3> PICK i : i = [j EXCEPT !.graph = x.nodes]
      OBVIOUS
    <3>1. Step("save", "nodes") /\ k = AfterPart(i, 0)
      BY <2>2 DEF SaveNodes, At
    <3>2. j.op = "save" /\ j.part = 0 /\ j.entry = x.entry
      BY <1>1, <1>4, <3>1 DEF JobInv, Step, SaveOK
    <3>3. i \in Jobs /\ i.op = "save" /\ i.part = 0 /\ i.entry = x.entry /\ i.graph = x.nodes
          /\ i.graph \in Graphs
      BY <1>1, <3>2 DEF Jobs
    <3>4. SaveOK(k, x, F, n, wr)
      <4>1. k = AfterPart(i, 0) /\ i \in Jobs /\ i.graph \in Graphs
        BY <3>1, <3>3
      <4>2. i.part = 0 /\ i.entry = x.entry /\ i.graph = x.nodes
        BY <3>3
      <4> QED BY <4>1, <4>2, SaveFirst
    <3>5. k.op = "save"
      <4>1. k = AfterPart(i, 0) /\ i \in Jobs /\ i.op = "save"
        BY <3>1, <3>3
      <4>2. k.op = i.op
        BY <4>1 DEF AfterPart, Jobs
      <4> QED BY <4>1, <4>2
    <3> QED BY <3>4, <3>5
  <2>3. CASE SaveGet
    <3>1. k = j /\ j.op = "save" /\ ~wr
      BY <1>1, <2>3, GetsUnwritten DEF SaveGet, Saving
    <3> QED BY <1>4, <3>1 DEF SaveOK
  <2>4. CASE SaveGetFails
    BY <2>4 DEF SaveGetFails
  <2>5. CASE SaveMarkDirty
    <3>1. /\ j.op = "save" /\ held[caller].wrote
          /\ k = IF j.step = "link" THEN AfterPart(j, j.fresh) ELSE NoJob
      BY <2>5 DEF SaveMarkDirty, Saving, MarkDirty
    <3>2. CASE j.step = "link"
      <4>1. 2 <= j.part /\ j.part <= PagesOf[j.graph]
        BY <1>1, <3>1, <3>2 DEF JobInv, Step
      <4>2. SaveOK(j, x, F, n, TRUE)
        <5>1. SaveOK(j, x, F, n, held[caller].wrote)
          BY <1>4, <3>1
        <5> QED BY <3>1, <5>1 DEF SaveOK
      <4>3. k = AfterPart(j, j.fresh)
        BY <3>1, <3>2
      <4>4. SaveOK(k, x, F, n, wr)
        <5>1. j \in Jobs /\ F \in PageMaps
          BY <1>1
        <5> QED BY <3>2, <4>1, <4>2, <4>3, <5>1, SaveLinked
      <4>5. k.op = "save"
        BY <1>1, <3>1, <4>3, AfterPartFields
      <4> QED BY <4>4, <4>5
    <3> QED BY <3>1, <3>2
  <2> QED BY <2>1, <2>2, <2>3, <2>4, <2>5
<1>6. GraphInv'
  <2>1. k.op = "save" => SaveOK(k, x, F, n, wr)
    BY <1>5 DEF NoJob
  <2>2. ~(k.op = "load" /\ k.step = "chain")
    BY <1>5 DEF NoJob
  <2> QED BY <1>1, <1>2, <1>3, <2>1, <2>2, GraphInvAfter
<1> QED
  BY <1>2, <1>3, <1>6, LoadedKept, QuietGraphs

(* A new page is none of those that the header leads to. *)
LEMMA AllocatedPage ==
  ASSUME CkInv, CkInv', hazards = {}, NEW c \in Contents, NewPage(caller, PageWith(c))
  PROVE  /\ next_page_id \in PageIds /\ FirstDataPage <= next_page_id
         /\ next_page_id' = next_page_id + 1
         /\ NewestPages'[next_page_id] = c
         /\ \A q \in PageIds \ {next_page_id} : NewestPages'[q] = NewestPages[q]
         /\ SyncedPages' = SyncedPages
         /\ \E N \in SUBSET PageIds :
              /\ HNSWPage \in N
              /\ \A q \in N : q < next_page_id /\ NewestPages[q].next \in N
         /\ StoredGraph' = StoredGraph /\ DurableGraph' = DurableGraph
<1>1. StoredInv /\ OneCaller /\ PoolInv /\ FileInv /\ TypeOK /\ TypeOK'
  BY OneThread DEF CkInv, CkTypeOK, StoredInv, PoolInv
<1> PICK p : p = next_page_id
  OBVIOUS
<1>2. PageWith(c) \in Page /\ PageWith(c)[1] = c
  BY PageWithType
<1>3. Changed(p, PageWith(c)) /\ next_page_id' = p + 1 /\ p \in PageIds
  BY <1>1, <1>2, OneThread, NewPageWrites DEF Changed
<1>4. Newest(p)' = c /\ WritesBack({p}) /\ disk' = disk
  BY <1>2, <1>3 DEF Changed, Newest
<1>5. ASSUME NEW q \in PageIds \ {p} PROVE Newest(q)' = Newest(q)
  BY <1>4, NewestKept
<1>6. \A q \in PageIds \ {p} : NewestPages'[q] = NewestPages[q]
  BY <1>5, PagesAfter
<1>7. NewestPages'[p] = c
  BY <1>3, <1>4, PagesAfter
<1>8. SyncedPages' = SyncedPages
  BY <1>4 DEF SyncedPages, Synced
<1>9. PICK N \in SUBSET PageIds : HNSWPage \in N /\ \A q \in N : q < p /\ Newest(q).next \in N
  BY DEF CkInv, ChainInv, Closed
<1>10. \A q \in N : q < p /\ NewestPages[q].next \in N
  BY <1>9, PagesAfter
<1>11. NewestPages \in PageMaps /\ NewestPages' \in PageMaps
  BY <1>1, PagesTypeNext
<1>12. StoredGraph' = StoredGraph
  <2> PICK F, G : F = NewestPages /\ G = NewestPages'
    OBVIOUS
  <2>1. ASSUME NEW q \in N PROVE F[q].next \in N /\ G[q] = F[q]
    <3>1. q # p
      <4>1. \A r \in PageIds : ~(r < r)
        BY DEF PageIds
      <4> QED BY <1>3, <1>10, <4>1
    <3> QED BY <1>6, <1>10, <3>1
  <2>2. StoredIn(G) = StoredIn(F)
    BY <1>9, <1>11, <2>1, SamePagesSameGraph
  <2> QED BY <2>2 DEF StoredGraph
<1>13. DurableGraph' = DurableGraph
  BY <1>8 DEF DurableGraph
<1>14. FirstDataPage <= p
  BY <1>1 DEF FileInv
<1> QED
  BY <1>3, <1>6, <1>7, <1>8, <1>9, <1>10, <1>12, <1>13, <1>14

LEMMA NoRoomPages ==
  ASSUME CkInv, hazards = {}, NewPageNoRoom(caller)
  PROVE  NewestPages' = NewestPages /\ SyncedPages' = SyncedPages /\ next_page_id' = next_page_id
<1>1. StoredInv /\ OneCaller /\ PoolInv
  BY OneThread DEF CkInv, StoredInv
<1>2. WritesBack({}) /\ disk' = disk /\ next_page_id' = next_page_id
  BY <1>1, OneThread, NewPageNoRoomWrites
<1>3. \A q \in PageIds : Newest(q)' = Newest(q)
  BY <1>2, NewestKept
<1>4. NewestPages' = NewestPages /\ SyncedPages' = SyncedPages
  BY <1>2, <1>3, PagesUnchanged
<1> QED
  BY <1>2, <1>4

LEMMA SaveAllocStep ==
  ASSUME CkInv, CkInv', GraphInv, hazards = {}, SaveAlloc
  PROVE  /\ GraphInv'
         /\ LoadedGraph' = LoadedGraph /\ StoredGraph' = StoredGraph
         /\ DurableGraph' = DurableGraph
<1>1. /\ TypeOK /\ JobInv /\ job \in Jobs /\ IndexOK(index)
      /\ HeaderOK(NewestPages) /\ HeaderOK(SyncedPages)
      /\ NewestPages \in PageMaps /\ NewestPages' \in PageMaps
  BY PagesTypeNext DEF CkInv, CkTypeOK, GraphInv
<1>2. index' = index /\ At("save", "alloc") /\ Step("save", "alloc")
  BY DEF SaveAlloc, At
<1>3. CASE NewPageNoRoom(caller) /\ job' = NoJob
  <2>1. /\ NewestPages' = NewestPages /\ SyncedPages' = SyncedPages
        /\ next_page_id' = next_page_id
    BY <1>3, NoRoomPages
  <2>2. job'.op # "save" /\ ~(job'.op = "load" /\ job'.step = "chain")
    BY <1>3 DEF NoJob
  <2>3. GraphInv' /\ StoredGraph' = StoredGraph /\ DurableGraph' = DurableGraph
    BY <1>1, <1>2, <2>1, <2>2, RestStep
  <2> QED BY <1>2, <2>3, LoadedKept
<1>4. ASSUME NewPage(caller, PageWith(NodePage(job.graph, job.part, 0))),
             job' = Chained(job, next_page_id)
      PROVE  /\ GraphInv'
             /\ LoadedGraph' = LoadedGraph /\ StoredGraph' = StoredGraph
             /\ DurableGraph' = DurableGraph
  <2> PICK j, x, F, G, S, p, c, k, wr :
        /\ j = job /\ x = index /\ F = NewestPages /\ G = NewestPages' /\ S = SyncedPages
        /\ p = next_page_id /\ c = NodePage(job.graph, job.part, 0) /\ k = job'
        /\ wr = held'[caller].wrote
    OBVIOUS
  <2>1. c \in Contents
    BY <1>2, AllocContent
  <2>2. /\ p \in PageIds /\ FirstDataPage <= p /\ next_page_id' = p + 1 /\ G[p] = c
        /\ \A q \in PageIds \ {p} : G[q] = F[q]
        /\ SyncedPages' = S
        /\ StoredGraph' = StoredGraph /\ DurableGraph' = DurableGraph
    BY <1>4, <2>1, AllocatedPage
  <2>3. PICK N \in SUBSET PageIds : HNSWPage \in N /\ \A q \in N : q < p /\ F[q].next \in N
    BY <1>4, <2>1, AllocatedPage
  <2>4. IsPart(G[p], j.graph, j.part)
    BY <2>2 DEF IsPart, NodePage, Content
  <2>5. /\ j \in Jobs /\ F \in PageMaps /\ j.op = "save" /\ j.step = "alloc"
        /\ 1 <= j.part /\ j.part <= PagesOf[j.graph]
    BY <1>1, <1>2 DEF JobInv, Step
  <2>6. PICK w0 : SaveOK(j, x, F, p, w0)
    BY <2>5 DEF GraphInv, JobOK
  <2>7. k = Chained(j, p)
    BY <1>4
  <2>8. SaveOK(k, x, G, p + 1, FALSE)
    BY <2>2, <2>3, <2>4, <2>5, <2>6, <2>7, SaveAllocated
  <2>9. wr = FALSE
    <3>1. held' = held /\ held[caller] = Idle
      BY <1>4 DEF NewPage
    <3> QED BY <3>1 DEF Idle
  <2>10. k.op = "save"
    BY <2>5, <2>7 DEF Chained, AfterPart, Jobs
  <2>11. HeaderOK(G) /\ HeaderOK(S)
    <3>1. HNSWPage \in PageIds \ {p}
      BY <2>2, FirstPages, PoolAssumption DEF PageIds
    <3>2. G[HNSWPage] = F[HNSWPage] /\ StoredIn(G) = StoredIn(F)
      BY <2>2, <3>1 DEF StoredGraph
    <3> QED BY <1>1, <3>2, HeaderKept
  <2>12. GraphInv'
    BY <1>1, <1>2, <2>2, <2>8, <2>9, <2>10, <2>11, GraphInvAfter
  <2> QED BY <1>2, <2>2, <2>12, LoadedKept
<1> QED
  BY <1>3, <1>4 DEF SaveAlloc

(* What Save writes, at the page that it asked for. *)
LEMMA WrittenPages ==
  ASSUME CkInv, GraphInv, hazards = {}, SaveWrite
  PROVE  /\ Wanted \in PageIds
         /\ \A q \in PageIds \ {Wanted} : NewestPages'[q] = NewestPages[q]
         /\ NewestPages'[Wanted] =
              IF job.step = "link" THEN [NewestPages[Wanted] EXCEPT !.next = job.fresh]
              ELSE Header(job.entry, PagesOf[job.graph], job.head)
         /\ SyncedPages' = SyncedPages /\ next_page_id' = next_page_id
<1>1. /\ StoredInv /\ OneCaller /\ PoolInv /\ HeldInv /\ CleanFramesMatchFile /\ TypeOK
      /\ job \in Jobs /\ JobInv
  BY OneThread DEF CkInv, CkTypeOK, StoredInv
<1>2. Saving /\ held[caller] # Idle
  BY DEF SaveWrite, WriteFrame
<1>3. held[caller].page = Wanted /\ Wanted \in PageIds
  BY <1>2, AskedIssued, WrittenContent
<1> PICK p, j, f, F : p = Wanted /\ j = job /\ f = Framed /\ F = NewestPages
  OBVIOUS
<1>4. f \in Contents /\ f = F[p]
  <2>1. Framed \in Contents /\ Framed = Newest(Wanted)
    BY <1>1, <1>2, <1>3, FramedType, FramedNewest
  <2> QED BY <1>3, <2>1, PagesAfter
<1>5. j \in Jobs /\ j.entry \in Graphs /\ j.graph \in Graphs /\ j.head \in PageIds /\ j.fresh \in PageIds
  BY <1>1 DEF Jobs
<1>6. j.step = "link" => f.kind = "nodes"
  <2>1. SUFFICES ASSUME j.step = "link" PROVE f.kind = "nodes"
    OBVIOUS
  <2>2. j.part \in Nat /\ 2 <= j.part /\ p = j.page
    BY <1>1, <1>2, <2>1, MaxPagesBound DEF JobInv, Step, Saving, Jobs, Wanted
  <2>3. PICK n, w0, x : SaveOK(j, x, F, n, w0)
    BY <1>2 DEF GraphInv, JobOK, Saving
  <2>4. j.part - 1 \in 1 .. (j.part - 1) /\ j.part > 1
    BY <2>2
  <2>5. Written(j, F, n)
    BY <2>1, <2>3, <2>4 DEF SaveOK
  <2>6. IsPart(F[j.page], j.graph, j.part - 1)
    BY <2>4, <2>5 DEF Written
  <2> QED BY <1>4, <2>2, <2>6 DEF IsPart
<1> PICK c : c = IF j.step = "link" THEN [f EXCEPT !.next = j.fresh]
                 ELSE Header(j.entry, PagesOf[j.graph], j.head)
  OBVIOUS
<1>7. c \in Contents
  <2>1. CASE j.step = "link"
    BY <1>4, <1>5, <1>6, <2>1, LinkedType
  <2>2. CASE j.step # "link"
    <3>1. PagesOf[j.graph] \in 0 .. MaxPages
      BY <1>5, MaxPagesBound
    <3> QED BY <1>5, <2>2, <3>1, NodePageType
  <2> QED BY <2>1, <2>2
<1>8. PageWith(c) \in Page /\ PageWith(c)[1] = c
  BY <1>7, PageWithType
<1>9. WriteFrame(caller, PageWith(c))
  BY DEF SaveWrite
<1>10. Changed(p, PageWith(c)) /\ next_page_id' = next_page_id
  BY <1>1, <1>3, <1>8, <1>9, OneThread, WriteFrameWrites
<1>11. Newest(p)' = c /\ WritesBack({p}) /\ disk' = disk
  BY <1>8, <1>10 DEF Changed, Newest
<1>12. \A q \in PageIds \ {p} : Newest(q)' = Newest(q)
  BY <1>11, NewestKept
<1>13. (\A q \in PageIds \ {p} : NewestPages'[q] = F[q]) /\ NewestPages'[p] = c
  BY <1>3, <1>11, <1>12, PagesAfter
<1>14. SyncedPages' = SyncedPages
  BY <1>11 DEF SyncedPages, Synced
<1> QED
  BY <1>3, <1>4, <1>10, <1>13, <1>14

(* The link to the new page: nothing changes that the header leads to. *)
LEMMA SaveLinkStep ==
  ASSUME CkInv, CkInv', GraphInv, hazards = {}, SaveWrite, job.step = "link"
  PROVE  /\ GraphInv'
         /\ LoadedGraph' = LoadedGraph /\ StoredGraph' = StoredGraph
         /\ DurableGraph' = DurableGraph
<1>1. /\ TypeOK /\ TypeOK' /\ JobInv /\ job \in Jobs /\ IndexOK(index)
      /\ HeaderOK(NewestPages) /\ HeaderOK(SyncedPages)
      /\ NewestPages \in PageMaps /\ NewestPages' \in PageMaps
  BY PagesTypeNext DEF CkInv, CkTypeOK, GraphInv
<1>2. index' = index /\ job' = job /\ Saving /\ held[caller] # Idle
      /\ held' = [held EXCEPT ![caller].wrote = TRUE]
  BY DEF SaveWrite, WriteFrame
<1> PICK j, x, F, G, S, n, wr :
      /\ j = job /\ x = index /\ F = NewestPages /\ G = NewestPages' /\ S = SyncedPages
      /\ n = next_page_id /\ wr = held'[caller].wrote
  OBVIOUS
<1>3. /\ j.page \in PageIds /\ \A q \in PageIds \ {j.page} : G[q] = F[q]
      /\ G[j.page] = [F[j.page] EXCEPT !.next = j.fresh]
      /\ SyncedPages' = S /\ next_page_id' = n
  <2>1. Wanted = j.page
    BY DEF Wanted
  <2> QED BY <2>1, WrittenPages
<1>4. j.op = "save" /\ j.step = "link" /\ j.part \in Nat /\ 2 <= j.part
  BY <1>1, <1>2, MaxPagesBound DEF JobInv, Step, Saving, Jobs
<1>5. PICK w0 : SaveOK(j, x, F, n, w0)
  BY <1>4 DEF GraphInv, JobOK
<1>6. j \in Jobs /\ F \in PageMaps /\ G \in PageMaps
  BY <1>1
<1>7. SaveOK(j, x, G, n, TRUE)
  BY <1>3, <1>4, <1>5, <1>6, SaveLinks
<1>8. wr = TRUE
  BY <1>1, <1>2, OneThread DEF TypeOK, Hold
<1>9. PICK R \in SUBSET PageIds :
        HNSWPage \in R /\ j.page \notin R /\ \A q \in R : q < n /\ F[q].next \in R
  <2>1. Apart(j, F, n)
    <3>1. j.part > 1
      BY <1>4
    <3> QED BY <1>4, <1>5, <3>1 DEF SaveOK
  <2> QED BY <2>1 DEF Apart
<1>10. \A q \in R : F[q].next \in R /\ G[q] = F[q]
  BY <1>3, <1>9
<1>11. StoredIn(G) = StoredIn(F)
  BY <1>6, <1>9, <1>10, SamePagesSameGraph
<1>12. HeaderOK(G) /\ HeaderOK(S)
  <2>1. G[HNSWPage] = F[HNSWPage]
    BY <1>9, <1>10
  <2> QED BY <1>1, <1>11, <2>1, HeaderKept
<1>13. GraphInv'
  BY <1>1, <1>2, <1>3, <1>4, <1>7, <1>8, <1>12, GraphInvAfter
<1>14. StoredGraph' = StoredGraph /\ DurableGraph' = DurableGraph
  BY <1>3, <1>11 DEF StoredGraph, DurableGraph
<1> QED
  BY <1>2, <1>13, <1>14, LoadedKept

(* The header: the graph of the index is stored at this moment. *)
LEMMA SaveHeaderStep ==
  ASSUME CkInv, CkInv', GraphInv, hazards = {}, SaveWrite, job.step # "link"
  PROVE  /\ GraphInv'
         /\ LoadedGraph' = LoadedGraph /\ StoredGraph' = LoadedGraph
         /\ DurableGraph' = DurableGraph
<1>1. /\ TypeOK /\ TypeOK' /\ JobInv /\ job \in Jobs /\ IndexOK(index)
      /\ index \in [entry : Graphs, nodes : Graphs, count : Graphs]
      /\ HeaderOK(NewestPages) /\ HeaderOK(SyncedPages)
      /\ NewestPages \in PageMaps /\ NewestPages' \in PageMaps
  BY PagesTypeNext DEF CkInv, CkTypeOK, GraphInv
<1>2. index' = index /\ job' = job /\ Saving
  BY DEF SaveWrite
<1> PICK j, x, F, G, S, n, wr :
      /\ j = job /\ x = index /\ F = NewestPages /\ G = NewestPages' /\ S = SyncedPages
      /\ n = next_page_id /\ wr = held'[caller].wrote
  OBVIOUS
<1>3. /\ \A q \in PageIds \ {HNSWPage} : G[q] = F[q]
      /\ G[HNSWPage] = Header(j.entry, PagesOf[j.graph], j.head)
      /\ SyncedPages' = S /\ next_page_id' = n
  <2>1. Wanted = HNSWPage
    BY DEF Wanted
  <2> QED BY <2>1, WrittenPages
<1>4. j.op = "save" /\ j.step = "header"
  BY <1>2 DEF Saving
<1>5. PICK w0 : SaveOK(j, x, F, n, w0)
  BY <1>4 DEF GraphInv, JobOK
<1>6. /\ j \in Jobs /\ F \in PageMaps /\ G \in PageMaps /\ IndexOK(x) /\ HeaderOK(F)
      /\ x \in [entry : Graphs, nodes : Graphs, count : Graphs]
  BY <1>1
<1>7. /\ StoredIn(G) = IF x = IndexOf(x.entry) THEN x.entry ELSE Broken
      /\ HeaderOK(G)
  BY <1>3, <1>4, <1>5, <1>6, SaveStores
<1>8. SaveOK(j, x, G, n, wr)
  <2>1. j.part > 1 => Written(j, G, n)
    <3>1. SUFFICES ASSUME j.part > 1 PROVE Written(j, G, n)
      OBVIOUS
    <3> PICK m : m = j.part - 1
      OBVIOUS
    <3>2. Written(j, F, n)
      BY <1>4, <1>5, <3>1 DEF SaveOK
    <3>3. PICK w \in Walks(F, j.head, m) :
            /\ \A i \in 1 .. m : IsPart(F[w[i]], j.graph, i) /\ w[i] < n
            /\ \A i \in 1 .. (j.part - 2) : w[i] # j.page
            /\ w[m] = j.page
      BY <3>2 DEF Written
    <3>4. ASSUME NEW i \in 1 .. m PROVE G[w[i]] = F[w[i]]
      <4>1. w[i] \in PageIds
        BY DEF Walks
      <4>2. w[i] # HNSWPage
        BY <1>6, <3>3 DEF IsPart, HeaderOK
      <4> QED BY <1>3, <4>1, <4>2
    <3>5. j.part \in Nat
      BY <1>6, MaxPagesBound DEF Jobs
    <3>6. m \in Nat /\ \A i \in 1 .. (m - 1) : i \in 1 .. m
      BY <3>1, <3>5
    <3>7. w \in Walks(G, j.head, m)
      BY <3>4, <3>6, WalkKept
    <3> QED BY <1>4, <3>3, <3>4, <3>7 DEF Written
  <2> QED BY <1>4, <1>5, <2>1 DEF SaveOK
<1>9. GraphInv'
  BY <1>1, <1>2, <1>3, <1>4, <1>7, <1>8, GraphInvAfter
<1>10. StoredGraph' = LoadedGraph /\ DurableGraph' = DurableGraph
  BY <1>3, <1>7 DEF StoredGraph, DurableGraph, LoadedGraph, Whole
<1> QED
  BY <1>2, <1>9, <1>10, LoadedKept

-----------------------------------------------------------------------------
(* Load, from part to part *)

LEMMA LoadStarts ==
  ASSUME NEW F \in PageMaps, NEW h, h = F[HNSWPage], h.kind = "header", h.n # 0,
         NEW x, x.entry = h.graph,
         NEW j, j = [NoJob EXCEPT !.op = "load", !.step = "chain", !.part = h.n, !.page = h.next]
  PROVE  LoadOK(j, x, F)
<1>1. h \in Contents
  BY FirstPages DEF PageMaps
<1>2. h.next \in PageIds /\ h.n \in Nat /\ 1 <= h.n
  <2>1. h.next \in PageIds /\ h.n \in 0 .. MaxPages
    BY <1>1, ContentsType
  <2> QED BY <2>1, MaxPagesBound
<1>3. j.part = h.n /\ j.page = h.next /\ j.read = << >>
  BY DEF NoJob
<1>4. Len(j.read) = 0 /\ h.n - j.part = 0 /\ j.part <= h.n
  BY <1>2, <1>3
<1>5. PICK w : w \in Walks(F, h.next, h.n)
  BY <1>2, WalkExists
<1>6. w[1] = h.next
  <2>1. 1 \in 1 .. h.n
    BY <1>2
  <2> QED BY <1>5, <2>1 DEF Walks
<1>7. j.page = w[h.n - j.part + 1] /\ \A i \in 1 .. Len(j.read) : j.read[i] = F[w[i]]
  BY <1>3, <1>4, <1>6
<1> QED
  BY <1>4, <1>5, <1>7 DEF LoadOK

(* The page under the frame is the next one of the stored chain. *)
LEMMA LoadReads ==
  ASSUME NEW F \in PageMaps, NEW x, NEW j \in Jobs, LoadOK(j, x, F), 1 <= j.part,
         NEW c, c = F[j.page], NEW h, h = F[HNSWPage]
  PROVE  \E w \in Walks(F, h.next, h.n), m \in 1 .. h.n :
           /\ m = h.n - j.part + 1 /\ j.page = w[m]
           /\ Append(j.read, c) \in Seq(Contents) /\ Len(Append(j.read, c)) = m
           /\ \A i \in 1 .. m : Append(j.read, c)[i] = F[w[i]]
<1>1. h \in Contents /\ h.n \in Nat
  <2>1. h \in Contents
    BY FirstPages DEF PageMaps
  <2>2. h.n \in 0 .. MaxPages
    BY <2>1, ContentsType
  <2> QED BY <2>1, <2>2, MaxPagesBound
<1>2. j.part \in Nat /\ j.read \in Seq(Contents) /\ j.page \in PageIds
  BY MaxPagesBound DEF Jobs
<1>3. c \in Contents
  BY <1>2 DEF PageMaps
<1>4. PICK w \in Walks(F, h.next, h.n) :
        /\ j.page = w[h.n - j.part + 1]
        /\ \A i \in 1 .. Len(j.read) : j.read[i] = F[w[i]]
  BY DEF LoadOK
<1>5. j.part <= h.n /\ Len(j.read) = h.n - j.part
  BY DEF LoadOK
<1> PICK m, s : m = h.n - j.part + 1 /\ s = Append(j.read, c)
  OBVIOUS
<1>6. m \in 1 .. h.n /\ Len(j.read) = m - 1
  BY <1>1, <1>2, <1>5
<1>7. /\ s \in Seq(Contents) /\ Len(s) = Len(j.read) + 1
      /\ \A i \in 1 .. Len(j.read) : s[i] = j.read[i]
      /\ s[Len(j.read) + 1] = c
  <2> PICK r : r = j.read
    OBVIOUS
  <2>1. r \in Seq(Contents) /\ s = Append(r, c)
    BY <1>2
  <2>2. s \in Seq(Contents) /\ Len(s) = Len(r) + 1 /\ s[Len(r) + 1] = c
    BY <1>3, <2>1
  <2>3. \A i \in 1 .. Len(r) : s[i] = r[i]
    BY <1>3, <2>1
  <2> QED BY <2>2, <2>3
<1>8. Len(s) = m /\ s[m] = F[w[m]]
  BY <1>4, <1>6, <1>7
<1>9. ASSUME NEW i \in 1 .. m PROVE s[i] = F[w[i]]
  <2>1. CASE i = m
    BY <1>8, <2>1
  <2>2. CASE i # m
    <3>1. i \in 1 .. Len(j.read)
      BY <1>6, <2>2
    <3> QED BY <1>4, <1>7, <3>1
  <2> QED BY <2>1, <2>2
<1>10. s = Append(j.read, c) /\ m = h.n - j.part + 1 /\ j.page = w[m]
  BY <1>4
<1>11. s \in Seq(Contents) /\ Len(s) = m /\ \A i \in 1 .. m : s[i] = F[w[i]]
  BY <1>7, <1>8, <1>9
<1>12. /\ m = h.n - j.part + 1 /\ j.page = w[m]
       /\ Append(j.read, c) \in Seq(Contents) /\ Len(Append(j.read, c)) = m
       /\ \A i \in 1 .. m : Append(j.read, c)[i] = F[w[i]]
  BY <1>10, <1>11, Zenon
<1>13. m \in 1 .. h.n
  BY <1>6
<1> QED
  BY <1>12, <1>13, Zenon

LEMMA LoadGoesOn ==
  ASSUME NEW F \in PageMaps, NEW x, NEW j \in Jobs, LoadOK(j, x, F), 1 <= j.part, j.part # 1,
         NEW c, c = F[j.page], NEW k, k = PartRead(j, c)
  PROVE  LoadOK(k, x, F)
<1> PICK h : h = F[HNSWPage]
  OBVIOUS
<1>1. PICK w \in Walks(F, h.next, h.n), m \in 1 .. h.n :
        /\ m = h.n - j.part + 1 /\ j.page = w[m]
        /\ Append(j.read, c) \in Seq(Contents) /\ Len(Append(j.read, c)) = m
        /\ \A i \in 1 .. m : Append(j.read, c)[i] = F[w[i]]
  BY LoadReads
<1>2. k.part = j.part - 1 /\ k.page = c.next /\ k.read = Append(j.read, c)
  <2>1. k = [j EXCEPT !.part = j.part - 1, !.page = c.next, !.read = Append(j.read, c)]
    BY DEF PartRead
  <2> QED BY <2>1 DEF Jobs
<1>3. j.part \in Nat /\ h.n \in Nat
  <2>1. h \in Contents
    BY FirstPages DEF PageMaps
  <2>2. h.n \in 0 .. MaxPages
    BY <2>1, ContentsType
  <2> QED BY <2>2, MaxPagesBound DEF Jobs
<1>4. /\ m \in Nat /\ m + 1 \in 1 .. h.n /\ m + 1 # 1 /\ (m + 1) - 1 = m
      /\ h.n - k.part = m /\ h.n - k.part + 1 = m + 1 /\ k.part <= h.n
  <2> PICK a, b, d : a = j.part /\ b = h.n /\ d = k.part
    OBVIOUS
  <2>1. a \in Nat /\ b \in Nat /\ 1 <= a /\ a # 1 /\ d = a - 1 /\ m = b - a + 1 /\ m \in 1 .. b
    BY <1>1, <1>2, <1>3
  <2>2. /\ m \in Nat /\ m + 1 \in 1 .. b /\ m + 1 # 1 /\ (m + 1) - 1 = m
        /\ b - d = m /\ b - d + 1 = m + 1 /\ d <= b
    BY <2>1
  <2> QED BY <2>2
<1>5. k.page = w[h.n - k.part + 1]
  <2>1. w[m + 1] = F[w[(m + 1) - 1]].next
    BY <1>4 DEF Walks
  <2> QED BY <1>1, <1>2, <1>4, <2>1
<1>6. Len(k.read) = h.n - k.part /\ \A i \in 1 .. Len(k.read) : k.read[i] = F[w[i]]
  BY <1>1, <1>2, <1>4
<1>7. h.kind = "header" /\ h.graph = x.entry
  BY DEF LoadOK
<1> QED
  BY <1>4, <1>5, <1>6, <1>7 DEF LoadOK

(* All of the chain has been read. *)
LEMMA LoadEnds ==
  ASSUME NEW F \in PageMaps, NEW x, NEW j \in Jobs, LoadOK(j, x, F), j.part = 1,
         NEW c, c = F[j.page], NEW g \in Graphs, NEW h, h = F[HNSWPage]
  PROVE  /\ Serialized(Append(j.read, c), g) <=> h.n = PagesOf[g] /\ Carries(F, h.next, g)
         /\ h.n # 0 /\ h.kind = "header" /\ h.graph = x.entry
<1>1. 1 <= j.part
  OBVIOUS
<1>2. h \in Contents /\ h.n \in Nat /\ h.next \in PageIds
  <2>1. h \in Contents
    BY FirstPages DEF PageMaps
  <2>2. h.n \in 0 .. MaxPages /\ h.next \in PageIds
    BY <2>1, ContentsType
  <2> QED BY <2>1, <2>2, MaxPagesBound
<1>3. h.kind = "header" /\ h.graph = x.entry /\ 1 <= h.n
  BY DEF LoadOK
<1>4. PICK w \in Walks(F, h.next, h.n), m \in 1 .. h.n :
        /\ m = h.n - j.part + 1
        /\ Append(j.read, c) \in Seq(Contents) /\ Len(Append(j.read, c)) = m
        /\ \A i \in 1 .. m : Append(j.read, c)[i] = F[w[i]]
  BY <1>1, LoadReads
<1> PICK s, n, head : s = Append(j.read, c) /\ n = h.n /\ head = h.next
  OBVIOUS
<1>5. s \in Seq(Contents) /\ Len(s) = n /\ \A i \in 1 .. n : s[i] = F[w[i]]
  BY <1>2, <1>4
<1>6. s = [i \in 1 .. n |-> F[w[i]]]
  <2>1. s = [i \in 1 .. n |-> s[i]]
    BY <1>5
  <2> QED BY <1>5, <2>1
<1>7. Serialized(s, g) <=> n = PagesOf[g] /\ Carries(F, head, g)
  <2>1. n \in Nat /\ head \in PageIds /\ w \in Walks(F, head, n)
    BY <1>2, <1>4
  <2> QED BY <1>6, <2>1, SerializedWalk
<1> QED
  BY <1>2, <1>3, <1>7

LEMMA QuietLoadSteps ==
  ASSUME CkInv, GraphInv, hazards = {},
         \/ LoadGetHeader \/ LoadGetHeaderFails \/ LoadNothing
         \/ LoadGet \/ LoadGetFails \/ LoadPart
  PROVE  /\ GraphInv'
         /\ LoadedGraph' = LoadedGraph /\ StoredGraph' = StoredGraph
         /\ DurableGraph' = DurableGraph
<1>1. /\ TypeOK /\ HeldInv /\ JobInv /\ CleanFramesMatchFile /\ job \in Jobs /\ IndexOK(index)
      /\ HeaderOK(NewestPages) /\ HeaderOK(SyncedPages)
      /\ NewestPages \in PageMaps
  BY PagesType DEF CkInv, CkTypeOK, GraphInv
<1>2. /\ NewestPages' = NewestPages /\ SyncedPages' = SyncedPages
      /\ next_page_id' = next_page_id
  <2>1. CASE LoadGetHeader \/ LoadGetHeaderFails
    <3>1. GetPage(caller, HNSWPage) /\ HNSWPage \in PageIds
      BY <2>1, GetsPage, FirstPages DEF LoadGetHeader, LoadGetHeaderFails
    <3> QED BY <3>1, QuietPages
  <2>2. CASE LoadGet \/ LoadGetFails
    <3>1. GetPage(caller, job.page) /\ job.page \in PageIds
      BY <2>2, GetsPage, AskedIssued DEF LoadGet, LoadGetFails
    <3> QED BY <3>1, QuietPages
  <2>3. CASE LoadNothing \/ LoadPart
    <3>1. Release(caller)
      BY <2>3 DEF LoadNothing, LoadPart
    <3> QED BY <3>1, QuietPages
  <2> QED BY <2>1, <2>2, <2>3
<1>3. index' = index
  BY DEF LoadGetHeader, LoadGetHeaderFails, LoadNothing, LoadGet, LoadGetFails, LoadPart
<1>4. IndexOK(index')
  BY <1>1, <1>3
<1>5. CASE LoadGetHeader \/ LoadGetHeaderFails \/ LoadNothing \/ LoadGetFails
  <2>1. job' = NoJob \/ job' = [NoJob EXCEPT !.op = "load", !.step = "header"]
    BY <1>5 DEF LoadGetHeader, LoadGetHeaderFails, LoadNothing, LoadGetFails
  <2>2. job'.op # "save" /\ job'.step # "chain"
    <3>1. CASE job' = NoJob
      BY <3>1 DEF NoJob
    <3>2. CASE job' = [NoJob EXCEPT !.op = "load", !.step = "header"]
      BY <3>2 DEF NoJob
    <3> QED BY <2>1, <3>1, <3>2
  <2> QED BY <1>2, <1>3, <1>4, <2>2, RestStep, LoadedKept
<1> PICK j, x, F, n, k, wr :
      /\ j = job /\ x = index /\ F = NewestPages /\ n = next_page_id
      /\ k = job' /\ wr = held'[caller].wrote
  OBVIOUS
<1>6. CASE LoadGet \/ LoadPart
  <2>1. Step("load", "chain") /\ LoadOK(j, x, F) /\ 1 <= j.part
    <3>1. Step("load", "chain")
      BY <1>6 DEF LoadGet, LoadPart, At
    <3> QED BY <1>1, <3>1 DEF GraphInv, JobOK, JobInv
  <2>2. LoadOK(k, x, F) /\ k.op = "load"
    <3>1. CASE LoadGet
      BY <2>1, <3>1 DEF LoadGet, Step
    <3>2. CASE LoadPart
      <4> PICK c : c = Framed
        OBVIOUS
      <4>1. k = PartRead(j, c) /\ j.part # 1 /\ held[caller] # Idle
        BY <3>2 DEF LoadPart, LastPart, Release
      <4>2. c = Newest(j.page) /\ j.page \in PageIds
        <5>1. held[caller].page = job.page
          BY <1>1, <2>1, <4>1 DEF JobInv, Step
        <5>2. c = Newest(held[caller].page)
          BY <1>1, <4>1, FramedNewest
        <5> QED BY <1>1, <5>1, <5>2 DEF Jobs
      <4>3. c = F[j.page]
        BY <4>2, PagesAfter
      <4>4. LoadOK(k, x, F)
        <5>1. F \in PageMaps /\ j \in Jobs
          BY <1>1
        <5> QED BY <2>1, <4>1, <4>3, <5>1, LoadGoesOn
      <4>5. k.op = "load"
        <5>1. k = [j EXCEPT !.part = j.part - 1, !.page = c.next, !.read = Append(j.read, c)]
          BY <4>1 DEF PartRead
        <5>2. k.op = j.op /\ j.op = "load"
          BY <1>1, <2>1, <5>1 DEF Jobs, Step
        <5> QED BY <5>2
      <4> QED BY <4>4, <4>5
    <3> QED BY <1>6, <3>1, <3>2
  <2>3. GraphInv'
    BY <1>1, <1>2, <1>3, <2>2, GraphInvAfter
  <2> QED BY <1>2, <1>3, <2>3, LoadedKept, QuietGraphs
<1> QED
  BY <1>5, <1>6

(* Of a header without a chain, the graph is the empty one or none at all. *)
LEMMA EmptyChain ==
  ASSUME NEW F \in PageMaps, NEW h, h = F[HNSWPage], h.kind = "header", h.n = 0
  PROVE  StoredIn(F) = IF h.graph = 0 THEN 0 ELSE Broken
<1>1. h \in Contents
  BY FirstPages DEF PageMaps
<1>2. h.graph \in Graphs /\ h.next \in PageIds
  BY <1>1, ContentsType
<1>3. PagesOf[h.graph] = 0 <=> h.graph = 0
  BY <1>2, CheckpointAssumption
<1>4. h.graph = 0 => Carries(F, h.next, h.graph)
  <2>1. PICK w : w \in Walks(F, h.next, 0)
    BY <1>2, WalkExists
  <2> QED BY <1>3, <2>1 DEF Carries
<1> QED
  BY <1>3, <1>4 DEF StoredIn

LEMMA LoadHeaderStep ==
  ASSUME CkInv, GraphInv, hazards = {}, LoadHeader
  PROVE  /\ GraphInv' /\ NewestPages[HNSWPage].kind = "header"
         /\ LoadedGraph' = StoredGraph \/ LoadedGraph' = Broken
         /\ StoredGraph' = StoredGraph /\ DurableGraph' = DurableGraph
<1>1. /\ TypeOK /\ HeldInv /\ JobInv /\ CleanFramesMatchFile
      /\ index \in [entry : Graphs, nodes : Graphs, count : Graphs]
      /\ HeaderOK(NewestPages) /\ HeaderOK(SyncedPages)
      /\ NewestPages \in PageMaps
  BY PagesType DEF CkInv, CkTypeOK, GraphInv
<1>2. Release(caller) /\ Step("load", "header") /\ held[caller] # Idle
  BY DEF LoadHeader, At, Release
<1>3. /\ NewestPages' = NewestPages /\ SyncedPages' = SyncedPages
      /\ next_page_id' = next_page_id
  BY <1>2, QuietPages
<1> PICK h, F, i : h = Framed /\ F = NewestPages /\ i = index.count
  OBVIOUS
<1>4. h = F[HNSWPage]
  <2>1. held[caller].page = HNSWPage
    BY <1>1, <1>2 DEF JobInv, Step
  <2>2. h = Newest(HNSWPage)
    BY <1>1, <1>2, <2>1, FramedNewest
  <2> QED BY <2>2, FirstPages, PagesAfter
<1>5. /\ h.kind = "header"
      /\ index' = [entry |-> h.graph, nodes |-> 0, count |-> IF h.n = 0 THEN 0 ELSE i]
      /\ job' = IF h.n = 0 THEN NoJob
                ELSE [NoJob EXCEPT !.op = "load", !.step = "chain",
                                   !.part = h.n, !.page = h.next]
  BY DEF LoadHeader
<1>6. HeaderOK(F) /\ F \in PageMaps
  BY <1>1, <1>4
<1> PICK x, k, wr : x = index' /\ k = job' /\ wr = held'[caller].wrote
  OBVIOUS
<1>7. x.entry = h.graph /\ x.nodes = 0 /\ x.count = IF h.n = 0 THEN 0 ELSE i
  BY <1>5
<1>8. x = IndexOf(x.entry) => h.graph = 0
  BY <1>7 DEF IndexOf
<1>9. CASE h.n = 0
  <2>1. k = NoJob
    BY <1>5, <1>9
  <2>2. IndexOK(x)
    BY <1>7, <1>9 DEF IndexOK
  <2>3. job'.op # "save" /\ ~(job'.op = "load" /\ job'.step = "chain")
    BY <2>1 DEF NoJob
  <2>4. GraphInv'
    BY <1>3, <2>2, <2>3, RestStep
  <2>5. h.graph = 0 => x = IndexOf(x.entry)
    BY <1>5, <1>9 DEF IndexOf
  <2>6. LoadedGraph' = IF h.graph = 0 THEN 0 ELSE Broken
    BY <1>7, <1>8, <2>5 DEF LoadedGraph, Whole
  <2>7. StoredGraph = IF h.graph = 0 THEN 0 ELSE Broken
    BY <1>4, <1>5, <1>6, <1>9, EmptyChain DEF StoredGraph
  <2> QED BY <1>3, <1>4, <1>5, <2>4, <2>6, <2>7, QuietGraphs
<1>10. CASE h.n # 0
  <2>1. h.graph # 0
    BY <1>4, <1>5, <1>6, <1>10 DEF HeaderOK
  <2>2. IndexOK(x)
    BY <1>7, <2>1 DEF IndexOK
  <2>3. k = [NoJob EXCEPT !.op = "load", !.step = "chain", !.part = h.n, !.page = h.next]
    BY <1>5, <1>10
  <2>4. LoadOK(k, x, F) /\ k.op = "load"
    <3>1. /\ F \in PageMaps /\ h = F[HNSWPage] /\ h.kind = "header" /\ h.n # 0
          /\ x.entry = h.graph
          /\ k = [NoJob EXCEPT !.op = "load", !.step = "chain", !.part = h.n, !.page = h.next]
      BY <1>4, <1>5, <1>6, <1>7, <1>10, <2>3
    <3>2. LoadOK(k, x, F)
      BY <3>1, LoadStarts, Zenon
    <3> QED BY <2>3, <3>2 DEF NoJob
  <2>5. GraphInv'
    BY <1>1, <1>3, <2>2, <2>4, GraphInvAfter
  <2>6. LoadedGraph' = Broken
    BY <1>8, <2>1 DEF LoadedGraph, Whole
  <2> QED BY <1>3, <1>4, <1>5, <2>5, <2>6, QuietGraphs
<1> QED
  BY <1>9, <1>10

LEMMA LoadNodesStep ==
  ASSUME CkInv, GraphInv, hazards = {}, LoadNodes
  PROVE  /\ GraphInv' /\ NewestPages[HNSWPage].kind = "header"
         /\ LoadedGraph' = StoredGraph
         /\ StoredGraph' = StoredGraph /\ DurableGraph' = DurableGraph
<1>1. /\ TypeOK /\ HeldInv /\ JobInv /\ CleanFramesMatchFile /\ job \in Jobs
      /\ index \in [entry : Graphs, nodes : Graphs, count : Graphs]
      /\ HeaderOK(NewestPages) /\ HeaderOK(SyncedPages)
      /\ NewestPages \in PageMaps
  BY PagesType DEF CkInv, CkTypeOK, GraphInv
<1>2. Release(caller) /\ Step("load", "chain") /\ held[caller] # Idle /\ job.part = 1
      /\ job' = NoJob
  BY NodesLoaded DEF At, Release, LastPart
<1>3. /\ NewestPages' = NewestPages /\ SyncedPages' = SyncedPages
      /\ next_page_id' = next_page_id
  BY <1>2, QuietPages
<1> PICK c, F, j, x, h : c = Framed /\ F = NewestPages /\ j = job /\ x = index /\ h = F[HNSWPage]
  OBVIOUS
<1>4. c = F[j.page]
  <2>1. held[caller].page = j.page /\ j.page \in PageIds
    BY <1>1, <1>2 DEF JobInv, Step, Jobs
  <2>2. c = Newest(j.page)
    BY <1>1, <1>2, <2>1, FramedNewest
  <2> QED BY <2>1, <2>2, PagesAfter
<1> PICK parts : parts = Append(j.read, c)
  OBVIOUS
<1>5. PICK g \in Graphs : g \in Deserialized(parts)
                          /\ index' = [entry |-> x.entry, nodes |-> g, count |-> g]
  BY NodesLoaded
<1>6. /\ h.n # 0 /\ h.kind = "header" /\ h.graph = x.entry /\ StoredIn(F) = x.entry
      /\ g = x.entry
  <2>1. LoadOK(j, x, F)
    BY <1>2 DEF GraphInv, JobOK
  <2>2. F \in PageMaps /\ j \in Jobs /\ j.part = 1 /\ HeaderOK(F) /\ x.entry \in Graphs
    BY <1>1, <1>2
  <2>3. ASSUME NEW a \in Graphs
        PROVE  /\ Serialized(parts, a) <=> h.n = PagesOf[a] /\ Carries(F, h.next, a)
               /\ h.n # 0 /\ h.kind = "header" /\ h.graph = x.entry
    BY <1>4, <2>1, <2>2, LoadEnds
  <2>4. StoredIn(F) # Broken
    BY <2>2, <2>3 DEF HeaderOK
  <2>5. StoredIn(F) = x.entry /\ h.n = PagesOf[x.entry] /\ Carries(F, h.next, x.entry)
    BY <2>2, <2>3, <2>4 DEF StoredIn
  <2>6. Serialized(parts, x.entry)
    BY <2>2, <2>3, <2>5
  <2>7. Serialized(parts, g)
    BY <1>5, <2>2, <2>6 DEF Deserialized, IsGraph
  <2>8. Len(parts) = PagesOf[x.entry] /\ PagesOf[x.entry] \in Nat /\ PagesOf[x.entry] # 0
    BY <2>2, <2>3, <2>5, <2>6, MaxPagesBound DEF Serialized
  <2>9. 1 \in DOMAIN parts
    <3>1. j.read \in Seq(Contents) /\ c \in Contents
      BY <1>1, <1>4, <2>2 DEF Jobs, PageMaps
    <3>2. parts \in Seq(Contents)
      BY <3>1
    <3> QED BY <2>8, <3>2
  <2>10. g = x.entry
    BY <2>6, <2>7, <2>9 DEF Serialized
  <2> QED BY <2>2, <2>3, <2>5, <2>10
<1> PICK y : y = index'
  OBVIOUS
<1>7. y.entry = x.entry /\ y.nodes = x.entry /\ y.count = x.entry
      /\ y = [entry |-> y.entry, nodes |-> y.nodes, count |-> y.count]
  BY <1>5, <1>6
<1>8. IndexOK(y)
  BY <1>7 DEF IndexOK
<1>9. GraphInv'
  <2>1. job'.op # "save" /\ ~(job'.op = "load" /\ job'.step = "chain")
    BY <1>2 DEF NoJob
  <2> QED BY <1>3, <1>8, <2>1, RestStep
<1>10. LoadedGraph' = StoredGraph
  BY <1>6, <1>7 DEF LoadedGraph, Whole, IndexOf, StoredGraph
<1> QED
  BY <1>3, <1>6, <1>9, <1>10, QuietGraphs

-----------------------------------------------------------------------------
(* The index, the other users of the pool, and restarts *)

LEMMA InsertStep ==
  ASSUME CkInv, GraphInv, hazards = {}, Insert
  PROVE  /\ GraphInv'
         /\ LoadedGraph # Broken /\ LoadedGraph' \in Graphs
         /\ StoredGraph' = StoredGraph /\ DurableGraph' = DurableGraph
<1>1. UNCHANGED vars /\ job' = job /\ job.op # "save" /\ job.op # "load" /\ Whole
  BY DEF Insert, LockFree
<1>2. PICK g \in Graphs : index' = IndexOf(g)
  BY DEF Insert
<1>3. index.entry \in Graphs
  BY DEF CkInv, CkTypeOK
<1>4. /\ NewestPages' = NewestPages /\ SyncedPages' = SyncedPages
      /\ next_page_id' = next_page_id
  BY <1>1, QuietPages
<1> PICK x : x = index'
  OBVIOUS
<1>5. x = IndexOf(g) /\ x.entry = g /\ x.nodes = g /\ x.count = g
  BY <1>2 DEF IndexOf
<1>6. IndexOK(x)
  BY <1>5 DEF IndexOK
<1>7. /\ GraphInv' /\ StoredGraph' = StoredGraph /\ DurableGraph' = DurableGraph
  BY <1>1, <1>4, <1>6, RestStep
<1>8. LoadedGraph' = g
  BY <1>5 DEF LoadedGraph, Whole
<1>9. LoadedGraph # Broken
  BY <1>1, <1>3, GraphNames DEF LoadedGraph
<1> QED
  BY <1>7, <1>8, <1>9

(* No call is under way after a step that leaves the header and the index. *)
LEMMA IdleInv ==
  ASSUME GraphInv, job' = NoJob, IndexOK(index'),
         HeaderOK(NewestPages'), HeaderOK(SyncedPages')
  PROVE  GraphInv'
<1>1. job'.op # "save" /\ job'.op # "load"
  BY DEF NoJob
<1> QED
  BY <1>1, GraphInvAfter

LEMMA OtherPageStep ==
  ASSUME CkInv, CkInv', GraphInv, hazards = {}, OtherPage
  PROVE  /\ GraphInv'
         /\ LoadedGraph' = LoadedGraph /\ StoredGraph' = StoredGraph
         /\ DurableGraph' = DurableGraph
<1>1. NewPage(caller, PageWith(OtherContent)) /\ OtherContent \in Contents
      /\ index' = index /\ job' = NoJob
  BY FixedContents DEF OtherPage
<1>2. IndexOK(index') /\ HeaderOK(NewestPages) /\ HeaderOK(SyncedPages)
  BY <1>1 DEF GraphInv
<1>3. /\ next_page_id \in PageIds /\ FirstDataPage <= next_page_id
      /\ \A q \in PageIds \ {next_page_id} : NewestPages'[q] = NewestPages[q]
      /\ SyncedPages' = SyncedPages
      /\ StoredGraph' = StoredGraph /\ DurableGraph' = DurableGraph
  BY <1>1, AllocatedPage
<1>4. HNSWPage # next_page_id
  <2>1. HNSWPage \in Int /\ FirstDataPage \in Int /\ next_page_id \in Int /\ HNSWPage < FirstDataPage
    BY <1>3, FirstPages, PoolAssumption DEF PageIds
  <2> QED BY <1>3, <2>1
<1>5. NewestPages'[HNSWPage] = NewestPages[HNSWPage]
  BY <1>3, <1>4, FirstPages
<1>6. HeaderOK(NewestPages')
  BY <1>2, <1>3, <1>5, HeaderKept DEF StoredGraph
<1>7. GraphInv'
  BY <1>1, <1>2, <1>3, <1>6, IdleInv
<1> QED
  BY <1>1, <1>3, <1>7, LoadedKept

(* The pages of a file, when no frame is newer. *)
LEMMA SettledPages ==
  ASSUME NEW F, F = [p \in PageIds |-> F[p]],
         \A p \in PageIds : Newest(p)' = F[p] /\ disk'.data[p][1] = F[p]
  PROVE  NewestPages' = F /\ SyncedPages' = F
<1>1. NewestPages' = [p \in PageIds |-> F[p]]
  BY PagesAfter
<1>2. SyncedPages' = [p \in PageIds |-> F[p]]
  <2>1. SyncedPages' = [p \in PageIds |-> disk'.data[p][1]]
    BY DEF SyncedPages, Synced
  <2> QED BY <2>1
<1> QED
  BY <1>1, <1>2

LEMMA FlushGraphs ==
  ASSUME CkInv, GraphInv, hazards = {}, Flush
  PROVE  /\ GraphInv'
         /\ LoadedGraph' = LoadedGraph /\ StoredGraph' = StoredGraph
         /\ DurableGraph' = DurableGraph \/ DurableGraph' = StoredGraph
<1>1. job' = NoJob /\ index' = index
      /\ (FlushOK(caller) \/ FlushWriteFails(caller) \/ FlushSyncFails(caller))
  BY DEF Flush
<1>2. IndexOK(index') /\ HeaderOK(NewestPages) /\ HeaderOK(SyncedPages)
  BY <1>1 DEF GraphInv
<1>3. OneCaller /\ PoolInv
  BY OneThread DEF CkInv, StoredInv
<1>4. /\ WritesBack({})
      /\ FlushOK(caller) => disk' = file' /\ \A q \in PageIds : ~Newer(q)'
      /\ ~FlushOK(caller) => disk' = disk
  BY <1>1, <1>3, OneThread, FlushWrites
<1>5. \A q \in PageIds : Newest(q)' = Newest(q)
  BY <1>4, NewestKept
<1>6. CASE ~FlushOK(caller)
  <2>1. NewestPages' = NewestPages /\ SyncedPages' = SyncedPages
    BY <1>4, <1>5, <1>6, PagesUnchanged
  <2>2. GraphInv'
    BY <1>1, <1>2, <2>1, IdleInv
  <2> QED BY <1>1, <2>1, <2>2, LoadedKept, QuietGraphs
<1>7. CASE FlushOK(caller)
  <2> PICK F : F = NewestPages
    OBVIOUS
  <2>1. ASSUME NEW p \in PageIds PROVE Newest(p)' = F[p] /\ disk'.data[p][1] = F[p]
    <3>1. Newest(p)' = F[p]
      BY <1>5, PagesAfter
    <3>2. disk' = file' /\ ~Newer(p)'
      BY <1>4, <1>7
    <3> QED BY <3>1, <3>2 DEF Newest
  <2>2. F = [p \in PageIds |-> F[p]]
    BY PagesAfter
  <2>3. NewestPages' = F /\ SyncedPages' = F
    BY <2>1, <2>2, SettledPages
  <2>4. GraphInv'
    BY <1>1, <1>2, <2>3, IdleInv
  <2>5. StoredGraph' = StoredGraph /\ DurableGraph' = StoredGraph
    BY <2>3 DEF StoredGraph, DurableGraph
  <2> QED BY <1>1, <2>4, <2>5, LoadedKept
<1> QED
  BY <1>6, <1>7

LEMMA EmptyIndex ==
  ASSUME Restarted
  PROVE  IndexOK(index') /\ LoadedGraph' = 0 /\ job' = NoJob
<1>1. index' = [entry |-> 0, nodes |-> 0, count |-> 0] /\ job' = NoJob
  BY DEF Restarted, IndexOf
<1>2. IndexOK(index')
  BY <1>1 DEF IndexOK
<1>3. LoadedGraph' = 0
  BY <1>1 DEF LoadedGraph, Whole, IndexOf
<1> QED
  BY <1>1, <1>2, <1>3

LEMMA CloseGraphs ==
  ASSUME CkInv, GraphInv, hazards = {}, Close
  PROVE  /\ GraphInv'
         /\ LoadedGraph' = 0 /\ StoredGraph' = StoredGraph /\ DurableGraph' = StoredGraph
<1> DEFINE fs == WrittenFile(DirtyPages)
<1>1. Restarted /\ Reopened(fs, fs) /\ \A t \in Threads : held[t] = Idle
  BY DEF Close, CloseAndOpen
<1>2. OneCaller /\ PoolInv /\ FileInv
  BY OneThread DEF CkInv, StoredInv
<1>3. WroteBack(file, fs, DirtyPages, {})
  BY <1>2, ClosedFile
<1> HIDE DEF fs
<1>4. file' = fs /\ disk' = fs
  BY <1>1 DEF Reopened
<1>5. \A q : Newer(q) <=> q \in DirtyPages
  BY <1>1, <1>2, OneThread, IdleNewer
<1> PICK F : F = NewestPages
  OBVIOUS
<1>6. ASSUME NEW p \in PageIds PROVE Newest(p)' = F[p] /\ disk'.data[p][1] = F[p]
  <2>1. fs.data[p][1] = Newest(p)
    <3>1. CASE p \in DirtyPages
      BY <1>3, <1>5, <3>1 DEF WroteBack, Newest
    <3>2. CASE p \notin DirtyPages
      BY <1>3, <1>5, <3>2 DEF WroteBack, Newest
    <3> QED BY <3>1, <3>2
  <2>2. ~Newer(p)'
    BY <1>1, ReopenedNewer
  <2>3. Newest(p)' = fs.data[p][1] /\ disk'.data[p][1] = fs.data[p][1]
    BY <1>4, <2>2 DEF Newest
  <2> QED BY <2>1, <2>3, PagesAfter
<1>7. F = [p \in PageIds |-> F[p]]
  BY PagesAfter
<1>8. NewestPages' = F /\ SyncedPages' = F
  BY <1>6, <1>7, SettledPages
<1>9. GraphInv'
  <2>1. HeaderOK(NewestPages') /\ HeaderOK(SyncedPages')
    BY <1>8 DEF GraphInv
  <2>2. job' = NoJob /\ IndexOK(index')
    BY <1>1, EmptyIndex
  <2> QED BY <2>1, <2>2, IdleInv
<1>10. StoredGraph' = StoredGraph /\ DurableGraph' = StoredGraph
  BY <1>8 DEF StoredGraph, DurableGraph
<1> QED
  BY <1>1, <1>9, <1>10, EmptyIndex

(* After a crash that keeps the header of the last sync, the pages that this header
   leads to are those of the last sync. *)
LEMMA CrashGraphs ==
  ASSUME CkInv, CkInv', GraphInv, hazards = {}, Crash, hazards' = {}
  PROVE  /\ GraphInv'
         /\ LoadedGraph' = 0 /\ StoredGraph' = DurableGraph /\ DurableGraph' = DurableGraph
<1>1. Restarted /\ file'.data[HNSWPage] = disk.data[HNSWPage]
  BY DEF Crash
<1>2. OneCaller /\ PoolInv /\ FileInv /\ TypeOK /\ TypeOK'
  BY OneThread DEF CkInv, CkTypeOK, StoredInv
<1>3. PICK D \in SUBSET PageIds :
        /\ HNSWPage \in D
        /\ \A p \in D : Synced(p).next \in D
        /\ \A p \in D \ {HNSWPage} : file.data[p][1] = Synced(p)
  BY DEF CkInv, ChainInv, Closed
<1>4. 1 \in 1 .. Parts
  BY FileAssumption
<1>5. PICK fs, gs :
        /\ Reopened(fs, gs)
        /\ \A p \in PageIds : fs.data[p][1] \in {file.data[p][1], disk.data[p][1]}
        /\ (fs = file /\ gs = disk) \/ gs = fs
  <2>1. CASE KillAndOpen
    BY <2>1 DEF KillAndOpen
  <2>2. CASE PowerLossAndOpen
    <3>1. PICK fs \in AfterCrash(file, disk) : Reopened(fs, fs)
      BY <2>2 DEF PowerLossAndOpen
    <3>2. \A q \in PageIds, k \in 1 .. Parts :
               fs.data[q][k] \in {file.data[q][k], disk.data[q][k]}
      BY <1>2, CrashedFile
    <3> QED BY <1>4, <3>1, <3>2
  <2> QED BY <2>1, <2>2 DEF Crash
<1>6. file' = fs /\ disk' = gs
  BY <1>5 DEF Reopened
<1> PICK S, F, G : S = SyncedPages /\ F = NewestPages' /\ G = SyncedPages'
  OBVIOUS
<1>7. S \in PageMaps /\ F \in PageMaps /\ G \in PageMaps
  BY <1>2, PagesType, PagesTypeNext
<1>8. ASSUME NEW p \in D PROVE S[p].next \in D /\ F[p] = S[p] /\ G[p] = S[p]
  <2>1. S[p] = Synced(p)
    BY DEF SyncedPages
  <2>2. fs.data[p][1] = Synced(p)
    <3>1. CASE p = HNSWPage
      BY <1>1, <1>6, <3>1 DEF Synced
    <3>2. CASE p # HNSWPage
      BY <1>3, <1>5, <3>2 DEF Synced
    <3> QED BY <3>1, <3>2
  <2>3. gs.data[p][1] = Synced(p)
    BY <1>5, <2>2 DEF Synced
  <2>4. ~Newer(p)'
    BY <1>5, ReopenedNewer
  <2>5. Newest(p)' = fs.data[p][1]
    BY <1>6, <2>4 DEF Newest
  <2>6. F[p] = Newest(p)'
    BY PagesAfter
  <2>7. G[p] = gs.data[p][1]
    <3>1. SyncedPages' = [q \in PageIds |-> disk'.data[q][1]]
      BY DEF SyncedPages, Synced
    <3> QED BY <1>6, <3>1
  <2> QED BY <1>3, <2>1, <2>2, <2>3, <2>5, <2>6, <2>7
<1>9. StoredIn(F) = StoredIn(S)
  BY <1>3, <1>7, <1>8, SamePagesSameGraph
<1>10. StoredIn(G) = StoredIn(S)
  BY <1>3, <1>7, <1>8, SamePagesSameGraph
<1>11. GraphInv'
  <2>1. HeaderOK(S)
    BY DEF GraphInv
  <2>2. HeaderOK(F) /\ HeaderOK(G)
    <3>1. F[HNSWPage] = S[HNSWPage] /\ G[HNSWPage] = S[HNSWPage]
      BY <1>3, <1>8
    <3> QED BY <1>9, <1>10, <2>1, <3>1, HeaderKept
  <2>3. job' = NoJob /\ IndexOK(index')
    BY <1>1, EmptyIndex
  <2> QED BY <2>2, <2>3, IdleInv
<1>12. StoredGraph' = DurableGraph /\ DurableGraph' = DurableGraph
  BY <1>9, <1>10 DEF StoredGraph, DurableGraph
<1> QED
  BY <1>1, <1>11, <1>12, EmptyIndex

-----------------------------------------------------------------------------
(* The invariant, and the steps of GraphStore *)

(* A header names a graph, and so something is stored. *)
LEMMA HeaderNamesGraph ==
  ASSUME TypeOK, NewestPages[HNSWPage].kind = "header"
  PROVE  StoredGraph # NoGraph
<1> PICK F, h : F = NewestPages /\ h = F[HNSWPage]
  OBVIOUS
<1>1. h \in Contents /\ h.kind = "header"
  BY PagesType, FirstPages DEF PageMaps
<1>2. h.graph \in Graphs
  BY <1>1, ContentsType
<1>3. StoredIn(F) = h.graph \/ StoredIn(F) = Broken
  BY <1>1 DEF StoredIn
<1> QED
  BY <1>2, <1>3, GraphNames DEF StoredGraph

(* The steps of GraphStore, for the variables that the checkpoint has for it. *)
SameGraphs ==
  /\ LoadedGraph' = LoadedGraph
  /\ StoredGraph' = StoredGraph
  /\ DurableGraph' = DurableGraph

GraphStep ==
  \/ /\ LoadedGraph # Broken /\ LoadedGraph' \in Graphs
     /\ StoredGraph' = StoredGraph /\ DurableGraph' = DurableGraph
  \/ /\ StoredGraph' = LoadedGraph
     /\ LoadedGraph' = LoadedGraph /\ DurableGraph' = DurableGraph
  \/ /\ StoredGraph # NoGraph /\ LoadedGraph' \in {StoredGraph, Broken}
     /\ StoredGraph' = StoredGraph /\ DurableGraph' = DurableGraph
  \/ /\ DurableGraph' = StoredGraph
     /\ LoadedGraph' = LoadedGraph /\ StoredGraph' = StoredGraph
  \/ /\ LoadedGraph' = 0 /\ DurableGraph' = StoredGraph /\ StoredGraph' = StoredGraph
  \/ /\ LoadedGraph' = 0 /\ StoredGraph' = DurableGraph /\ DurableGraph' = DurableGraph

LEMMA NoStep ==
  ASSUME CkInv, GraphInv, hazards = {}, UNCHANGED ckptVars
  PROVE  GraphInv' /\ SameGraphs
<1>1. UNCHANGED vars /\ index' = index /\ job' = job /\ held' = held
  BY DEF ckptVars, vars
<1>2. /\ NewestPages' = NewestPages /\ SyncedPages' = SyncedPages
      /\ next_page_id' = next_page_id
  BY <1>1, QuietPages
<1> PICK x, j, F, S, n, wr :
      /\ x = index /\ j = job /\ F = NewestPages /\ S = SyncedPages /\ n = next_page_id
      /\ wr = held[caller].wrote
  OBVIOUS
<1>3. /\ IndexOK(x) /\ HeaderOK(F) /\ HeaderOK(S)
      /\ j.op = "save" => SaveOK(j, x, F, n, wr)
      /\ j.op = "load" /\ j.step = "chain" => LoadOK(j, x, F)
  BY DEF GraphInv, JobOK, Step
<1>4. /\ index' = x /\ job' = j /\ NewestPages' = F /\ SyncedPages' = S /\ next_page_id' = n
      /\ held'[caller].wrote = wr
  BY <1>1, <1>2
<1>5. GraphInv'
  BY <1>3, <1>4, GraphInvAfter
<1> QED
  BY <1>1, <1>2, <1>5, LoadedKept, QuietGraphs DEF SameGraphs

LEMMA GraphNext ==
  ASSUME CkInv, CkInv', GraphInv, hazards = {}, hazards' = {}, [CkNext]_ckptVars
  PROVE  GraphInv' /\ (SameGraphs \/ GraphStep)
<1>1. TypeOK
  BY DEF CkInv, CkTypeOK
<1>2. CASE UNCHANGED ckptVars
  BY <1>2, NoStep
<1>3. CASE SaveBegin \/ SaveNodes \/ SaveGet \/ SaveGetFails \/ SaveMarkDirty
  BY <1>3, QuietSaveSteps DEF SameGraphs
<1>4. CASE SaveAlloc
  BY <1>4, SaveAllocStep DEF SameGraphs
<1>5. CASE SaveWrite
  <2>1. CASE job.step = "link"
    BY <1>5, <2>1, SaveLinkStep DEF SameGraphs
  <2>2. CASE job.step # "link"
    BY <1>5, <2>2, SaveHeaderStep DEF GraphStep
  <2> QED BY <2>1, <2>2
<1>6. CASE \/ LoadGetHeader \/ LoadGetHeaderFails \/ LoadNothing
           \/ LoadGet \/ LoadGetFails \/ LoadPart
  BY <1>6, QuietLoadSteps DEF SameGraphs
<1>7. CASE LoadHeader
  BY <1>1, <1>7, LoadHeaderStep, HeaderNamesGraph DEF GraphStep
<1>8. CASE LoadNodes
  BY <1>1, <1>8, LoadNodesStep, HeaderNamesGraph DEF GraphStep
<1>9. ~LoadUndefined /\ ~InsertUndefined
  BY DEF LoadUndefined, InsertUndefined
<1>10. CASE Insert
  BY <1>10, InsertStep DEF GraphStep
<1>11. CASE OtherPage
  BY <1>11, OtherPageStep DEF SameGraphs
<1>12. CASE Flush
  BY <1>12, FlushGraphs DEF SameGraphs, GraphStep
<1>13. CASE Close
  BY <1>13, CloseGraphs DEF GraphStep
<1>14. CASE Crash
  BY <1>14, CrashGraphs DEF GraphStep
<1> QED
  BY <1>2, <1>3, <1>4, <1>5, <1>6, <1>7, <1>8, <1>9, <1>10, <1>11, <1>12, <1>13, <1>14
     DEF CkNext, SaveStep, LoadStep

LEMMA CkGraphNext == CkGraphInv /\ [CkNext]_ckptVars => CkGraphInv'
<1> SUFFICES ASSUME CkGraphInv, [CkNext]_ckptVars PROVE CkGraphInv'
  OBVIOUS
<1>1. CkInv /\ CkInv' /\ (hazards = {} => GraphInv)
  BY CkNextInv DEF CkGraphInv
<1>2. hazards' = {} => hazards = {}
  BY <1>1, HazardStep
<1>3. hazards' = {} => GraphInv'
  BY <1>1, <1>2, GraphNext
<1> QED
  BY <1>1, <1>3 DEF CkGraphInv

(* Nothing is stored in a file without pages. *)
LEMMA CkGraphInit ==
  ASSUME CkInit
  PROVE  CkGraphInv /\ LoadedGraph = 0 /\ StoredGraph = NoGraph /\ DurableGraph = NoGraph
<1>1. Init /\ index = [entry |-> 0, nodes |-> 0, count |-> 0] /\ job = NoJob
  BY DEF CkInit, IndexOf
<1>2. NewestPages[HNSWPage] = ZeroContent /\ SyncedPages[HNSWPage] = ZeroContent
  <2>1. file = EmptyFile /\ disk = EmptyFile /\ ~Newer(HNSWPage) /\ HNSWPage \in PageIds
    BY <1>1, FirstPages DEF Init, EmptyTable, Newer, Cached
  <2>2. EmptyFile.data[HNSWPage][1] = ZeroContent
    BY <2>1, FileAssumption, CheckpointAssumption DEF EmptyFile, ZeroPage
  <2> QED BY <2>1, <2>2 DEF NewestPages, SyncedPages, Newest, Synced
<1>3. ZeroContent.kind = "zero"
  BY DEF ZeroContent, Content
<1>4. StoredGraph = NoGraph /\ DurableGraph = NoGraph
  BY <1>2, <1>3 DEF StoredGraph, DurableGraph, StoredIn
<1>5. LoadedGraph = 0 /\ IndexOK(index)
  BY <1>1 DEF LoadedGraph, Whole, IndexOf, IndexOK
<1>6. HeaderOK(NewestPages) /\ HeaderOK(SyncedPages)
  BY <1>2, <1>3 DEF HeaderOK
<1>7. JobOK
  BY <1>1 DEF JobOK, Step, NoJob
<1>8. GraphInv
  BY <1>5, <1>6, <1>7 DEF GraphInv
<1> QED
  BY <1>4, <1>5, <1>8, CkInitInv DEF CkGraphInv

-----------------------------------------------------------------------------
(* The theorem *)

LEMMA MappedInit == CkInit => Store!Init
<1> SUFFICES ASSUME CkInit PROVE Store!Init
  OBVIOUS
<1>1. LoadedGraph = 0 /\ StoredGraph = NoGraph /\ DurableGraph = NoGraph /\ TypeOK
  BY CkGraphInit DEF CkGraphInv, CkInv, CkTypeOK
<1>2. Stored(Newest) = NoGraph /\ Stored(Synced) = NoGraph
  BY <1>1, MappedNow
<1> QED
  BY <1>1, <1>2 DEF Store!Init, LoadedGraph

LEMMA MappedNext ==
  ASSUME CkGraphInv, [CkNext]_ckptVars, hazards' = {}
  PROVE  UNCHANGED Store!graphVars \/ Store!Next
<1>1. CkInv /\ CkInv' /\ (hazards = {} => GraphInv)
  BY CkNextInv DEF CkGraphInv
<1>2. hazards = {}
  BY <1>1, HazardStep
<1>3. SameGraphs \/ GraphStep
  BY <1>1, <1>2, GraphNext
<1>4. TypeOK /\ TypeOK'
  BY <1>1 DEF CkInv, CkTypeOK
<1>5. /\ Stored(Newest) = StoredGraph /\ Stored(Newest)' = StoredGraph'
      /\ Stored(Synced) = DurableGraph /\ Stored(Synced)' = DurableGraph'
  BY <1>4, MappedNow
<1>6. CASE SameGraphs
  BY <1>5, <1>6 DEF SameGraphs, Store!graphVars, LoadedGraph
<1>7. CASE GraphStep
  BY <1>5, <1>7 DEF GraphStep, LoadedGraph, Store!Next, Store!Change, Store!Save, Store!Load,
                   Store!LoadFails, Store!Sync, Store!Close, Store!Crash
<1> QED
  BY <1>3, <1>6, <1>7

(* For every number of graphs, pages and frames, whichever call of the pool fails and
   whenever the program ends or the machine stops: what Load would find changes only
   as Save copies the header, into the graph that the index is at that moment, or at
   a crash, into the graph that was saved at the last successful flush; and Load,
   when it ends, has given the index that graph or left it without its nodes
   (hnsw_io.cpp:117-129, 142-170).  Until a crash keeps a header that no flush had
   synced, or a call has met an index without its nodes. *)
THEOREM CheckpointImplementsGraphStore == CkSpec => ImplementsGraphStore
<1>1. CkInit => CkGraphInv
  BY CkGraphInit
<1>2. CkGraphInv /\ [CkNext]_ckptVars =>
        [hazards' = {} => UNCHANGED Store!graphVars \/ Store!Next]_ckptVars
  BY MappedNext
<1> QED
  BY <1>1, <1>2, CkGraphNext, MappedInit, PTL DEF CkSpec, ImplementsGraphStore
=============================================================================
