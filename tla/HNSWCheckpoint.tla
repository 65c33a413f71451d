--------------------------- MODULE HNSWCheckpoint ----------------------------
(***************************************************************************)
(* The HNSW checkpoint of index/hnsw_io.cpp over the buffer pool: Save     *)
(* writes the graph to a new chain of pages and then its head to the page  *)
(* HNSW_PAGE_ID; Load reads that page and follows the chain.  Each call of *)
(* the pool is a step, any of which may fail, and between any two of which *)
(* the process or the machine may stop.                                    *)
(*                                                                         *)
(* A graph is a number: each Insert makes the next one, which takes        *)
(* PagesOf[g] pages.  Nothing in the source frees a page, so AllocPage is  *)
(* NewPage (page_manager.cpp:22).  One thread at a time calls the pool:    *)
(* two would take each other's frames (run SharedFrames).                  *)
(***************************************************************************)
EXTENDS BufferPool

CONSTANTS
  Graphs,          (* 0 is the empty graph                                *)
  PagesOf,         (* pages of a graph: 0 for the empty one               *)
  HNSWPage,        (* HNSW_PAGE_ID                                        *)
  LateFailures     (* whether reads and flushes still fail after a crash  *)
                   (* that lost pages                                     *)

MaxPages == CHOOSE n \in {PagesOf[g] : g \in Graphs} : \A g \in Graphs : PagesOf[g] <= n

(* Contents of a page.  A header has the graph of which entry_id, max_level and
   has_entry are, the length of its chain and the first page; a node page has the
   graph and which part of it, and the next page. *)
Content(kind, g, n, next) == [kind |-> kind, graph |-> g, n |-> n, next |-> next]
ZeroContent == Content("zero", 0, 0, 0)
OtherContent == Content("other", 0, 0, 0)
Header(g, n, head) == Content("header", g, n, head)
NodePage(g, part, next) == Content("nodes", g, part, next)

Contents ==
  [kind : {"zero", "other", "header", "nodes"}, graph : Graphs, n : 0 .. MaxPages,
   next : PageIds]

ASSUME CheckpointAssumption ==
  /\ IsFiniteSet(Graphs) /\ 0 \in Graphs
  /\ PagesOf \in [Graphs -> Nat]
  /\ \A g \in Graphs : PagesOf[g] = 0 <=> g = 0
  /\ HNSWPage \in PageIds /\ HNSWPage < FirstDataPage
  /\ Parts = 1 /\ Values = Contents /\ Zero = ZeroContent
  /\ \E t \in Threads : Threads = {t}
  /\ LateFailures \in BOOLEAN

VARIABLES
  index,           (* of which graph the entry point, the nodes and count_ are *)
  job,             (* the call of Save or Load under way                  *)
  hazards          (* what has happened that the checkpoint does not survive *)

ckptVars == <<frames, page_table, lru, next_page_id, held, ret, file, disk,
              index, job, hazards>>

caller == CHOOSE t \in Threads : TRUE
Framed == frames[held[caller].frame].data[1]        (* what f->data holds *)
PageWith(content) == [k \in 1 .. Parts |-> content]

Hazards == {"unordered", "undefined"}
IndexOf(g) == [entry |-> g, nodes |-> g, count |-> g]
Whole == index = IndexOf(index.entry)

(* Bound of the model: nothing is said of the program once its behaviour is undefined,
   nor once lru_ has an id twice, when the next Evict may follow a null entry. *)
Defined == "undefined" \notin hazards /\ IsInjective(lru)

NoJob == [op |-> "none", step |-> "none", entry |-> 0, graph |-> 0, part |-> 0,
          page |-> 0, fresh |-> 0, head |-> 0, read |-> << >>]
Jobs == [op : {"none", "save", "load"},
         step : {"none", "nodes", "alloc", "link", "header", "chain"},
         entry : Graphs, graph : Graphs, part : 0 .. (MaxPages + 1),
         page : PageIds, fresh : PageIds, head : PageIds, read : Seq(Contents)]

CkTypeOK ==
  /\ TypeOK
  /\ index \in [entry : Graphs, nodes : Graphs, count : Graphs]
  /\ job \in Jobs
  /\ hazards \subseteq Hazards

CkInit ==
  /\ Init
  /\ index = IndexOf(0)
  /\ job = NoJob
  /\ hazards = {}

Step(op, step) == job.op = op /\ job.step = step
At(op, step) == Step(op, step) /\ Defined

-----------------------------------------------------------------------------
(* Save, which holds the index's mu_ from its first line to its last. *)

(* Bound of the model: after a crash that lost pages, the last id is not used. *)
LastId == IF hazards = {} THEN MaxPageId ELSE MaxPageId - 1

(* The header's fields from the index (hdr). *)
SaveBegin ==
  /\ job = NoJob /\ Defined
  /\ next_page_id + PagesOf[index.nodes] <= LastId + 1           (* bound *)
  /\ job' = [NoJob EXCEPT !.op = "save", !.step = "nodes", !.entry = index.entry]
  /\ UNCHANGED <<vars, index, hazards>>

(* The step after a page of the chain: the next page, or the header. *)
AfterPart(j, pid) ==
  [j EXCEPT !.page = pid, !.part = @ + 1,
            !.step = IF j.part < PagesOf[j.graph] THEN "alloc" ELSE "header"]

(* The nodes are serialized; an empty graph has no chain. *)
SaveNodes ==
  /\ At("save", "nodes")
  /\ job' = AfterPart([job EXCEPT !.graph = index.nodes], 0)
  /\ UNCHANGED <<vars, index, hazards>>

HeadIsNextId(j, pid) ==                                               (* mutant *)
  IF j.part = 1 THEN AfterPart([j EXCEPT !.head = pid + 1], pid)
  ELSE [j EXCEPT !.step = "link", !.fresh = pid]

(* The first page is the head; each other one is linked from the one before. *)
Chained(j, pid) ==
  IF j.part = 1 THEN AfterPart([j EXCEPT !.head = pid], pid)
  ELSE [j EXCEPT !.step = "link", !.fresh = pid]

(* AllocPage with the part's bytes.  The page is dirty already, so that the call
   of MarkDirty behind it changes nothing. *)
SaveAlloc ==
  /\ At("save", "alloc")
  /\ \/ /\ NewPage(caller, PageWith(NodePage(job.graph, job.part, 0)))
        /\ job' = Chained(job, next_page_id)
     \/ /\ NewPageNoRoom(caller)
        /\ job' = NoJob
  /\ UNCHANGED <<index, hazards>>

(* The page that Save asks for: the one before in the chain, then the header. *)
Wanted == IF job.step = "link" THEN job.page ELSE HNSWPage

Saving == job.op = "save" /\ job.step \in {"link", "header"} /\ Defined

FailuresGoOn == hazards = {} \/ LateFailures

(* Bound of the model: one read fails between two restarts, since each failed read
   costs the pool a frame. *)
ReadMayFail ==
  /\ FailuresGoOn
  /\ \A f \in Frames : frames[f].page_id # NoPage => page_table[frames[f].page_id] = f

Gets(p) == GetPageHit(caller, p) \/ GetPageMiss(caller, p)
FailsToGet(p) ==
  \/ ReadMayFail /\ GetPageReadFails(caller, p)
  \/ GetPageNoRoom(caller, p)

SaveGet ==
  /\ Saving
  /\ Gets(Wanted)
  /\ UNCHANGED <<index, job, hazards>>

SaveGetFails ==
  /\ Saving
  /\ FailsToGet(Wanted)
  /\ job' = NoJob
  /\ UNCHANGED <<index, hazards>>

(* memcpy of the link to the end of the page before, or of the whole header. *)
SaveWrite ==
  /\ Saving
  /\ WriteFrame(caller, PageWith(
       IF job.step = "link" THEN [Framed EXCEPT !.next = job.fresh]
       ELSE Header(job.entry, PagesOf[job.graph], job.head)))
  /\ UNCHANGED <<index, job, hazards>>

(* What MarkDirty returns is not looked at. *)
SaveMarkDirty ==
  /\ Saving
  /\ MarkDirty(caller)
  /\ job' = IF job.step = "link" THEN AfterPart(job, job.fresh) ELSE NoJob
  /\ UNCHANGED <<index, hazards>>

-----------------------------------------------------------------------------
(* Load *)

LoadGetHeader ==
  /\ job = NoJob /\ Defined
  /\ Gets(HNSWPage)
  /\ job' = [NoJob EXCEPT !.op = "load", !.step = "header"]
  /\ UNCHANGED <<index, hazards>>

LoadGetHeaderFails ==
  /\ job = NoJob /\ Defined
  /\ FailsToGet(HNSWPage)
  /\ UNCHANGED <<index, job, hazards>>

(* VV_ERR_CORRUPT: the page has no magic number. *)
LoadNothing ==
  /\ At("load", "header")
  /\ Framed.kind # "header"
  /\ Release(caller)
  /\ job' = NoJob
  /\ UNCHANGED <<index, hazards>>

(* The entry point is set and the nodes are cleared; with an empty chain, Load
   is done. *)
LoadHeader ==
  /\ At("load", "header")
  /\ Framed.kind = "header"
  /\ Release(caller)
  /\ index' = [entry |-> Framed.graph, nodes |-> 0,
               count |-> IF Framed.n = 0 THEN 0 ELSE index.count]
  /\ job' = IF Framed.n = 0 THEN NoJob
            ELSE [NoJob EXCEPT !.op = "load", !.step = "chain",
                               !.part = Framed.n, !.page = Framed.next]
  /\ UNCHANGED hazards

LoadGet ==
  /\ At("load", "chain")
  /\ Gets(job.page)
  /\ UNCHANGED <<index, job, hazards>>

(* The index stays without its nodes. *)
LoadGetFails ==
  /\ At("load", "chain")
  /\ FailsToGet(job.page)
  /\ job' = NoJob
  /\ UNCHANGED <<index, hazards>>

NeverDone(j) == FALSE                                                 (* mutant *)
LastPart(j) == j.part = 1

SkipsForeign(j, content) ==                                           (* mutant *)
  IF content.kind # "nodes" THEN [j EXCEPT !.page = content.next]
  ELSE [j EXCEPT !.part = @ - 1, !.page = content.next, !.read = Append(@, content)]

(* ReadChain takes the page's bytes and, if some remain, goes on. *)
PartRead(j, content) ==
  [j EXCEPT !.part = @ - 1, !.page = content.next, !.read = Append(@, content)]

LoadPart ==
  /\ At("load", "chain")
  /\ ~LastPart(job)
  /\ Release(caller)
  /\ job' = PartRead(job, Framed)
  /\ UNCHANGED <<index, hazards>>

(* Graph g, part by part. *)
Serialized(parts, g) ==
  /\ Len(parts) = PagesOf[g]
  /\ \A i \in DOMAIN parts : parts[i].kind = "nodes" /\ parts[i].graph = g /\ parts[i].n = i

IsGraph(parts) == \E g \in Graphs : Serialized(parts, g)

(* The nodes are those of the graph that was saved.  Bytes that are no graph, as
   those of a page that a crash has lost, make nodes that take no more pages. *)
Deserialized(parts) ==
  {g \in Graphs : PagesOf[g] <= Len(parts) /\ (IsGraph(parts) => Serialized(parts, g))}

LoadNodes ==
  /\ At("load", "chain")
  /\ LastPart(job)
  /\ Release(caller)
  /\ \E g \in Deserialized(Append(job.read, Framed)) :
       index' = [entry |-> index.entry, nodes |-> g, count |-> g]
  /\ job' = NoJob
  /\ UNCHANGED hazards

(* Or the lengths in them, which are not checked against the buffer
   (hnsw_io.cpp:184-193), lead beyond it. *)
LoadUndefined ==
  /\ At("load", "chain")
  /\ LastPart(job)
  /\ held[caller] # Idle
  /\ ~IsGraph(Append(job.read, Framed))
  /\ hazards' = hazards \cup {"undefined"}
  /\ UNCHANGED <<vars, index, job>>

-----------------------------------------------------------------------------
(* The index and the other users of the pool *)

InsertsAnyTime == TRUE                                                (* mutant *)

(* mu_ is free: Save has it, Load does not take it. *)
LockFree == job.op # "save"

Insert ==
  /\ LockFree /\ Defined
  /\ job.op # "load" /\ Whole
  /\ index.nodes + 1 \in Graphs
  /\ index' = IndexOf(index.nodes + 1)
  /\ UNCHANGED <<vars, job, hazards>>

(* While Load is changing the index, or when entry_id_ is not in nodes_: the
   search for the new node's neighbors takes nodes_[entry_id_], without a vector. *)
InsertUndefined ==
  /\ LockFree /\ Defined
  /\ job.op = "load" \/ ~Whole
  /\ hazards' = hazards \cup {"undefined"}
  /\ UNCHANGED <<vars, index, job>>

(* Another component allocates a page: the first of the file, or one with the id of
   a chain that a crash has lost. *)
OtherPage ==
  /\ job = NoJob /\ Defined
  /\ next_page_id = FirstDataPage                (* bound of the model *)
  /\ NewPage(caller, PageWith(OtherContent))
  /\ UNCHANGED <<index, job, hazards>>

Flush ==
  /\ job = NoJob /\ Defined
  /\ \/ FlushOK(caller)
     \/ FailuresGoOn /\ (FlushWriteFails(caller) \/ FlushSyncFails(caller))
  /\ UNCHANGED <<index, job, hazards>>

(* The program starts with an empty index. *)
Restarted ==
  /\ index' = IndexOf(0)
  /\ job' = NoJob

Close ==
  /\ job = NoJob /\ Defined
  /\ CloseAndOpen
  /\ Restarted
  /\ UNCHANGED hazards

(* A crash that leaves a header page newer than the last sync may have lost pages
   of its chain: a later Load then asks the pool for ids that are free again. *)
Crash ==
  /\ Defined
  /\ KillAndOpen \/ PowerLossAndOpen
  /\ Restarted
  /\ hazards' = IF file'.data[HNSWPage] = disk.data[HNSWPage] THEN hazards
                ELSE hazards \cup {"unordered"}

SaveStep ==
  \/ SaveNodes
  \/ SaveAlloc
  \/ SaveGet
  \/ SaveGetFails
  \/ SaveWrite
  \/ SaveMarkDirty

LoadStep ==
  \/ LoadNothing
  \/ LoadHeader
  \/ LoadGet
  \/ LoadGetFails
  \/ LoadPart
  \/ LoadNodes
  \/ LoadUndefined

CkNext ==
  \/ SaveBegin
  \/ SaveStep
  \/ LoadGetHeader
  \/ LoadGetHeaderFails
  \/ LoadStep
  \/ Insert
  \/ InsertUndefined
  \/ OtherPage
  \/ Flush
  \/ Close
  \/ Crash

(* A thread that is in Save or Load goes on: no lock that either waits for is held
   by a call that waits for anything. *)
Fairness == WF_ckptVars(SaveStep \/ LoadStep)

CkSpec == CkInit /\ [][CkNext]_ckptVars /\ Fairness
=============================================================================
