----------------------------- MODULE PageStore ------------------------------
(***************************************************************************)
(* What the storage layer promises, with no frames, no LRU order and no    *)
(* file: numbered pages whose content changes only when a caller writes    *)
(* them or the process stops without a flush, and whose content a          *)
(* successful flush makes durable.                                         *)
(*                                                                         *)
(* "event" is what the last step was: a call, a flush that returned OK, a  *)
(* close, or a stop.  It ties the steps of a detailed specification to the *)
(* actions here: only a stop may lose content, only a caller that starts   *)
(* to write a page ("writing") may change one.                             *)
(*                                                                         *)
(* survivors[p] are the contents that p may have after a crash.  Writing   *)
(* adds one; a flush that returns OK leaves only the current content.      *)
(* Torn is the content of a page whose write was cut short at the end of   *)
(* the file: nothing is promised of it until it is written again.          *)
(***************************************************************************)
EXTENDS Naturals

CONSTANTS PageIds, Parts, Values, ZeroPage, Torn

VARIABLES content, survivors, used, writing, event

storeVars == <<content, survivors, used, writing, event>>

Page == [1 .. Parts -> Values]

Init ==
  /\ content = [p \in PageIds |-> ZeroPage]
  /\ survivors = [p \in PageIds |-> {ZeroPage}]
  /\ used \in SUBSET PageIds
  /\ writing = {}
  /\ event = "call"

(* What an unfinished transfer can make of contents S: each part from one of
   them, or a page cut short.  A settled page cannot be torn. *)
Mixes(S) ==
  IF \E d \in S : S = {d} THEN S
  ELSE {Torn} \cup {d \in Page : \A k \in 1 .. Parts : \E e \in S \ {Torn} : d[k] = e[k]}

(* The store may write page p back at any time, in part or whole. *)
Settles(p) ==
  \/ content[p] = Torn
  \/ content'[p] = content[p] /\ survivors'[p] \subseteq Mixes(survivors[p])

(* A call that writes no page: it reads one, or fails, or ends a write. *)
Settle ==
  /\ event' = "call"
  /\ used' = used
  /\ writing' \subseteq writing
  /\ \A p \in PageIds : Settles(p)

Changes(p, d) ==
  /\ content'[p] = d
  /\ survivors'[p] \subseteq Mixes(survivors[p] \cup {d, Torn})
  /\ \A q \in PageIds \ {p} : Settles(q)

(* The holder of a page that exists starts to write it. *)
Write(p, d) ==
  /\ event' = "call"
  /\ p \in used \ writing
  /\ used' = used
  /\ writing' = writing \cup {p}
  /\ Changes(p, d)

(* A new page: an id in use is never handed out again. *)
Alloc(p, d) ==
  /\ event' = "call"
  /\ p \notin used
  /\ used' = used \cup {p}
  /\ writing' = writing
  /\ Changes(p, d)

(* Every page becomes durable as it is. *)
Hardens ==
  /\ used' = used
  /\ writing' = writing
  /\ \A p \in PageIds :
       \/ content[p] = Torn
       \/ content'[p] = content[p] /\ survivors'[p] = {content[p]}

(* A flush that reports success. *)
Sync == event' = "sync" /\ Hardens

(* An orderly restart: no page and no id is lost. *)
Close == event' = "close" /\ writing = {} /\ Hardens

(* After a crash each page has one of the contents that could survive; an id
   that is free again, because the file ends before it, has no old content. *)
Crash ==
  /\ event' = "crash"
  /\ used' \in SUBSET used
  /\ writing' = {}
  /\ \A p \in used \ used' : content'[p] = ZeroPage
  /\ \A p \in PageIds :
       \/ content[p] = Torn
       \/ /\ content'[p] \in Mixes(survivors[p])
          /\ survivors'[p] \subseteq Mixes(survivors[p])

Next ==
  \/ \E p \in PageIds, d \in Page : Write(p, d) \/ Alloc(p, d)
  \/ Settle
  \/ Sync
  \/ Close
  \/ Crash

Spec == Init /\ [][Next]_storeVars
=============================================================================
