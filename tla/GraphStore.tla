----------------------------- MODULE GraphStore ------------------------------
(***************************************************************************)
(* What a checkpoint promises of the graph of an index, with no pages: the *)
(* program has a graph, saves it as a whole, loads what was saved last,    *)
(* and after a crash finds what had been saved at the last sync.           *)
(*                                                                         *)
(* A Load that stops half way leaves the program with a graph that is      *)
(* Broken; saved, it is as broken as before.                               *)
(***************************************************************************)
EXTENDS Naturals

CONSTANTS
  Graphs,          (* the graphs an index goes through: 0 is the empty one *)
  NoGraph,         (* nothing has been saved yet                           *)
  Broken           (* entry point, nodes and count are not of one graph    *)

VARIABLES
  loaded,          (* the graph in memory                                  *)
  stored,          (* the graph saved last                                 *)
  durable          (* the graph saved last when the last sync came         *)

graphVars == <<loaded, stored, durable>>

Init ==
  /\ loaded = 0
  /\ stored = NoGraph
  /\ durable = NoGraph

Change(g) ==
  /\ loaded # Broken
  /\ loaded' = g
  /\ UNCHANGED <<stored, durable>>

Save ==
  /\ stored' = loaded
  /\ UNCHANGED <<loaded, durable>>

Load ==
  /\ stored # NoGraph
  /\ loaded' = stored
  /\ UNCHANGED <<stored, durable>>

LoadFails ==
  /\ stored # NoGraph
  /\ loaded' = Broken
  /\ UNCHANGED <<stored, durable>>

Sync ==
  /\ durable' = stored
  /\ UNCHANGED <<loaded, stored>>

(* The program ends and starts again with an empty index. *)
Close ==
  /\ loaded' = 0
  /\ durable' = stored
  /\ UNCHANGED stored

Crash ==
  /\ loaded' = 0
  /\ stored' = durable
  /\ UNCHANGED durable

Next ==
  \/ \E g \in Graphs : Change(g)
  \/ Save
  \/ Load
  \/ LoadFails
  \/ Sync
  \/ Close
  \/ Crash

Spec == Init /\ [][Next]_graphVars
=============================================================================
