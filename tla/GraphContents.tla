--------------------------- MODULE GraphContents ---------------------------
(***************************************************************************)
(* What the graph store promises its tools, whatever handles are open: a   *)
(* graph holds the rows that were committed to it since it was created,    *)
(* and only creating it, committing a row to it or removing it changes     *)
(* that.  Opening, reading, caching and closing are invisible.             *)
(***************************************************************************)

CONSTANTS
  Graphs,  \* the databases on disk
  Rows     \* what can be committed to a graph

VARIABLE graph  \* the existence and the durable rows of each graph

NoGraph == [exists |-> FALSE, rows |-> {}]

Init == graph = [g \in Graphs |-> NoGraph]

Create(g, rows) ==
  /\ ~ graph[g].exists
  /\ graph' = [graph EXCEPT ![g] = [exists |-> TRUE, rows |-> rows]]

Commit(g, row) ==
  /\ graph[g].exists
  /\ graph' = [graph EXCEPT ![g] = [exists |-> TRUE, rows |-> graph[g].rows \cup {row}]]

Remove(g) ==
  /\ graph[g].exists
  /\ graph' = [graph EXCEPT ![g] = NoGraph]

Next == \E g \in Graphs :
  \/ \E rows \in SUBSET Rows : Create(g, rows)
  \/ \E row \in Rows : Commit(g, row)
  \/ Remove(g)

Spec == Init /\ [][Next]_graph
=============================================================================
