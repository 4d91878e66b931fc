----------------------------- MODULE GraphSpec -----------------------------
(***************************************************************************)
(* The interface of onestl::Graph over a few graphs, as the comments of    *)
(* onestl/graph.hpp give it: resize and remove all edges, add or remove an *)
(* edge, remove a node and all its edges, copy a graph.                    *)
(***************************************************************************)
EXTENDS Adjacency

CONSTANTS Ids, MaxNodes

VARIABLES
  graphs,  \* the graph that has each id
  call     \* the last call and, for reset() and dup(), its result

Init ==
  /\ \E n \in [Ids -> 0 .. MaxNodes] : graphs = [id \in Ids |-> EmptyGraph(n[id])]
  /\ call = <<"none">>

Becomes(id, G) == graphs' = [graphs EXCEPT ![id] = G]

Reset(id, n) ==
  \/ call' = <<"reset", id, n, TRUE>> /\ Becomes(id, EmptyGraph(n))
  \/ call' = <<"reset", id, n, FALSE>> /\ UNCHANGED graphs

\* "does nothing if a or b are out of bounds"
Set(id, a, b, value) ==
  /\ call' = <<"set", id, a, b, value>>
  /\ IF {a, b} \subseteq DOMAIN graphs[id] THEN Becomes(id, SetEdge(graphs[id], a, b, value))
                                         ELSE UNCHANGED graphs

RemoveAll(id, node) ==
  /\ call' = <<"remove", id, node>>
  /\ Becomes(id, RemoveNode(graphs[id], node))

Dup(id, other) ==
  \/ call' = <<"dup", id, other, TRUE>> /\ Becomes(id, graphs[other])
  \/ call' = <<"dup", id, other, FALSE>> /\ UNCHANGED graphs

Next ==
  \E id \in Ids :
    \/ \E n \in 0 .. MaxNodes : Reset(id, n)
    \/ \E a, b \in 0 .. MaxNodes, value \in BOOLEAN : Set(id, a, b, value)
    \/ \E node \in 0 .. MaxNodes : RemoveAll(id, node)
    \/ \E other \in Ids : Dup(id, other)

Spec == Init /\ [][Next]_<<graphs, call>>
=============================================================================
