----------------------------- MODULE Adjacency -----------------------------
(***************************************************************************)
(* What onestl::Graph promises (onestl/graph.hpp): an undirected graph on  *)
(* the nodes 0 .. n-1, where a node may be connected to itself.  A graph   *)
(* is the function from its nodes to the nodes they are connected to.      *)
(*                                                                         *)
(* reg::Allocator is modelled on top of these operators, and BitGraph      *)
(* shows that the bit matrix and degree counters of the code are them.     *)
(***************************************************************************)
EXTENDS Integers, FiniteSets

EmptyGraph(n) == [r \in 0 .. n - 1 |-> {}]

SetEdge(G, a, b, value) ==
  LET ends(r) == (IF r = a THEN {b} ELSE {}) \cup (IF r = b THEN {a} ELSE {})
  IN  [r \in DOMAIN G |-> IF value THEN G[r] \cup ends(r) ELSE G[r] \ ends(r)]

RemoveNode(G, a) == [r \in DOMAIN G |-> IF r = a THEN {} ELSE G[r] \ {a}]

\* A connection of a node to itself counts 2.
Degree(G, r) == Cardinality(G[r]) + (IF r \in G[r] THEN 1 ELSE 0)

=============================================================================
