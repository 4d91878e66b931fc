------------------------------ MODULE BitGraph ------------------------------
(***************************************************************************)
(* onestl::Graph (onestl/graph.cpp): a matrix of bits, kept in both        *)
(* directions, and one degree counter per node, on top of onestl::BitSet   *)
(* (onestl/bitset.cpp), which works on words of W bits.                    *)
(*                                                                         *)
(* A BitSet is the set of the positions that are set in its memory, its    *)
(* size and its capacity, a multiple of W.  Bits between size and capacity *)
(* may be stale.                                                           *)
(***************************************************************************)
EXTENDS Adjacency, FiniteSetsExt

CONSTANTS
  Ids,       \* the graphs of a client, such as g_ and g2_ of reg::Allocator
  Edited,    \* those the client changes edge by edge; others are copies of them
  MaxNodes,  \* bound on the size of a graph
  W,         \* bitsPerT
  SizeMod    \* Size wraps around at SizeMod: 2^32

ASSUME SizeAssumption ==
  /\ Edited \subseteq Ids
  /\ MaxNodes \in Nat
  /\ W \in Nat \ {0}
  /\ SizeMod \in Nat /\ MaxNodes < SizeMod

NoPos == -1

VARIABLES
  gs,    \* the Graph that has each id
  call   \* the last call and, for reset() and dup(), its result

vars == <<gs, call>>
GraphState == gs  \* actions do not read call

-----------------------------------------------------------------------------
(* BitSet.                                                                 *)

NextWord(i) == W * (i \div W) + W

RoundUp(n) == W * ((n + W - 1) \div W)

Low(a, b) == IF a < b THEN a ELSE b

NewBits(n) == [data |-> {}, size |-> n, cap |-> RoundUp(n)]

\* BitSet::operator[]
Bit(bits, i) == i < bits.size /\ i \in bits.data

\* BitSet::set()
SetBit(bits, i, value) ==
  IF i >= bits.size THEN bits
  ELSE [bits EXCEPT !.data = IF value THEN @ \cup {i} ELSE @ \ {i}]

\* Mutant: gives up after the first word.
Find_FirstWord(bits, value, start, end) ==
  LET last  == Low(Low(end, bits.size), NextWord(start))
      found == {i \in start .. last - 1 : (i \in bits.data) = value}
  IN  IF found = {} THEN NoPos ELSE Min(found)

\* BitSet::find().  The first word is shifted right, which brings zeros in at
\* its top: searching for value FALSE takes them for bits of the next word.
Find(bits, value, start, end) ==
  LET last    == Low(end, bits.size)
      shifted == IF value THEN {} ELSE NextWord(start) .. NextWord(start) + (start % W) - 1
      found   == {i \in start .. bits.cap - 1 : (i \in bits.data) = value} \cup shifted
  IN  IF start < last /\ found # {} /\ Min(found) < last THEN Min(found) ELSE NoPos

\* The first position that has the value, by definition.
FirstIn(bits, value, start, end) ==
  LET found == {i \in start .. Low(end, bits.size) - 1 : Bit(bits, i) = value}
  IN  IF found = {} THEN NoPos ELSE Min(found)

\* The positions that BitSet::fill() writes: a fragment of one word, or an
\* unaligned head, whole words, and an unaligned tail.
FillRange(start, end) ==
  LET aligned == IF start % W = 0 THEN start ELSE NextWord(start)
      head == start .. aligned - 1
      bulk == aligned .. W * (end \div W) - 1
      tail == W * (end \div W) .. end - 1
  IN  IF start \div W = end \div W THEN start .. end - 1 ELSE head \cup bulk \cup tail

Fill(bits, value, start, end) ==
  LET range == IF start < end THEN FillRange(start, end) ELSE {}
  IN  [bits EXCEPT !.data = IF value THEN @ \cup range ELSE @ \ range]

\* BitSet::resize(): new memory is zero, memory in use before is cleared.
Resize(bits, n) ==
  LET doubled == IF bits.cap >= W THEN 2 * bits.cap ELSE W
      cap     == IF n > bits.cap THEN RoundUp(IF n >= doubled THEN n ELSE doubled)
                                 ELSE bits.cap
  IN  IF n <= bits.size THEN [bits EXCEPT !.size = n]
      ELSE Fill([bits EXCEPT !.size = n, !.cap = cap], FALSE, bits.size, Low(n, bits.cap))

-----------------------------------------------------------------------------
(* Graph.                                                                  *)

ZeroDegrees(n) == [a \in 0 .. n - 1 |-> 0]

NewGraph(n) == [n |-> n, bits |-> NewBits(n * n), degree |-> ZeroDegrees(n)]

\* Graph::operator(): the offset is computed in Size.
Connected(gr, a, b) ==
  LET hi == IF a < b THEN b ELSE a
      lo == IF a < b THEN a ELSE b
  IN  hi < gr.n /\ Bit(gr.bits, (hi + lo * gr.n) % SizeMod)

\* Mutant: counts a connection of a node to itself once.
Put_SelfOnce(gr, a, b, value) ==
  LET delta == (IF value THEN 1 ELSE 0) - (IF Bit(gr.bits, a + b * gr.n) THEN 1 ELSE 0)
  IN  [gr EXCEPT !.degree = [c \in DOMAIN @ |-> IF c \in {a, b} THEN @[c] + delta ELSE @[c]],
                 !.bits = SetBit(SetBit(@, a + b * gr.n, value), b + a * gr.n, value)]

\* Graph::set(): both counters change, even if a = b.
Put(gr, a, b, value) ==
  LET hi == IF a < b THEN b ELSE a
      lo == IF a < b THEN a ELSE b
      offset == hi + lo * gr.n
      delta  == (IF value THEN 1 ELSE 0) - (IF Bit(gr.bits, offset) THEN 1 ELSE 0)
      bits   == SetBit(gr.bits, offset, value)
  IN  IF hi >= gr.n \/ delta = 0 THEN gr
      ELSE [gr EXCEPT !.degree[hi] = @ + delta, !.degree[lo] = @ + delta,
                      !.bits = IF a # b THEN SetBit(bits, lo + hi * gr.n, value) ELSE bits]

\* Graph::first_set()
FirstSet(gr, node, first) ==
  LET row == node * gr.n
      offset == Find(gr.bits, TRUE, row + first, row + gr.n)
  IN  IF first >= gr.n \/ node >= gr.n \/ gr.degree[node] = 0 \/ offset = NoPos THEN NoPos
      ELSE offset - row

\* Graph::remove() goes from one neighbour to the next, at most deg times.
RemoveOne(acc, node, other) ==
  IF acc.deg > 0 /\ FirstSet(acc.gr, node, other) = other
  THEN [gr |-> Put(acc.gr, node, other, FALSE), deg |-> acc.deg - 1] ELSE acc

\* What it has done when it has passed the nodes before each node.
Removal(gr, node, deg) ==
  LET after[i \in 0 .. gr.n] ==
        IF i = 0 THEN [gr |-> gr, deg |-> deg] ELSE RemoveOne(after[i - 1], node, i - 1)
  IN  after

\* Mutant: stops one neighbour early.
Removed_OneLess(gr, node) ==
  IF node >= gr.n THEN gr ELSE Removal(gr, node, gr.degree[node] - 1)[gr.n].gr

\* Graph::remove()
Removed(gr, node) ==
  IF node >= gr.n THEN gr ELSE Removal(gr, node, gr.degree[node])[gr.n].gr

\* Graph::reset()
Emptied(gr, n) ==
  [n |-> n, bits |-> Fill(Resize(gr.bits, n * n), FALSE, 0, n * n), degree |-> ZeroDegrees(n)]

\* Graph::dup(): BitSet::copy() copies whole words.
Copied(gr, other) ==
  LET new   == Emptied(gr, other.n)
      words == 0 .. RoundUp(new.bits.size) - 1
  IN  [new EXCEPT !.bits.data = (@ \ words) \cup (other.bits.data \cap words),
                  !.degree = other.degree]

-----------------------------------------------------------------------------

Init ==
  /\ \E n \in [Ids -> 0 .. MaxNodes] : gs = [id \in Ids |-> NewGraph(n[id])]
  /\ call = <<"none">>

\* Reallocation may fail: reset() restores the old number of nodes then.
Enough(gr, n) == n * n <= gr.bits.cap

Reset(id, n) ==
  \E ok \in {TRUE, Enough(gs[id], n)} :
    /\ gs' = [gs EXCEPT ![id] = IF ok THEN Emptied(@, n) ELSE @]
    /\ call' = <<"reset", id, n, ok>>

Set(id, a, b, value) ==
  /\ gs' = [gs EXCEPT ![id] = Put(@, a, b, value)]
  /\ call' = <<"set", id, a, b, value>>

RemoveAll(id, node) ==
  /\ gs' = [gs EXCEPT ![id] = Removed(@, node)]
  /\ call' = <<"remove", id, node>>

Dup(id, other) ==
  \E ok \in {TRUE, Enough(gs[id], gs[other].n)} :
    /\ gs' = [gs EXCEPT ![id] = IF ok THEN Copied(@, gs[other]) ELSE @]
    /\ call' = <<"dup", id, other, ok>>

\* A node of the largest graph is out of bounds in smaller ones.
AnyNode == 0 .. MaxNodes - 1

Next ==
  \/ \E id \in Ids, n \in 0 .. MaxNodes : Reset(id, n)
  \/ \E id \in Ids \ Edited, other \in Edited : Dup(id, other)
  \/ \E id \in Edited, node \in AnyNode : RemoveAll(id, node)
  \/ \E id \in Edited, a, b \in AnyNode, value \in BOOLEAN : Set(id, a, b, value)

Spec == Init /\ [][Next]_vars

-----------------------------------------------------------------------------
(* Properties                                                              *)

Bits == [data : SUBSET Nat, size : Nat, cap : Nat]
Degrees(n) == [0 .. n - 1 -> 0 .. n + 1]

TypeOK ==
  /\ gs \in [Ids -> [n : 0 .. MaxNodes, bits : Bits, degree : UNION {Degrees(n) : n \in 0 .. MaxNodes}]]
  /\ \A id \in Ids :
       LET gr == gs[id]
       IN  /\ gr.degree \in Degrees(gr.n)
           /\ gr.bits.size = gr.n * gr.n
           /\ gr.bits.cap % W = 0 /\ gr.bits.size <= gr.bits.cap
           /\ gr.bits.data \subseteq 0 .. gr.bits.cap - 1

\* The graph that a bit matrix stands for.
AdjacencyOf(gr) ==
  [a \in 0 .. gr.n - 1 |-> {b \in 0 .. gr.n - 1 : Bit(gr.bits, b + a * gr.n)}]

Promise == INSTANCE GraphSpec WITH graphs <- [id \in Ids |-> AdjacencyOf(gs[id])]

\* The two redundant forms agree: every edge is in the matrix in both directions,
\* and the counters, which reg::Allocator colours by, count the edges.
CountersAgree ==
  \A id \in Ids :
    LET adj == AdjacencyOf(gs[id])
    IN  \A a \in DOMAIN adj : /\ \A b \in adj[a] : a \in adj[b]
                              /\ gs[id].degree[a] = Degree(adj, a)

\* operator() and first_set() answer for every pair of nodes, also out of bounds,
\* what the matrix says, over any stale bits and word boundaries.
LookupsAgree ==
  \A id \in Ids :
    LET adj == AdjacencyOf(gs[id])
    IN  \A a, b \in AnyNode :
          /\ Connected(gs[id], a, b) <=> a \in DOMAIN adj /\ b \in adj[a]
          /\ FirstSet(gs[id], a, b) =
               LET next == {c \in b .. MaxNodes : a \in DOMAIN adj /\ c \in adj[a]}
               IN  IF next = {} THEN NoPos ELSE Min(next)

\* Every call does to the graph what graph.hpp says, failed allocations included:
\* no edge is lost, left over from an earlier graph or made up.
ImplementsGraph == Promise!Spec

\* Not an invariant: bitset.hpp says of find() "@return index of first bit == value
\* between 'start' and 'end'-1", which is not so for value == false and a start
\* within a word.  No caller looks for false.
FindIsFirst ==
  \A id \in Ids : \A value \in BOOLEAN, start, end \in 0 .. gs[id].bits.size :
    Find(gs[id].bits, value, start, end) = FirstIn(gs[id].bits, value, start, end)

=============================================================================
