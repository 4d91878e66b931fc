----------------------------- MODULE FlowGraph -----------------------------
(***************************************************************************)
(* onejit::FlowGraph (onejit/flowgraph.cpp), the control-flow graph of     *)
(* compiled code.  build() splits the nodes into basic blocks, counts the  *)
(* links it will need, allocates them all in one array links_, and then    *)
(* hands out consecutive spans of that array as the next() and prev() of   *)
(* the blocks.  links_ starts with a table from labels to blocks.          *)
(*                                                                         *)
(* build() is modelled with one action for each iteration of its loops     *)
(* over blocks; a FlowGraph is built again and again, each time for other  *)
(* nodes.  Writes beyond the end of links_ are silently dropped and spans  *)
(* beyond it are empty, as in onestl/span.hpp.                            *)
(*                                                                         *)
(* A node is a record with a kind:                                         *)
(*   label l | goto l | cond l | return | other                            *)
(*   unlisted l   a conditional jump that is_cond_jump() does not list,    *)
(*                ASM_JLE or X86_JLE                                       *)
(***************************************************************************)
EXTENDS Integers, Sequences, FiniteSets

CONSTANT Codes      \* what build() is called with: sequences of nodes

Node == [kind : {"label", "goto", "cond", "unlisted", "return", "other"}, l : Nat]

\* Func::new_label() makes labels that differ, and a label is placed once.
ASSUME CodesAssumption ==
  \A code \in Codes :
    /\ code \in Seq(Node)
    /\ \A p, q \in DOMAIN code :
         code[p].kind = "label" /\ code[q].kind = "label" /\ code[p].l = code[q].l => p = q

NoBlock == 0        \* a null BasicBlock *; blocks are numbered from 1

VARIABLES
  phase,        \* which loop of build() runs, or how the last call ended
  nodes,        \* the nodes that basicblocks_ refers to
  basicblocks,  \* sequence of [first, last, next, prev]
  links,        \* function from indices to blocks
  label_n,      \* one more than the largest label
  jumps,        \* upper bound of the number of links between blocks
  k,            \* the current block
  link_start    \* where its span of links starts

vars == <<phase, nodes, basicblocks, links, label_n, jumps, k, link_start>>

Idle == {"built", "failed"}

-----------------------------------------------------------------------------
(* Nodes.                                                                  *)

IsLabel(node) == node.kind = "label"
IsUncondJump(node) == node.kind \in {"goto", "return"}
IsCondJump(node) == node.kind = "cond"
JumpsToLabel(node) == node.kind \in {"goto", "cond"}

Smallest(S) == CHOOSE x \in S : \A y \in S : x <= y
Largest(S) == CHOOSE x \in S : \A y \in S : x >= y

N == Len(nodes)

-----------------------------------------------------------------------------
(* links_ and its spans [lo, hi).                                          *)

EmptySpan == [lo |-> 0, hi |-> 0]
Indices(span) == span.lo .. (span.hi - 1)
Links(size) == [index \in 0 .. (size - 1) |-> NoBlock]

Put(ls, index, block) == [x \in DOMAIN ls |-> IF x = index THEN block ELSE ls[x]]
Span(lo, hi) == IF lo < hi /\ hi - 1 \in DOMAIN links THEN [lo |-> lo, hi |-> hi] ELSE EmptySpan

Next_(b) == {links[x] : x \in Indices(basicblocks[b].next)}
Prev_(b) == {links[x] : x \in Indices(basicblocks[b].prev)}

-----------------------------------------------------------------------------
Init ==
  /\ phase = "built"
  /\ nodes = << >>
  /\ basicblocks = << >>
  /\ links = Links(0)
  /\ label_n = 0
  /\ jumps = 0
  /\ k = 1
  /\ link_start = 0

\* The call of build(): forget the previous graph.
Build(code) ==
  /\ phase \in Idle
  /\ nodes' = code
  /\ phase' = IF code = << >> THEN "built" ELSE "blocks"
  /\ basicblocks' = << >>
  /\ links' = Links(0)
  /\ label_n' = 0
  /\ jumps' = 0
  /\ k' = 1
  /\ link_start' = 0

-----------------------------------------------------------------------------
(* build_basicblocks()                                                     *)

\* Where the next block starts.
Start == IF basicblocks = << >> THEN 1 ELSE basicblocks[Len(basicblocks)].last + 1

\* Mutant: a label ends a block only after a jump.
LastNode_IgnoresLabels(first) ==
  Smallest({p \in first .. N : p = N \/ IsUncondJump(nodes[p]) \/ IsCondJump(nodes[p])})

\* A block is some labels, then the nodes up to a jump or another label.
LastNode(first) ==
  Smallest({p \in first .. N :
              \/ p = N
              \/ IsUncondJump(nodes[p])
              \/ IsCondJump(nodes[p])
              \/ ~IsLabel(nodes[p]) /\ IsLabel(nodes[p + 1])})

\* Mutant: a conditional jump counts once.
JumpsFrom_CondOnce(p) ==
  IF IsUncondJump(nodes[p]) \/ IsCondJump(nodes[p]) \/ p < N THEN 1 ELSE 0

\* How many links a block that ends at p needs.
JumpsFrom(p) ==
  IF IsUncondJump(nodes[p]) THEN 1
  ELSE IF IsCondJump(nodes[p]) THEN IF p = N THEN 1 ELSE 2
  ELSE IF p < N THEN 1 ELSE 0

AddBlock ==
  /\ phase = "blocks"
  /\ Start <= N
  /\ LET last == LastNode(Start)
     IN  /\ basicblocks' = Append(basicblocks, [first |-> Start, last |-> last,
                                                next |-> EmptySpan, prev |-> EmptySpan])
         /\ jumps' = jumps + JumpsFrom(last)
  /\ UNCHANGED <<phase, nodes, links, label_n, k, link_start>>

Labels == {nodes[p].l : p \in {q \in DOMAIN nodes : IsLabel(nodes[q])}}

\* Mutant: as many entries as the largest label.
LabelCount_OffByOne == Largest(Labels \cup {0})

LabelCount == 1 + Largest(Labels \cup {0})

EndBlocks ==
  /\ phase = "blocks"
  /\ Start > N
  /\ phase' = "labels"
  /\ label_n' = LabelCount
  /\ links' = Links(LabelCount + 2 * jumps)
  /\ UNCHANGED <<nodes, basicblocks, jumps, k, link_start>>

-----------------------------------------------------------------------------
(* resolve_labels(): the labels that start block k.                        *)

LeadingLabels(b) ==
  {nodes[p].l : p \in {q \in basicblocks[b].first .. basicblocks[b].last :
                         \A r \in basicblocks[b].first .. q : IsLabel(nodes[r])}}

\* The next iteration of a loop over the blocks, or the loop that follows.
Advance(next_phase) ==
  IF k < Len(basicblocks) THEN k' = k + 1 /\ UNCHANGED phase
                          ELSE k' = 1 /\ phase' = next_phase

ResolveLabels ==
  /\ phase = "labels"
  /\ links' = [x \in DOMAIN links |-> IF x \in LeadingLabels(k) THEN k ELSE links[x]]
  /\ Advance("next")
  /\ link_start' = label_n
  /\ UNCHANGED <<nodes, basicblocks, label_n, jumps>>

-----------------------------------------------------------------------------
(* resolve_next()                                                          *)

LastOf(b) == nodes[basicblocks[b].last]

\* Mutant: only a conditional jump falls through.
Falls_CondOnly(b) == IsCondJump(LastOf(b)) /\ b < Len(basicblocks)

\* Block b may continue with the block after it.
Falls(b) == ~IsUncondJump(LastOf(b)) /\ b < Len(basicblocks)

Found(l) == l < label_n /\ links[l] # NoBlock

ResolveNext ==
  /\ phase = "next"
  /\ JumpsToLabel(LastOf(k)) => Found(LastOf(k).l)
  /\ LET ls  == IF Falls(k) THEN Put(links, link_start, k + 1) ELSE links
         mid == IF Falls(k) THEN link_start + 1 ELSE link_start
         end == IF JumpsToLabel(LastOf(k)) THEN mid + 1 ELSE mid
     IN  /\ links' = IF JumpsToLabel(LastOf(k)) THEN Put(ls, mid, ls[LastOf(k).l]) ELSE ls
         /\ basicblocks' = [basicblocks EXCEPT ![k].next = Span(link_start, end)]
         /\ link_start' = end
  /\ Advance("prev")
  /\ UNCHANGED <<nodes, label_n, jumps>>

\* "invalid label" or "label not found"
NextFails ==
  /\ phase = "next"
  /\ JumpsToLabel(LastOf(k))
  /\ ~Found(LastOf(k).l)
  /\ phase' = "failed"
  /\ UNCHANGED <<nodes, basicblocks, links, label_n, jumps, k, link_start>>

-----------------------------------------------------------------------------
(* resolve_prev()                                                          *)

PrevSpan(n) == Span(link_start, link_start + n)

ResolvePrev ==
  /\ phase = "prev"
  /\ LET froms   == {from \in DOMAIN basicblocks : k \in Next_(from)}
         n       == Cardinality(froms)
         index(from) == link_start + Cardinality({f \in froms : f < from})
     IN  /\ links' = [x \in DOMAIN links |->
                        IF \E from \in froms : index(from) = x
                        THEN CHOOSE from \in froms : index(from) = x
                        ELSE links[x]]
         /\ basicblocks' = [basicblocks EXCEPT ![k].prev = PrevSpan(n)]
         /\ link_start' = link_start + n
  /\ Advance("built")
  /\ UNCHANGED <<nodes, label_n, jumps>>

-----------------------------------------------------------------------------
Step == AddBlock \/ EndBlocks \/ ResolveLabels \/ ResolveNext \/ NextFails \/ ResolvePrev

Next == Step \/ \E code \in Codes : Build(code)

Spec == Init /\ [][Next]_vars

\* build() keeps running until it returns.
FairSpec == Spec /\ WF_vars(Step)

-----------------------------------------------------------------------------
(* Properties                                                              *)

Spans == [lo : Nat, hi : Nat]
BasicBlock == [first : Nat, last : Nat, next : Spans, prev : Spans]

TypeOK ==
  /\ phase \in Idle \cup {"blocks", "labels", "next", "prev"}
  /\ nodes \in Codes \cup {<< >>}
  /\ basicblocks \in Seq(BasicBlock)
  /\ label_n \in Nat /\ jumps \in Nat /\ link_start \in Nat
  /\ links \in [0 .. (IF phase = "blocks" THEN 0 ELSE label_n + 2 * jumps) - 1
                  -> DOMAIN basicblocks \cup {NoBlock}]
  /\ k \in Nat \ {0}
  /\ phase = "blocks" => k = 1
  /\ phase \in {"labels", "next", "prev"} => k <= Len(basicblocks)

\* The blocks cut the nodes into consecutive pieces that are entered only at
\* their labels, all at the start, and left only at their last node.
BlocksPartition ==
  /\ \A b \in DOMAIN basicblocks :
       LET bb == basicblocks[b]
       IN  /\ bb.first = (IF b = 1 THEN 1 ELSE basicblocks[b - 1].last + 1)
           /\ bb.first <= bb.last
           /\ \A p \in bb.first .. (bb.last - 1) :
                /\ ~IsUncondJump(nodes[p]) /\ ~IsCondJump(nodes[p])
                /\ IsLabel(nodes[p + 1]) => IsLabel(nodes[p])
  /\ phase # "blocks" /\ nodes # << >> => basicblocks[Len(basicblocks)].last = N

\* The links counted while making blocks are enough for those made while
\* resolving jumps: the write of a link is never dropped.
LinksFit == phase \in {"next", "prev", "built"} => link_start <= Cardinality(DOMAIN links)

\* Execution goes from node p to node q.
Goes(p, q) ==
  \/ q = p + 1 /\ ~IsUncondJump(nodes[p])
  \/ nodes[p].kind \in {"goto", "cond", "unlisted"} /\ IsLabel(nodes[q]) /\ nodes[q].l = nodes[p].l

\* Node p is in block b.
In(p, b) == p \in basicblocks[b].first .. basicblocks[b].last

\* "for every jump in basicblocks_, find the basicblocks it may jump to": when
\* the graph is built, execution goes from one node to another exactly if they
\* follow each other in a block or the graph has that edge; the two directions of
\* the graph, which are stored apart, agree.
EdgesAreJumps ==
  phase = "built" => \A b, c \in DOMAIN basicblocks :
    /\ c \in Next_(b) <=> \E p, q \in DOMAIN nodes :
         In(p, b) /\ In(q, c) /\ Goes(p, q) /\ (b = c => q # p + 1)
    /\ c \in Next_(b) <=> b \in Prev_(c)

\* build() fails exactly on a jump to a label that is not in the code.
FailsOnMissingLabel ==
  phase \in Idle /\ nodes # << >> =>
    (phase = "failed" <=> \E p \in DOMAIN nodes : JumpsToLabel(nodes[p]) /\ nodes[p].l \notin Labels)

-----------------------------------------------------------------------------
(* The invariant that the proofs use, by the loops that establish it.      *)

\* build_basicblocks(): consecutive blocks so far, every label at the start of
\* one, and a link counted for every way out of them.
Needed == {s \in (DOMAIN basicblocks) \X {1, 2} : s[2] <= JumpsFrom(basicblocks[s[1]].last)}

BlocksInv ==
  /\ BlocksPartition
  /\ \A b \in DOMAIN basicblocks :
       /\ basicblocks[b].last <= N
       /\ \A c \in DOMAIN basicblocks : b < c => basicblocks[b].last < basicblocks[c].first
       /\ \A p, q \in basicblocks[b].first .. basicblocks[b].last :
            q <= p /\ IsLabel(nodes[p]) => IsLabel(nodes[q])
  /\ \A p \in 1 .. (Start - 1) : \E b \in DOMAIN basicblocks : In(p, b)
  /\ IF phase = "blocks" THEN nodes # << >> ELSE Start = N + 1
  /\ jumps = Cardinality(Needed)

\* resolve_labels(): the labels of the blocks before number Labelled are known.
Labelled == IF phase = "labels" THEN k ELSE Len(basicblocks) + 1

LabelsInv ==
  phase # "blocks" =>
    /\ Labels \subseteq 0 .. (label_n - 1)
    /\ \A l \in 0 .. (label_n - 1) :
         /\ links[l] # NoBlock => links[l] < Labelled /\ l \in LeadingLabels(links[l])
         /\ \A b \in 1 .. (Labelled - 1) : l \in LeadingLabels(b) => links[l] # NoBlock

\* resolve_next(): the blocks before number Followed have their spans, one after
\* the other and before NextEnd(Followed).
Targets(b) == (IF Falls(b) THEN {b + 1} ELSE {})
              \cup (IF JumpsToLabel(LastOf(b)) THEN {links[LastOf(b).l]} ELSE {})

LinkCount(b) == (IF Falls(b) THEN 1 ELSE 0) + (IF JumpsToLabel(LastOf(b)) THEN 1 ELSE 0)

LinkSlots(m) == {s \in (1 .. (m - 1)) \X {1, 2} : s[2] <= LinkCount(s[1])}

NextEnd(m) == label_n + Cardinality(LinkSlots(m))

Followed == IF phase = "next" THEN k ELSE Len(basicblocks) + 1

NextInv ==
  phase \in {"next", "prev", "built"} =>
    /\ \A b \in 1 .. (Followed - 1) :
         /\ JumpsToLabel(LastOf(b)) => Found(LastOf(b).l)
         /\ Next_(b) = Targets(b)
         /\ Indices(basicblocks[b].next) \subseteq label_n .. (NextEnd(Followed) - 1)
         /\ \A c \in 1 .. (b - 1) :
              Indices(basicblocks[c].next) \cap Indices(basicblocks[b].next) = {}
    /\ phase = "next" => link_start = NextEnd(k)

\* resolve_prev(): the same of the blocks before number Preceded, whose spans come
\* after those of resolve_next().
Preceded == IF phase = "prev" THEN k ELSE Len(basicblocks) + 1

EdgesTo(m) == {e \in (DOMAIN basicblocks) \X (1 .. (m - 1)) : e[2] \in Next_(e[1])}

PrevInv ==
  phase \in {"prev", "built"} =>
    /\ link_start = NextEnd(Len(basicblocks) + 1) + Cardinality(EdgesTo(Preceded))
    /\ \A c \in 1 .. (Preceded - 1) :
         /\ Prev_(c) = {from \in DOMAIN basicblocks : c \in Next_(from)}
         /\ Indices(basicblocks[c].prev) \subseteq NextEnd(Len(basicblocks) + 1) .. (link_start - 1)

FailedInv ==
  phase = "failed" => \E p \in DOMAIN nodes : JumpsToLabel(nodes[p]) /\ nodes[p].l \notin Labels

FlowInv == TypeOK /\ BlocksInv /\ LabelsInv /\ NextInv /\ PrevInv /\ FailedInv

=============================================================================
