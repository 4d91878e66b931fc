----------------------------- MODULE Allocator -----------------------------
(***************************************************************************)
(* reg::Allocator, the Chaitin register allocator of                       *)
(* onejit/reg/allocator.cpp, on top of onestl::Graph (Adjacency).          *)
(*                                                                         *)
(* A client builds the interference graph with graph().set(), optionally   *)
(* adds colour hints, and calls allocate_regs(num_colors).  One call       *)
(*   1. init()  resets colors_ and saves g_ in g2_;                        *)
(*   2. dismantles g_: while some register has fewer than num_colors       *)
(*      neighbours it is pushed on stack_ and removed, else the register   *)
(*      of highest degree is pushed (a spill candidate);                   *)
(*   3. walks stack_ backwards, puts each register back in g_ and gives    *)
(*      it the lowest colour no neighbour in g_ has, or a hinted one.      *)
(* The loop iterations of the call are the steps of this module.           *)
(***************************************************************************)
EXTENDS Integers, Sequences, FiniteSets, Adjacency

CONSTANTS
  MaxRegs,    \* bound on the num_regs given to the constructor and reset()
  MaxColors,  \* bound on the num_colors given to allocate_regs()
  HintColors, \* the colours clients pass to add_hint(); may be out of range
  MaxHinted,  \* bound on the size of a graph that is given hints
  NoColor,    \* NoColor = NoReg = uint32_t(-1), above every index in use
  Unknown     \* what get_colors() means when it means nothing

ASSUME BoundsAssumption ==
  /\ MaxRegs \in Nat
  /\ MaxColors \in Nat
  /\ HintColors \subseteq Nat
  /\ NoColor \in Nat
  /\ MaxRegs < NoColor
  /\ MaxColors < NoColor

ASSUME UnknownAssumption == Unknown \notin Nat

NoReg == NoColor

VARIABLES
  size,     \* g_.size(), the number of registers
  g,        \* g_  : register -> registers it is connected to
  g2,       \* g2_ : the graph as allocate_regs() found it
  stack,    \* stack_
  top,      \* the index i of assign_colors(): stack_[0..i-1] is not coloured
  hints,    \* hints_, the empty function while hints are disabled
  colors,   \* colors_
  k,        \* num_colors of the running, or last, allocate_regs()
  phase     \* where the allocator is in its protocol

vars == <<size, g, g2, stack, top, hints, colors, k, phase>>

Phases == {"ready", "simplify", "assign", "allocated"}

Idle == phase \in {"ready", "allocated"}

Regs == 0 .. size - 1
NoHints == [r \in {} |-> NoColor]

-----------------------------------------------------------------------------
(* BitSet::find(TRUE): the lowest index in a set.                          *)

Min(S) == CHOOSE x \in S : \A y \in S : x <= y

Lowest(S) == IF S = {} THEN NoColor ELSE Min(S)

-----------------------------------------------------------------------------
(* Client operations, legal between two calls of allocate_regs().          *)

Init ==
  /\ size \in 0 .. MaxRegs
  /\ g = EmptyGraph(size)
  /\ g2 = EmptyGraph(size)
  /\ stack = << >>
  /\ top = 0
  /\ hints = NoHints
  /\ colors = [r \in Regs |-> 0]
  /\ k = 0
  /\ phase = "ready"

\* reset(): empties both graphs and disables hints; colors_ is only resized,
\* so it keeps stale entries and new ones are zero.
Reset(n) ==
  /\ Idle
  /\ size' = n
  /\ g' = EmptyGraph(n)
  /\ g2' = EmptyGraph(n)
  /\ hints' = NoHints
  /\ colors' = [r \in 0 .. n - 1 |-> IF r < size THEN colors[r] ELSE 0]
  /\ stack' = << >>
  /\ top' = 0
  /\ phase' = "ready"
  /\ UNCHANGED k

Connect(a, b, value) ==
  /\ Idle
  /\ g' = SetEdge(g, a, b, value)
  /\ phase' = "ready"
  /\ UNCHANGED <<size, g2, stack, top, hints, colors, k>>

AddHint(reg, color) ==
  /\ Idle
  /\ size <= MaxHinted
  /\ hints' = [(IF hints = NoHints THEN [r \in Regs |-> NoColor] ELSE hints)
                 EXCEPT ![reg] = color]
  /\ phase' = "ready"
  /\ UNCHANGED <<size, g, g2, stack, top, colors, k>>

-----------------------------------------------------------------------------
(* allocate_regs()                                                         *)

\* init(): every register gets a self-connection, so that its degree is not
\* zero while it is in g_.
WithSelfEdges(G) == [r \in DOMAIN G |-> G[r] \cup {r}]

\* Mutant: init() without the loop that resets colors_.
BeginAllocate_StaleColors(numColors) ==
  /\ Idle
  /\ k' = numColors
  /\ stack' = << >>
  /\ top' = 0
  /\ g' = WithSelfEdges(g)
  /\ g2' = WithSelfEdges(g)
  /\ phase' = "simplify"
  /\ UNCHANGED <<size, hints, colors>>

BeginAllocate(numColors) ==
  /\ Idle
  /\ k' = numColors
  /\ stack' = << >>
  /\ top' = 0
  /\ g' = WithSelfEdges(g)
  /\ g2' = WithSelfEdges(g)
  /\ colors' = [r \in Regs |-> NoColor]
  /\ phase' = "simplify"
  /\ UNCHANGED <<size, hints>>

\* Mutant: forgets that the self-connection counts 2.
LowDegree_SelfCountsOne == {r \in Regs : Degree(g, r) >= 2 /\ Degree(g, r) < 1 + k}

\* find_degree_less_than(): the first register in g_ with fewer than k
\* neighbours; the self-connection counts 2.
LowDegree == {r \in Regs : Degree(g, r) >= 2 /\ Degree(g, r) < 2 + k}

FindDegreeLessThan == IF LowDegree = {} THEN NoReg ELSE Min(LowDegree)

\* pick(): the first register of highest degree, NoReg once g_ is empty.
HighestDegree ==
  {r \in Regs : Degree(g, r) > 0 /\ \A s \in Regs : Degree(g, s) <= Degree(g, r)}

Pick == IF HighestDegree = {} THEN NoReg ELSE Min(HighestDegree)

Push(reg) ==
  /\ stack' = Append(stack, reg)
  /\ g' = RemoveNode(g, reg)
  /\ UNCHANGED <<size, g2, top, hints, colors, k, phase>>

Simplify ==
  /\ phase = "simplify"
  /\ FindDegreeLessThan # NoReg
  /\ Push(FindDegreeLessThan)

Spill ==
  /\ phase = "simplify"
  /\ FindDegreeLessThan = NoReg
  /\ Pick # NoReg
  /\ Push(Pick)

BeginAssign ==
  /\ phase = "simplify"
  /\ FindDegreeLessThan = NoReg
  /\ Pick = NoReg
  /\ phase' = "assign"
  /\ top' = Len(stack)
  /\ UNCHANGED <<size, g, g2, stack, hints, colors, k>>

\* Mutant: stops the search at reg instead of at the last register.
PresentNeighbors_BelowReg(reg) == {n \in g2[reg] : n < reg /\ g[n] # {}}

\* The neighbours the loop of assign_colors() finds already back in g_.  It
\* visits them in increasing order and connects reg on the way, so reg
\* itself counts as present once a smaller neighbour was found.
PresentNeighbors(reg) ==
  LET others == {n \in g2[reg] \ {reg} : g[n] # {}}
  IN  others \cup {n \in g2[reg] : n = reg /\ \E m \in others : m < reg}

AvailColors(reg) == Regs \ {colors[n] : n \in PresentNeighbors(reg)}

\* Mutant: clobbers the colours hinted for neighbours.
HintedNearby_None(reg) == {}

\* The colours hinted for neighbours that have none yet: not to be clobbered.
HintedNearby(reg) == {hints[n] : n \in {m \in g2[reg] : colors[m] = NoColor}}

TrySatisfyHints(reg) ==
  IF hints[reg] \in AvailColors(reg)
  THEN hints[reg]
  ELSE Lowest(AvailColors(reg) \ HintedNearby(reg))

ColorFor(reg) ==
  LET color == Lowest(AvailColors(reg))
      alt   == IF hints = NoHints THEN NoColor ELSE TrySatisfyHints(reg)
  IN  IF alt # NoColor /\ (alt < k \/ color >= k) THEN alt ELSE color

\* Mutant: adds the edges of reg without their mirror images.
Reconnected_OneWay(reg) ==
  [g EXCEPT ![reg] = PresentNeighbors(reg) \cup {reg}]

\* g_ with reg back in it, connected to itself and its present neighbours.
Reconnected(reg) ==
  [r \in Regs |-> IF r = reg
                  THEN PresentNeighbors(reg) \cup {reg}
                  ELSE g[r] \cup {n \in {reg} : r \in PresentNeighbors(reg)}]

\* Mutant: forgets i--.
AssignColor_SameIndex ==
  /\ phase = "assign"
  /\ top > 0
  /\ colors' = [colors EXCEPT ![stack[top]] = ColorFor(stack[top])]
  /\ g' = Reconnected(stack[top])
  /\ UNCHANGED <<size, g2, stack, top, hints, k, phase>>

AssignColor ==
  /\ phase = "assign"
  /\ top > 0
  /\ LET reg == stack[top]
     IN  /\ g' = Reconnected(reg)
         /\ colors' = [colors EXCEPT ![reg] = ColorFor(reg)]
  /\ top' = top - 1
  /\ UNCHANGED <<size, g2, stack, hints, k, phase>>

EndAllocate ==
  /\ phase = "assign"
  /\ top = 0
  /\ phase' = "allocated"
  /\ UNCHANGED <<size, g, g2, stack, top, hints, colors, k>>

-----------------------------------------------------------------------------

AllocatorStep == Simplify \/ Spill \/ BeginAssign \/ AssignColor \/ EndAllocate

ClientStep ==
  \/ \E n \in 0 .. MaxRegs : Reset(n)
  \/ \E a \in Regs, b \in Regs, value \in BOOLEAN : Connect(a, b, value)
  \/ \E reg \in Regs, color \in HintColors : AddHint(reg, color)
  \/ \E numColors \in 0 .. MaxColors : BeginAllocate(numColors)

Next == ClientStep \/ AllocatorStep

Spec == Init /\ [][Next]_vars

\* allocate_regs() is a sequential call: it keeps running until it returns.
FairSpec == Spec /\ WF_vars(AllocatorStep)

-----------------------------------------------------------------------------
(* Properties                                                              *)

TypeOK ==
  /\ size \in 0 .. MaxRegs
  /\ g \in [Regs -> SUBSET Regs]
  /\ g2 \in [Regs -> SUBSET Regs]
  /\ stack \in Seq(Regs)
  /\ top \in 0 .. Len(stack)
  /\ hints = NoHints \/ hints \in [Regs -> Nat]
  /\ colors \in [Regs -> Nat]
  /\ k \in 0 .. MaxColors
  /\ phase \in Phases

Colored(r) == r \in g[r]     \* while assign_colors() runs

\* Two registers connected in the interference graph never get the same
\* colour, and every register gets one that exists: what code generation
\* relies on when it reads get_colors().  Already true of the registers
\* coloured so far while assign_colors() is half way.
ProperColoring ==
  /\ phase = "assign" =>
       \A a, b \in Regs : b \in g2[a] \ {a} /\ Colored(a) /\ Colored(b)
                           => colors[a] # colors[b]
  /\ phase = "allocated" =>
       \A a \in Regs : /\ colors[a] \in Regs
                        /\ \A b \in g[a] \ {a} : colors[a] # colors[b]

\* allocate_regs() gives back the graph it dismantled, whatever it did in
\* between: test_regallocator.cpp adds edges and allocates again.
GraphRestored == phase = "allocated" => g = g2

\* The graph can be dismantled by removing, one at a time, registers with
\* fewer than k neighbours left: no set of registers blocks it.
Dismantlable ==
  \A S \in (SUBSET Regs) \ {{}} : \E r \in S : Cardinality((g2[r] \cap S) \ {r}) < k

\* Chaitin's guarantee, hints or not: when the interference graph can be
\* dismantled without a spill candidate, no register is spilled, i.e. given a
\* colour >= num_colors.
DismantlableNeverSpills ==
  phase = "allocated" /\ Dismantlable => \A r \in Regs : colors[r] < k

HintsFeasible ==
  /\ hints # NoHints
  /\ \A a \in Regs : hints[a] # NoColor =>
       /\ hints[a] < k
       /\ hints[a] < size
       /\ \A b \in g2[a] \ {a} : hints[b] # hints[a]

\* Every register has fewer neighbours than there are colours.
SparseGraph == \A a \in Regs : Cardinality(g2[a] \ {a}) < k

\* Hints that are colours in range and do not clash between neighbours are
\* all honoured when every register has fewer than num_colors neighbours:
\* colouring one register never takes the colour hinted for another.
FeasibleHintsHonoured ==
  phase = "allocated" /\ HintsFeasible /\ SparseGraph
  => \A a \in Regs : hints[a] # NoColor => colors[a] = hints[a]

\* The call returns: each round removes a register, the walk back ends.
AllocateReturns == (phase = "simplify") ~> (phase = "allocated")

-----------------------------------------------------------------------------
(* The inductive invariant behind the safety properties: while the call    *)
(* runs, g_ is the part of g2_ between the registers not on the stack.     *)

Symmetric(G) == \A a, b \in Regs : b \in G[a] => a \in G[b]

\* stack_[0 .. PendingLen-1] holds the registers that are not in g_.
PendingLen == IF phase = "simplify" THEN Len(stack) ELSE top

Removed == {stack[j] : j \in 1 .. PendingLen}

StackInv ==
  phase # "ready" =>
    /\ \A i, j \in 1 .. Len(stack) : i # j => stack[i] # stack[j]
    /\ \A r \in Regs : r \in g[r] <=> r \notin Removed
    /\ phase = "allocated" => top = 0

GraphInv ==
  /\ Symmetric(g)
  /\ phase # "ready" =>
       /\ Symmetric(g2)
       /\ \A r \in Regs : r \in g2[r]
       /\ \A r \in Regs : g[r] = IF r \in g[r] THEN {n \in g2[r] : n \in g[n]} ELSE {}

ColorsInv ==
  phase # "ready" =>
    /\ \A r \in Regs : colors[r] \in Regs \cup {NoColor}
    /\ \A r \in Regs : colors[r] # NoColor <=> r \in g[r] /\ phase # "simplify"
    /\ phase # "simplify" =>
         \A a, b \in Regs : b \in g[a] \ {a} => colors[a] # colors[b]

\* The invariant TLAPS proves inductive; each part is disturbed by another
\* loop of allocate_regs() and restored before the loop's iteration ends.
IInv == TypeOK /\ StackInv /\ GraphInv /\ ColorsInv

(* Two more invariants of the loops, each inductive together with IInv.    *)

\* The neighbours stack_[i-1] had left when it was pushed: those that
\* assign_colors() colours before it.
NeighborsLeft(i) == {n \in g2[stack[i]] : \A j \in 1 .. i : n # stack[j]}

\* A dismantlable graph is stacked without a spill candidate, so that each
\* register finds a colour below num_colors on the way back.
SpillFreeInv ==
  phase # "ready" /\ Dismantlable =>
    /\ \A i \in 1 .. Len(stack) : Cardinality(NeighborsLeft(i)) < k
    /\ \A r \in Regs : colors[r] # NoColor => colors[r] < k

\* A feasible hint stays available until its register is coloured, and is
\* the colour it then gets.
HintsInv ==
  phase # "ready" /\ HintsFeasible /\ SparseGraph =>
    \A a \in Regs : hints[a] # NoColor =>
      IF colors[a] # NoColor
      THEN colors[a] = hints[a]
      ELSE \A b \in g2[a] \ {a} : colors[b] # hints[a]

LoopInv == IInv /\ SpillFreeInv /\ HintsInv

-----------------------------------------------------------------------------
(* What allocate_regs() promises (Coloring), implemented by its loops.     *)

\* The interference a graph asks for; connections of a register to itself
\* ask for none.
EdgesOf(G) ==
  {{e[1], e[2]} : e \in {p \in Regs \X Regs : p[1] # p[2] /\ p[2] \in G[p[1]]}}

\* Before and after a call the client's graph is g_; during the call g_ is
\* being dismantled and g2_ holds it.
ClientGraph == IF Idle THEN g ELSE g2

Promise == INSTANCE Coloring WITH
  interference <- EdgesOf(ClientGraph),
  result  <- IF phase = "allocated" THEN colors ELSE Unknown,
  pending <- IF Idle THEN Unknown ELSE k

\* Every run of the allocator is one the published interface allows.
ImplementsColoring == Promise!Spec

=============================================================================
