-------------------------- MODULE AllocatorProofs --------------------------
(***************************************************************************)
(* Proofs about module Allocator, for every number of registers and        *)
(* colours and every set of hints.                                         *)
(***************************************************************************)
EXTENDS Allocator, FiniteSetTheorems, WellFoundedInduction, TLAPS

-----------------------------------------------------------------------------
(* Least and greatest elements of sets of numbers.                         *)

\* A non-empty set of naturals has a least element.
LEMMA LeastElement ==
  ASSUME NEW S \in SUBSET Nat, S # {}
  PROVE  \E x \in S : \A y \in S : x <= y
<1> DEFINE R == OpToRel(<, Nat)
<1>1. IsWellFoundedOn(R, Nat)
  BY NatLessThanWellFounded
<1>2. \A x, y \in Nat : x < y => <<x, y>> \in R
  BY DEF OpToRel
<1> HIDE DEF R
<1>3. PICK x \in S : \A y \in S : ~(<<y, x>> \in R)
  BY <1>1, WFMin, Zenon
<1>4. ASSUME NEW y \in S PROVE x <= y
  <2>1. ~(y < x)
    BY <1>2, <1>3
  <2> QED BY <2>1
<1> QED BY <1>4

\* A non-empty bounded set of naturals has a greatest element.
LEMMA GreatestElement ==
  ASSUME NEW S \in SUBSET Nat, S # {}, NEW b \in Nat, \A x \in S : x <= b
  PROVE  \E x \in S : \A y \in S : y <= x
<1> DEFINE T == {b - x : x \in S}
<1>1. T \in SUBSET Nat /\ T # {}
  <2>1. PICK z \in S : TRUE
    OBVIOUS
  <2>2. b - z \in T
    BY <2>1
  <2>3. \A t \in T : t \in Nat
    OBVIOUS
  <2> QED BY <2>2, <2>3
<1>2. \A x \in S : b - x \in T
  OBVIOUS
<1>3. \A t \in T : \E x \in S : t = b - x
  OBVIOUS
<1> HIDE DEF T
<1>4. PICK t \in T : \A u \in T : t <= u
  BY <1>1, LeastElement
<1>5. PICK x \in S : t = b - x
  BY <1>3
<1>6. \A y \in S : y <= x
  BY <1>2, <1>4, <1>5
<1> QED BY <1>6

\* Min and Lowest, i.e. BitSet::find(), return a member.
LEMMA MinProperty ==
  ASSUME NEW S \in SUBSET Nat, S # {}
  PROVE  Min(S) \in S /\ \A y \in S : Min(S) <= y
BY LeastElement DEF Min

\* BitSet::find() returns the least member, or NoColor.
LEMMA LowestProperty ==
  ASSUME NEW S \in SUBSET Nat
  PROVE  /\ S = {} => Lowest(S) = NoColor
         /\ S # {} => Lowest(S) \in S /\ \A y \in S : Lowest(S) <= y
BY MinProperty DEF Lowest

-----------------------------------------------------------------------------
(* Registers and degrees.                                                  *)

\* There are size registers, and NoColor is none of them.
LEMMA RegsFacts ==
  ASSUME size \in 0 .. MaxRegs
  PROVE  /\ IsFiniteSet(Regs)
         /\ Cardinality(Regs) = size
         /\ Regs \in SUBSET Nat
         /\ \A r \in Regs : r < NoColor
         /\ NoColor \notin Regs
<1>1. MaxRegs \in Nat /\ NoColor \in Nat /\ MaxRegs < NoColor /\ size \in Nat
  BY BoundsAssumption
<1>2. IsFiniteSet(Regs) /\ Cardinality(Regs) = size
  BY <1>1, FS_Interval DEF Regs
<1> QED BY <1>1, <1>2 DEF Regs

\* A degree is at most one more than the number of registers, and 0 means no connection.
LEMMA DegreeFacts ==
  ASSUME TypeOK, NEW r \in Regs
  PROVE  /\ Degree(g, r) \in 0 .. size + 1
         /\ Degree(g, r) = 0 <=> g[r] = {}
<1>1. IsFiniteSet(Regs) /\ Cardinality(Regs) = size /\ size \in Nat
  BY RegsFacts, BoundsAssumption DEF TypeOK
<1>2. g[r] \in SUBSET Regs
  BY DEF TypeOK
<1>3. IsFiniteSet(g[r]) /\ Cardinality(g[r]) <= size
  BY <1>1, <1>2, FS_Subset
<1>4. Cardinality(g[r]) \in Nat
  BY <1>3, FS_CardinalityType
<1>5. Cardinality(g[r]) = 0 <=> g[r] = {}
  BY <1>3, FS_EmptySet
<1> QED BY <1>1, <1>3, <1>4, <1>5 DEF Degree

\* What find_degree_less_than() and pick() return is a register that is
\* still in g_, or NoReg.
LEMMA ChosenIsPresent ==
  ASSUME TypeOK, NEW reg \in {FindDegreeLessThan, Pick}, reg # NoReg
  PROVE  reg \in Regs /\ g[reg] # {}
<1>1. Regs \in SUBSET Nat
  BY RegsFacts DEF TypeOK
<1>2. CASE reg = FindDegreeLessThan
  <2>1. LowDegree # {} /\ reg = Min(LowDegree)
    BY <1>2 DEF FindDegreeLessThan
  <2>2. LowDegree \in SUBSET Nat
    BY <1>1 DEF LowDegree
  <2>3. reg \in LowDegree
    BY <2>1, <2>2, MinProperty
  <2>4. reg \in Regs /\ Degree(g, reg) >= 2
    BY <2>3 DEF LowDegree
  <2> QED BY <2>4, DegreeFacts
<1>3. CASE reg = Pick
  <2>1. HighestDegree # {} /\ reg = Min(HighestDegree)
    BY <1>3 DEF Pick
  <2>2. HighestDegree \in SUBSET Nat
    BY <1>1 DEF HighestDegree
  <2>3. reg \in HighestDegree
    BY <2>1, <2>2, MinProperty
  <2>4. reg \in Regs /\ Degree(g, reg) > 0
    BY <2>3 DEF HighestDegree
  <2> QED BY <2>4, DegreeFacts
<1> QED BY <1>2, <1>3

\* pick() returns NoReg only when nothing is left in g_: the dismantling
\* loop does not stop early.
LEMMA PickIsComplete ==
  ASSUME TypeOK, Pick = NoReg
  PROVE  \A r \in Regs : g[r] = {}
<1> SUFFICES ASSUME NEW r \in Regs, g[r] # {} PROVE FALSE
  OBVIOUS
<1> DEFINE D == {Degree(g, s) : s \in Regs}
<1>1. size \in Nat /\ size + 1 \in Nat
  BY BoundsAssumption DEF TypeOK
<1>2. \A s \in Regs : Degree(g, s) \in Nat /\ Degree(g, s) <= size + 1
  BY <1>1, DegreeFacts
<1>3. D \in SUBSET Nat /\ D # {} /\ \A d \in D : d <= size + 1
  BY <1>2
<1>4. /\ \A s \in Regs : Degree(g, s) \in D
      /\ \A d \in D : \E s \in Regs : d = Degree(g, s)
  OBVIOUS
<1> HIDE DEF D
<1>5. PICK d \in D : \A e \in D : e <= d
  BY <1>1, <1>3, GreatestElement
<1>6. PICK s \in Regs : d = Degree(g, s)
  BY <1>4
<1>7. \A t \in Regs : Degree(g, t) <= Degree(g, s)
  BY <1>4, <1>5, <1>6
<1>8. Degree(g, s) > 0
  <2>1. Degree(g, r) \in Nat /\ Degree(g, r) # 0
    BY <1>2, DegreeFacts
  <2>2. Degree(g, s) \in Nat
    BY <1>2
  <2> QED BY <1>7, <2>1, <2>2
<1>9. s \in HighestDegree
  BY <1>7, <1>8 DEF HighestDegree
<1>10. HighestDegree \in SUBSET Nat
  BY RegsFacts DEF HighestDegree, TypeOK
<1>11. Pick \in Regs
  BY <1>9, <1>10, MinProperty DEF Pick, HighestDegree
<1> QED BY <1>11, RegsFacts DEF NoReg, TypeOK

-----------------------------------------------------------------------------
(* Colours.                                                                *)

\* Fewer values than candidates: some candidate is free.
LEMMA FreeCandidate ==
  ASSUME NEW N, IsFiniteSet(N), NEW c, NEW R, IsFiniteSet(R),
         Cardinality(N) < Cardinality(R)
  PROVE  R \ {c[n] : n \in N} # {}
<1> DEFINE T == {c[n] : n \in N}
           f == [n \in N |-> c[n]]
<1>1. f \in Surjection(N, T)
  BY DEF Surjection
<1>2. IsFiniteSet(T) /\ Cardinality(T) <= Cardinality(N)
  <2> HIDE DEF T, f
  <2> QED BY <1>1, FS_Surjection
<1> HIDE DEF T
<1>3. SUFFICES ASSUME R \subseteq T PROVE FALSE
  BY DEF T
<1>4. Cardinality(R) <= Cardinality(T)
  BY <1>2, <1>3, FS_Subset
<1>5. Cardinality(N) \in Nat /\ Cardinality(R) \in Nat /\ Cardinality(T) \in Nat
  BY <1>2, FS_CardinalityType
<1> QED BY <1>2, <1>4, <1>5

\* The register assign_colors() is about to colour is not in g_, and a
\* neighbour counts as present exactly when it has a colour.
LEMMA NextToColor ==
  ASSUME IInv, phase = "assign", top > 0
  PROVE  /\ stack[top] \in Regs
         /\ g[stack[top]] = {}
         /\ colors[stack[top]] = NoColor
         /\ \A n \in Regs : g[n] # {} <=> n \in g[n]
<1>1. top \in 1 .. Len(stack) /\ stack[top] \in Regs
  BY DEF IInv, TypeOK
<1>2. stack[top] \in Removed
  BY <1>1 DEF Removed, PendingLen
<1>3. stack[top] \notin g[stack[top]]
  BY <1>1, <1>2 DEF IInv, StackInv
<1>4. \A r \in Regs : g[r] = IF r \in g[r] THEN {n \in g2[r] : n \in g[n]} ELSE {}
  BY DEF IInv, GraphInv
<1>5. colors[stack[top]] = NoColor
  BY <1>1, <1>3 DEF IInv, ColorsInv
<1> QED BY <1>1, <1>3, <1>4, <1>5

\* The neighbours of reg that have a colour.
ColoredNeighbors(reg) == {n \in g2[reg] \ {reg} : n \in g[n]}

\* What the second loop leaves available: all colours but those of the neighbours that
\* are coloured.
LEMMA AvailColorsFacts ==
  ASSUME IInv, phase = "assign", top > 0
  PROVE  LET reg == stack[top]
         IN  /\ AvailColors(reg) = Regs \ {colors[n] : n \in ColoredNeighbors(reg)}
             /\ ColoredNeighbors(reg) \in SUBSET (Regs \ {reg})
<1> DEFINE reg == stack[top]
<1>1. reg \in Regs /\ colors[reg] \notin Regs /\ \A n \in Regs : g[n] # {} <=> n \in g[n]
  BY NextToColor, RegsFacts DEF IInv, TypeOK
<1>2. g2[reg] \in SUBSET Regs
  BY <1>1 DEF IInv, TypeOK
<1>3. ColoredNeighbors(reg) \in SUBSET (Regs \ {reg})
  BY <1>2 DEF ColoredNeighbors
<1>4. /\ ColoredNeighbors(reg) \subseteq PresentNeighbors(reg)
      /\ PresentNeighbors(reg) \subseteq ColoredNeighbors(reg) \cup {reg}
  BY <1>1, <1>2 DEF ColoredNeighbors, PresentNeighbors
<1>5. AvailColors(reg) = Regs \ {colors[n] : n \in ColoredNeighbors(reg)}
  BY <1>1, <1>4 DEF AvailColors
<1> QED BY <1>3, <1>5

\* A register has fewer coloured neighbours than there are registers.
LEMMA ColoredNeighborsAreFew ==
  ASSUME IInv, phase = "assign", top > 0
  PROVE  LET N == ColoredNeighbors(stack[top])
         IN  IsFiniteSet(N) /\ Cardinality(N) < size
<1> DEFINE reg == stack[top]
           N == ColoredNeighbors(reg)
<1>1. reg \in Regs
  BY NextToColor
<1>2. IsFiniteSet(Regs) /\ Cardinality(Regs) = size
  BY RegsFacts DEF IInv, TypeOK
<1>3. /\ IsFiniteSet(Regs \ {reg})
      /\ Cardinality(Regs \ {reg}) = size - 1
  BY <1>1, <1>2, FS_RemoveElement
<1>4. N \in SUBSET (Regs \ {reg})
  BY AvailColorsFacts
<1>5. IsFiniteSet(N) /\ Cardinality(N) <= size - 1
  <2> HIDE DEF N, reg
  <2> QED BY <1>3, <1>4, FS_Subset
<1>6. Cardinality(N) \in Nat /\ size \in Nat
  BY <1>2, <1>5, FS_CardinalityType
<1> QED BY <1>5, <1>6

\* There are as many colours as registers, so one is always left.
LEMMA AvailColorsNotEmpty ==
  ASSUME IInv, phase = "assign", top > 0
  PROVE  AvailColors(stack[top]) # {}
<1> DEFINE N == ColoredNeighbors(stack[top])
<1>1. IsFiniteSet(Regs) /\ Cardinality(Regs) = size
  BY RegsFacts DEF IInv, TypeOK
<1>2. IsFiniteSet(N) /\ Cardinality(N) < size
  BY ColoredNeighborsAreFew
<1>3. Regs \ {colors[n] : n \in N} # {}
  <2> HIDE DEF N
  <2> QED BY <1>1, <1>2, FreeCandidate
<1> QED BY <1>3, AvailColorsFacts

\* Whatever the hints ask for, the colour chosen is an available one.
LEMMA ColorForIsAvailable ==
  ASSUME IInv, phase = "assign", top > 0
  PROVE  ColorFor(stack[top]) \in AvailColors(stack[top])
<1> DEFINE reg == stack[top]
           avail == AvailColors(reg)
<1>1. avail \in SUBSET Nat
  BY RegsFacts DEF AvailColors, IInv, TypeOK
<1>2. Lowest(avail) \in avail
  BY <1>1, AvailColorsNotEmpty, LowestProperty
<1>3. avail \ HintedNearby(reg) \in SUBSET Nat
  BY <1>1
<1>4. TrySatisfyHints(reg) \in avail \cup {NoColor}
  BY <1>3, LowestProperty DEF TrySatisfyHints
<1> HIDE DEF avail, reg
<1>5. ColorFor(reg) \in avail
  BY <1>2, <1>4 DEF ColorFor, avail
<1> QED BY <1>5 DEF avail, reg

-----------------------------------------------------------------------------
(* The inductive invariant.                                                *)

\* The initial state satisfies the inductive invariant.
LEMMA InitInvariant == Init => IInv
<1> SUFFICES ASSUME Init PROVE IInv
  OBVIOUS
<1>1. Regs \in SUBSET Nat /\ Regs = 0 .. size - 1
  BY RegsFacts DEF Init, Regs
<1>2. TypeOK
  BY <1>1, BoundsAssumption DEF Init, TypeOK, EmptyGraph, Phases
<1>3. Symmetric(g)
  BY <1>1 DEF Init, Symmetric, EmptyGraph
<1> QED BY <1>2, <1>3 DEF Init, IInv, StackInv, GraphInv, ColorsInv

\* Allocator::reset() keeps the inductive invariant.
LEMMA ResetInvariant ==
  ASSUME IInv, NEW n \in 0 .. MaxRegs, Reset(n)
  PROVE  IInv'
<1>1. Regs' = 0 .. n - 1 /\ n \in Nat
  BY BoundsAssumption DEF Reset, Regs
<1>2. \A r \in 0 .. n - 1 : r < size => r \in Regs
  BY BoundsAssumption DEF Regs, IInv, TypeOK
<1>3. TypeOK'
  BY <1>1, <1>2 DEF Reset, IInv, TypeOK, EmptyGraph, Phases
<1>4. Symmetric(g)'
  BY <1>1 DEF Reset, Symmetric, EmptyGraph
<1> QED BY <1>3, <1>4 DEF Reset, IInv, StackInv, GraphInv, ColorsInv

\* connect() and disconnect() keep the inductive invariant.
LEMMA ConnectInvariant ==
  ASSUME IInv, NEW a \in Regs, NEW b \in Regs, NEW value \in BOOLEAN,
         Connect(a, b, value)
  PROVE  IInv'
<1>1. Regs' = Regs
  BY DEF Connect, Regs
<1>2. g \in [Regs -> SUBSET Regs] /\ g' = SetEdge(g, a, b, value)
  BY DEF IInv, TypeOK, Connect
<1>3. g' \in [Regs -> SUBSET Regs]
  BY <1>2 DEF SetEdge
<1>4. TypeOK'
  BY <1>1, <1>3 DEF Connect, IInv, TypeOK, Phases
<1>5. Symmetric(g)'
  <2>1. Symmetric(g)
    BY DEF IInv, GraphInv
  <2>2. CASE value
    BY <1>1, <1>2, <2>1, <2>2 DEF Symmetric, SetEdge
  <2>3. CASE ~value
    BY <1>1, <1>2, <2>1, <2>3 DEF Symmetric, SetEdge
  <2> QED BY <2>2, <2>3
<1> QED BY <1>4, <1>5 DEF Connect, IInv, StackInv, GraphInv, ColorsInv

\* add_hint() keeps the inductive invariant.
LEMMA AddHintInvariant ==
  ASSUME IInv, NEW reg \in Regs, NEW color \in HintColors, AddHint(reg, color)
  PROVE  IInv'
<1>1. Regs' = Regs
  BY DEF AddHint, Regs
<1>2. hints' \in [Regs -> Nat]
  <2>1. color \in Nat /\ NoColor \in Nat
    BY BoundsAssumption
  <2> QED BY <2>1 DEF AddHint, IInv, TypeOK
<1>3. TypeOK'
  BY <1>1, <1>2 DEF AddHint, IInv, TypeOK, Phases
<1>4. Symmetric(g)'
  BY <1>1 DEF AddHint, IInv, GraphInv, Symmetric
<1> QED BY <1>3, <1>4 DEF AddHint, IInv, StackInv, GraphInv, ColorsInv

\* The start of allocate_regs(), init(), keeps the inductive invariant.
LEMMA BeginAllocateInvariant ==
  ASSUME IInv, NEW n \in 0 .. MaxColors, BeginAllocate(n)
  PROVE  IInv'
<1>1. Regs' = Regs
  BY DEF BeginAllocate, Regs
<1>2. /\ g' = [r \in Regs |-> g[r] \cup {r}]
      /\ g2' = g'
      /\ g \in [Regs -> SUBSET Regs]
  BY DEF BeginAllocate, WithSelfEdges, IInv, TypeOK
<1>3. TypeOK'
  <2>1. colors' \in [Regs -> Nat]
    BY BoundsAssumption DEF BeginAllocate
  <2>2. stack' = << >> /\ top' = 0 /\ << >> \in Seq(Regs) /\ 0 \in 0 .. Len(<< >>)
    BY DEF BeginAllocate
  <2> QED BY <1>1, <1>2, <2>1, <2>2 DEF BeginAllocate, IInv, TypeOK, Phases
<1>4. StackInv'
  <2>1. Removed' = {}
    BY DEF BeginAllocate, Removed, PendingLen
  <2> QED BY <1>1, <1>2, <2>1 DEF BeginAllocate, StackInv
<1>5. GraphInv'
  <2>1. Symmetric(g)
    BY DEF IInv, GraphInv
  <2>2. Symmetric(g)' /\ Symmetric(g2)'
    BY <1>1, <1>2, <2>1 DEF Symmetric
  <2>3. \A r \in Regs : g'[r] = {m \in g2'[r] : m \in g'[m]}
    BY <1>2
  <2> QED BY <1>1, <1>2, <2>2, <2>3 DEF GraphInv
<1>6. ColorsInv'
  BY <1>1 DEF BeginAllocate, ColorsInv
<1> QED BY <1>3, <1>4, <1>5, <1>6 DEF IInv

\* One round of the dismantling loop, whichever register it chose.
LEMMA PushInvariant ==
  ASSUME IInv, phase = "simplify", NEW reg \in Regs, g[reg] # {}, Push(reg)
  PROVE  IInv'
<1>1. Regs' = Regs
  BY DEF Push, Regs
<1>2. /\ g \in [Regs -> SUBSET Regs]
      /\ g' = [r \in Regs |-> IF r = reg THEN {} ELSE g[r] \ {reg}]
  BY DEF Push, RemoveNode, IInv, TypeOK
<1>3. stack \in Seq(Regs) /\ stack' = Append(stack, reg) /\ phase' = "simplify"
  BY DEF Push, IInv, TypeOK
<1>4. reg \in g[reg]
  BY DEF IInv, GraphInv
<1>5. TypeOK'
  BY <1>1, <1>2, <1>3 DEF Push, IInv, TypeOK, Phases
<1>6. StackInv'
  <2>1. Len(stack') = Len(stack) + 1 /\ Len(stack) \in Nat /\ stack'[Len(stack) + 1] = reg
    BY <1>3
  <2>2. \A j \in 1 .. Len(stack) : stack'[j] = stack[j]
    BY <1>3
  <2>3. Removed = {stack[j] : j \in 1 .. Len(stack)}
    BY DEF Removed, PendingLen
  <2>4. Removed' = {stack'[j] : j \in 1 .. Len(stack) + 1}
    BY <1>3, <2>1 DEF Removed, PendingLen
  <2>5. Removed' = Removed \cup {reg}
    BY <2>1, <2>2, <2>3, <2>4
  <2>6. \A r \in Regs : r \in g[r] <=> r \notin Removed
    BY DEF IInv, StackInv
  <2>7. \A r \in Regs : r \in g'[r] <=> r \notin Removed'
    BY <1>2, <2>5, <2>6
  <2>8. reg \notin Removed
    BY <1>4, <2>6
  <2>9. \A i, j \in 1 .. Len(stack') : i # j => stack'[i] # stack'[j]
    <3>1. \A i, j \in 1 .. Len(stack) : i # j => stack[i] # stack[j]
      BY DEF IInv, StackInv
    <3>2. \A i \in 1 .. Len(stack) : stack[i] # reg
      BY <2>3, <2>8
    <3> QED BY <2>1, <2>2, <3>1, <3>2
  <2> QED BY <1>1, <1>3, <2>7, <2>9 DEF StackInv
<1>7. GraphInv'
  <2>1. Symmetric(g) /\ Symmetric(g2) /\ \A r \in Regs : r \in g2[r]
    BY DEF IInv, GraphInv
  <2>2. \A r \in Regs : g[r] = IF r \in g[r] THEN {n \in g2[r] : n \in g[n]} ELSE {}
    BY DEF IInv, GraphInv
  <2>3. g2' = g2 /\ g2 \in [Regs -> SUBSET Regs]
    BY DEF Push, IInv, TypeOK
  <2>4. Symmetric(g)' /\ Symmetric(g2)'
    BY <1>1, <1>2, <2>1, <2>3 DEF Symmetric
  <2>5. \A n \in Regs : n \in g'[n] <=> n \in g[n] /\ n # reg
    BY <1>2
  <2>6. ASSUME NEW r \in Regs
        PROVE  g'[r] = IF r \in g'[r] THEN {n \in g2[r] : n \in g'[n]} ELSE {}
    <3>1. g2[r] \in SUBSET Regs
      BY <2>3
    <3>2. g[r] = IF r \in g[r] THEN {n \in g2[r] : n \in g[n]} ELSE {}
      BY <2>2
    <3>3. CASE r = reg
      BY <1>2, <3>3
    <3>4. CASE r # reg /\ r \in g[r]
      BY <1>2, <2>5, <3>1, <3>2, <3>4
    <3>5. CASE r # reg /\ r \notin g[r]
      BY <1>2, <2>5, <3>2, <3>5
    <3> QED BY <3>3, <3>4, <3>5
  <2> QED BY <1>1, <2>1, <2>3, <2>4, <2>6 DEF GraphInv
<1>8. ColorsInv'
  BY <1>1, <1>3 DEF Push, IInv, ColorsInv
<1> QED BY <1>5, <1>6, <1>7, <1>8 DEF IInv

\* The end of the first loop keeps the inductive invariant.
LEMMA BeginAssignInvariant ==
  ASSUME IInv, BeginAssign
  PROVE  IInv'
<1>1. Regs' = Regs
  BY DEF BeginAssign, Regs
<1>2. \A r \in Regs : g[r] = {}
  BY PickIsComplete DEF BeginAssign, IInv
<1>3. TypeOK'
  BY <1>1 DEF BeginAssign, IInv, TypeOK, Phases
<1>4. StackInv'
  <2>1. Removed' = Removed
    BY DEF BeginAssign, Removed, PendingLen
  <2> QED BY <1>1, <2>1 DEF BeginAssign, IInv, StackInv
<1>5. GraphInv'
  BY <1>1 DEF BeginAssign, IInv, GraphInv, Symmetric
<1>6. ColorsInv'
  BY <1>1, <1>2 DEF BeginAssign, IInv, ColorsInv
<1> QED BY <1>3, <1>4, <1>5, <1>6 DEF IInv

\* A round of the second loop, which colours a register and connects it again in
\* g_, keeps the inductive invariant.
LEMMA AssignColorInvariant ==
  ASSUME IInv, AssignColor
  PROVE  IInv'
<1> DEFINE reg == stack[top]
           color == ColorFor(reg)
<1>1. phase = "assign" /\ top > 0 /\ top \in 1 .. Len(stack) /\ top' = top - 1
  BY DEF AssignColor, IInv, TypeOK
<1>2. Regs' = Regs
  BY DEF AssignColor, Regs
<1>3. /\ reg \in Regs
      /\ g[reg] = {}
      /\ colors[reg] = NoColor
      /\ \A n \in Regs : g[n] # {} <=> n \in g[n]
  BY <1>1, NextToColor
<1>4. /\ g \in [Regs -> SUBSET Regs] /\ g2 \in [Regs -> SUBSET Regs]
      /\ Symmetric(g) /\ Symmetric(g2)
      /\ \A r \in Regs : r \in g2[r]
      /\ \A r \in Regs : g[r] = IF r \in g[r] THEN {n \in g2[r] : n \in g[n]} ELSE {}
  BY <1>1 DEF IInv, TypeOK, GraphInv
<1>5. /\ color \in Regs
      /\ \A n \in g2[reg] \ {reg} : n \in g[n] => color # colors[n]
  <2>1. color \in AvailColors(reg)
    BY <1>1, ColorForIsAvailable
  <2>2. AvailColors(reg) = Regs \ {colors[n] : n \in ColoredNeighbors(reg)}
    BY <1>1, AvailColorsFacts
  <2> QED BY <2>1, <2>2 DEF ColoredNeighbors
<1>6. /\ g' = Reconnected(reg)
      /\ colors' = [colors EXCEPT ![reg] = color]
      /\ UNCHANGED <<size, g2, stack, hints, k, phase>>
  BY DEF AssignColor
<1> HIDE DEF reg, color
<1>7. ASSUME NEW n \in Regs
      PROVE  n \in PresentNeighbors(reg) \cup {reg} <=> n = reg \/ (n \in g2[reg] /\ n \in g[n])
  BY <1>3 DEF PresentNeighbors
<1>8. PresentNeighbors(reg) \in SUBSET Regs
  BY <1>3, <1>4 DEF PresentNeighbors
<1>9. \A r \in Regs : \A n : n \in g'[r] <=>
         IF r = reg THEN n \in PresentNeighbors(reg) \cup {reg}
                    ELSE n \in g[r] \/ (n = reg /\ r \in PresentNeighbors(reg))
  BY <1>6 DEF Reconnected
<1>10. g' \in [Regs -> SUBSET Regs]
  BY <1>3, <1>4, <1>6, <1>8 DEF Reconnected
<1>11. \A n \in Regs : n \in g'[n] <=> n \in g[n] \/ n = reg
  BY <1>3, <1>9
<1>12. ASSUME NEW r \in Regs
       PROVE  g'[r] = IF r \in g'[r] THEN {n \in g2[r] : n \in g'[n]} ELSE {}
  <2>1. g2[r] \in SUBSET Regs /\ g'[r] \in SUBSET Regs
    BY <1>4, <1>10
  <2>2. CASE r = reg
    <3>1. \A n \in Regs : n \in g'[reg] <=> n \in g2[reg] /\ n \in g'[n]
      BY <1>3, <1>4, <1>7, <1>9, <1>11
    <3> QED BY <2>1, <2>2, <3>1, <1>11
  <2>3. CASE r # reg /\ r \in g[r]
    <3>1. \A n \in Regs : n \in g[r] <=> n \in g2[r] /\ n \in g[n]
      BY <1>4, <2>3
    <3>2. r \in PresentNeighbors(reg) <=> reg \in g2[r]
      BY <1>3, <1>4, <1>7, <2>3 DEF Symmetric
    <3>3. \A n \in Regs : n \in g'[r] <=> n \in g2[r] /\ n \in g'[n]
      BY <1>3, <1>9, <1>11, <2>3, <3>1, <3>2
    <3> QED BY <1>11, <2>1, <2>3, <3>3
  <2>4. CASE r # reg /\ r \notin g[r]
    <3>1. g[r] = {}
      BY <1>4, <2>4
    <3>2. r \notin PresentNeighbors(reg)
      BY <1>3, <2>4, <3>1 DEF PresentNeighbors
    <3> QED BY <1>9, <1>11, <2>1, <2>4, <3>1, <3>2
  <2> QED BY <2>2, <2>3, <2>4
<1>13. TypeOK'
  <2>1. colors' \in [Regs -> Nat]
    BY <1>5, <1>6, RegsFacts DEF IInv, TypeOK
  <2>2. top' \in 0 .. Len(stack)
    BY <1>1
  <2> QED BY <1>2, <1>6, <1>10, <2>1, <2>2 DEF IInv, TypeOK, Phases
<1>14. StackInv'
  <2>1. \A i, j \in 1 .. Len(stack) : i # j => stack[i] # stack[j]
    BY <1>1 DEF IInv, StackInv
  <2>2. \A r \in Regs : r \in g[r] <=> r \notin Removed
    BY <1>1 DEF IInv, StackInv
  <2>3. Removed = {stack[j] : j \in 1 .. top}
    BY <1>1 DEF Removed, PendingLen
  <2>4. Removed' = {stack[j] : j \in 1 .. top - 1}
    BY <1>1, <1>6 DEF Removed, PendingLen
  <2>5. Removed' = Removed \ {reg}
    BY <1>1, <2>1, <2>3, <2>4 DEF reg
  <2>6. \A r \in Regs : r \in g'[r] <=> r \notin Removed'
    BY <1>11, <2>2, <2>5
  <2> QED BY <1>1, <1>2, <1>6, <2>1, <2>6 DEF StackInv
<1>15. GraphInv'
  <2>1. Symmetric(g)'
    <3> SUFFICES ASSUME NEW a \in Regs, NEW b \in Regs, b \in g'[a] PROVE a \in g'[b]
      BY <1>2 DEF Symmetric
    <3>1. a \in g'[a] /\ b \in g2[a] /\ b \in g'[b]
      BY <1>12
    <3>2. a \in g2[b]
      BY <1>4, <3>1 DEF Symmetric
    <3> QED BY <1>12, <3>1, <3>2
  <2>2. Symmetric(g2)'
    BY <1>2, <1>4, <1>6 DEF Symmetric
  <2> QED BY <1>2, <1>4, <1>6, <1>12, <2>1, <2>2 DEF GraphInv
<1>16. ColorsInv'
  <2>1. /\ colors \in [Regs -> Nat]
        /\ \A r \in Regs : colors[r] \in Regs \cup {NoColor}
        /\ \A r \in Regs : colors[r] # NoColor <=> r \in g[r]
        /\ \A a, b \in Regs : b \in g[a] \ {a} => colors[a] # colors[b]
    BY <1>1 DEF IInv, TypeOK, ColorsInv
  <2>2. /\ \A r \in Regs : colors'[r] = IF r = reg THEN color ELSE colors[r]
        /\ color # NoColor
    BY <1>5, <1>6, <2>1, RegsFacts DEF IInv, TypeOK
  <2>3. \A r \in Regs : colors'[r] \in Regs \cup {NoColor}
    BY <1>5, <2>1, <2>2
  <2>4. \A r \in Regs : colors'[r] # NoColor <=> r \in g'[r]
    BY <1>11, <2>1, <2>2
  <2>5. ASSUME NEW a \in Regs, NEW b \in Regs, b \in g'[a] \ {a}
        PROVE  colors'[a] # colors'[b]
    <3>1. a \in g'[a] /\ b \in g2[a] /\ b \in g'[b] /\ a \in g2[b]
      <4>1. a \in g'[a] /\ b \in g2[a] /\ b \in g'[b]
        BY <1>12, <2>5
      <4> QED BY <1>4, <4>1 DEF Symmetric
    <3>2. CASE a = reg
      BY <1>5, <1>11, <2>2, <2>5, <3>1, <3>2
    <3>3. CASE b = reg
      BY <1>5, <1>11, <2>2, <2>5, <3>1, <3>3
    <3>4. CASE a # reg /\ b # reg
      <4>1. b \in g[a]
        BY <1>4, <1>11, <3>1, <3>4
      <4> QED BY <2>1, <2>2, <2>5, <3>4, <4>1
    <3> QED BY <3>2, <3>3, <3>4
  <2> QED BY <1>1, <1>2, <1>6, <2>3, <2>4, <2>5 DEF ColorsInv
<1> QED BY <1>13, <1>14, <1>15, <1>16 DEF IInv

\* The end of allocate_regs() keeps the inductive invariant.
LEMMA EndAllocateInvariant ==
  ASSUME IInv, EndAllocate
  PROVE  IInv'
<1>1. Regs' = Regs
  BY DEF EndAllocate, Regs
<1>2. TypeOK'
  BY <1>1 DEF EndAllocate, IInv, TypeOK, Phases
<1>3. StackInv'
  <2>1. Removed' = Removed
    BY DEF EndAllocate, Removed, PendingLen
  <2> QED BY <1>1, <2>1 DEF EndAllocate, IInv, StackInv
<1>4. GraphInv'
  BY <1>1 DEF EndAllocate, IInv, GraphInv, Symmetric
<1>5. ColorsInv'
  BY <1>1 DEF EndAllocate, IInv, ColorsInv
<1> QED BY <1>2, <1>3, <1>4, <1>5 DEF IInv

\* Every step keeps the inductive invariant.
LEMMA NextInvariant == IInv /\ [Next]_vars => IInv'
<1> SUFFICES ASSUME IInv, [Next]_vars PROVE IInv'
  OBVIOUS
<1>1. CASE ClientStep
  <2>1. ASSUME NEW n \in 0 .. MaxRegs, Reset(n) PROVE IInv'
    BY <2>1, ResetInvariant
  <2>2. ASSUME NEW a \in Regs, NEW b \in Regs, NEW value \in BOOLEAN, Connect(a, b, value)
        PROVE  IInv'
    BY <2>2, ConnectInvariant
  <2>3. ASSUME NEW reg \in Regs, NEW color \in HintColors, AddHint(reg, color)
        PROVE  IInv'
    BY <2>3, AddHintInvariant
  <2>4. ASSUME NEW n \in 0 .. MaxColors, BeginAllocate(n) PROVE IInv'
    BY <2>4, BeginAllocateInvariant
  <2> QED BY <1>1, <2>1, <2>2, <2>3, <2>4 DEF ClientStep
<1>2. CASE Simplify \/ Spill
  <2>1. PICK reg \in {FindDegreeLessThan, Pick} : reg # NoReg /\ phase = "simplify" /\ Push(reg)
    BY <1>2 DEF Simplify, Spill
  <2>2. reg \in Regs /\ g[reg] # {}
    BY <2>1, ChosenIsPresent DEF IInv
  <2> QED BY <2>1, <2>2, PushInvariant
<1>3. CASE BeginAssign
  BY <1>3, BeginAssignInvariant
<1>4. CASE AssignColor
  BY <1>4, AssignColorInvariant
<1>5. CASE EndAllocate
  BY <1>5, EndAllocateInvariant
<1>6. CASE UNCHANGED vars
  BY <1>6 DEF vars, IInv, TypeOK, StackInv, GraphInv, ColorsInv, Regs, Removed,
              PendingLen, Symmetric, Phases
<1> QED BY <1>1, <1>2, <1>3, <1>4, <1>5, <1>6 DEF Next, AllocatorStep

-----------------------------------------------------------------------------
(* What the callers of allocate_regs() rely on.                            *)

\* Every run of the allocator stays within the inductive invariant: during
\* a call, g_ is the subgraph of g2_ induced by the registers not stacked.
THEOREM InductiveInvariant == Spec => []IInv
BY InitInvariant, NextInvariant, PTL DEF Spec

\* The state of the allocator is well typed, whatever clients call.
THEOREM TypeCorrect == Spec => []TypeOK
<1>1. IInv => TypeOK
  BY DEF IInv
<1> QED BY <1>1, InductiveInvariant, PTL

\* allocate_regs() colours every graph properly, for every number of
\* registers, every num_colors and every hint.
THEOREM ColoringIsProper == Spec => []ProperColoring
<1>1. ASSUME IInv PROVE ProperColoring
  <2>1. ASSUME phase = "assign", NEW a \in Regs, NEW b \in Regs,
               b \in g2[a] \ {a}, Colored(a), Colored(b)
        PROVE  colors[a] # colors[b]
    <3>1. g[a] = {n \in g2[a] : n \in g[n]}
      BY <1>1, <2>1 DEF IInv, GraphInv, Colored
    <3>2. b \in g[a] \ {a}
      BY <2>1, <3>1 DEF Colored
    <3> QED BY <1>1, <2>1, <3>2 DEF IInv, ColorsInv
  <2>2. ASSUME phase = "allocated", NEW a \in Regs
        PROVE  /\ colors[a] \in Regs
               /\ \A b \in g[a] \ {a} : colors[a] # colors[b]
    <3>1. Removed = {}
      BY <1>1, <2>2 DEF IInv, StackInv, Removed, PendingLen
    <3>2. a \in g[a] /\ g[a] \in SUBSET Regs
      BY <1>1, <2>2, <3>1 DEF IInv, StackInv, TypeOK
    <3> QED BY <1>1, <2>2, <3>2 DEF IInv, ColorsInv
  <2> QED BY <2>1, <2>2 DEF ProperColoring
<1> QED BY <1>1, InductiveInvariant, PTL

\* allocate_regs() gives back the graph it dismantled.
THEOREM GraphIsRestored == Spec => []GraphRestored
<1>1. ASSUME IInv, phase = "allocated" PROVE g = g2
  <2>1. Removed = {}
    BY <1>1 DEF IInv, StackInv, Removed, PendingLen
  <2>2. \A r \in Regs : r \in g[r]
    BY <1>1, <2>1 DEF IInv, StackInv
  <2>3. g \in [Regs -> SUBSET Regs] /\ g2 \in [Regs -> SUBSET Regs]
    BY <1>1 DEF IInv, TypeOK
  <2>4. \A r \in Regs : g[r] = g2[r]
    BY <1>1, <2>2, <2>3 DEF IInv, GraphInv
  <2> QED BY <2>3, <2>4
<1>2. IInv => GraphRestored
  BY <1>1 DEF GraphRestored
<1> QED BY <1>2, InductiveInvariant, PTL

-----------------------------------------------------------------------------
(* Dismantlable graphs are not spilled.                                    *)

\* N has fewer members than there are colours below k and than there are
\* registers: some colour below k is taken by no member of N.
LEMMA FreeColorBelow ==
  ASSUME TypeOK, NEW N, IsFiniteSet(N), NEW c,
         Cardinality(N) < k, Cardinality(N) < size
  PROVE  \E x \in Regs \ {c[n] : n \in N} : x < k
<1>1. k \in Nat /\ size \in Nat /\ Cardinality(N) \in Nat
  BY BoundsAssumption, FS_CardinalityType DEF TypeOK
<1>2. PICK m \in Nat : m <= k /\ m <= size /\ Cardinality(N) < m
  BY <1>1
<1> DEFINE R == 0 .. m - 1
<1>3. IsFiniteSet(R) /\ Cardinality(R) = m
  BY <1>2, FS_Interval
<1>4. \A x \in R : x \in Regs /\ x < k
  BY <1>1, <1>2 DEF Regs
<1>5. R \ {c[n] : n \in N} # {}
  <2> HIDE DEF R
  <2> QED BY <1>2, <1>3, FreeCandidate
<1> HIDE DEF R
<1> QED BY <1>4, <1>5

\* The least member is below every bound that some member is below.
LEMMA LowestIsBelow ==
  ASSUME NEW S \in SUBSET Nat, NEW x \in S, NEW b \in Nat, x < b
  PROVE  Lowest(S) \in S /\ Lowest(S) < b
<1>1. Lowest(S) \in S /\ Lowest(S) <= x
  BY LowestProperty
<1>2. Lowest(S) \in Nat /\ x \in Nat
  BY <1>1
<1> HIDE DEF Lowest
<1> QED BY <1>1, <1>2

\* While the graph is dismantled, its part left in g_ holds a register of
\* fewer than k neighbours if the whole graph is dismantlable.
LEMMA LowDegreeExists ==
  ASSUME IInv, phase = "simplify", Dismantlable,
         NEW present \in Regs, g[present] # {}
  PROVE  LowDegree # {}
<1> DEFINE S == {r \in Regs : r \in g[r]}
<1>1. /\ \A r \in Regs : g[r] = IF r \in g[r] THEN {n \in g2[r] : n \in g[n]} ELSE {}
      /\ g2 \in [Regs -> SUBSET Regs]
  BY DEF IInv, TypeOK, GraphInv
<1>2. present \in S
  BY <1>1
<1>3. PICK r \in S : Cardinality((g2[r] \cap S) \ {r}) < k
  <2>1. S \in (SUBSET Regs) \ {{}}
    BY <1>2
  <2> QED BY <2>1 DEF Dismantlable
<1>4. r \in Regs /\ r \in g[r] /\ g[r] \ {r} = (g2[r] \cap S) \ {r}
  BY <1>1, <1>3
<1>5. IsFiniteSet(g[r]) /\ Cardinality(g[r]) \in Nat
  <2>1. g[r] \in SUBSET Regs /\ IsFiniteSet(Regs)
    BY <1>4, RegsFacts DEF IInv, TypeOK
  <2> QED BY <2>1, FS_Subset, FS_CardinalityType
<1>6. Cardinality(g[r] \ {r}) = Cardinality(g[r]) - 1 /\ Cardinality(g[r] \ {r}) \in Nat
  BY <1>4, <1>5, FS_RemoveElement, FS_CardinalityType
<1>7. Degree(g, r) >= 2 /\ Degree(g, r) < 2 + k
  <2>1. k \in Nat
    BY BoundsAssumption DEF IInv, TypeOK
  <2>2. Cardinality(g[r] \ {r}) < k
    BY <1>3, <1>4
  <2> QED BY <1>4, <1>5, <1>6, <2>1, <2>2 DEF Degree
<1> QED BY <1>4, <1>7 DEF LowDegree

\* One round of the dismantling loop: the register it pushes had fewer than
\* k neighbours left, so the next one finds such a register too.
LEMMA PushSpillFree ==
  ASSUME IInv, SpillFreeInv, Simplify \/ Spill
  PROVE  SpillFreeInv'
<1>1. PICK reg \in {FindDegreeLessThan, Pick} :
        /\ reg # NoReg /\ phase = "simplify" /\ Push(reg)
        /\ reg = FindDegreeLessThan \/ FindDegreeLessThan = NoReg
  BY DEF Simplify, Spill
<1>2. reg \in Regs /\ g[reg] # {}
  BY <1>1, ChosenIsPresent DEF IInv
<1>3. /\ Regs' = Regs /\ g2' = g2 /\ k' = k /\ phase' = phase /\ colors' = colors
      /\ stack' = Append(stack, reg) /\ stack \in Seq(Regs)
  BY <1>1 DEF Push, Regs, IInv, TypeOK
<1>4. Dismantlable' <=> Dismantlable
  BY <1>3 DEF Dismantlable
<1> SUFFICES ASSUME Dismantlable
             PROVE  /\ \A i \in 1 .. Len(stack') : Cardinality(NeighborsLeft(i)') < k
                    /\ \A r \in Regs : colors[r] # NoColor => colors[r] < k
  BY <1>3, <1>4 DEF SpillFreeInv
<1>5. reg \in LowDegree
  <2>1. LowDegree # {} /\ LowDegree \in SUBSET Nat
    BY <1>1, <1>2, LowDegreeExists, RegsFacts DEF LowDegree, IInv, TypeOK
  <2>2. Min(LowDegree) \in LowDegree
    BY <2>1, MinProperty
  <2>3. Min(LowDegree) # NoReg
    BY <2>2, RegsFacts DEF LowDegree, NoReg, IInv, TypeOK
  <2> QED BY <1>1, <2>1, <2>2, <2>3 DEF FindDegreeLessThan
<1>6. PICK len \in Nat :
        /\ len = Len(stack) /\ Len(stack') = len + 1 /\ stack'[len + 1] = reg
        /\ \A j \in 1 .. len : stack'[j] = stack[j]
  BY <1>3
<1>7. NeighborsLeft(len + 1)' = g[reg] \ {reg}
  <2>1. NeighborsLeft(len + 1)' =
          {n \in g2[reg] : n # reg /\ \A j \in 1 .. len : n # stack[j]}
    BY <1>3, <1>6 DEF NeighborsLeft
  <2>2. \A n \in Regs : n \in g[n] <=> \A j \in 1 .. len : n # stack[j]
    BY <1>1, <1>6 DEF IInv, StackInv, Removed, PendingLen
  <2>3. g[reg] = {n \in g2[reg] : n \in g[n]} /\ g2[reg] \in SUBSET Regs
    BY <1>1, <1>2 DEF IInv, TypeOK, GraphInv
  <2> QED BY <2>1, <2>2, <2>3
<1>8. Cardinality(g[reg] \ {reg}) < k
  <2>1. reg \in g[reg] /\ IsFiniteSet(g[reg])
    <3>1. g[reg] \in SUBSET Regs /\ IsFiniteSet(Regs)
      BY <1>2, RegsFacts DEF IInv, TypeOK
    <3> QED BY <1>1, <1>2, <3>1, FS_Subset DEF IInv, GraphInv
  <2>2. Cardinality(g[reg]) \in Nat /\ Cardinality(g[reg] \ {reg}) = Cardinality(g[reg]) - 1
    BY <2>1, FS_CardinalityType, FS_RemoveElement
  <2>3. k \in Nat
    BY BoundsAssumption DEF IInv, TypeOK
  <2> QED BY <1>5, <2>1, <2>2, <2>3 DEF LowDegree, Degree
<1>9. ASSUME NEW i \in 1 .. len
      PROVE  NeighborsLeft(i)' = NeighborsLeft(i)
  BY <1>3, <1>6 DEF NeighborsLeft
<1>10. /\ \A i \in 1 .. len : Cardinality(NeighborsLeft(i)) < k
       /\ \A r \in Regs : colors[r] # NoColor => colors[r] < k
  BY <1>1, <1>6 DEF SpillFreeInv
<1>11. ASSUME NEW i \in 1 .. Len(stack')
       PROVE  Cardinality(NeighborsLeft(i)') < k
  <2>1. CASE i = len + 1
    BY <1>7, <1>8, <2>1
  <2>2. CASE i \in 1 .. len
    BY <1>9, <1>10, <2>2
  <2> QED BY <1>6, <2>1, <2>2
<1> QED BY <1>10, <1>11

\* The neighbours that have a colour when a register is put back are those
\* it had left when it was pushed.
LEMMA ColoredWereLeft ==
  ASSUME IInv, phase = "assign", top > 0
  PROVE  ColoredNeighbors(stack[top]) = NeighborsLeft(top)
<1>1. top \in 1 .. Len(stack) /\ stack[top] \in Regs
  BY DEF IInv, TypeOK
<1>2. g2[stack[top]] \in SUBSET Regs
  BY <1>1 DEF IInv, TypeOK
<1>3. \A n \in Regs : n \in g[n] <=> \A j \in 1 .. top : n # stack[j]
  BY DEF IInv, StackInv, Removed, PendingLen
<1> QED BY <1>1, <1>2, <1>3 DEF ColoredNeighbors, NeighborsLeft

\* With fewer than k coloured neighbours a register gets a colour below k,
\* whatever the hints ask for.
LEMMA ColorForIsBelow ==
  ASSUME IInv, phase = "assign", top > 0,
         Cardinality(ColoredNeighbors(stack[top])) < k
  PROVE  ColorFor(stack[top]) < k
<1> DEFINE reg == stack[top]
           N == ColoredNeighbors(reg)
           avail == AvailColors(reg)
<1>1. reg \in Regs
  BY NextToColor
<1>2. IsFiniteSet(N) /\ Cardinality(N) < size
  BY <1>1, ColoredNeighborsAreFew
<1>3. PICK x \in avail : x < k
  <2>1. avail = Regs \ {colors[n] : n \in N}
    BY AvailColorsFacts
  <2> HIDE DEF N, avail
  <2>2. \E x \in Regs \ {colors[n] : n \in N} : x < k
    BY <1>2, FreeColorBelow DEF IInv, N
  <2> QED BY <2>1, <2>2
<1>4. avail \in SUBSET Nat /\ k \in Nat
  BY RegsFacts, BoundsAssumption DEF AvailColors, IInv, TypeOK
<1>5. Lowest(avail) < k
  <2> HIDE DEF avail
  <2> QED BY <1>3, <1>4, LowestIsBelow
<1>6. Lowest(avail) \in Nat
  <2> HIDE DEF avail
  <2> QED BY <1>3, <1>4, LowestIsBelow
<1> HIDE DEF avail, reg
<1>7. ColorFor(reg) = Lowest(avail) \/ ColorFor(reg) < k
  BY <1>4, <1>5, <1>6 DEF ColorFor, avail
<1> QED BY <1>5, <1>7 DEF reg

\* A register that had fewer than k neighbours left gets a colour below k.
LEMMA AssignColorSpillFree ==
  ASSUME IInv, SpillFreeInv, AssignColor
  PROVE  SpillFreeInv'
<1>1. phase = "assign" /\ top > 0 /\ top \in 1 .. Len(stack)
  BY DEF AssignColor, IInv, TypeOK
<1>2. /\ Regs' = Regs
      /\ UNCHANGED <<size, g2, stack, hints, k, phase>>
      /\ colors' = [colors EXCEPT ![stack[top]] = ColorFor(stack[top])]
  BY DEF AssignColor, Regs
<1>3. (Dismantlable' <=> Dismantlable) /\ \A i : NeighborsLeft(i)' = NeighborsLeft(i)
  BY <1>2 DEF Dismantlable, NeighborsLeft
<1>4. ASSUME Dismantlable PROVE ColorFor(stack[top]) < k
  BY <1>1, <1>4, ColoredWereLeft, ColorForIsBelow DEF SpillFreeInv
<1>5. colors \in [Regs -> Nat] /\ stack[top] \in Regs
  BY <1>1 DEF IInv, TypeOK
<1>6. ASSUME Dismantlable, NEW r \in Regs, colors'[r] # NoColor
      PROVE  colors'[r] < k
  <2>1. CASE r = stack[top]
    BY <1>2, <1>4, <1>5, <1>6, <2>1
  <2>2. CASE r # stack[top]
    BY <1>1, <1>2, <1>5, <1>6, <2>2 DEF SpillFreeInv
  <2> QED BY <2>1, <2>2
<1> QED BY <1>1, <1>2, <1>3, <1>6 DEF SpillFreeInv

\* Every step keeps what Chaitin's guarantee needs.
LEMMA NextSpillFree == IInv /\ SpillFreeInv /\ [Next]_vars => SpillFreeInv'
<1> SUFFICES ASSUME IInv, SpillFreeInv, [Next]_vars PROVE SpillFreeInv'
  OBVIOUS
<1>1. CASE \E n \in 0 .. MaxColors : BeginAllocate(n)
  <2>1. /\ stack' = << >>
        /\ colors' = [r \in Regs |-> NoColor]
        /\ Regs' = Regs
    BY <1>1 DEF BeginAllocate, Regs
  <2> QED BY <2>1 DEF SpillFreeInv
<1>2. CASE phase' = "ready"
  BY <1>2 DEF SpillFreeInv
<1>3. CASE Simplify \/ Spill
  BY <1>3, PushSpillFree
<1>4. CASE AssignColor
  BY <1>4, AssignColorSpillFree
<1>5. CASE BeginAssign \/ EndAllocate \/ UNCHANGED vars
  <2>1. UNCHANGED <<size, g2, stack, colors, k>> /\ (phase # "ready" <=> phase' # "ready")
    BY <1>5 DEF BeginAssign, EndAllocate, vars
  <2> QED BY <2>1 DEF SpillFreeInv, Dismantlable, NeighborsLeft, Regs
<1> QED BY <1>1, <1>2, <1>3, <1>4, <1>5
        DEF Next, ClientStep, AllocatorStep, Reset, Connect, AddHint

-----------------------------------------------------------------------------
(* Feasible hints are honoured.                                            *)

\* The neighbours of a register, in a sparse graph, fall short of both k and
\* the number of registers.
LEMMA NeighborsAreFew ==
  ASSUME TypeOK, SparseGraph, NEW reg \in Regs
  PROVE  LET N == g2[reg] \ {reg}
         IN  IsFiniteSet(N) /\ Cardinality(N) < k /\ Cardinality(N) < size
<1> DEFINE N == g2[reg] \ {reg}
<1>1. IsFiniteSet(Regs) /\ Cardinality(Regs) = size
  BY RegsFacts DEF TypeOK
<1>2. IsFiniteSet(Regs \ {reg}) /\ Cardinality(Regs \ {reg}) = size - 1
  BY <1>1, FS_RemoveElement
<1>3. N \in SUBSET (Regs \ {reg})
  BY DEF TypeOK
<1>4. IsFiniteSet(N) /\ Cardinality(N) <= size - 1
  <2> HIDE DEF N
  <2> QED BY <1>2, <1>3, FS_Subset
<1>5. Cardinality(N) \in Nat /\ size \in Nat
  BY <1>1, <1>4, FS_CardinalityType
<1>6. Cardinality(N) < k
  BY DEF SparseGraph
<1> QED BY <1>4, <1>5, <1>6

\* A register gets the colour it was given as a hint, a register without a
\* hint a colour that no neighbour still waiting for its own was promised.
LEMMA HintDecidesColor ==
  ASSUME IInv, HintsInv, HintsFeasible, SparseGraph, phase = "assign", top > 0
  PROVE  LET reg == stack[top]
         IN  IF hints[reg] # NoColor
             THEN ColorFor(reg) = hints[reg]
             ELSE \A n \in g2[reg] : colors[n] = NoColor => ColorFor(reg) # hints[n]
<1> DEFINE reg == stack[top]
           N == g2[reg] \ {reg}
           avail == AvailColors(reg)
<1>1. /\ reg \in Regs /\ colors[reg] = NoColor /\ g2[reg] \in SUBSET Regs
      /\ hints \in [Regs -> Nat] /\ colors \in [Regs -> Nat] /\ k \in Nat /\ size \in Nat
      /\ hints # NoHints
  BY NextToColor, BoundsAssumption DEF IInv, TypeOK, HintsFeasible
<1>2. \A n \in Regs : n \in g[n] <=> colors[n] # NoColor
  BY DEF IInv, ColorsInv
<1>3. avail = Regs \ {colors[n] : n \in ColoredNeighbors(reg)} /\ avail \in SUBSET Nat
  BY AvailColorsFacts, RegsFacts DEF IInv, TypeOK
<1>4. CASE hints[reg] # NoColor
  <2>1. hints[reg] < k /\ hints[reg] \in Regs
    BY <1>1, <1>4 DEF HintsFeasible, Regs
  <2>2. \A n \in N : colors[n] # hints[reg]
    BY <1>1, <1>4 DEF HintsInv
  <2>3. hints[reg] \in avail
    BY <1>3, <2>1, <2>2 DEF ColoredNeighbors
  <2>4. TrySatisfyHints(reg) = hints[reg]
    BY <2>3 DEF TrySatisfyHints
  <2> HIDE DEF reg
  <2> QED BY <1>1, <1>4, <2>1, <2>4 DEF ColorFor, reg
<1>5. CASE hints[reg] = NoColor
  <2> DEFINE c == [n \in N |-> IF colors[n] # NoColor THEN colors[n] ELSE hints[n]]
             free == avail \ HintedNearby(reg)
  <2>1. IsFiniteSet(N) /\ Cardinality(N) < k /\ Cardinality(N) < size
    BY <1>1, NeighborsAreFew DEF IInv
  <2>2. PICK x \in Regs \ {c[n] : n \in N} : x < k
    <3> HIDE DEF N, c
    <3> QED BY <2>1, FreeColorBelow DEF IInv
  <2>3. x \in free
    <3>1. \A n \in N : x # IF colors[n] # NoColor THEN colors[n] ELSE hints[n]
      BY <2>2
    <3>2. x \in avail
      BY <1>1, <1>2, <1>3, <2>2, <3>1 DEF ColoredNeighbors
    <3>3. \A m \in g2[reg] : colors[m] = NoColor => x # hints[m]
      <4>1. x # NoColor
        BY <2>2, RegsFacts DEF IInv, TypeOK
      <4> QED BY <1>5, <3>1, <4>1
    <3> QED BY <3>2, <3>3 DEF HintedNearby
  <2>4. Lowest(free) \in free /\ Lowest(free) < k
    <3> HIDE DEF free
    <3>1. free \in SUBSET Nat
      BY <1>3 DEF free
    <3> QED BY <1>1, <2>2, <2>3, <3>1, LowestIsBelow
  <2>5. hints[reg] \notin avail
    BY <1>3, <1>5, RegsFacts DEF IInv, TypeOK
  <2>6. TrySatisfyHints(reg) = Lowest(free)
    BY <2>5 DEF TrySatisfyHints
  <2>7. Lowest(free) # NoColor
    BY <1>3, <2>4, RegsFacts DEF IInv, TypeOK
  <2>8. ColorFor(reg) = Lowest(free)
    <3> HIDE DEF reg, free
    <3> QED BY <1>1, <2>4, <2>6, <2>7 DEF ColorFor
  <2>9. \A n \in g2[reg] : colors[n] = NoColor => hints[n] \in HintedNearby(reg)
    BY DEF HintedNearby
  <2> QED BY <1>5, <2>4, <2>8, <2>9
<1> QED BY <1>4, <1>5

\* A round of the second loop gives a feasible hint to its register, and takes it
\* from no other.
LEMMA AssignColorHints ==
  ASSUME IInv, HintsInv, AssignColor
  PROVE  HintsInv'
<1> DEFINE reg == stack[top]
<1>1. phase = "assign" /\ top > 0
  BY DEF AssignColor
<1>2. /\ Regs' = Regs /\ UNCHANGED <<size, g2, hints, k, phase>>
      /\ colors' = [colors EXCEPT ![reg] = ColorFor(reg)]
  BY DEF AssignColor, Regs
<1>3. (HintsFeasible' <=> HintsFeasible) /\ (SparseGraph' <=> SparseGraph)
  BY <1>2 DEF HintsFeasible, SparseGraph, NoHints
<1> SUFFICES ASSUME HintsFeasible, SparseGraph, NEW a \in Regs, hints[a] # NoColor
             PROVE  IF colors'[a] # NoColor
                    THEN colors'[a] = hints[a]
                    ELSE \A b \in g2[a] \ {a} : colors'[b] # hints[a]
  BY <1>2, <1>3 DEF HintsInv
<1>4. IF colors[a] # NoColor THEN colors[a] = hints[a]
                             ELSE \A b \in g2[a] \ {a} : colors[b] # hints[a]
  BY <1>1 DEF HintsInv
<1>5. /\ reg \in Regs /\ colors[reg] = NoColor /\ colors \in [Regs -> Nat]
      /\ Symmetric(g2) /\ g2 \in [Regs -> SUBSET Regs]
  BY <1>1, NextToColor DEF IInv, TypeOK, GraphInv
<1>6. IF hints[reg] # NoColor
      THEN ColorFor(reg) = hints[reg]
      ELSE \A n \in g2[reg] : colors[n] = NoColor => ColorFor(reg) # hints[n]
  BY <1>1, HintDecidesColor
<1> HIDE DEF reg
<1>7. \A b \in Regs : colors'[b] = IF b = reg THEN ColorFor(reg) ELSE colors[b]
  BY <1>2, <1>5
<1>8. CASE a = reg
  BY <1>6, <1>7, <1>8
<1>9. CASE a # reg /\ colors[a] # NoColor
  BY <1>4, <1>7, <1>9
<1>10. CASE a # reg /\ colors[a] = NoColor
  <2>1. ASSUME reg \in g2[a] PROVE ColorFor(reg) # hints[a]
    <3>1. a \in g2[reg] /\ reg \in g2[a] \ {a}
      BY <1>5, <1>10, <2>1 DEF Symmetric
    <3>2. CASE hints[reg] # NoColor
      BY <1>5, <1>6, <3>1, <3>2 DEF HintsFeasible
    <3>3. CASE hints[reg] = NoColor
      BY <1>6, <1>10, <3>1, <3>3
    <3> QED BY <3>2, <3>3
  <2> QED BY <1>4, <1>5, <1>7, <1>10, <2>1
<1> QED BY <1>8, <1>9, <1>10

\* Every step keeps what feasible hints need.
LEMMA NextHints == IInv /\ HintsInv /\ [Next]_vars => HintsInv'
<1> SUFFICES ASSUME IInv, HintsInv, [Next]_vars PROVE HintsInv'
  OBVIOUS
<1>1. CASE \E n \in 0 .. MaxColors : BeginAllocate(n)
  <2>1. PICK n \in 0 .. MaxColors : BeginAllocate(n)
    BY <1>1
  <2>2. /\ Regs' = Regs /\ UNCHANGED <<size, hints>>
        /\ colors' = [r \in Regs |-> NoColor]
        /\ g2' \in [Regs -> SUBSET Regs]
    BY <2>1, BeginAllocateInvariant DEF BeginAllocate, Regs, IInv, TypeOK
  <2> QED BY <2>2 DEF HintsInv
<1>2. CASE phase' = "ready"
  BY <1>2 DEF HintsInv
<1>3. CASE AssignColor
  BY <1>3, AssignColorHints
<1>4. CASE Simplify \/ Spill \/ BeginAssign \/ EndAllocate \/ UNCHANGED vars
  <2>1. UNCHANGED <<size, g2, hints, colors, k>> /\ (phase # "ready" <=> phase' # "ready")
    BY <1>4 DEF Simplify, Spill, Push, BeginAssign, EndAllocate, vars
  <2> QED BY <2>1 DEF HintsInv, HintsFeasible, SparseGraph, NoHints, Regs
<1> QED BY <1>1, <1>2, <1>3, <1>4
        DEF Next, ClientStep, AllocatorStep, Reset, Connect, AddHint

-----------------------------------------------------------------------------
(* What the callers of allocate_regs() rely on when k is large enough.     *)

\* Every run stays within the invariants of both loops of allocate_regs().
THEOREM LoopInvariant == Spec => []LoopInv
<1>1. Init => LoopInv
  BY InitInvariant DEF Init, LoopInv, SpillFreeInv, HintsInv
<1>2. LoopInv /\ [Next]_vars => LoopInv'
  BY NextInvariant, NextSpillFree, NextHints DEF LoopInv
<1> QED BY <1>1, <1>2, PTL DEF Spec

\* After the call every register has a colour.
LEMMA AllocatedHasColors ==
  ASSUME IInv, phase = "allocated", NEW r \in Regs
  PROVE  colors[r] # NoColor /\ colors[r] \in Regs
<1>1. Removed = {}
  BY DEF IInv, StackInv, Removed, PendingLen
<1>2. r \in g[r]
  BY <1>1 DEF IInv, StackInv
<1> QED BY <1>2 DEF IInv, ColorsInv

\* Chaitin's guarantee: allocate_regs() spills no register of a graph that
\* can be dismantled by removing registers of fewer than k neighbours,
\* whatever the hints.
THEOREM NeverSpills == Spec => []DismantlableNeverSpills
<1>1. LoopInv => DismantlableNeverSpills
  BY AllocatedHasColors DEF LoopInv, SpillFreeInv, DismantlableNeverSpills
<1> QED BY <1>1, LoopInvariant, PTL

\* Hints in range that do not clash are all honoured when each register has
\* fewer than num_colors neighbours.
THEOREM HintsAreHonoured == Spec => []FeasibleHintsHonoured
<1>1. LoopInv => FeasibleHintsHonoured
  BY AllocatedHasColors DEF LoopInv, HintsInv, FeasibleHintsHonoured
<1> QED BY <1>1, LoopInvariant, PTL

-----------------------------------------------------------------------------
(* The allocator implements Coloring.                                      *)

\* The edges of a graph are its connected pairs of registers.
LEMMA EdgesFacts ==
  ASSUME NEW G
  PROVE  /\ \A x : x \in EdgesOf(G) <=>
              \E p, q \in Regs : p # q /\ q \in G[p] /\ x = {p, q}
         /\ (\A p, q \in Regs : q \in G[p] => p \in G[q]) =>
              \A p, q \in Regs : {p, q} \in EdgesOf(G) <=> p # q /\ q \in G[p]
<1>1. ASSUME NEW x
      PROVE  x \in EdgesOf(G) <=> \E p, q \in Regs : p # q /\ q \in G[p] /\ x = {p, q}
  <2>1. ASSUME x \in EdgesOf(G)
        PROVE  \E p, q \in Regs : p # q /\ q \in G[p] /\ x = {p, q}
    <3>1. PICK e \in Regs \X Regs : e[1] # e[2] /\ e[2] \in G[e[1]] /\ x = {e[1], e[2]}
      BY <2>1 DEF EdgesOf
    <3>2. e[1] \in Regs /\ e[2] \in Regs
      OBVIOUS
    <3> QED BY <3>1, <3>2
  <2>2. ASSUME NEW p \in Regs, NEW q \in Regs, p # q, q \in G[p], x = {p, q}
        PROVE  x \in EdgesOf(G)
    <3>1. <<p, q>> \in Regs \X Regs /\ <<p, q>>[1] = p /\ <<p, q>>[2] = q
      OBVIOUS
    <3> QED BY <2>2, <3>1 DEF EdgesOf
  <2> QED BY <2>1, <2>2
<1>2. ASSUME \A p, q \in Regs : q \in G[p] => p \in G[q], NEW p \in Regs, NEW q \in Regs
      PROVE  {p, q} \in EdgesOf(G) <=> p # q /\ q \in G[p]
  <2>1. ASSUME {p, q} \in EdgesOf(G) PROVE p # q /\ q \in G[p]
    <3>1. PICK u, v \in Regs : u # v /\ v \in G[u] /\ {p, q} = {u, v}
      BY <1>1, <2>1
    <3>2. (p = u /\ q = v) \/ (p = v /\ q = u)
      BY <3>1
    <3> QED BY <1>2, <3>1, <3>2
  <2> QED BY <1>1, <2>1
<1> QED BY <1>1, <1>2

\* Graphs that differ only in self-connections ask for the same interference.
LEMMA SameEdges ==
  ASSUME NEW G, NEW H, \A p, q \in Regs : p # q => (q \in G[p] <=> q \in H[p])
  PROVE  EdgesOf(G) = EdgesOf(H)
<1>1. ASSUME NEW x PROVE x \in EdgesOf(G) <=> x \in EdgesOf(H)
  <2>1. x \in EdgesOf(G) <=> \E p, q \in Regs : p # q /\ q \in G[p] /\ x = {p, q}
    BY EdgesFacts
  <2>2. x \in EdgesOf(H) <=> \E p, q \in Regs : p # q /\ q \in H[p] /\ x = {p, q}
    BY EdgesFacts
  <2> QED BY <2>1, <2>2
<1> QED BY <1>1

\* What the client sees between calls is an edge of Coloring more or less.
LEMMA ConnectEdges ==
  ASSUME IInv, NEW a \in Regs, NEW b \in Regs, NEW value \in BOOLEAN
  PROVE  EdgesOf(SetEdge(g, a, b, value)) =
           IF value /\ a # b THEN EdgesOf(g) \cup {{a, b}} ELSE EdgesOf(g) \ {{a, b}}
<1> DEFINE H == SetEdge(g, a, b, value)
<1>1. g \in [Regs -> SUBSET Regs]
  BY DEF IInv, TypeOK
<1>2. ASSUME NEW p \in Regs, NEW q \in Regs
      PROVE  q \in H[p] <=> IF {p, q} = {a, b} THEN value ELSE q \in g[p]
  <2>1. q \in H[p] <=> IF (p = a /\ q = b) \/ (p = b /\ q = a) THEN value ELSE q \in g[p]
    BY <1>1 DEF SetEdge
  <2>2. {p, q} = {a, b} <=> (p = a /\ q = b) \/ (p = b /\ q = a)
    OBVIOUS
  <2> QED BY <2>1, <2>2
<1> HIDE DEF H
<1>3. ASSUME NEW x
      PROVE  x \in EdgesOf(H) <=> IF x = {a, b} THEN value /\ a # b ELSE x \in EdgesOf(g)
  <2>1. x \in EdgesOf(H) <=> \E p, q \in Regs : p # q /\ q \in H[p] /\ x = {p, q}
    BY EdgesFacts
  <2>2. x \in EdgesOf(g) <=> \E p, q \in Regs : p # q /\ q \in g[p] /\ x = {p, q}
    BY EdgesFacts
  <2>3. CASE x = {a, b}
    <3>1. ASSUME NEW p \in Regs, NEW q \in Regs, p # q, q \in H[p], x = {p, q}
          PROVE  value /\ a # b
      BY <1>2, <2>3, <3>1
    <3>2. ASSUME value, a # b
          PROVE  b \in H[a] /\ x = {a, b}
      BY <1>2, <2>3, <3>2
    <3> QED BY <2>1, <2>3, <3>1, <3>2
  <2>4. CASE x # {a, b}
    <3>1. \A p, q \in Regs : x = {p, q} => (q \in H[p] <=> q \in g[p])
      BY <1>2, <2>4
    <3> QED BY <2>1, <2>2, <2>4, <3>1
  <2> QED BY <2>3, <2>4
<1> QED BY <1>3 DEF H

\* The neighbours Coloring knows of are those in the graph.
LEMMA PromiseNeighbors ==
  ASSUME IInv, phase = "assign", NEW a \in Regs
  PROVE  Promise!Neighbors(a) = g2[a] \ {a}
<1>1. ClientGraph = g2 /\ g2 \in [Regs -> SUBSET Regs] /\ Symmetric(g2)
  BY DEF ClientGraph, Idle, IInv, TypeOK, GraphInv
<1>2. \A b \in Regs : {a, b} \in EdgesOf(g2) <=> a # b /\ b \in g2[a]
  BY <1>1, EdgesFacts DEF Symmetric
<1>3. Promise!Neighbors(a) = {b \in Regs : b # a /\ {a, b} \in EdgesOf(g2)}
  BY <1>1 DEF Promise!Neighbors, Promise!Regs, Regs
<1> QED BY <1>1, <1>2, <1>3

\* A graph with fewer than k neighbours everywhere can be dismantled.
LEMMA SparseIsDismantlable ==
  ASSUME TypeOK, SparseGraph
  PROVE  Dismantlable
<1> SUFFICES ASSUME NEW S \in (SUBSET Regs) \ {{}}
             PROVE  \E r \in S : Cardinality((g2[r] \cap S) \ {r}) < k
  BY DEF Dismantlable
<1>1. PICK r \in S : r \in Regs
  OBVIOUS
<1> DEFINE N == g2[r] \ {r}
           M == (g2[r] \cap S) \ {r}
<1>2. IsFiniteSet(N) /\ Cardinality(N) < k
  BY <1>1, NeighborsAreFew
<1>3. M \in SUBSET N
  OBVIOUS
<1> HIDE DEF N, M
<1>4. IsFiniteSet(M) /\ Cardinality(M) <= Cardinality(N)
  BY <1>2, <1>3, FS_Subset
<1>5. Cardinality(M) \in Nat /\ Cardinality(N) \in Nat /\ k \in Nat
  BY <1>2, <1>4, FS_CardinalityType, BoundsAssumption DEF TypeOK
<1>6. Cardinality(M) < k
  BY <1>2, <1>4, <1>5
<1> QED BY <1>6 DEF M

\* Initially: the abstract allocator is initial.
LEMMA InitImplements == Init => Promise!Init
<1> SUFFICES ASSUME Init PROVE Promise!Init
  OBVIOUS
<1>1. ClientGraph = EmptyGraph(size)
  BY DEF Init, Idle, ClientGraph
<1>2. \A p, q \in Regs : q \notin EmptyGraph(size)[p]
  BY DEF EmptyGraph, Regs
<1>3. EdgesOf(ClientGraph) = {}
  <2>1. \A x : x \notin EdgesOf(EmptyGraph(size))
    BY <1>2, EdgesFacts
  <2> QED BY <1>1, <2>1
<1> QED BY <1>3 DEF Init, Idle, Promise!Init

\* reset() is a reset of the abstract allocator.
LEMMA ResetImplements ==
  ASSUME IInv, NEW n \in 0 .. MaxRegs, Reset(n)
  PROVE  Promise!Reset(n)
<1>1. EdgesOf(ClientGraph)' = {}
  <2>1. EdgesOf(ClientGraph)' =
          {{e[1], e[2]} : e \in {p \in (0 .. n - 1) \X (0 .. n - 1) :
                                   p[1] # p[2] /\ p[2] \in EmptyGraph(n)[p[1]]}}
    BY DEF Reset, EdgesOf, ClientGraph, Idle, Regs
  <2>2. \A p \in (0 .. n - 1) \X (0 .. n - 1) : p[2] \notin EmptyGraph(n)[p[1]]
    BY DEF EmptyGraph
  <2> QED BY <2>1, <2>2
<1> QED BY <1>1 DEF Reset, Idle, Promise!Reset

\* connect() and disconnect() change one abstract edge.
LEMMA ConnectImplements ==
  ASSUME IInv, NEW a \in Regs, NEW b \in Regs, NEW value \in BOOLEAN,
         Connect(a, b, value)
  PROVE  Promise!Connect(a, b, value)
<1>1. EdgesOf(ClientGraph) = EdgesOf(g)
  BY DEF Connect, ClientGraph
<1>2. EdgesOf(ClientGraph)' = EdgesOf(SetEdge(g, a, b, value))
  BY DEF Connect, EdgesOf, ClientGraph, Idle, Regs
<1> QED BY <1>1, <1>2, ConnectEdges DEF Connect, Idle, Promise!Connect

\* add_hint() is a hint given to the abstract allocator.
LEMMA AddHintImplements ==
  ASSUME IInv, NEW reg \in Regs, NEW color \in HintColors, AddHint(reg, color)
  PROVE  Promise!AddHint
<1>1. EdgesOf(ClientGraph)' = EdgesOf(ClientGraph)
  BY DEF AddHint, EdgesOf, ClientGraph, Idle, Regs
<1> QED BY <1>1 DEF AddHint, Idle, Promise!AddHint

\* The start of allocate_regs() is the abstract call.
LEMMA BeginAllocateImplements ==
  ASSUME IInv, NEW n \in 0 .. MaxColors, BeginAllocate(n)
  PROVE  Promise!Call(n)
<1>1. EdgesOf(ClientGraph)' = EdgesOf(WithSelfEdges(g))
  BY DEF BeginAllocate, EdgesOf, ClientGraph, Idle, Regs
<1>2. EdgesOf(WithSelfEdges(g)) = EdgesOf(g)
  <2>1. \A p, q \in Regs : p # q => (q \in WithSelfEdges(g)[p] <=> q \in g[p])
    BY DEF WithSelfEdges, IInv, TypeOK
  <2> QED BY <2>1, SameEdges
<1>3. EdgesOf(ClientGraph) = EdgesOf(g)
  BY DEF BeginAllocate, ClientGraph
<1> QED BY <1>1, <1>2, <1>3 DEF BeginAllocate, Idle, Promise!Call

\* The loops of allocate_regs() are invisible to the client.
LEMMA LoopStepImplements ==
  ASSUME IInv, Simplify \/ Spill \/ BeginAssign \/ AssignColor
  PROVE  UNCHANGED Promise!vars
<1>1. /\ UNCHANGED <<size, g2, k>>
      /\ phase \in {"simplify", "assign"} /\ phase' \in {"simplify", "assign"}
  BY DEF Simplify, Spill, Push, BeginAssign, AssignColor
<1>2. EdgesOf(ClientGraph)' = EdgesOf(ClientGraph)
  BY <1>1 DEF EdgesOf, ClientGraph, Idle, Regs
<1> QED BY <1>1, <1>2 DEF Idle, Promise!vars

\* Coloring counts neighbours the way the allocator does.
LEMMA PromiseCardinality == \A S : Promise!Cardinality(S) = Cardinality(S)
BY Zenon DEF Promise!Cardinality, Cardinality, Promise!IsFiniteSet, IsFiniteSet

\* The end of allocate_regs() is the abstract return: the coloring is one that
\* the promise allows.
LEMMA EndAllocateImplements ==
  ASSUME LoopInv, EndAllocate
  PROVE  Promise!Return
<1>1. /\ phase = "assign" /\ phase' = "allocated" /\ top = 0
      /\ UNCHANGED <<size, g, g2, colors, k>>
  BY DEF EndAllocate
<1>2. IInv /\ SpillFreeInv
  BY DEF LoopInv
<1>3. /\ g \in [Regs -> SUBSET Regs] /\ g2 \in [Regs -> SUBSET Regs]
      /\ colors \in [Regs -> Nat] /\ k \in Nat
  BY <1>2, BoundsAssumption DEF IInv, TypeOK
<1>4. \A r \in Regs : r \in g[r]
  BY <1>1, <1>2 DEF IInv, StackInv, Removed, PendingLen
<1>5. g = g2
  <2>1. \A r \in Regs : g[r] = g2[r]
    BY <1>1, <1>2, <1>3, <1>4 DEF IInv, GraphInv
  <2> QED BY <1>3, <2>1
<1>6. \A r \in Regs : colors[r] # NoColor /\ colors[r] \in Regs
  BY <1>1, <1>2, <1>4 DEF IInv, ColorsInv
<1>7. colors \in [Regs -> Regs]
  BY <1>3, <1>6
<1>8. \A a \in Regs : Promise!Neighbors(a) = g2[a] \ {a}
  BY <1>1, <1>2, PromiseNeighbors
<1>9. Promise!Proper(colors)
  <2>1. \A a, b \in Regs : b \in g[a] \ {a} => colors[a] # colors[b]
    BY <1>1, <1>2 DEF IInv, ColorsInv
  <2> QED BY <1>5, <1>8, <2>1 DEF Promise!Proper, Promise!Regs, Regs
<1>10. ASSUME \A a \in Regs : Promise!Cardinality(Promise!Neighbors(a)) < k
       PROVE  \A a \in Regs : colors[a] < k
  <2>1. SparseGraph
    BY <1>8, <1>10, PromiseCardinality DEF SparseGraph
  <2>2. Dismantlable
    BY <1>2, <2>1, SparseIsDismantlable DEF IInv
  <2> QED BY <1>1, <1>2, <1>6, <2>2 DEF SpillFreeInv
<1>11. EdgesOf(ClientGraph)' = EdgesOf(ClientGraph)
  BY <1>1, <1>5 DEF EdgesOf, ClientGraph, Idle, Regs
<1>12. k # Unknown
  BY <1>3, UnknownAssumption
<1>13. Promise!Regs = Regs
  BY DEF Promise!Regs, Regs
<1> QED BY <1>1, <1>7, <1>9, <1>10, <1>11, <1>12, <1>13 DEF Idle, Promise!Return

\* Every call of the client and every return is one Coloring allows; nothing
\* else the allocator does can be seen through graph() and get_colors().
THEOREM ImplementsPromise == Spec => ImplementsColoring
<1>1. ASSUME LoopInv, [Next]_vars
      PROVE  [Promise!Next]_(Promise!vars)
  <2>1. IInv
    BY <1>1 DEF LoopInv
  <2>2. ASSUME NEW n \in 0 .. MaxRegs, Reset(n) PROVE Promise!Next
    BY <2>1, <2>2, ResetImplements DEF Promise!Next
  <2>3. ASSUME NEW a \in Regs, NEW b \in Regs, NEW value \in BOOLEAN, Connect(a, b, value)
        PROVE  Promise!Next
    BY <2>1, <2>3, ConnectImplements DEF Promise!Next, Promise!Regs, Regs
  <2>4. ASSUME NEW reg \in Regs, NEW color \in HintColors, AddHint(reg, color)
        PROVE  Promise!Next
    BY <2>1, <2>4, AddHintImplements DEF Promise!Next
  <2>5. ASSUME NEW n \in 0 .. MaxColors, BeginAllocate(n) PROVE Promise!Next
    BY <2>1, <2>5, BeginAllocateImplements DEF Promise!Next
  <2>6. CASE Simplify \/ Spill \/ BeginAssign \/ AssignColor
    BY <2>1, <2>6, LoopStepImplements
  <2>7. CASE EndAllocate
    BY <1>1, <2>7, EndAllocateImplements DEF Promise!Next
  <2>8. CASE UNCHANGED vars
    <3>1. EdgesOf(ClientGraph)' = EdgesOf(ClientGraph)
      BY <2>8 DEF vars, EdgesOf, ClientGraph, Idle, Regs
    <3> QED BY <2>8, <3>1 DEF vars, Idle, Promise!vars
  <2> QED BY <1>1, <2>2, <2>3, <2>4, <2>5, <2>6, <2>7, <2>8
          DEF Next, ClientStep, AllocatorStep
<1> QED BY <1>1, InitImplements, LoopInvariant, PTL
        DEF Spec, ImplementsColoring, Promise!Spec

-----------------------------------------------------------------------------
(* The loops end: the part of AllocateReturns that needs no fairness.      *)

\* The rounds a call has left, at most: every register is stacked once and
\* coloured once.
Rounds == CASE phase = "simplify" -> 2 * size + 2 - Len(stack)
            [] phase = "assign" -> top + 1
            [] OTHER -> 0

\* The stack never holds more than all registers.
LEMMA StackFits ==
  ASSUME IInv, phase # "ready"
  PROVE  Len(stack) \in 0 .. size
<1> DEFINE S == 1 .. Len(stack)
<1>1. stack \in Seq(Regs) /\ Len(stack) \in Nat /\ size \in Nat
  BY BoundsAssumption DEF IInv, TypeOK
<1>2. IsFiniteSet(Regs) /\ Cardinality(Regs) = size
  BY RegsFacts DEF IInv, TypeOK
<1>3. IsFiniteSet(S) /\ Cardinality(S) = Len(stack)
  <2> DEFINE m == Len(stack)
  <2>1. 1 \in Int /\ m \in Int /\ m >= 0
    BY <1>1
  <2> HIDE DEF m
  <2>2. IsFiniteSet(1 .. m) /\ Cardinality(1 .. m) = IF 1 > m THEN 0 ELSE m - 1 + 1
    BY <2>1, FS_Interval
  <2> QED BY <2>1, <2>2 DEF m
<1>4. stack \in [S -> Regs]
  BY <1>1
<1>5. \A i, j \in S : i # j => stack[i] # stack[j]
  BY DEF IInv, StackInv
<1>6. ~(Cardinality(Regs) < Cardinality(S))
  <2> HIDE DEF S
  <2> QED BY <1>2, <1>3, <1>4, <1>5, FS_PigeonHole
<1> QED BY <1>1, <1>2, <1>3, <1>6

\* A call makes at most 2 * size + 2 rounds, with or without spills: each
\* round leaves fewer to go, and between rounds nothing is forgotten.
THEOREM RoundsAreBounded ==
  Spec => /\ [](Rounds \in 0 .. 2 * size + 2)
          /\ [][AllocatorStep => Rounds' < Rounds]_vars
<1>1. ASSUME IInv PROVE Rounds \in 0 .. 2 * size + 2
  <2>1. size \in Nat /\ top \in 0 .. Len(stack) /\ Len(stack) \in Nat
    BY <1>1, BoundsAssumption DEF IInv, TypeOK
  <2>2. phase # "ready" => Len(stack) <= size
    BY <1>1, <2>1, StackFits
  <2> QED BY <2>1, <2>2 DEF Rounds
<1>2. ASSUME IInv, AllocatorStep PROVE Rounds' < Rounds
  <2>1. /\ size \in Nat /\ top \in 0 .. Len(stack) /\ Len(stack) \in Nat
        /\ stack \in Seq(Regs)
    BY <1>2, BoundsAssumption DEF IInv, TypeOK
  <2>2. phase # "ready" => Len(stack) <= size
    BY <1>2, <2>1, StackFits
  <2>3. CASE Simplify \/ Spill
    <3>1. PICK reg : phase = "simplify" /\ Push(reg)
      BY <2>3 DEF Simplify, Spill
    <3>2. Len(stack') = Len(stack) + 1 /\ size' = size /\ phase' = "simplify"
      BY <2>1, <3>1 DEF Push
    <3> QED BY <2>1, <3>1, <3>2 DEF Rounds
  <2>4. CASE BeginAssign
    BY <2>1, <2>2, <2>4 DEF BeginAssign, Rounds
  <2>5. CASE AssignColor
    BY <2>1, <2>5 DEF AssignColor, Rounds
  <2>6. CASE EndAllocate
    BY <2>1, <2>6 DEF EndAllocate, Rounds
  <2> QED BY <1>2, <2>3, <2>4, <2>5, <2>6 DEF AllocatorStep
<1>3. IInv /\ [Next]_vars => [AllocatorStep => Rounds' < Rounds]_vars
  BY <1>2
<1> QED BY <1>1, <1>3, InductiveInvariant, PTL DEF Spec

=============================================================================
