-------------------------- MODULE FlowGraphProofs --------------------------
(***************************************************************************)
(* Proofs about FlowGraph for any codes whose labels are placed once: the  *)
(* blocks cut the code, the links that build() counts are enough for those *)
(* it makes, and the graph that results has the edges execution takes.     *)
(***************************************************************************)
EXTENDS FlowGraph, FiniteSetTheorems, WellFoundedInduction, TLAPS

-----------------------------------------------------------------------------
(* Least and greatest elements of sets of numbers.                         *)

\* The naturals are well-founded.
LEMMA SmallestProperty ==
  ASSUME NEW S \in SUBSET Nat, S # {}
  PROVE  Smallest(S) \in S /\ \A y \in S : Smallest(S) <= y
<1> DEFINE R == OpToRel(<, Nat)
<1>1. \A x, y \in Nat : x < y => <<x, y>> \in R
  BY DEF OpToRel
<1>2. IsWellFoundedOn(R, Nat)
  BY NatLessThanWellFounded
<1> HIDE DEF R
<1>3. PICK x \in S : \A y \in S : ~(<<y, x>> \in R)
  BY <1>2, WFMin, Zenon
<1>4. ASSUME NEW y \in S PROVE x <= y
  <2>1. ~(y < x)
    BY <1>1, <1>3
  <2> QED BY <2>1
<1> QED BY <1>4 DEF Smallest

\* A non-empty set of naturals with a bound has a greatest element.
LEMMA LargestProperty ==
  ASSUME NEW S \in SUBSET Nat, S # {}, NEW bound \in Nat, \A x \in S : x <= bound
  PROVE  Largest(S) \in S /\ \A y \in S : y <= Largest(S)
<1> DEFINE T == {bound - x : x \in S}
<1>1. T \in SUBSET Nat /\ T # {}
  <2>1. \A t \in T : t \in Nat
    OBVIOUS
  <2>2. \A x \in S : bound - x \in T
    OBVIOUS
  <2> QED BY <2>1, <2>2
<1>2. \A x \in S : bound - x \in T
  OBVIOUS
<1>3. \A t \in T : \E x \in S : t = bound - x
  OBVIOUS
<1> HIDE DEF T
<1>4. PICK x \in S : Smallest(T) = bound - x
  BY <1>1, <1>3, SmallestProperty
<1>5. \A y \in S : y <= x
  BY <1>1, <1>2, <1>4, SmallestProperty
<1> QED BY <1>5 DEF Largest

-----------------------------------------------------------------------------
(* Codes.                                                                  *)

\* What CodesAssumption says of the nodes that are being built from.
LEMMA NodesFacts ==
  ASSUME TypeOK
  PROVE  /\ N \in Nat /\ DOMAIN nodes = 1 .. N
         /\ \A p \in 1 .. N : nodes[p] \in Node
         /\ \A p, q \in 1 .. N :
              IsLabel(nodes[p]) /\ IsLabel(nodes[q]) /\ nodes[p].l = nodes[q].l => p = q
<1>1. nodes \in Seq(Node)
  <2>1. CASE nodes = << >>
    BY <2>1
  <2>2. CASE nodes \in Codes
    BY <2>2, CodesAssumption
  <2> QED BY <2>1, <2>2 DEF TypeOK
<1>2. N \in Nat /\ DOMAIN nodes = 1 .. N /\ \A p \in 1 .. N : nodes[p] \in Node
  BY <1>1 DEF N
<1>3. CASE nodes = << >>
  BY <1>2, <1>3
<1>4. CASE nodes \in Codes
  BY <1>2, <1>4, CodesAssumption DEF IsLabel
<1> QED BY <1>2, <1>3, <1>4 DEF TypeOK

\* Where build_basicblocks() ends a block, and what it leaves inside.
LEMMA BlockEnds ==
  ASSUME TypeOK, NEW first \in 1 .. N
  PROVE  /\ LastNode(first) \in first .. N
         /\ \A p \in first .. (LastNode(first) - 1) :
              /\ ~IsUncondJump(nodes[p]) /\ ~IsCondJump(nodes[p])
              /\ IsLabel(nodes[p + 1]) => IsLabel(nodes[p])
<1> DEFINE Ends(p) == \/ p = N
                      \/ IsUncondJump(nodes[p])
                      \/ IsCondJump(nodes[p])
                      \/ ~IsLabel(nodes[p]) /\ IsLabel(nodes[p + 1])
           S == {p \in first .. N : Ends(p)}
<1>1. N \in Nat
  BY NodesFacts
<1>2. S \in SUBSET Nat /\ N \in S
  BY <1>1
<1>3. LastNode(first) = Smallest(S)
  BY DEF LastNode
<1>4. Smallest(S) \in S /\ \A p \in S : Smallest(S) <= p
  <2> HIDE DEF S
  <2> QED BY <1>2, SmallestProperty
<1>5. ASSUME NEW p \in first .. (Smallest(S) - 1) PROVE ~Ends(p)
  <2>1. p \in first .. N /\ ~(Smallest(S) <= p)
    BY <1>1, <1>4
  <2>2. p \notin S
    BY <1>4, <2>1
  <2> QED BY <2>1, <2>2
<1> QED BY <1>3, <1>4, <1>5

\* Inside a block, labels only follow labels: they are all at its start.
LEMMA LabelsLead ==
  ASSUME TypeOK, NEW first \in 1 .. N, NEW last \in first .. N,
         \A p \in first .. (last - 1) : IsLabel(nodes[p + 1]) => IsLabel(nodes[p]),
         NEW p \in first .. last, NEW q \in first .. p, IsLabel(nodes[p])
  PROVE  IsLabel(nodes[q])
<1> SUFFICES ASSUME ~IsLabel(nodes[q]) PROVE FALSE
  OBVIOUS
<1> DEFINE S == {x \in first .. p : ~IsLabel(nodes[x])}
<1>1. N \in Nat
  BY NodesFacts
<1>2. S \in SUBSET Nat /\ S # {} /\ \A x \in S : x <= p
  BY <1>1
<1>3. p \in Nat /\ last \in Nat
  BY <1>1
<1> DEFINE g == Largest(S)
<1>4. g \in S /\ \A x \in S : x <= g
  <2> HIDE DEF S
  <2> QED BY <1>2, <1>3, LargestProperty
<1>5. g \in first .. p /\ ~IsLabel(nodes[g])
  BY <1>4
<1>6. g # p /\ g + 1 \in first .. p /\ g + 1 \notin S
  BY <1>1, <1>4, <1>5
<1>7. IsLabel(nodes[g + 1])
  BY <1>6
<1> QED BY <1>1, <1>5, <1>6, <1>7

\* The labels of a code are bounded: label_max is well-defined.
LEMMA LabelCountFacts ==
  ASSUME TypeOK
  PROVE  LabelCount \in Nat \ {0} /\ Labels \subseteq 0 .. (LabelCount - 1)
<1> DEFINE LabelsTo(n) == {nodes[p].l : p \in {q \in 1 .. n : IsLabel(nodes[q])}}
           Bounded(n) == \E m \in Nat : \A l \in LabelsTo(n) : l <= m
           S == {n \in 0 .. N : ~Bounded(n)}
<1>1. /\ N \in Nat /\ DOMAIN nodes = 1 .. N
      /\ \A p \in 1 .. N : nodes[p].l \in Nat
  BY NodesFacts DEF Node
<1>2. ASSUME S # {} PROVE FALSE
  <2> DEFINE n == Smallest(S)
  <2>1. n \in S /\ \A m \in S : n <= m
    <3>1. S \in SUBSET Nat
      BY <1>1
    <3> HIDE DEF S
    <3> QED BY <1>2, <3>1, SmallestProperty
  <2>2. n \in 0 .. N /\ ~Bounded(n)
    BY <2>1
  <2> HIDE DEF n
  <2>3. n # 0
    <3>1. LabelsTo(0) = {}
      OBVIOUS
    <3>2. Bounded(0)
      BY <3>1
    <3> QED BY <2>2, <3>2
  <2>4. n - 1 \in 0 .. N /\ ~(n <= n - 1)
    BY <1>1, <2>2, <2>3
  <2>5. Bounded(n - 1)
    BY <2>1, <2>4
  <2>6. PICK m \in Nat : \A l \in LabelsTo(n - 1) : l <= m
    BY <2>5
  <2>7. nodes[n].l \in Nat
    BY <1>1, <2>2, <2>3
  <2>8. PICK m2 \in Nat : m <= m2 /\ nodes[n].l <= m2
    <3>1. CASE m <= nodes[n].l
      BY <2>7, <3>1
    <3>2. CASE ~(m <= nodes[n].l)
      BY <2>7, <3>2
    <3> QED BY <3>1, <3>2
  <2>9. ASSUME NEW l \in LabelsTo(n) PROVE l <= m2
    <3>1. PICK q \in 1 .. n : IsLabel(nodes[q]) /\ l = nodes[q].l
      OBVIOUS
    <3>2. CASE q = n
      BY <2>8, <3>1, <3>2
    <3>3. CASE q # n
      <4>1. q \in 1 .. (n - 1)
        BY <1>1, <2>2, <3>3
      <4>2. l \in LabelsTo(n - 1)
        BY <3>1, <4>1
      <4>3. l <= m /\ l \in Nat
        BY <1>1, <2>2, <2>6, <3>1, <4>2
      <4> QED BY <2>8, <4>3
    <3> QED BY <3>2, <3>3
  <2> QED BY <2>2, <2>9
<1>3. Bounded(N)
  <2>1. N \in 0 .. N
    BY <1>1
  <2>2. ~Bounded(N) => N \in S
    BY <2>1
  <2> HIDE DEF S, Bounded
  <2> QED BY <1>2, <2>2
<1>4. PICK m \in Nat : \A l \in LabelsTo(N) : l <= m
  BY <1>3
<1> DEFINE L == Labels \cup {0}
<1>5. Labels = LabelsTo(N)
  BY <1>1 DEF Labels
<1>6. L \in SUBSET Nat /\ L # {} /\ \A l \in L : l <= m
  BY <1>1, <1>4, <1>5
<1> HIDE DEF L
<1>7. Largest(L) \in L /\ \A l \in L : l <= Largest(L)
  BY <1>6, LargestProperty
<1>8. LabelCount = 1 + Largest(L) /\ Largest(L) \in Nat
  BY <1>6, <1>7 DEF LabelCount, L
<1>9. \A l \in Labels : l \in Nat /\ l <= Largest(L)
  BY <1>6, <1>7 DEF L
<1> QED BY <1>8, <1>9

-----------------------------------------------------------------------------
(* Counting links.                                                         *)

\* The slots of one more block.
LEMMA AddSlots ==
  ASSUME NEW S, IsFiniteSet(S), NEW b, NEW c \in {0, 1, 2}, <<b, 1>> \notin S, <<b, 2>> \notin S
  PROVE  LET T == S \cup {s \in {b} \X {1, 2} : s[2] <= c}
         IN  IsFiniteSet(T) /\ Cardinality(T) = Cardinality(S) + c
<1> DEFINE T == S \cup {s \in {b} \X {1, 2} : s[2] <= c}
<1>0. Cardinality(S) \in Nat
  BY FS_CardinalityType
<1>1. CASE c = 0
  <2>1. T = S
    BY <1>1
  <2> QED BY <1>0, <1>1, <2>1
<1>2. IsFiniteSet(S \cup {<<b, 1>>}) /\ Cardinality(S \cup {<<b, 1>>}) = Cardinality(S) + 1
  BY FS_AddElement
<1>3. CASE c = 1
  <2>1. T = S \cup {<<b, 1>>}
    BY <1>3
  <2> QED BY <1>2, <1>3, <2>1
<1>4. CASE c = 2
  <2> DEFINE S1 == S \cup {<<b, 1>>}
  <2>1. <<b, 2>> \notin S1
    OBVIOUS
  <2>2. T = S1 \cup {<<b, 2>>}
    BY <1>4
  <2>3. IsFiniteSet(S1) /\ Cardinality(S1) = Cardinality(S) + 1
    BY <1>2
  <2> HIDE DEF S1
  <2>4. IsFiniteSet(S1 \cup {<<b, 2>>}) /\ Cardinality(S1 \cup {<<b, 2>>}) = Cardinality(S1) + 1
    BY <2>1, <2>3, FS_AddElement
  <2> HIDE DEF T
  <2>5. Cardinality(T) = Cardinality(S) + 2
    BY <1>0, <2>2, <2>3, <2>4
  <2> QED BY <1>4, <2>2, <2>4, <2>5 DEF T
<1> QED BY <1>1, <1>3, <1>4

\* A block is counted at most two links.
LEMMA JumpsFromType == ASSUME NEW p PROVE JumpsFrom(p) \in {0, 1, 2}
BY DEF JumpsFrom

\* The slots of blocks 1 .. n-1, of which block b has count[b], are finite in
\* number.
LEMMA SlotsFinite ==
  ASSUME NEW n \in Nat, NEW S \in SUBSET ((1 .. n) \X {1, 2})
  PROVE  IsFiniteSet(S) /\ Cardinality(S) \in Nat
<1>1. IsFiniteSet(1 .. n)
  BY FS_Interval
<1>2. IsFiniteSet({1, 2})
  <2>1. IsFiniteSet({1} \cup {2})
    BY FS_Singleton, FS_Union
  <2>2. {1, 2} = {1} \cup {2}
    OBVIOUS
  <2> QED BY <2>1, <2>2
<1>3. IsFiniteSet((1 .. n) \X {1, 2})
  BY <1>1, <1>2, FS_Product
<1> QED BY <1>3, FS_Subset, FS_CardinalityType

-----------------------------------------------------------------------------
(* Basic blocks.                                                           *)

\* Every block made so far is a non-empty span of nodes.
LEMMA BlocksFacts ==
  ASSUME TypeOK, BlocksInv
  PROVE  /\ Len(basicblocks) \in Nat /\ DOMAIN basicblocks = 1 .. Len(basicblocks)
         /\ \A b \in 1 .. Len(basicblocks) :
              /\ basicblocks[b] \in BasicBlock
              /\ basicblocks[b].first \in 1 .. N
              /\ basicblocks[b].last \in basicblocks[b].first .. N
         /\ Start \in 1 .. (N + 1)
<1>1. /\ Len(basicblocks) \in Nat /\ DOMAIN basicblocks = 1 .. Len(basicblocks)
      /\ \A b \in 1 .. Len(basicblocks) : basicblocks[b] \in BasicBlock
  <2>1. basicblocks \in Seq(BasicBlock)
    BY DEF TypeOK
  <2> QED BY <2>1
<1>2. N \in Nat
  BY NodesFacts
<1>3. ASSUME NEW b \in 1 .. Len(basicblocks)
      PROVE  /\ basicblocks[b].first \in 1 .. N
             /\ basicblocks[b].last \in basicblocks[b].first .. N
  <2>1. /\ basicblocks[b].first \in Nat /\ basicblocks[b].last \in Nat
        /\ basicblocks[b].last <= N /\ basicblocks[b].first <= basicblocks[b].last
    BY <1>1 DEF BlocksInv, BlocksPartition, BasicBlock
  <2>2. basicblocks[b].first # 0
    <3>1. CASE b = 1
      BY <1>1, <3>1 DEF BlocksInv, BlocksPartition
    <3>2. CASE b # 1
      <4>1. b - 1 \in 1 .. Len(basicblocks)
        BY <1>1, <3>2
      <4>2. basicblocks[b - 1].last \in Nat
        BY <1>1, <4>1 DEF BasicBlock
      <4>3. basicblocks[b].first = basicblocks[b - 1].last + 1
        BY <1>1, <3>2 DEF BlocksInv, BlocksPartition
      <4> QED BY <4>2, <4>3
    <3> QED BY <3>1, <3>2
  <2> QED BY <1>2, <2>1, <2>2
<1>4. Start \in 1 .. (N + 1)
  <2>1. CASE basicblocks = << >>
    BY <1>2, <2>1 DEF Start
  <2>2. CASE basicblocks # << >>
    <3>1. Len(basicblocks) \in 1 .. Len(basicblocks)
      BY <1>1, <2>2 DEF TypeOK
    <3> QED BY <1>2, <1>3, <2>2, <3>1 DEF Start
  <2> QED BY <2>1, <2>2
<1> QED BY <1>1, <1>3, <1>4

\* The initial state satisfies the invariant of build().
LEMMA InitFlow == Init => FlowInv
<1> SUFFICES ASSUME Init PROVE FlowInv
  OBVIOUS
<1>1. N = 0 /\ Len(basicblocks) = 0 /\ DOMAIN basicblocks = {} /\ DOMAIN nodes = {} /\ Start = 1
  BY DEF Init, N, Start
<1>2. TypeOK
  BY DEF Init, TypeOK, Idle, Links
<1>3. BlocksInv
  <2>1. Needed = {}
    BY <1>1 DEF Needed
  <2> QED BY <1>1, <2>1, FS_EmptySet DEF Init, BlocksInv, BlocksPartition
<1>4. LabelsInv
  BY <1>1 DEF Init, LabelsInv, Labels
<1>5. NextInv
  BY <1>1 DEF Init, NextInv, Followed
<1>6. PrevInv
  <2>1. LinkSlots(1) = {} /\ EdgesTo(1) = {}
    BY DEF LinkSlots, EdgesTo
  <2>2. NextEnd(Len(basicblocks) + 1) = 0
    BY <1>1, <2>1, FS_EmptySet DEF Init, NextEnd
  <2> QED BY <1>1, <2>1, <2>2, FS_EmptySet DEF Init, PrevInv, Preceded
<1>7. FailedInv
  BY DEF Init, FailedInv
<1> QED BY <1>2, <1>3, <1>4, <1>5, <1>6, <1>7 DEF FlowInv

\* The start of build() establishes the invariant.
LEMMA BuildFlow == ASSUME NEW code \in Codes, Build(code) PROVE FlowInv'
<1>1. /\ (Len(basicblocks) = 0)' /\ (DOMAIN basicblocks = {})' /\ Start' = 1
      /\ basicblocks' = << >> /\ nodes' = code
  BY DEF Build, Start
<1>2. TypeOK'
  BY DEF Build, TypeOK, Idle, Links
<1>3. N' \in Nat /\ DOMAIN nodes' = 1 .. N' /\ (code = << >> <=> N' = 0)
  BY <1>1, CodesAssumption DEF N
<1>4. BlocksInv'
  <2>1. Needed' = {}
    BY <1>1 DEF Needed
  <2>2. jumps' = Cardinality(Needed')
    BY <2>1, FS_EmptySet DEF Build
  <2>3. BlocksPartition'
    BY <1>1, <1>3 DEF Build, BlocksPartition
  <2>4. IF phase' = "blocks" THEN nodes' # << >> ELSE Start' = N' + 1
    <3>1. CASE code = << >>
      BY <1>1, <1>3, <3>1 DEF Build
    <3>2. CASE code # << >>
      BY <1>1, <3>2 DEF Build
    <3> QED BY <3>1, <3>2
  <2> QED BY <1>1, <2>2, <2>3, <2>4 DEF BlocksInv
<1>5. LabelsInv'
  BY <1>1, <1>3 DEF Build, LabelsInv, Labels
<1>6. NextInv'
  BY <1>1 DEF Build, NextInv, Followed
<1>7. PrevInv'
  <2>1. LinkSlots(1)' = {} /\ EdgesTo(1)' = {}
    BY DEF LinkSlots, EdgesTo
  <2>2. Len(basicblocks') + 1 = 1 /\ label_n' = 0 /\ link_start' = 0
    BY <1>1 DEF Build
  <2>3. NextEnd(Len(basicblocks) + 1)' = 0
    BY <2>1, <2>2, FS_EmptySet DEF NextEnd
  <2>4. SUFFICES ASSUME phase' = "built"
                 PROVE  Preceded' = 1 /\ Cardinality(EdgesTo(1)') = 0
    BY <2>2, <2>3 DEF PrevInv, Build
  <2> QED BY <2>1, <2>2, <2>4, FS_EmptySet DEF Preceded
<1>8. FailedInv'
  BY DEF Build, FailedInv
<1> QED BY <1>2, <1>4, <1>5, <1>6, <1>7, <1>8 DEF FlowInv

\* One more block, from Start to LastNode(Start).
LEMMA AddBlockFlow == ASSUME FlowInv, AddBlock PROVE FlowInv'
<1> DEFINE n == Len(basicblocks)
           last == LastNode(Start)
           new == [first |-> Start, last |-> last, next |-> EmptySpan, prev |-> EmptySpan]
<1>1. TypeOK /\ BlocksInv /\ phase = "blocks" /\ Start <= N
  BY DEF FlowInv, AddBlock
<1>2. /\ basicblocks' = Append(basicblocks, new) /\ jumps' = jumps + JumpsFrom(last)
      /\ UNCHANGED <<phase, nodes, links, label_n, k, link_start>>
  BY DEF AddBlock
<1>3. /\ n \in Nat /\ DOMAIN basicblocks = 1 .. n /\ N \in Nat /\ Start \in 1 .. N
      /\ \A b \in 1 .. n : /\ basicblocks[b] \in BasicBlock /\ basicblocks[b].first \in 1 .. N
                           /\ basicblocks[b].last \in basicblocks[b].first .. N
  BY <1>1, BlocksFacts, NodesFacts
<1>4. /\ last \in Start .. N
      /\ \A p \in Start .. (last - 1) :
           /\ ~IsUncondJump(nodes[p]) /\ ~IsCondJump(nodes[p])
           /\ IsLabel(nodes[p + 1]) => IsLabel(nodes[p])
  BY <1>1, <1>3, BlockEnds
<1>5. ASSUME NEW p \in Start .. last, NEW q \in Start .. last, q <= p, IsLabel(nodes[p])
      PROVE  IsLabel(nodes[q])
  <2>1. q \in Start .. p
    BY <1>3, <1>4, <1>5
  <2> HIDE DEF last
  <2> QED BY <1>1, <1>3, <1>4, <1>5, <2>1, LabelsLead
<1> HIDE DEF last
<1>6. new \in BasicBlock
  BY <1>3, <1>4 DEF BasicBlock, Spans, EmptySpan
<1>7. Start = IF n = 0 THEN 1 ELSE basicblocks[n].last + 1
  <2>1. basicblocks = << >> <=> n = 0
    BY <1>1 DEF TypeOK
  <2> QED BY <2>1 DEF Start
<1>8. \A b \in 1 .. n : basicblocks[b].last < Start
  <2>1. ASSUME NEW b \in 1 .. n PROVE basicblocks[b].last < Start
    <3>1. CASE b = n
      <4>1. basicblocks[b].last \in Nat /\ Start = basicblocks[b].last + 1
        BY <1>3, <1>7, <2>1, <3>1
      <4> QED BY <4>1
    <3>2. CASE b < n
      <4>1. n \in 1 .. n /\ basicblocks[b].last < basicblocks[n].first
        BY <1>1, <1>3, <2>1, <3>2 DEF BlocksInv
      <4>2. basicblocks[n].last \in Nat /\ basicblocks[n].first \in Nat
            /\ basicblocks[n].first <= basicblocks[n].last /\ basicblocks[b].last \in Nat
        BY <1>3, <4>1
      <4> QED BY <1>7, <4>1, <4>2, <1>3
    <3>3. b = n \/ b < n
      <4>1. n \in Nat
        BY <1>3
      <4> HIDE DEF n
      <4> QED BY <2>1, <4>1
    <3> QED BY <3>1, <3>2, <3>3
  <2> QED BY <2>1
<1> HIDE DEF new
<1>9. /\ basicblocks' \in Seq(BasicBlock) /\ Len(basicblocks') = n + 1
      /\ DOMAIN basicblocks' = 1 .. (n + 1) /\ basicblocks'[n + 1] = new
      /\ \A b \in 1 .. n : basicblocks'[b] = basicblocks[b]
  <2>1. basicblocks \in Seq(BasicBlock)
    BY <1>1 DEF TypeOK
  <2> QED BY <1>2, <1>6, <2>1
<1>10. new.first = Start /\ new.last = last
  BY DEF new
<1>11. N' = N /\ Start' = last + 1
  <2>1. basicblocks' # << >>
    BY <1>3, <1>9
  <2> QED BY <1>2, <1>9, <1>10, <2>1 DEF N, Start
<1>12. TypeOK'
  <2>1. links = links' /\ DOMAIN basicblocks \subseteq DOMAIN basicblocks'
    BY <1>2, <1>3, <1>9
  <2>2. jumps' \in Nat
    BY <1>1, <1>2, JumpsFromType DEF TypeOK
  <2> QED BY <1>1, <1>2, <1>9, <2>1, <2>2 DEF TypeOK
<1>13. jumps' = Cardinality(Needed')
  <2> DEFINE c == JumpsFrom(last)
             T == Needed \cup {s \in {n + 1} \X {1, 2} : s[2] <= c}
  <2>1. \A p : JumpsFrom(p)' = JumpsFrom(p)
    BY <1>2, <1>11 DEF JumpsFrom
  <2>2. Needed \in SUBSET ((1 .. n) \X {1, 2})
    BY <1>3 DEF Needed
  <2>3. IsFiniteSet(Needed) /\ <<n + 1, 1>> \notin Needed /\ <<n + 1, 2>> \notin Needed
    BY <1>3, <2>2, SlotsFinite
  <2>4. Cardinality(T) = Cardinality(Needed) + c
    BY <2>3, JumpsFromType, AddSlots
  <2>5. Needed' = T
    <3>1. Needed' = {s \in (1 .. (n + 1)) \X {1, 2} : s[2] <= JumpsFrom(basicblocks'[s[1]].last)}
      BY <1>9, <2>1 DEF Needed
    <3>2. Needed = {s \in (1 .. n) \X {1, 2} : s[2] <= JumpsFrom(basicblocks'[s[1]].last)}
      BY <1>3, <1>9 DEF Needed
    <3>3. c = JumpsFrom(basicblocks'[n + 1].last)
      BY <1>9, <1>10
    <3> HIDE DEF c, n
    <3>4. 1 .. (n + 1) = (1 .. n) \cup {n + 1}
      BY <1>3
    <3> QED BY <3>1, <3>2, <3>3, <3>4
  <2> QED BY <1>1, <1>2, <2>4, <2>5 DEF BlocksInv
<1>14. BlocksPartition'
  <2>1. ASSUME NEW b \in 1 .. (n + 1)
        PROVE  /\ basicblocks'[b].first = (IF b = 1 THEN 1 ELSE basicblocks'[b - 1].last + 1)
               /\ basicblocks'[b].first <= basicblocks'[b].last
               /\ \A p \in basicblocks'[b].first .. (basicblocks'[b].last - 1) :
                    /\ ~IsUncondJump(nodes[p]) /\ ~IsCondJump(nodes[p])
                    /\ IsLabel(nodes[p + 1]) => IsLabel(nodes[p])
    <3>1. CASE b = n + 1
      <4>1. b # 1 => b - 1 = n /\ n \in 1 .. n
        BY <1>3, <3>1
      <4>2. basicblocks'[b].first = (IF b = 1 THEN 1 ELSE basicblocks'[b - 1].last + 1)
        BY <1>3, <1>7, <1>9, <1>10, <3>1, <4>1
      <4> QED BY <1>3, <1>4, <1>9, <1>10, <3>1, <4>2
    <3>2. CASE b \in 1 .. n
      <4>1. b # 1 => b - 1 \in 1 .. n
        BY <1>3, <3>2
      <4> QED BY <1>1, <1>3, <1>9, <3>2, <4>1 DEF BlocksInv, BlocksPartition
    <3> QED BY <1>3, <2>1, <3>1, <3>2
  <2> QED BY <1>1, <1>2, <1>9, <2>1 DEF BlocksPartition
<1>15. ASSUME NEW b \in 1 .. (n + 1)
       PROVE  /\ basicblocks'[b].last <= N
              /\ \A c \in 1 .. (n + 1) : b < c => basicblocks'[b].last < basicblocks'[c].first
              /\ \A p, q \in basicblocks'[b].first .. basicblocks'[b].last :
                   q <= p /\ IsLabel(nodes[p]) => IsLabel(nodes[q])
  <2>1. CASE b = n + 1
    <3>1. basicblocks'[b].first = Start /\ basicblocks'[b].last = last
      BY <1>9, <1>10, <2>1
    <3>2. \A c \in 1 .. (n + 1) : ~(b < c)
      BY <1>3, <2>1
    <3>3. last <= N
      BY <1>3, <1>4
    <3> HIDE DEF last
    <3> QED BY <1>5, <3>1, <3>2, <3>3
  <2>2. CASE b \in 1 .. n
    <3>1. ASSUME NEW c \in 1 .. (n + 1), b < c
          PROVE  basicblocks'[b].last < basicblocks'[c].first
      <4>1. CASE c = n + 1
        BY <1>8, <1>9, <1>10, <2>2, <4>1
      <4>2. CASE c \in 1 .. n
        BY <1>1, <1>3, <1>9, <2>2, <3>1, <4>2 DEF BlocksInv
      <4> QED BY <1>3, <3>1, <4>1, <4>2
    <3> QED BY <1>1, <1>3, <1>9, <2>2, <3>1 DEF BlocksInv
  <2> QED BY <1>3, <1>15, <2>1, <2>2
<1>16. ASSUME NEW p \in 1 .. (Start' - 1) PROVE (\E b \in DOMAIN basicblocks : In(p, b))'
  <2>1. CASE p < Start
    <3>1. p \in 1 .. (Start - 1)
      BY <1>3, <1>4, <1>11, <1>16, <2>1
    <3>2. PICK b \in 1 .. n : p \in basicblocks[b].first .. basicblocks[b].last
      BY <1>1, <1>3, <3>1 DEF BlocksInv, In
    <3> QED BY <1>9, <3>2 DEF In
  <2>2. CASE ~(p < Start)
    <3>1. p \in Start .. last
      BY <1>3, <1>4, <1>11, <1>16, <2>2
    <3> QED BY <1>3, <1>9, <1>10, <3>1 DEF In
  <2> QED BY <2>1, <2>2
<1>17. BlocksInv'
  <2>1. phase' = "blocks" /\ nodes' = nodes /\ nodes # << >>
    BY <1>1, <1>2 DEF BlocksInv
  <2> QED BY <1>9, <1>11, <1>13, <1>14, <1>15, <1>16, <2>1 DEF BlocksInv
<1> QED BY <1>1, <1>2, <1>12, <1>17 DEF FlowInv, LabelsInv, NextInv, PrevInv, FailedInv

\* The later loops write the spans of blocks only: everything that depends on
\* where blocks start and end is kept.
LEMMA ShapeKept ==
  ASSUME TypeOK, BlocksInv, Start = N + 1, nodes' = nodes, jumps' = jumps, phase' # "blocks",
         basicblocks' \in Seq(BasicBlock), Len(basicblocks') = Len(basicblocks),
         \A b \in 1 .. Len(basicblocks) : /\ basicblocks'[b].first = basicblocks[b].first
                                          /\ basicblocks'[b].last = basicblocks[b].last
  PROVE  /\ BlocksInv' /\ N' = N /\ Labels' = Labels
         /\ \A b \in 1 .. Len(basicblocks) :
              /\ LeadingLabels(b)' = LeadingLabels(b)
              /\ LastOf(b)' = LastOf(b) /\ Falls(b)' = Falls(b) /\ LinkCount(b)' = LinkCount(b)
         /\ \A m \in 1 .. (Len(basicblocks) + 1) : LinkSlots(m)' = LinkSlots(m)
<1> DEFINE n == Len(basicblocks)
<1>1. /\ n \in Nat /\ DOMAIN basicblocks = 1 .. n /\ DOMAIN basicblocks' = 1 .. n
      /\ Len(basicblocks') = n
  BY BlocksFacts
<1>2. N' = N
  BY DEF N
<1>3. Labels' = Labels
  BY DEF Labels
<1>4. ASSUME NEW b \in 1 .. n
      PROVE  /\ basicblocks'[b].first = basicblocks[b].first
             /\ basicblocks'[b].last = basicblocks[b].last
             /\ LeadingLabels(b)' = LeadingLabels(b)
             /\ LastOf(b)' = LastOf(b) /\ Falls(b)' = Falls(b) /\ LinkCount(b)' = LinkCount(b)
  <2>1. /\ basicblocks'[b].first = basicblocks[b].first
        /\ basicblocks'[b].last = basicblocks[b].last
    BY <1>4
  <2>2. LeadingLabels(b)' = LeadingLabels(b)
    BY <2>1 DEF LeadingLabels
  <2>3. LastOf(b)' = LastOf(b)
    BY <2>1 DEF LastOf
  <2>4. Falls(b)' = Falls(b)
    BY <1>1, <2>3 DEF Falls
  <2>5. LinkCount(b)' = LinkCount(b)
    BY <2>3, <2>4 DEF LinkCount
  <2> QED BY <2>1, <2>2, <2>3, <2>4, <2>5
<1>5. ASSUME NEW m \in 1 .. (n + 1) PROVE LinkSlots(m)' = LinkSlots(m)
  <2>1. \A b \in 1 .. (m - 1) : LinkCount(b)' = LinkCount(b)
    BY <1>1, <1>4
  <2> QED BY <2>1 DEF LinkSlots
<1>6. Start' = Start
  <2>1. /\ basicblocks \in Seq(BasicBlock) /\ (basicblocks = << >> <=> n = 0)
        /\ (basicblocks' = << >> <=> n = 0)
    BY <1>1 DEF TypeOK
  <2>2. n # 0 => n \in 1 .. n
    BY <1>1
  <2> QED BY <1>1, <1>4, <2>1, <2>2 DEF Start
<1>7. Needed' = Needed
  <2>1. \A p : JumpsFrom(p)' = JumpsFrom(p)
    BY <1>2 DEF JumpsFrom
  <2> QED BY <1>1, <1>4, <2>1 DEF Needed
<1>8. BlocksPartition'
  <2>1. \A b \in 1 .. n : b # 1 => b - 1 \in 1 .. n
    BY <1>1
  <2>2. \A b \in 1 .. n : basicblocks'[b].first = (IF b = 1 THEN 1 ELSE basicblocks'[b - 1].last + 1)
    BY <1>1, <1>4, <2>1 DEF BlocksInv, BlocksPartition
  <2>3. nodes # << >> => basicblocks'[Len(basicblocks')].last = N
    <3>1. nodes # << >> => n # 0
      BY <1>1, NodesFacts DEF TypeOK, N, Start
    <3>2. n # 0 => n \in 1 .. n /\ basicblocks # << >>
      BY <1>1
    <3>3. ASSUME n # 0 PROVE basicblocks'[n].last = N
      <4>1. basicblocks[n].last + 1 = N + 1
        BY <3>2, <3>3 DEF Start
      <4>2. basicblocks[n].last \in Nat /\ N \in Nat
        BY <1>1, <3>2, <3>3, BlocksFacts, NodesFacts DEF BasicBlock
      <4> QED BY <1>4, <3>2, <3>3, <4>1, <4>2
    <3> QED BY <1>1, <3>1, <3>3
  <2>4. \A b \in 1 .. n :
          /\ basicblocks[b].first <= basicblocks[b].last
          /\ \A p \in basicblocks[b].first .. (basicblocks[b].last - 1) :
               /\ ~IsUncondJump(nodes[p]) /\ ~IsCondJump(nodes[p])
               /\ IsLabel(nodes[p + 1]) => IsLabel(nodes[p])
    BY <1>1 DEF BlocksInv, BlocksPartition
  <2> HIDE DEF n
  <2> QED BY <1>1, <1>2, <1>4, <2>2, <2>3, <2>4 DEF BlocksPartition
<1>9. BlocksInv'
  <2>1. \A b \in 1 .. n :
          /\ basicblocks[b].last <= N
          /\ \A c \in 1 .. n : b < c => basicblocks[b].last < basicblocks[c].first
          /\ \A p, q \in basicblocks[b].first .. basicblocks[b].last :
               q <= p /\ IsLabel(nodes[p]) => IsLabel(nodes[q])
    BY <1>1 DEF BlocksInv
  <2>2. \A b \in 1 .. n :
          /\ basicblocks'[b].last <= N
          /\ \A c \in 1 .. n : b < c => basicblocks'[b].last < basicblocks'[c].first
          /\ \A p, q \in basicblocks'[b].first .. basicblocks'[b].last :
               q <= p /\ IsLabel(nodes[p]) => IsLabel(nodes[q])
    BY <1>4, <2>1
  <2>3. \A p \in 1 .. (Start - 1) : \E b \in 1 .. n : p \in basicblocks'[b].first .. basicblocks'[b].last
    BY <1>1, <1>4 DEF BlocksInv, In
  <2>4. jumps' = Cardinality(Needed')
    BY <1>7 DEF BlocksInv
  <2> HIDE DEF n
  <2> QED BY <1>1, <1>2, <1>6, <1>8, <2>2, <2>3, <2>4 DEF BlocksInv, In
<1> QED BY <1>2, <1>3, <1>4, <1>5, <1>9

\* The labels of the code are known now, and links_ is allocated.
LEMMA EndBlocksFlow == ASSUME FlowInv, EndBlocks PROVE FlowInv'
<1> DEFINE n == Len(basicblocks)
<1>1. TypeOK /\ BlocksInv /\ phase = "blocks" /\ Start > N
  BY DEF FlowInv, EndBlocks
<1>2. /\ phase' = "labels" /\ label_n' = LabelCount
      /\ links' = Links(LabelCount + 2 * jumps)
      /\ UNCHANGED <<nodes, basicblocks, jumps, k, link_start>>
  BY DEF EndBlocks
<1>3. n \in Nat /\ DOMAIN basicblocks = 1 .. n /\ N \in Nat /\ Start \in 1 .. (N + 1)
  BY <1>1, BlocksFacts, NodesFacts
<1>4. LabelCount \in Nat /\ Labels \subseteq 0 .. (LabelCount - 1)
  BY <1>1, LabelCountFacts
<1>5. Start = N + 1 /\ N' = N /\ Start' = Start
  BY <1>1, <1>2, <1>3 DEF N, Start
<1>6. 1 \in DOMAIN basicblocks
  <2>1. N # 0
    BY <1>1, NodesFacts DEF BlocksInv, TypeOK, N
  <2>2. Start # 1
    BY <1>3, <1>5, <2>1
  <2>3. basicblocks # << >> /\ basicblocks \in Seq(BasicBlock)
    BY <1>1, <2>2 DEF Start, TypeOK
  <2> QED BY <1>3, <2>3
<1>7. k = 1 /\ k' = 1
  BY <1>1, <1>2 DEF TypeOK
<1>8. /\ DOMAIN links' = 0 .. (label_n' + 2 * jumps') - 1
      /\ \A l \in DOMAIN links' : links'[l] = NoBlock
  BY <1>2 DEF Links
<1>9. TypeOK'
  <2>1. links' \in [0 .. (label_n' + 2 * jumps') - 1 -> DOMAIN basicblocks' \cup {NoBlock}]
    BY <1>2 DEF Links
  <2>2. k' <= Len(basicblocks')
    BY <1>2, <1>3, <1>6, <1>7
  <2> QED BY <1>1, <1>2, <1>4, <2>1, <2>2 DEF TypeOK
<1>10. BlocksInv' /\ Labels' = Labels
  <2>1. basicblocks \in Seq(BasicBlock)
    BY <1>1 DEF TypeOK
  <2> QED BY <1>1, <1>2, <1>5, <2>1, ShapeKept
<1>11. LabelsInv'
  <2>2. Labelled' = 1 /\ \A l \in 0 .. (label_n' - 1) : links'[l] = NoBlock
    <3>1. 0 .. (label_n' - 1) \subseteq DOMAIN links'
      BY <1>1, <1>2, <1>4, <1>8 DEF TypeOK
    <3> QED BY <1>2, <1>7, <1>8, <3>1 DEF Labelled
  <2> QED BY <1>2, <1>4, <1>10, <2>2 DEF LabelsInv
<1> QED BY <1>2, <1>9, <1>10, <1>11 DEF FlowInv, NextInv, PrevInv, FailedInv

-----------------------------------------------------------------------------
(* Links.                                                                  *)

\* links_ starts with the table of labels, and refers to blocks.
LEMMA LinksFacts ==
  ASSUME TypeOK, BlocksInv, phase # "blocks"
  PROVE  /\ label_n \in Nat /\ jumps \in Nat /\ link_start \in Nat
         /\ DOMAIN links = 0 .. (label_n + 2 * jumps - 1)
         /\ 0 .. (label_n - 1) \subseteq DOMAIN links
         /\ \A x \in DOMAIN links : links[x] \in 0 .. Len(basicblocks)
         /\ Start = N + 1
         /\ phase \in {"labels", "next", "prev"} => k \in 1 .. Len(basicblocks)
<1>1. Len(basicblocks) \in Nat /\ DOMAIN basicblocks = 1 .. Len(basicblocks)
  BY BlocksFacts
<1>2. /\ label_n \in Nat /\ jumps \in Nat /\ link_start \in Nat /\ k \in Nat \ {0}
      /\ links \in [0 .. (label_n + 2 * jumps) - 1 -> DOMAIN basicblocks \cup {NoBlock}]
      /\ phase \in {"labels", "next", "prev"} => k <= Len(basicblocks)
  BY DEF TypeOK
<1>3. Start = N + 1
  BY DEF BlocksInv
<1> QED BY <1>1, <1>2, <1>3 DEF NoBlock

\* One iteration of resolve_labels().
LEMMA ResolveLabelsFlow == ASSUME FlowInv, ResolveLabels PROVE FlowInv'
<1> DEFINE n == Len(basicblocks)
<1>1. TypeOK /\ BlocksInv /\ LabelsInv /\ phase = "labels"
  BY DEF FlowInv, ResolveLabels
<1>2. /\ links' = [x \in DOMAIN links |-> IF x \in LeadingLabels(k) THEN k ELSE links[x]]
      /\ link_start' = label_n
      /\ UNCHANGED <<nodes, basicblocks, label_n, jumps>>
  BY DEF ResolveLabels
<1>3. /\ n \in Nat /\ DOMAIN basicblocks = 1 .. n /\ k \in 1 .. n /\ label_n \in Nat /\ jumps \in Nat
      /\ DOMAIN links = 0 .. (label_n + 2 * jumps - 1) /\ Start = N + 1
      /\ 0 .. (label_n - 1) \subseteq DOMAIN links
      /\ \A x \in DOMAIN links : links[x] \in 0 .. n
  BY <1>1, BlocksFacts, LinksFacts
<1>4. \/ k < n /\ k' = k + 1 /\ phase' = "labels"
      \/ k = n /\ k' = 1 /\ phase' = "next"
  BY <1>1, <1>3 DEF ResolveLabels, Advance
<1>5. TypeOK'
  <2>1. links' \in [0 .. (label_n + 2 * jumps) - 1 -> (1 .. n) \cup {NoBlock}]
    BY <1>2, <1>3 DEF NoBlock
  <2>2. k' \in Nat \ {0} /\ k' <= n
    <3>1. n \in Nat /\ k \in 1 .. n
      BY <1>3
    <3> HIDE DEF n
    <3> QED BY <1>4, <3>1
  <2>3. basicblocks \in Seq(BasicBlock) /\ nodes \in Codes \cup {<< >>}
    BY <1>1 DEF TypeOK
  <2> QED BY <1>2, <1>3, <1>4, <2>1, <2>2, <2>3 DEF TypeOK
<1>6. /\ BlocksInv' /\ Labels' = Labels
      /\ \A b \in 1 .. n : LeadingLabels(b)' = LeadingLabels(b)
  <2>1. basicblocks \in Seq(BasicBlock)
    BY <1>1 DEF TypeOK
  <2> QED BY <1>1, <1>2, <1>3, <1>4, <2>1, ShapeKept
<1>7. LabelsInv'
  <2>1. Labelled = k /\ Labelled' = k + 1
    BY <1>1, <1>2, <1>3, <1>4 DEF Labelled
  <2>2. ASSUME NEW l \in 0 .. (label_n - 1)
        PROVE  /\ links'[l] # NoBlock => links'[l] \in 1 .. k /\ l \in LeadingLabels(links'[l])
               /\ \A b \in 1 .. k : l \in LeadingLabels(b) => links'[l] # NoBlock
    <3>1. /\ links[l] \in 0 .. n
          /\ links'[l] = IF l \in LeadingLabels(k) THEN k ELSE links[l]
      BY <1>2, <1>3, <2>2
    <3>2. /\ links[l] # NoBlock => links[l] < k /\ l \in LeadingLabels(links[l])
          /\ \A b \in 1 .. (k - 1) : l \in LeadingLabels(b) => links[l] # NoBlock
      BY <1>1, <2>1, <2>2 DEF LabelsInv
    <3>3. CASE l \in LeadingLabels(k)
      BY <1>3, <3>1, <3>3 DEF NoBlock
    <3>4. CASE l \notin LeadingLabels(k)
      <4>1. \A b \in 1 .. k : l \in LeadingLabels(b) => b \in 1 .. (k - 1)
        BY <1>3, <3>4
      <4> QED BY <1>3, <3>1, <3>2, <3>4, <4>1 DEF NoBlock
    <3> QED BY <3>3, <3>4
  <2>3. Labels' \subseteq 0 .. (label_n' - 1)
    BY <1>1, <1>2, <1>6 DEF LabelsInv
  <2>4. ASSUME NEW l \in 0 .. (label_n' - 1)
        PROVE  /\ links'[l] # NoBlock => links'[l] < k + 1 /\ l \in LeadingLabels(links[l])'
               /\ \A b \in 1 .. k : l \in LeadingLabels(b)' => links'[l] # NoBlock
    <3>1. \A b \in 1 .. k : LeadingLabels(b)' = LeadingLabels(b)
      BY <1>3, <1>6
    <3>2. LeadingLabels(links[l])' = {nodes'[p].l : p \in
             {q \in basicblocks'[links'[l]].first .. basicblocks'[links'[l]].last :
                \A r \in basicblocks'[links'[l]].first .. q : IsLabel(nodes'[r])}}
      BY DEF LeadingLabels
    <3>3. LeadingLabels(links[l])' = LeadingLabels(links'[l])
      BY <1>2, <3>2 DEF LeadingLabels
    <3>4. l \in 0 .. (label_n - 1)
      BY <1>2, <2>4
    <3>5. links'[l] \in 1 .. k => links'[l] < k + 1
      BY <1>3
    <3> QED BY <2>2, <3>1, <3>3, <3>4, <3>5
  <2> QED BY <1>3, <2>1, <2>3, <2>4 DEF LabelsInv
<1>8. NextInv'
  <2>1. CASE phase' = "labels"
    BY <2>1 DEF NextInv
  <2>2. CASE phase' = "next" /\ k' = 1
    <3>1. LinkSlots(1)' = {}
      BY DEF LinkSlots
    <3>2. NextEnd(k)' = label_n
      BY <1>2, <1>3, <2>2, <3>1, FS_EmptySet DEF NextEnd
    <3> QED BY <1>2, <2>2, <3>2 DEF NextInv, Followed
  <2> QED BY <1>4, <2>1, <2>2
<1> QED BY <1>4, <1>5, <1>6, <1>7, <1>8 DEF FlowInv, PrevInv, FailedInv

\* A jump from the last node of a block, and a continuation with the next block,
\* need no more links than build_basicblocks() counted for the block.
LEMMA LinkCountBound ==
  ASSUME TypeOK, BlocksInv, NEW b \in 1 .. Len(basicblocks)
  PROVE  LinkCount(b) \in {0, 1, 2} /\ LinkCount(b) <= JumpsFrom(basicblocks[b].last)
<1> DEFINE p == basicblocks[b].last
<1>1. /\ Len(basicblocks) \in Nat /\ DOMAIN basicblocks = 1 .. Len(basicblocks)
      /\ p \in 1 .. N /\ N \in Nat
  BY BlocksFacts, NodesFacts
<1>2. b < Len(basicblocks) => p < N
  <2> SUFFICES ASSUME b < Len(basicblocks) PROVE p < N
    OBVIOUS
  <2>1. b + 1 \in 1 .. Len(basicblocks) /\ b < b + 1
    BY <1>1
  <2>2. p < basicblocks[b + 1].first /\ basicblocks[b + 1].first \in 1 .. N
    BY <1>1, <2>1, BlocksFacts DEF BlocksInv
  <2> HIDE DEF p
  <2> QED BY <1>1, <2>2
<1>3. LastOf(b) = nodes[p]
  BY DEF LastOf
<1> HIDE DEF p
<1>4. JumpsToLabel(nodes[p]) => IsUncondJump(nodes[p]) \/ IsCondJump(nodes[p])
  BY DEF JumpsToLabel, IsUncondJump, IsCondJump
<1>5. LinkCount(b) \in {0, 1, 2} /\ LinkCount(b) <= JumpsFrom(p)
  BY <1>1, <1>2, <1>3, <1>4 DEF LinkCount, JumpsFrom, Falls
<1> QED BY <1>5 DEF p

\* Where the spans of resolve_next() end.
LEMMA NextEndFacts ==
  ASSUME TypeOK, BlocksInv, phase # "blocks", NEW m \in 1 .. (Len(basicblocks) + 1)
  PROVE  /\ NextEnd(m) \in label_n .. (label_n + jumps)
         /\ m <= Len(basicblocks) => NextEnd(m + 1) = NextEnd(m) + LinkCount(m)
<1> DEFINE n == Len(basicblocks)
<1>1. n \in Nat /\ DOMAIN basicblocks = 1 .. n /\ label_n \in Nat
  BY BlocksFacts, LinksFacts
<1>2. \A b \in 1 .. n : LinkCount(b) \in {0, 1, 2} /\ LinkCount(b) <= JumpsFrom(basicblocks[b].last)
  BY LinkCountBound
<1>3. \A b : JumpsFrom(b) \in {0, 1, 2}
  BY JumpsFromType
<1> HIDE DEF n
<1>4. LinkSlots(m) \in SUBSET ((1 .. n) \X {1, 2})
  BY <1>1 DEF LinkSlots, n
<1>5. IsFiniteSet(LinkSlots(m)) /\ Cardinality(LinkSlots(m)) \in Nat
  BY <1>1, <1>4, SlotsFinite
<1>6. NextEnd(m) \in label_n .. (label_n + jumps)
  <2>1. Needed \in SUBSET ((1 .. n) \X {1, 2})
    BY <1>1 DEF Needed
  <2>2. IsFiniteSet(Needed) /\ Cardinality(Needed) \in Nat
    BY <1>1, <2>1, SlotsFinite
  <2>3. ASSUME NEW s \in LinkSlots(m) PROVE s \in Needed
    <3>1. /\ s \in (1 .. n) \X {1, 2} /\ s[1] \in 1 .. n /\ s[2] \in {1, 2}
          /\ s[2] <= LinkCount(s[1])
      BY <1>4 DEF LinkSlots
    <3>2. s[2] <= JumpsFrom(basicblocks[s[1]].last)
      BY <1>2, <1>3, <3>1
    <3> QED BY <1>1, <3>1, <3>2 DEF Needed
  <2>4. Cardinality(LinkSlots(m)) <= Cardinality(Needed)
    BY <2>2, <2>3, FS_Subset
  <2>5. jumps = Cardinality(Needed)
    BY DEF BlocksInv
  <2> QED BY <1>1, <1>5, <2>2, <2>4, <2>5 DEF NextEnd
<1>7. ASSUME m <= n PROVE NextEnd(m + 1) = NextEnd(m) + LinkCount(m)
  <2>1. m \in 1 .. n
    BY <1>1, <1>7 DEF n
  <2> DEFINE c == LinkCount(m)
             T == LinkSlots(m) \cup {s \in {m} \X {1, 2} : s[2] <= c}
  <2>2. c \in {0, 1, 2}
    BY <1>2, <2>1
  <2>3. <<m, 1>> \notin LinkSlots(m) /\ <<m, 2>> \notin LinkSlots(m)
    BY <1>1, <2>1 DEF LinkSlots
  <2>4. Cardinality(T) = Cardinality(LinkSlots(m)) + c
    BY <1>5, <2>2, <2>3, AddSlots
  <2>5. LinkSlots(m + 1) = T
    <3>1. 1 .. ((m + 1) - 1) = (1 .. (m - 1)) \cup {m}
      BY <1>1, <2>1
    <3> QED BY <3>1 DEF LinkSlots
  <2> HIDE DEF T
  <2> QED BY <1>1, <1>5, <2>2, <2>4, <2>5 DEF NextEnd
<1> QED BY <1>6, <1>7 DEF n

\* A span within links_ has the elements that were asked for.
LEMMA SpanFacts ==
  ASSUME TypeOK, BlocksInv, phase # "blocks",
         NEW lo \in Nat, NEW hi \in Nat, lo <= hi, hi <= label_n + 2 * jumps
  PROVE  Span(lo, hi) \in Spans /\ Indices(Span(lo, hi)) = lo .. (hi - 1)
<1>1. label_n \in Nat /\ jumps \in Nat /\ DOMAIN links = 0 .. (label_n + 2 * jumps - 1)
  BY LinksFacts
<1>2. CASE lo < hi
  <2>1. Span(lo, hi) = [lo |-> lo, hi |-> hi]
    BY <1>1, <1>2 DEF Span
  <2> QED BY <2>1 DEF Spans, Indices
<1>3. CASE lo = hi
  <2>1. Span(lo, hi) = [lo |-> 0, hi |-> 0]
    BY <1>3 DEF Span, EmptySpan
  <2> QED BY <1>3, <2>1 DEF Spans, Indices
<1> QED BY <1>2, <1>3

\* The table of labels is kept by the loops after resolve_labels().
LEMMA LabelsKept ==
  ASSUME TypeOK, BlocksInv, LabelsInv, phase \notin {"blocks", "labels"},
         phase' \notin {"blocks", "labels"}, label_n' = label_n,
         Len(basicblocks') = Len(basicblocks), Labels' = Labels, nodes' = nodes,
         \A b \in 1 .. Len(basicblocks) : LeadingLabels(b)' = LeadingLabels(b),
         \A l \in 0 .. (label_n - 1) : links'[l] = links[l]
  PROVE  LabelsInv'
<1> DEFINE n == Len(basicblocks)
<1>1. /\ n \in Nat /\ 0 .. (label_n - 1) \subseteq DOMAIN links
      /\ \A x \in DOMAIN links : links[x] \in 0 .. n
  BY BlocksFacts, LinksFacts
<1>2. Labelled' = n + 1 /\ Labelled = n + 1
  BY DEF Labelled
<1>3. ASSUME NEW l \in 0 .. (label_n - 1)
      PROVE  /\ links'[l] # NoBlock => links'[l] < n + 1 /\ l \in LeadingLabels(links[l])'
             /\ \A b \in 1 .. n : l \in LeadingLabels(b)' => links'[l] # NoBlock
  <2>1. links'[l] = links[l] /\ links[l] \in 0 .. n
    BY <1>1, <1>3
  <2>2. LeadingLabels(links[l])' = {nodes'[p].l : p \in
           {q \in basicblocks'[links'[l]].first .. basicblocks'[links'[l]].last :
              \A r \in basicblocks'[links'[l]].first .. q : IsLabel(nodes'[r])}}
    BY DEF LeadingLabels
  <2>3. \A b \in 1 .. n : LeadingLabels(b) = {nodes'[p].l : p \in
           {q \in basicblocks'[b].first .. basicblocks'[b].last :
              \A r \in basicblocks'[b].first .. q : IsLabel(nodes'[r])}}
    BY DEF LeadingLabels
  <2>4. links[l] \in 1 .. n => LeadingLabels(links[l])' = LeadingLabels(links[l])
    BY <2>1, <2>2, <2>3
  <2>5. /\ links[l] # NoBlock => links[l] < n + 1 /\ l \in LeadingLabels(links[l])
        /\ \A b \in 1 .. n : l \in LeadingLabels(b) => links[l] # NoBlock
    BY <1>1, <1>2, <1>3 DEF LabelsInv
  <2> QED BY <1>1, <2>1, <2>4, <2>5 DEF NoBlock
<1> QED BY <1>1, <1>2, <1>3 DEF LabelsInv

\* What one iteration of resolve_next() writes: the links of block k, next to
\* those of the blocks before it.
LEMMA ResolveNextWrites ==
  ASSUME FlowInv, ResolveNext
  PROVE  LET s == link_start
             e == link_start + LinkCount(k)
         IN  /\ s = NextEnd(k) /\ e = NextEnd(k + 1) /\ s \in label_n .. e /\ e <= label_n + jumps
             /\ link_start' = e
             /\ DOMAIN links' = DOMAIN links
             /\ \A x \in DOMAIN links : links'[x] \in 0 .. Len(basicblocks)
             /\ \A x \in DOMAIN links : x < s => links'[x] = links[x]
             /\ {links'[x] : x \in s .. (e - 1)} = Targets(k)
             /\ basicblocks' = [basicblocks EXCEPT ![k].next = Span(s, e)]
             /\ JumpsToLabel(LastOf(k)) => Found(LastOf(k).l)
<1> DEFINE n == Len(basicblocks)
           s == link_start
           e == link_start + LinkCount(k)
           l == LastOf(k).l
           D == DOMAIN links
<1>1. TypeOK /\ BlocksInv /\ phase = "next" /\ NextInv
  BY DEF FlowInv, ResolveNext
<1>2. /\ n \in Nat /\ DOMAIN basicblocks = 1 .. n /\ k \in 1 .. n /\ label_n \in Nat /\ jumps \in Nat
      /\ D = 0 .. (label_n + 2 * jumps - 1) /\ \A x \in D : links[x] \in 0 .. n
      /\ s \in Nat
  BY <1>1, BlocksFacts, LinksFacts
<1>3. LastOf(k) \in Node /\ l \in Nat
  <2>1. basicblocks[k].first \in 1 .. N /\ basicblocks[k].last \in basicblocks[k].first .. N
    BY <1>1, <1>2, BlocksFacts
  <2>2. basicblocks[k].last \in 1 .. N
    BY <2>1
  <2>3. LastOf(k) \in Node
    BY <1>1, <2>2, NodesFacts DEF LastOf
  <2> QED BY <2>3 DEF Node
<1>4. LinkCount(k) \in {0, 1, 2}
  BY <1>1, <1>2, LinkCountBound
<1>5. s = NextEnd(k) /\ e = NextEnd(k + 1) /\ s \in label_n .. e /\ e <= label_n + jumps
  <2>1. s = NextEnd(k)
    BY <1>1 DEF NextInv
  <2>2. k \in 1 .. (n + 1) /\ k + 1 \in 1 .. (n + 1) /\ k <= n
    BY <1>2
  <2>3. /\ NextEnd(k) \in label_n .. (label_n + jumps)
        /\ NextEnd(k + 1) \in label_n .. (label_n + jumps)
        /\ NextEnd(k + 1) = NextEnd(k) + LinkCount(k)
    BY <1>1, <2>2, NextEndFacts
  <2> QED BY <1>2, <1>4, <2>1, <2>3
<1>6. JumpsToLabel(LastOf(k)) => Found(l) /\ l \in 0 .. (label_n - 1)
  BY <1>2, <1>3 DEF ResolveNext, Found
<1>7. Falls(k) => k + 1 \in 1 .. n
  BY <1>2 DEF Falls
<1> DEFINE ls == IF Falls(k) THEN Put(links, s, k + 1) ELSE links
           mid == IF Falls(k) THEN s + 1 ELSE s
<1>8. e = IF JumpsToLabel(LastOf(k)) THEN mid + 1 ELSE mid
  BY <1>2 DEF LinkCount
<1>9. /\ links' = IF JumpsToLabel(LastOf(k)) THEN Put(ls, mid, ls[l]) ELSE ls
      /\ basicblocks' = [basicblocks EXCEPT ![k].next = Span(s, e)]
      /\ link_start' = e
  BY <1>8 DEF ResolveNext
<1>10. \A x \in s .. (e - 1) : x \in D
  <2>1. e \in Nat /\ s \in Nat /\ label_n <= s
    BY <1>2, <1>4, <1>5
  <2> HIDE DEF e, s, D
  <2> QED BY <1>2, <1>5, <2>1
<1>11. /\ DOMAIN ls = D
       /\ \A x \in D : ls[x] = IF Falls(k) /\ x = s THEN k + 1 ELSE links[x]
  BY DEF Put
<1> HIDE DEF ls
<1>12. JumpsToLabel(LastOf(k)) => l \in D /\ l < s /\ ls[l] = links[l] /\ links[l] \in 0 .. n
  <2>1. JumpsToLabel(LastOf(k)) => l \in D /\ l < s
    BY <1>2, <1>5, <1>6
  <2> QED BY <1>2, <1>11, <2>1
<1>13. /\ DOMAIN links' = D
       /\ \A x \in D : links'[x] = IF JumpsToLabel(LastOf(k)) /\ x = mid THEN links[l] ELSE ls[x]
  BY <1>9, <1>11, <1>12 DEF Put
<1>14. \A x \in D : links'[x] \in 0 .. n
  BY <1>2, <1>7, <1>11, <1>12, <1>13
<1>15. \A x \in D : x < s => links'[x] = links[x]
  BY <1>2, <1>11, <1>13
<1>16. {links'[x] : x \in s .. (e - 1)} = Targets(k)
  <2>1. CASE Falls(k) /\ JumpsToLabel(LastOf(k))
    <3>1. s .. (e - 1) = {s, s + 1} /\ s \in D /\ s + 1 \in D /\ mid = s + 1
      BY <1>2, <1>8, <1>10, <2>1
    <3>2. links'[s] = k + 1 /\ links'[s + 1] = links[l]
      BY <1>2, <1>11, <1>13, <2>1, <3>1
    <3> QED BY <2>1, <3>1, <3>2 DEF Targets
  <2>2. CASE Falls(k) /\ ~JumpsToLabel(LastOf(k))
    <3>1. s .. (e - 1) = {s} /\ s \in D
      BY <1>2, <1>8, <1>10, <2>2
    <3>2. links'[s] = k + 1
      BY <1>11, <1>13, <2>2, <3>1
    <3> QED BY <2>2, <3>1, <3>2 DEF Targets
  <2>3. CASE ~Falls(k) /\ JumpsToLabel(LastOf(k))
    <3>1. s .. (e - 1) = {s} /\ s \in D /\ mid = s
      BY <1>2, <1>8, <1>10, <2>3
    <3>2. links'[s] = links[l]
      BY <1>13, <2>3, <3>1
    <3> QED BY <2>3, <3>1, <3>2 DEF Targets
  <2>4. CASE ~Falls(k) /\ ~JumpsToLabel(LastOf(k))
    <3>1. s .. (e - 1) = {}
      BY <1>2, <1>8, <2>4
    <3> QED BY <2>4, <3>1 DEF Targets
  <2> QED BY <2>1, <2>2, <2>3, <2>4
<1> HIDE DEF s, e, l, D
<1> QED BY <1>5, <1>6, <1>9, <1>13, <1>14, <1>15, <1>16 DEF s, e, l, D

\* One iteration of resolve_next().
LEMMA ResolveNextFlow == ASSUME FlowInv, ResolveNext PROVE FlowInv'
<1> DEFINE n == Len(basicblocks)
           e == link_start + LinkCount(k)
<1>1. TypeOK /\ BlocksInv /\ LabelsInv /\ NextInv /\ phase = "next"
  BY DEF FlowInv, ResolveNext
<1>2. /\ n \in Nat /\ DOMAIN basicblocks = 1 .. n /\ k \in 1 .. n /\ label_n \in Nat /\ jumps \in Nat
      /\ DOMAIN links = 0 .. (label_n + 2 * jumps - 1) /\ Start = N + 1
      /\ 0 .. (label_n - 1) \subseteq DOMAIN links
      /\ link_start \in Nat
  BY <1>1, BlocksFacts, LinksFacts
<1>3. /\ link_start = NextEnd(k) /\ e = NextEnd(k + 1)
      /\ link_start \in label_n .. e /\ e <= label_n + jumps /\ link_start' = e
      /\ DOMAIN links' = DOMAIN links
      /\ \A x \in DOMAIN links : links'[x] \in 0 .. n
      /\ \A x \in DOMAIN links : x < link_start => links'[x] = links[x]
      /\ {links'[x] : x \in link_start .. (e - 1)} = Targets(k)
      /\ basicblocks' = [basicblocks EXCEPT ![k].next = Span(link_start, e)]
      /\ JumpsToLabel(LastOf(k)) => Found(LastOf(k).l)
  BY ResolveNextWrites
<1> HIDE DEF e
<1>4. UNCHANGED <<nodes, label_n, jumps>>
  BY DEF ResolveNext
<1>5. \/ k < n /\ k' = k + 1 /\ phase' = "next"
      \/ k = n /\ k' = 1 /\ phase' = "prev"
  BY <1>1, <1>2 DEF ResolveNext, Advance
<1>6. e \in Nat /\ Span(link_start, e) \in Spans /\ Indices(Span(link_start, e)) = link_start .. (e - 1)
  <2>1. LinkCount(k) \in {0, 1, 2}
    BY <1>1, <1>2, LinkCountBound
  <2>2. e \in Nat /\ link_start <= e
    BY <1>2, <2>1 DEF e
  <2>3. e <= label_n + 2 * jumps
    BY <1>2, <1>3, <2>2
  <2> QED BY <1>1, <1>2, <2>2, <2>3, SpanFacts
<1>7. /\ basicblocks' \in Seq(BasicBlock) /\ Len(basicblocks') = n /\ DOMAIN basicblocks' = 1 .. n
      /\ \A b \in 1 .. n : /\ basicblocks'[b].first = basicblocks[b].first
                           /\ basicblocks'[b].last = basicblocks[b].last
      /\ basicblocks'[k].next = Span(link_start, e)
      /\ \A b \in (1 .. n) \ {k} : basicblocks'[b] = basicblocks[b]
  <2>1. basicblocks \in Seq(BasicBlock)
    BY <1>1 DEF TypeOK
  <2>2. \A b \in 1 .. n : basicblocks[b] \in BasicBlock
    BY <1>2, <2>1
  <2>3. [basicblocks[k] EXCEPT !.next = Span(link_start, e)] \in BasicBlock
    BY <1>2, <1>6, <2>2 DEF BasicBlock
  <2>4. /\ DOMAIN basicblocks' = 1 .. n
        /\ basicblocks'[k] = [basicblocks[k] EXCEPT !.next = Span(link_start, e)]
        /\ \A b \in (1 .. n) \ {k} : basicblocks'[b] = basicblocks[b]
    BY <1>2, <1>3
  <2>5. \A b \in 1 .. n : basicblocks'[b] \in BasicBlock
    BY <2>2, <2>3, <2>4
  <2>6. basicblocks' \in Seq(BasicBlock) /\ Len(basicblocks') = n
    BY <1>2, <1>3, <2>1, <2>3
  <2>7. /\ basicblocks'[k].first = basicblocks[k].first
        /\ basicblocks'[k].last = basicblocks[k].last
        /\ basicblocks'[k].next = Span(link_start, e)
    BY <1>2, <2>2, <2>4 DEF BasicBlock
  <2> QED BY <2>4, <2>6, <2>7
<1>8. /\ BlocksInv' /\ Labels' = Labels
      /\ \A b \in 1 .. n : /\ LeadingLabels(b)' = LeadingLabels(b)
                           /\ LastOf(b)' = LastOf(b) /\ Falls(b)' = Falls(b)
      /\ \A m \in 1 .. (n + 1) : LinkSlots(m)' = LinkSlots(m)
  BY <1>1, <1>2, <1>4, <1>5, <1>7, ShapeKept
<1>9. TypeOK'
  <2>1. links' \in [0 .. (label_n + 2 * jumps) - 1 -> (1 .. n) \cup {NoBlock}]
    <3>1. links' = [x \in DOMAIN links |-> links'[x]]
      <4>1. CASE JumpsToLabel(LastOf(k))
        BY <1>3, <4>1 DEF ResolveNext, Put
      <4>2. CASE ~JumpsToLabel(LastOf(k)) /\ Falls(k)
        BY <1>3, <4>2 DEF ResolveNext, Put
      <4>3. CASE ~JumpsToLabel(LastOf(k)) /\ ~Falls(k)
        BY <1>1, <1>3, <4>3 DEF ResolveNext, TypeOK
      <4> QED BY <4>1, <4>2, <4>3
    <3> QED BY <1>2, <1>3, <3>1 DEF NoBlock
  <2>2. k' \in Nat \ {0} /\ k' <= n
    <3>1. n \in Nat /\ k \in 1 .. n
      BY <1>2
    <3> HIDE DEF n
    <3> QED BY <1>5, <3>1
  <2>3. nodes \in Codes \cup {<< >>}
    BY <1>1 DEF TypeOK
  <2> QED BY <1>2, <1>3, <1>4, <1>5, <1>6, <1>7, <2>1, <2>2, <2>3 DEF TypeOK
<1>10. \A l \in 0 .. (label_n - 1) : links'[l] = links[l]
  BY <1>2, <1>3
<1>11. LabelsInv'
  BY <1>1, <1>4, <1>5, <1>7, <1>8, <1>10, LabelsKept
<1>12. \A m \in 1 .. (n + 1) : NextEnd(m)' = NextEnd(m)
  BY <1>4, <1>8 DEF NextEnd
<1>13. Followed = k /\ Followed' = k + 1 /\ k + 1 \in 1 .. (n + 1)
  BY <1>1, <1>2, <1>5, <1>7 DEF Followed
<1>14. ASSUME NEW b \in 1 .. n, JumpsToLabel(LastOf(b)) => Found(LastOf(b).l)
       PROVE  /\ (JumpsToLabel(LastOf(b)) => Found(LastOf(b).l))'
              /\ Targets(b)' = Targets(b)
  <2>1. LastOf(b).l \in Nat
    BY <1>1, <1>2, BlocksFacts, NodesFacts DEF LastOf, Node
  <2>2. JumpsToLabel(LastOf(b)) => links'[LastOf(b).l] = links[LastOf(b).l]
    BY <1>2, <1>10, <1>14, <2>1 DEF Found
  <2>3. LastOf(b)' = LastOf(b) /\ Falls(b)' = Falls(b) /\ label_n' = label_n
    BY <1>4, <1>8
  <2> QED BY <1>14, <2>2, <2>3 DEF Targets, Found
<1>15. ASSUME NEW b \in 1 .. k
       PROVE  /\ (JumpsToLabel(LastOf(b)) => Found(LastOf(b).l))'
              /\ Next_(b)' = Targets(b)'
              /\ Indices(basicblocks[b].next)' \subseteq label_n .. (e - 1)
              /\ \A c \in 1 .. (b - 1) :
                   Indices(basicblocks[c].next)' \cap Indices(basicblocks[b].next)' = {}
  <2>1. b \in 1 .. n
    BY <1>2, <1>15
  <2>2. CASE b = k
    <3>1. Indices(basicblocks[b].next)' = link_start .. (e - 1)
      BY <1>6, <1>7, <2>2 DEF Indices
    <3>2. Next_(b)' = Targets(b)
      BY <1>3, <2>2, <3>1 DEF Next_
    <3>3. ASSUME NEW c \in 1 .. (b - 1)
          PROVE  Indices(basicblocks[c].next)' \cap Indices(basicblocks[b].next)' = {}
      <4>1. c \in 1 .. (k - 1) /\ c \in (1 .. n) \ {k}
        BY <1>2, <2>2, <3>3
      <4>2. Indices(basicblocks[c].next)' = Indices(basicblocks[c].next)
        BY <1>7, <4>1 DEF Indices
      <4>3. Indices(basicblocks[c].next) \subseteq label_n .. (link_start - 1)
        BY <1>1, <1>3, <1>13, <4>1 DEF NextInv
      <4> QED BY <1>2, <3>1, <4>2, <4>3
    <3>4. Indices(basicblocks[b].next)' \subseteq label_n .. (e - 1)
      BY <1>2, <1>3, <1>6, <3>1
    <3> QED BY <1>3, <1>14, <2>1, <2>2, <3>2, <3>3, <3>4
  <2>3. CASE b # k
    <3>1. b \in 1 .. (k - 1) /\ b \in (1 .. n) \ {k}
      BY <1>2, <1>15, <2>3
    <3>2. /\ JumpsToLabel(LastOf(b)) => Found(LastOf(b).l)
          /\ Next_(b) = Targets(b)
          /\ Indices(basicblocks[b].next) \subseteq label_n .. (link_start - 1)
          /\ \A c \in 1 .. (b - 1) :
               Indices(basicblocks[c].next) \cap Indices(basicblocks[b].next) = {}
      BY <1>1, <1>3, <1>13, <3>1 DEF NextInv
    <3>3. Indices(basicblocks[b].next)' = Indices(basicblocks[b].next)
      BY <1>7, <3>1 DEF Indices
    <3>4. \A x \in Indices(basicblocks[b].next) : links'[x] = links[x]
      <4>1. \A x \in label_n .. (link_start - 1) : x \in DOMAIN links /\ x < link_start
        BY <1>2, <1>3, <1>6
      <4> QED BY <1>3, <3>2, <4>1
    <3>5. Next_(b)' = Next_(b)
      BY <3>3, <3>4 DEF Next_
    <3>6. \A c \in 1 .. (b - 1) : Indices(basicblocks[c].next)' = Indices(basicblocks[c].next)
      <4>1. \A c \in 1 .. (b - 1) : c \in (1 .. n) \ {k}
        BY <1>2, <3>1
      <4> QED BY <1>7, <4>1 DEF Indices
    <3>7. label_n .. (link_start - 1) \subseteq label_n .. (e - 1)
      BY <1>2, <1>3, <1>6
    <3> QED BY <1>14, <2>1, <3>2, <3>3, <3>5, <3>6, <3>7
  <2> QED BY <2>2, <2>3
<1>16. NextEnd(Followed)' = e
  BY <1>3, <1>12, <1>13
<1>17. NextInv'
  <2>1. (k + 1) - 1 = k
    BY <1>2
  <2>2. phase' = "next" => link_start' = NextEnd(k)'
    BY <1>3, <1>5, <1>12, <1>13
  <2> QED BY <1>4, <1>13, <1>15, <1>16, <2>1, <2>2 DEF NextInv
<1>18. PrevInv'
  <2>1. CASE phase' = "next"
    BY <2>1 DEF PrevInv
  <2>2. CASE phase' = "prev" /\ k' = 1 /\ k = n
    <3>1. EdgesTo(Preceded)' = {} /\ Preceded' = 1
      BY <2>2 DEF EdgesTo, Preceded
    <3>2. NextEnd(Len(basicblocks) + 1)' = e
      BY <1>3, <1>7, <1>12, <1>13, <2>2
    <3>3. link_start' = e /\ e = e + Cardinality(EdgesTo(Preceded)')
      BY <1>3, <1>6, <3>1, FS_EmptySet
    <3> QED BY <3>1, <3>2, <3>3 DEF PrevInv
  <2> QED BY <1>5, <2>1, <2>2
<1> QED BY <1>5, <1>8, <1>9, <1>11, <1>17, <1>18 DEF FlowInv, FailedInv

-----------------------------------------------------------------------------
(* Where labels are.                                                       *)

\* No node is in two blocks.
LEMMA InOneBlock ==
  ASSUME TypeOK, BlocksInv, NEW b \in 1 .. Len(basicblocks), NEW c \in 1 .. Len(basicblocks),
         NEW p \in 1 .. N, In(p, b), In(p, c)
  PROVE  b = c
<1>1. /\ Len(basicblocks) \in Nat /\ DOMAIN basicblocks = 1 .. Len(basicblocks)
      /\ \A x \in 1 .. Len(basicblocks) : /\ basicblocks[x].first \in 1 .. N
                                          /\ basicblocks[x].last \in basicblocks[x].first .. N
      /\ N \in Nat
  BY BlocksFacts, NodesFacts
<1>2. ASSUME NEW x \in 1 .. Len(basicblocks), NEW y \in 1 .. Len(basicblocks), x < y,
             p \in basicblocks[x].first .. basicblocks[x].last,
             p \in basicblocks[y].first .. basicblocks[y].last
      PROVE  FALSE
  <2>1. basicblocks[x].last < basicblocks[y].first
    BY <1>1, <1>2 DEF BlocksInv
  <2> QED BY <1>1, <1>2, <2>1
<1>3. b < c \/ c < b \/ b = c
  BY <1>1
<1> QED BY <1>2, <1>3 DEF In

\* The block that a label is known by is where the label is.
LEMMA FoundLeadsToLabel ==
  ASSUME TypeOK, BlocksInv, LabelsInv, phase # "blocks", NEW l \in Nat, Found(l)
  PROVE  /\ links[l] \in 1 .. Len(basicblocks)
         /\ \E q \in 1 .. N : In(q, links[l]) /\ IsLabel(nodes[q]) /\ nodes[q].l = l
<1>1. /\ l \in 0 .. (label_n - 1) /\ links[l] # NoBlock /\ links[l] \in 0 .. Len(basicblocks)
      /\ Len(basicblocks) \in Nat
  BY BlocksFacts, LinksFacts DEF Found
<1>2. links[l] \in 1 .. Len(basicblocks)
  BY <1>1 DEF NoBlock
<1>3. l \in LeadingLabels(links[l])
  BY <1>1 DEF LabelsInv
<1>4. PICK q \in basicblocks[links[l]].first .. basicblocks[links[l]].last :
        /\ l = nodes[q].l
        /\ \A r \in basicblocks[links[l]].first .. q : IsLabel(nodes[r])
  BY <1>3 DEF LeadingLabels
<1>5. /\ basicblocks[links[l]].first \in 1 .. N /\ N \in Nat
      /\ basicblocks[links[l]].last \in basicblocks[links[l]].first .. N
  BY <1>2, BlocksFacts, NodesFacts
<1>6. q \in 1 .. N /\ IsLabel(nodes[q])
  BY <1>4, <1>5
<1> QED BY <1>2, <1>4, <1>6 DEF In

\* Every label of the code is known by its block once resolve_labels() is done.
LEMMA LabelIsFound ==
  ASSUME TypeOK, BlocksInv, LabelsInv, phase \notin {"blocks", "labels"},
         NEW q \in 1 .. N, IsLabel(nodes[q])
  PROVE  /\ Found(nodes[q].l)
         /\ \A c \in 1 .. Len(basicblocks) : In(q, c) => links[nodes[q].l] = c
<1> DEFINE l == nodes[q].l
<1>1. /\ Len(basicblocks) \in Nat /\ DOMAIN basicblocks = 1 .. Len(basicblocks)
      /\ \A x \in 1 .. Len(basicblocks) : /\ basicblocks[x].first \in 1 .. N
                                          /\ basicblocks[x].last \in basicblocks[x].first .. N
      /\ N \in Nat /\ DOMAIN nodes = 1 .. N /\ Start = N + 1
  BY BlocksFacts, NodesFacts, LinksFacts
<1>2. q \in 1 .. (Start - 1)
  BY <1>1
<1>3. PICK b \in 1 .. Len(basicblocks) : In(q, b)
  BY <1>1, <1>2 DEF BlocksInv
<1>4. l \in LeadingLabels(b)
  <2>1. \A r \in basicblocks[b].first .. q :
          r \in basicblocks[b].first .. basicblocks[b].last /\ r <= q
    BY <1>1, <1>3 DEF In
  <2>2. \A r \in basicblocks[b].first .. q : IsLabel(nodes[r])
    BY <1>1, <1>3, <2>1 DEF BlocksInv, In
  <2> QED BY <1>3, <2>2 DEF LeadingLabels, In
<1>5. l \in 0 .. (label_n - 1)
  BY <1>1 DEF LabelsInv, Labels
<1>6. links[l] # NoBlock
  <2>1. b \in 1 .. (Labelled - 1)
    BY <1>1 DEF Labelled
  <2> QED BY <1>4, <1>5, <2>1 DEF LabelsInv
<1>7. Found(l) /\ l \in Nat
  <2>1. label_n \in Nat
    BY LinksFacts
  <2> QED BY <1>5, <1>6, <2>1 DEF Found
<1>8. links[l] \in 1 .. Len(basicblocks) /\ In(q, links[l])
  <2>1. PICK p \in 1 .. N : In(p, links[l]) /\ IsLabel(nodes[p]) /\ nodes[p].l = l
    BY <1>7, FoundLeadsToLabel
  <2>2. p = q
    BY <2>1, NodesFacts
  <2> QED BY <1>7, <2>1, <2>2, FoundLeadsToLabel
<1>9. ASSUME NEW c \in 1 .. Len(basicblocks), In(q, c) PROVE links[l] = c
  BY <1>8, <1>9, InOneBlock
<1> QED BY <1>7, <1>9

\* A jump whose label is not found has a label that is not in the code.
LEMMA NextFailsFlow == ASSUME FlowInv, NextFails PROVE FlowInv'
<1>1. /\ TypeOK /\ BlocksInv /\ LabelsInv /\ phase = "next" /\ phase' = "failed"
      /\ JumpsToLabel(LastOf(k)) /\ ~Found(LastOf(k).l)
      /\ UNCHANGED <<nodes, basicblocks, links, label_n, jumps, k, link_start>>
  BY DEF FlowInv, NextFails
<1>2. /\ Len(basicblocks) \in Nat /\ k \in 1 .. Len(basicblocks) /\ Start = N + 1
      /\ basicblocks[k].last \in 1 .. N
      /\ N \in Nat /\ DOMAIN nodes = 1 .. N /\ basicblocks \in Seq(BasicBlock)
  <2>1. /\ Len(basicblocks) \in Nat /\ k \in 1 .. Len(basicblocks) /\ Start = N + 1
        /\ N \in Nat /\ DOMAIN nodes = 1 .. N /\ basicblocks \in Seq(BasicBlock)
    BY <1>1, BlocksFacts, LinksFacts, NodesFacts DEF TypeOK
  <2>2. /\ basicblocks[k].first \in 1 .. N
        /\ basicblocks[k].last \in basicblocks[k].first .. N
    BY <1>1, <2>1, BlocksFacts
  <2> QED BY <2>1, <2>2
<1>3. TypeOK'
  <2>1. /\ links' = links /\ jumps' = jumps /\ label_n' = label_n
        /\ DOMAIN basicblocks' = DOMAIN basicblocks
    BY <1>1
  <2> QED BY <1>1, <1>2, <2>1 DEF TypeOK, Idle
<1>4. /\ BlocksInv' /\ Labels' = Labels
      /\ \A b \in 1 .. Len(basicblocks) : LeadingLabels(b)' = LeadingLabels(b)
  BY <1>1, <1>2, ShapeKept
<1>5. LabelsInv'
  BY <1>1, <1>4, LabelsKept
<1>6. LastOf(k).l \notin Labels
  <2> SUFFICES ASSUME LastOf(k).l \in Labels PROVE FALSE
    OBVIOUS
  <2>1. PICK q \in 1 .. N : IsLabel(nodes[q]) /\ nodes[q].l = LastOf(k).l
    BY <1>2 DEF Labels
  <2>2. Found(nodes[q].l)
    BY <1>1, <2>1, LabelIsFound
  <2> QED BY <1>1, <2>1, <2>2
<1>7. FailedInv'
  BY <1>1, <1>2, <1>4, <1>6 DEF FailedInv, LastOf
<1> QED BY <1>1, <1>3, <1>4, <1>5, <1>7 DEF FlowInv, NextInv, PrevInv

-----------------------------------------------------------------------------
(* Counting edges.                                                         *)

\* How many elements of S are below x.
Rank(S, x) == Cardinality({y \in S : y < x})

\* The rank of an element in a set of c numbers is one of 0 .. c - 1, and each
\* of those is the rank of one element.
LEMMA Ranks ==
  ASSUME NEW n \in Nat, NEW S \in SUBSET (1 .. n)
  PROVE  /\ IsFiniteSet(S) /\ Cardinality(S) \in Nat
         /\ \A x \in S : Rank(S, x) \in 0 .. (Cardinality(S) - 1)
         /\ \A x, z \in S : Rank(S, x) = Rank(S, z) => x = z
         /\ \A i \in 0 .. (Cardinality(S) - 1) : \E x \in S : Rank(S, x) = i
<1> DEFINE Below(x) == {y \in S : y < x}
           c == Cardinality(S)
           f == [x \in S |-> Cardinality(Below(x))]
<1>1. IsFiniteSet(S) /\ c \in Nat
  <2>1. IsFiniteSet(1 .. n)
    BY FS_Interval
  <2> QED BY <2>1, FS_Subset, FS_CardinalityType
<1>2. ASSUME NEW x \in S
      PROVE  /\ IsFiniteSet(Below(x)) /\ Cardinality(Below(x)) \in Nat
             /\ Cardinality(Below(x) \cup {x}) = Cardinality(Below(x)) + 1
             /\ IsFiniteSet(Below(x) \cup {x})
  <2>1. Below(x) \in SUBSET S /\ x \notin Below(x)
    OBVIOUS
  <2> HIDE DEF Below
  <2> QED BY <1>1, <2>1, FS_Subset, FS_CardinalityType, FS_AddElement
<1>3. ASSUME NEW x \in S PROVE Cardinality(Below(x)) \in 0 .. (c - 1)
  <2>1. Below(x) \cup {x} \in SUBSET S
    OBVIOUS
  <2>2. Cardinality(Below(x) \cup {x}) <= c
    BY <1>1, <2>1, FS_Subset
  <2> HIDE DEF Below, c
  <2> QED BY <1>1, <1>2, <2>2
<1>4. ASSUME NEW x \in S, NEW z \in S, x < z
      PROVE  Cardinality(Below(x)) < Cardinality(Below(z))
  <2>1. Below(x) \cup {x} \in SUBSET Below(z)
    <3>1. \A y \in S : y \in Int
      OBVIOUS
    <3>2. \A y \in S : y < x => y < z
      BY <1>4, <3>1
    <3> QED BY <1>4, <3>2
  <2>2. Cardinality(Below(x) \cup {x}) <= Cardinality(Below(z))
    BY <1>2, <2>1, FS_Subset
  <2>3. /\ Cardinality(Below(x)) \in Nat /\ Cardinality(Below(z)) \in Nat
        /\ Cardinality(Below(x) \cup {x}) = Cardinality(Below(x)) + 1
    BY <1>2
  <2> HIDE DEF Below
  <2> QED BY <2>2, <2>3
<1>5. ASSUME NEW x \in S, NEW z \in S, Cardinality(Below(x)) = Cardinality(Below(z))
      PROVE  x = z
  <2>1. Cardinality(Below(x)) \in Nat /\ Cardinality(Below(z)) \in Nat
    BY <1>2
  <2>2. ~(x < z) /\ ~(z < x)
    BY <1>4, <1>5, <2>1
  <2> QED BY <2>2
<1>6. f \in Surjection(S, 0 .. (c - 1))
  <2>1. f \in Injection(S, 0 .. (c - 1))
    <3>1. f \in [S -> 0 .. (c - 1)]
      BY <1>3
    <3>2. \A x, z \in S : f[x] = f[z] => x = z
      BY <1>5
    <3> HIDE DEF f
    <3> QED BY <3>1, <3>2 DEF Injection, IsInjective
  <2>2. IsFiniteSet(0 .. (c - 1)) /\ Cardinality(0 .. (c - 1)) = c
    <3> HIDE DEF c
    <3> QED BY <1>1, FS_Interval
  <2> HIDE DEF f, c
  <2>3. Cardinality(S) = Cardinality(0 .. (c - 1))
    BY <2>2 DEF c
  <2> QED BY <2>1, <2>2, <2>3, FS_Injection
<1>7. \A i \in 0 .. (c - 1) : \E x \in S : Cardinality(Below(x)) = i
  <2>1. \A i \in 0 .. (c - 1) : \E x \in S : f[x] = i
    BY <1>6 DEF Surjection
  <2> QED BY <2>1
<1>8. \A x \in S : Rank(S, x) = Cardinality(Below(x))
  BY DEF Rank
<1> HIDE DEF Below
<1> QED BY <1>1, <1>3, <1>5, <1>7, <1>8

\* Each edge has a link of its own in the span of the block it comes from: there
\* are no more edges than resolve_next() made links.
LEMMA EdgesFit ==
  ASSUME FlowInv, phase \in {"prev", "built"}, NEW m \in 1 .. (Len(basicblocks) + 1)
  PROVE  /\ IsFiniteSet(EdgesTo(m)) /\ Cardinality(EdgesTo(m)) \in Nat
         /\ Cardinality(EdgesTo(m)) <= NextEnd(Len(basicblocks) + 1) - label_n
         /\ NextEnd(Len(basicblocks) + 1) \in label_n .. (label_n + jumps)
<1> DEFINE n == Len(basicblocks)
           E == EdgesTo(m)
           I == label_n .. (NextEnd(n + 1) - 1)
           g == [e \in E |-> CHOOSE x \in Indices(basicblocks[e[1]].next) : links[x] = e[2]]
<1>1. TypeOK /\ BlocksInv /\ NextInv /\ phase # "blocks"
  BY DEF FlowInv
<1>2. n \in Nat /\ DOMAIN basicblocks = 1 .. n /\ label_n \in Nat /\ jumps \in Nat
  BY <1>1, BlocksFacts, LinksFacts
<1>3. NextEnd(n + 1) \in label_n .. (label_n + jumps)
  BY <1>1, <1>2, NextEndFacts
<1>4. \A b \in 1 .. n : /\ Indices(basicblocks[b].next) \subseteq I
                        /\ \A c \in 1 .. (b - 1) :
                             Indices(basicblocks[c].next) \cap Indices(basicblocks[b].next) = {}
  <2>1. Followed = n + 1 /\ (n + 1) - 1 = n
    BY <1>2 DEF Followed
  <2> QED BY <1>1, <2>1 DEF NextInv
<1>5. ASSUME NEW e \in E
      PROVE  /\ e[1] \in 1 .. n /\ e = <<e[1], e[2]>>
             /\ g[e] \in Indices(basicblocks[e[1]].next) /\ links[g[e]] = e[2]
  <2>1. e[1] \in 1 .. n /\ e = <<e[1], e[2]>> /\ e[2] \in Next_(e[1])
    BY <1>2, <1>5 DEF EdgesTo
  <2>2. \E x \in Indices(basicblocks[e[1]].next) : links[x] = e[2]
    BY <2>1 DEF Next_
  <2>3. g[e] = CHOOSE x \in Indices(basicblocks[e[1]].next) : links[x] = e[2]
    BY <1>5
  <2> HIDE DEF g, E
  <2> QED BY <2>1, <2>2, <2>3
<1>6. g \in [E -> I]
  <2>1. \A e \in E : g[e] \in I
    BY <1>4, <1>5
  <2> QED BY <2>1
<1> HIDE DEF g, E
<1>7. ASSUME NEW d \in E, NEW e \in E, g[d] = g[e] PROVE d = e
  <2>1. d[2] = e[2]
    BY <1>5, <1>7
  <2>2. d[1] \in 1 .. n /\ e[1] \in 1 .. n
    BY <1>5
  <2>3. /\ g[d] \in Indices(basicblocks[d[1]].next)
        /\ g[d] \in Indices(basicblocks[e[1]].next)
    BY <1>5, <1>7
  <2>4. d[1] = e[1]
    <3>1. CASE d[1] < e[1]
      <4>1. d[1] \in 1 .. (e[1] - 1)
        BY <1>2, <2>2, <3>1
      <4> QED BY <1>4, <2>2, <2>3, <4>1
    <3>2. CASE e[1] < d[1]
      <4>1. e[1] \in 1 .. (d[1] - 1)
        BY <1>2, <2>2, <3>2
      <4> QED BY <1>4, <2>2, <2>3, <4>1
    <3> QED BY <1>2, <2>2, <3>1, <3>2
  <2> QED BY <1>5, <2>1, <2>4
<1>8. g \in Injection(E, I)
  BY <1>6, <1>7 DEF Injection, IsInjective
<1>9. IsFiniteSet(I) /\ Cardinality(I) = NextEnd(n + 1) - label_n
  <2> DEFINE hi == NextEnd(n + 1) - 1
  <2>1. hi \in Int /\ label_n \in Int /\ (label_n > hi <=> NextEnd(n + 1) = label_n)
    BY <1>2, <1>3
  <2>2. hi - label_n + 1 = NextEnd(n + 1) - label_n
    BY <1>2, <1>3
  <2>3. NextEnd(n + 1) = label_n => NextEnd(n + 1) - label_n = 0
    BY <1>2
  <2> HIDE DEF hi
  <2>4. /\ IsFiniteSet(label_n .. hi)
        /\ Cardinality(label_n .. hi) = IF label_n > hi THEN 0 ELSE hi - label_n + 1
    BY <2>1, FS_Interval
  <2> QED BY <2>1, <2>2, <2>3, <2>4 DEF hi
<1>10. IsFiniteSet(E) /\ Cardinality(E) <= Cardinality(I)
  <2> HIDE DEF I
  <2> QED BY <1>8, <1>9, FS_Injection
<1>11. Cardinality(E) \in Nat
  BY <1>10, FS_CardinalityType
<1> QED BY <1>3, <1>9, <1>10, <1>11 DEF E

\* The edges to one more block.
LEMMA MoreEdges ==
  ASSUME FlowInv, phase \in {"prev", "built"}, NEW m \in 1 .. Len(basicblocks),
         NEW froms, froms = {from \in DOMAIN basicblocks : m \in Next_(from)}
  PROVE  /\ IsFiniteSet(froms) /\ Cardinality(froms) \in Nat
         /\ Cardinality(EdgesTo(m + 1)) = Cardinality(EdgesTo(m)) + Cardinality(froms)
<1> DEFINE n == Len(basicblocks)
           T == froms \X {m}
           f == [from \in froms |-> <<from, m>>]
<1>1. n \in Nat /\ DOMAIN basicblocks = 1 .. n
  BY BlocksFacts DEF FlowInv
<1>2. IsFiniteSet(froms) /\ Cardinality(froms) \in Nat
  <2>1. froms \in SUBSET (1 .. n)
    BY <1>1
  <2> HIDE DEF n
  <2> QED BY <1>1, <2>1, Ranks
<1>3. IsFiniteSet(T) /\ Cardinality(T) = Cardinality(froms)
  <2>1. f \in Bijection(froms, T)
    <3>1. f \in [froms -> T]
      OBVIOUS
    <3>2. \A x, y \in froms : f[x] = f[y] => x = y
      OBVIOUS
    <3>3. \A t \in T : \E x \in froms : f[x] = t
      OBVIOUS
    <3> HIDE DEF f, T
    <3> QED BY <3>1, <3>2, <3>3 DEF Bijection, Injection, Surjection, IsInjective
  <2> HIDE DEF f, T
  <2> QED BY <1>2, <2>1, FS_Bijection DEF ExistsBijection
<1>4. IsFiniteSet(EdgesTo(m)) /\ Cardinality(EdgesTo(m)) \in Nat
  <2>1. m \in 1 .. (n + 1)
    BY <1>1
  <2> QED BY <2>1, EdgesFit
<1>5. EdgesTo(m + 1) = EdgesTo(m) \cup T /\ EdgesTo(m) \cap T = {}
  <2>1. (m + 1) - 1 = m /\ 1 .. m = (1 .. (m - 1)) \cup {m} /\ m \notin 1 .. (m - 1)
    BY <1>1
  <2>2. \A e \in EdgesTo(m + 1) : e \in EdgesTo(m) \cup T
    BY <2>1 DEF EdgesTo
  <2>3. \A e \in EdgesTo(m) : e \in EdgesTo(m + 1) /\ e \notin T
    BY <2>1 DEF EdgesTo
  <2>4. \A e \in T : e \in EdgesTo(m + 1)
    BY <2>1 DEF EdgesTo
  <2> HIDE DEF T
  <2> QED BY <2>2, <2>3, <2>4
<1>6. Cardinality(EdgesTo(m) \cap T) = 0
  BY <1>5, FS_EmptySet
<1> HIDE DEF T
<1>7. Cardinality(EdgesTo(m) \cup T) = Cardinality(EdgesTo(m)) + Cardinality(T) - 0
  BY <1>3, <1>4, <1>6, FS_Union
<1>8. Cardinality(EdgesTo(m + 1)) = Cardinality(EdgesTo(m)) + Cardinality(froms) - 0
  BY <1>3, <1>5, <1>7
<1> QED BY <1>2, <1>4, <1>8

-----------------------------------------------------------------------------
(* resolve_prev().                                                         *)

\* What one iteration of resolve_prev() writes: the blocks that block k is entered
\* from, after all the links made so far.
LEMMA ResolvePrevWrites ==
  ASSUME FlowInv, ResolvePrev, NEW froms, froms = {from \in DOMAIN basicblocks : k \in Next_(from)}
  PROVE  LET e == link_start + Cardinality(froms)
             start == NextEnd(Len(basicblocks) + 1)
         IN  /\ start \in label_n .. link_start /\ e \in Nat /\ link_start <= e
             /\ e = start + Cardinality(EdgesTo(k + 1)) /\ e <= label_n + 2 * jumps
             /\ link_start' = e
             /\ links' \in [DOMAIN links -> 0 .. Len(basicblocks)]
             /\ \A x \in DOMAIN links : x < link_start => links'[x] = links[x]
             /\ {links'[x] : x \in link_start .. (e - 1)} = froms
             /\ basicblocks' = [basicblocks EXCEPT ![k].prev = Span(link_start, e)]
<1> DEFINE n == Len(basicblocks)
           c == Cardinality(froms)
           e == link_start + c
           start == NextEnd(n + 1)
           index(from) == link_start + Cardinality({f \in froms : f < from})
           D == DOMAIN links
<1>1. TypeOK /\ BlocksInv /\ PrevInv /\ phase = "prev"
  BY DEF FlowInv, ResolvePrev
<1>2. /\ n \in Nat /\ DOMAIN basicblocks = 1 .. n /\ k \in 1 .. n /\ label_n \in Nat /\ jumps \in Nat
      /\ D = 0 .. (label_n + 2 * jumps - 1) /\ \A x \in D : links[x] \in 0 .. n
      /\ link_start \in Nat
  BY <1>1, BlocksFacts, LinksFacts
<1>3. froms \in SUBSET (1 .. n)
  BY <1>2
<1>4. /\ c \in Nat
      /\ Cardinality(EdgesTo(k + 1)) = Cardinality(EdgesTo(k)) + c
  BY <1>1, <1>2, MoreEdges
<1>5. link_start = start + Cardinality(EdgesTo(k))
  BY <1>1 DEF PrevInv, Preceded
<1>6. /\ Cardinality(EdgesTo(k)) \in Nat /\ Cardinality(EdgesTo(k + 1)) \in Nat
      /\ Cardinality(EdgesTo(k + 1)) <= start - label_n
      /\ start \in label_n .. (label_n + jumps)
  <2>1. k \in 1 .. (n + 1) /\ k + 1 \in 1 .. (n + 1)
    BY <1>2
  <2> QED BY <1>1, <2>1, EdgesFit
<1> HIDE DEF c, start
<1>7. /\ start \in label_n .. link_start /\ e \in Nat /\ link_start <= e
      /\ e = start + Cardinality(EdgesTo(k + 1)) /\ e <= label_n + 2 * jumps
  <2> DEFINE ek == Cardinality(EdgesTo(k))
             ek1 == Cardinality(EdgesTo(k + 1))
  <2>1. ek \in Nat /\ ek1 \in Nat /\ ek1 = ek + c /\ ek1 <= start - label_n /\ link_start = start + ek
    BY <1>4, <1>5, <1>6
  <2>2. start \in Nat /\ label_n <= start /\ start <= label_n + jumps
    BY <1>2, <1>6
  <2> HIDE DEF ek, ek1
  <2>3. /\ start \in label_n .. link_start /\ e \in Nat /\ link_start <= e
        /\ e = start + ek1 /\ e <= label_n + 2 * jumps
    BY <1>2, <1>4, <2>1, <2>2
  <2> QED BY <2>3 DEF ek1
<1>8. /\ links' = [x \in D |-> IF \E from \in froms : index(from) = x
                               THEN CHOOSE from \in froms : index(from) = x
                               ELSE links[x]]
      /\ basicblocks' = [basicblocks EXCEPT ![k].prev = Span(link_start, e)]
      /\ link_start' = e
  BY DEF ResolvePrev, PrevSpan, c
<1>9. /\ \A x \in froms : index(x) \in link_start .. (e - 1)
      /\ \A x, z \in froms : index(x) = index(z) => x = z
      /\ \A i \in link_start .. (e - 1) : \E x \in froms : index(x) = i
  <2> DEFINE rank(x) == Rank(froms, x)
  <2>1. /\ \A x \in froms : rank(x) \in 0 .. (c - 1)
        /\ \A x, z \in froms : rank(x) = rank(z) => x = z
        /\ \A i \in 0 .. (c - 1) : \E x \in froms : rank(x) = i
    <3>1. n \in Nat
      BY <1>2
    <3> DEFINE S == froms
    <3>2. S \in SUBSET (1 .. n)
      BY <1>3
    <3> HIDE DEF n, S
    <3>3. /\ \A x \in S : Rank(S, x) \in 0 .. (Cardinality(S) - 1)
          /\ \A x, z \in S : Rank(S, x) = Rank(S, z) => x = z
          /\ \A i \in 0 .. (Cardinality(S) - 1) : \E x \in S : Rank(S, x) = i
      BY <3>1, <3>2, Ranks
    <3> QED BY <3>3 DEF c, S
  <2> HIDE DEF rank
  <2>2. \A x \in froms : link_start + rank(x) \in link_start .. (e - 1)
    BY <1>2, <1>4, <2>1
  <2>3. \A x, z \in froms : link_start + rank(x) = link_start + rank(z) => x = z
    <3>1. \A x \in froms : rank(x) \in Int
      BY <2>1
    <3> QED BY <1>2, <2>1, <3>1
  <2>4. ASSUME NEW i \in link_start .. (e - 1)
        PROVE  \E x \in froms : link_start + rank(x) = i
    <3>1. i - link_start \in 0 .. (c - 1) /\ i = link_start + (i - link_start)
      BY <1>2, <1>4, <2>4
    <3> QED BY <2>1, <3>1
  <2>5. \A x \in froms : index(x) = link_start + rank(x)
    BY DEF rank, Rank
  <2> HIDE DEF index
  <2> QED BY <2>2, <2>3, <2>4, <2>5
<1> HIDE DEF index
<1>10. \A x \in link_start .. (e - 1) : x \in D
  BY <1>2, <1>7
<1>11. ASSUME NEW x \in D
       PROVE  /\ x \in link_start .. (e - 1) => links'[x] \in froms /\ index(links'[x]) = x
              /\ x \notin link_start .. (e - 1) => links'[x] = links[x]
  <2>1. CASE x \in link_start .. (e - 1)
    <3>1. \E from \in froms : index(from) = x
      BY <1>9, <2>1
    <3>2. links'[x] = CHOOSE from \in froms : index(from) = x
      BY <1>8, <1>11, <3>1
    <3> QED BY <2>1, <3>1, <3>2
  <2>2. CASE x \notin link_start .. (e - 1)
    BY <1>8, <1>9, <1>11, <2>2
  <2> QED BY <2>1, <2>2
<1>12. links' \in [D -> 0 .. n]
  <2>1. \A x \in D : links'[x] \in 0 .. n
    <3>1. froms \in SUBSET (0 .. n)
      BY <1>2, <1>3
    <3> QED BY <1>2, <1>11, <3>1
  <2> QED BY <1>8, <2>1
<1>13. \A x \in D : x < link_start => links'[x] = links[x]
  BY <1>2, <1>7, <1>11
<1>14. {links'[x] : x \in link_start .. (e - 1)} = froms
  <2>1. \A x \in link_start .. (e - 1) : links'[x] \in froms
    BY <1>10, <1>11
  <2>2. ASSUME NEW from \in froms
        PROVE  \E x \in link_start .. (e - 1) : links'[x] = from
    <3>1. index(from) \in link_start .. (e - 1) /\ index(from) \in D
      BY <1>9, <1>10
    <3>2. links'[index(from)] \in froms /\ index(links'[index(from)]) = index(from)
      BY <1>11, <3>1
    <3> QED BY <1>9, <3>1, <3>2
  <2> HIDE DEF e
  <2> QED BY <2>1, <2>2
<1> HIDE DEF e, D
<1> QED BY <1>7, <1>8, <1>12, <1>13, <1>14 DEF e, c, start, D

\* One iteration of resolve_prev().
LEMMA ResolvePrevFlow == ASSUME FlowInv, ResolvePrev PROVE FlowInv'
<1> DEFINE n == Len(basicblocks)
           froms == {from \in DOMAIN basicblocks : k \in Next_(from)}
           e == link_start + Cardinality(froms)
           start == NextEnd(n + 1)
<1>1. TypeOK /\ BlocksInv /\ LabelsInv /\ NextInv /\ PrevInv /\ phase = "prev"
  BY DEF FlowInv, ResolvePrev
<1>2. /\ n \in Nat /\ DOMAIN basicblocks = 1 .. n /\ k \in 1 .. n /\ label_n \in Nat /\ jumps \in Nat
      /\ DOMAIN links = 0 .. (label_n + 2 * jumps - 1) /\ Start = N + 1
      /\ 0 .. (label_n - 1) \subseteq DOMAIN links /\ link_start \in Nat
  BY <1>1, BlocksFacts, LinksFacts
<1>3. /\ start \in label_n .. link_start /\ e \in Nat /\ link_start <= e
      /\ e = start + Cardinality(EdgesTo(k + 1)) /\ e <= label_n + 2 * jumps
      /\ link_start' = e
      /\ links' \in [DOMAIN links -> 0 .. n]
      /\ \A x \in DOMAIN links : x < link_start => links'[x] = links[x]
      /\ {links'[x] : x \in link_start .. (e - 1)} = froms
      /\ basicblocks' = [basicblocks EXCEPT ![k].prev = Span(link_start, e)]
  BY ResolvePrevWrites
<1> HIDE DEF e, start
<1>4. UNCHANGED <<nodes, label_n, jumps>>
  BY DEF ResolvePrev
<1>5. \/ k < n /\ k' = k + 1 /\ phase' = "prev"
      \/ k = n /\ k' = 1 /\ phase' = "built"
  BY <1>1, <1>2 DEF ResolvePrev, Advance
<1>6. Span(link_start, e) \in Spans /\ Indices(Span(link_start, e)) = link_start .. (e - 1)
  BY <1>1, <1>2, <1>3, SpanFacts
<1>7. /\ basicblocks' \in Seq(BasicBlock) /\ Len(basicblocks') = n /\ DOMAIN basicblocks' = 1 .. n
      /\ \A b \in 1 .. n : /\ basicblocks'[b].first = basicblocks[b].first
                           /\ basicblocks'[b].last = basicblocks[b].last
                           /\ basicblocks'[b].next = basicblocks[b].next
      /\ basicblocks'[k].prev = Span(link_start, e)
      /\ \A b \in (1 .. n) \ {k} : basicblocks'[b] = basicblocks[b]
  <2>1. basicblocks \in Seq(BasicBlock)
    BY <1>1 DEF TypeOK
  <2>2. \A b \in 1 .. n : basicblocks[b] \in BasicBlock
    BY <1>2, <2>1
  <2>3. [basicblocks[k] EXCEPT !.prev = Span(link_start, e)] \in BasicBlock
    BY <1>2, <1>6, <2>2 DEF BasicBlock
  <2>4. /\ DOMAIN basicblocks' = 1 .. n
        /\ basicblocks'[k] = [basicblocks[k] EXCEPT !.prev = Span(link_start, e)]
        /\ \A b \in (1 .. n) \ {k} : basicblocks'[b] = basicblocks[b]
    BY <1>2, <1>3
  <2>5. \A b \in 1 .. n : basicblocks'[b] \in BasicBlock
    BY <2>2, <2>3, <2>4
  <2>6. basicblocks' \in Seq(BasicBlock) /\ Len(basicblocks') = n
    BY <1>2, <1>3, <2>1, <2>3
  <2>7. /\ basicblocks'[k].first = basicblocks[k].first
        /\ basicblocks'[k].last = basicblocks[k].last
        /\ basicblocks'[k].next = basicblocks[k].next
        /\ basicblocks'[k].prev = Span(link_start, e)
    BY <1>2, <2>2, <2>4 DEF BasicBlock
  <2> QED BY <2>4, <2>6, <2>7
<1>8. /\ BlocksInv' /\ Labels' = Labels
      /\ \A b \in 1 .. n : /\ LeadingLabels(b)' = LeadingLabels(b)
                           /\ LastOf(b)' = LastOf(b) /\ Falls(b)' = Falls(b)
      /\ \A m \in 1 .. (n + 1) : LinkSlots(m)' = LinkSlots(m)
  BY <1>1, <1>2, <1>4, <1>5, <1>7, ShapeKept
<1>9. TypeOK'
  <2>1. links' \in [0 .. (label_n + 2 * jumps) - 1 -> (1 .. n) \cup {NoBlock}]
    <3>1. 0 .. n = (1 .. n) \cup {NoBlock}
      BY <1>2 DEF NoBlock
    <3> QED BY <1>2, <1>3, <3>1
  <2>2. k' \in Nat \ {0} /\ k' <= n
    <3>1. n \in Nat /\ k \in 1 .. n
      BY <1>2
    <3> HIDE DEF n
    <3> QED BY <1>5, <3>1
  <2>3. nodes \in Codes \cup {<< >>}
    BY <1>1 DEF TypeOK
  <2> QED BY <1>2, <1>3, <1>4, <1>5, <1>7, <2>1, <2>2, <2>3 DEF TypeOK, Idle
<1>10. \A l \in 0 .. (label_n - 1) : links'[l] = links[l]
  BY <1>2, <1>3
<1>11. LabelsInv'
  BY <1>1, <1>4, <1>5, <1>7, <1>8, <1>10, LabelsKept
<1>12. NextEnd(Len(basicblocks) + 1)' = start
  <2>1. \A m \in 1 .. (n + 1) : NextEnd(m)' = NextEnd(m)
    BY <1>4, <1>8 DEF NextEnd
  <2>2. Len(basicblocks') = n /\ n + 1 \in 1 .. (n + 1)
    BY <1>2, <1>7
  <2> QED BY <2>1, <2>2 DEF start
<1>13. Followed = n + 1 /\ Followed' = n + 1 /\ (n + 1) - 1 = n
  BY <1>1, <1>2, <1>5, <1>7 DEF Followed
<1>14. ASSUME NEW b \in 1 .. n
       PROVE  /\ JumpsToLabel(LastOf(b)) => Found(LastOf(b).l)
              /\ Next_(b) = Targets(b)
              /\ Indices(basicblocks[b].next) \subseteq label_n .. (start - 1)
              /\ \A c \in 1 .. (b - 1) :
                   Indices(basicblocks[c].next) \cap Indices(basicblocks[b].next) = {}
  BY <1>1, <1>13 DEF NextInv, start
<1>15. ASSUME NEW b \in 1 .. n
       PROVE  /\ Next_(b)' = Next_(b)
              /\ Indices(basicblocks[b].next)' = Indices(basicblocks[b].next)
  <2>1. Indices(basicblocks[b].next)' = Indices(basicblocks[b].next)
    BY <1>7 DEF Indices
  <2>2. \A x \in label_n .. (start - 1) : x \in DOMAIN links /\ x < link_start
    BY <1>2, <1>3
  <2>3. \A x \in Indices(basicblocks[b].next) : links'[x] = links[x]
    BY <1>3, <1>14, <2>2
  <2> QED BY <2>1, <2>3 DEF Next_
<1>16. ASSUME NEW b \in 1 .. n
       PROVE  /\ (JumpsToLabel(LastOf(b)) => Found(LastOf(b).l))'
              /\ Next_(b)' = Targets(b)'
              /\ Indices(basicblocks[b].next)' \subseteq label_n .. (start - 1)
              /\ \A c \in 1 .. (b - 1) :
                   Indices(basicblocks[c].next)' \cap Indices(basicblocks[b].next)' = {}
  <2>1. LastOf(b).l \in Nat
    BY <1>1, <1>2, BlocksFacts, NodesFacts DEF LastOf, Node
  <2>2. JumpsToLabel(LastOf(b)) => links'[LastOf(b).l] = links[LastOf(b).l]
    BY <1>2, <1>10, <1>14, <2>1 DEF Found
  <2>3. LastOf(b)' = LastOf(b) /\ Falls(b)' = Falls(b) /\ label_n' = label_n
    BY <1>4, <1>8
  <2>4. Targets(b)' = Targets(b) /\ (JumpsToLabel(LastOf(b)) => Found(LastOf(b).l))'
    BY <1>14, <2>2, <2>3 DEF Targets, Found
  <2>5. \A c \in 1 .. (b - 1) : c \in 1 .. n
    BY <1>2
  <2> QED BY <1>14, <1>15, <2>4, <2>5
<1>17. NextInv'
  BY <1>4, <1>5, <1>7, <1>12, <1>13, <1>16 DEF NextInv
<1>18. Preceded = k /\ Preceded' = k + 1 /\ (k + 1) - 1 = k
  BY <1>1, <1>2, <1>5, <1>7 DEF Preceded
<1>19. EdgesTo(Preceded)' = EdgesTo(k + 1)
  BY <1>2, <1>7, <1>15, <1>18 DEF EdgesTo
<1>20. ASSUME NEW c \in 1 .. k
       PROVE  /\ Prev_(c)' = {from \in 1 .. n : c \in Next_(from)}
              /\ Indices(basicblocks[c].prev)' \subseteq start .. (e - 1)
  <2>1. CASE c = k
    <3>1. Indices(basicblocks[c].prev)' = link_start .. (e - 1)
      BY <1>6, <1>7, <2>1 DEF Indices
    <3>2. Prev_(c)' = froms
      BY <1>3, <3>1 DEF Prev_
    <3>3. link_start .. (e - 1) \subseteq start .. (e - 1)
      BY <1>2, <1>3
    <3> QED BY <1>2, <2>1, <3>1, <3>2, <3>3
  <2>2. CASE c # k
    <3>1. c \in 1 .. (k - 1) /\ c \in (1 .. n) \ {k}
      BY <1>2, <1>20, <2>2
    <3>2. /\ Prev_(c) = {from \in 1 .. n : c \in Next_(from)}
          /\ Indices(basicblocks[c].prev) \subseteq start .. (link_start - 1)
      BY <1>1, <1>2, <1>18, <3>1 DEF PrevInv, start
    <3>3. Indices(basicblocks[c].prev)' = Indices(basicblocks[c].prev)
      BY <1>7, <3>1 DEF Indices
    <3>4. \A x \in start .. (link_start - 1) : x \in DOMAIN links /\ x < link_start
      BY <1>2, <1>3
    <3>5. \A x \in Indices(basicblocks[c].prev) : links'[x] = links[x]
      BY <1>3, <3>2, <3>4
    <3>6. Prev_(c)' = Prev_(c)
      BY <3>3, <3>5 DEF Prev_
    <3>7. start .. (link_start - 1) \subseteq start .. (e - 1)
      BY <1>2, <1>3
    <3> QED BY <3>2, <3>3, <3>6, <3>7
  <2> QED BY <2>1, <2>2
<1>21. PrevInv'
  <2>1. \A c \in 1 .. k : Prev_(c)' = {from \in DOMAIN basicblocks' : c \in Next_(from)'}
    BY <1>7, <1>15, <1>20
  <2>2. link_start' = start + Cardinality(EdgesTo(Preceded)')
    BY <1>3, <1>19
  <2> QED BY <1>3, <1>12, <1>18, <1>20, <2>1, <2>2 DEF PrevInv
<1> QED BY <1>5, <1>8, <1>9, <1>11, <1>17, <1>21 DEF FlowInv, FailedInv

-----------------------------------------------------------------------------
(* Every step.                                                             *)

\* Nothing that FlowInv says changes while no variable does.
LEMMA StutterFlow == ASSUME FlowInv, UNCHANGED vars PROVE FlowInv'
<1>1. /\ phase' = phase /\ nodes' = nodes /\ basicblocks' = basicblocks /\ links' = links
      /\ label_n' = label_n /\ jumps' = jumps /\ k' = k /\ link_start' = link_start
  BY DEF vars
<1>2. TypeOK'
  BY <1>1 DEF FlowInv, TypeOK
<1>3. BlocksInv'
  BY <1>1 DEF FlowInv, BlocksInv, BlocksPartition, Needed, JumpsFrom, In, Start, N
<1>4. LabelsInv'
  BY <1>1 DEF FlowInv, LabelsInv, Labels, LeadingLabels, Labelled
<1>5. /\ Followed' = Followed /\ Preceded' = Preceded
      /\ \A b : LastOf(b)' = LastOf(b) /\ Next_(b)' = Next_(b) /\ Prev_(b)' = Prev_(b)
      /\ \A l : Found(l)' = Found(l)
  BY <1>1 DEF Followed, Preceded, LastOf, Next_, Prev_, Found
<1>6. \A b : Falls(b)' = Falls(b)
  BY <1>1, <1>5 DEF Falls
<1>7. \A b : Targets(b)' = Targets(b) /\ LinkCount(b)' = LinkCount(b)
  BY <1>1, <1>5, <1>6 DEF Targets, LinkCount
<1>8. \A m : NextEnd(m)' = NextEnd(m) /\ EdgesTo(m)' = EdgesTo(m)
  BY <1>1, <1>5, <1>7 DEF NextEnd, LinkSlots, EdgesTo
<1>9. NextInv'
  <2>1. NextEnd(Followed)' = NextEnd(Followed) /\ NextEnd(k)' = NextEnd(k)
    BY <1>1, <1>5, <1>8
  <2>2. \A b : (JumpsToLabel(LastOf(b)) => Found(LastOf(b).l))'
               = (JumpsToLabel(LastOf(b)) => Found(LastOf(b).l))
    BY <1>5
  <2> QED BY <1>1, <1>5, <1>7, <2>1, <2>2 DEF FlowInv, NextInv
<1>10. PrevInv'
  <2>1. /\ NextEnd(Len(basicblocks) + 1)' = NextEnd(Len(basicblocks) + 1)
        /\ EdgesTo(Preceded)' = EdgesTo(Preceded)
    BY <1>1, <1>5, <1>8
  <2> QED BY <1>1, <1>5, <2>1 DEF FlowInv, PrevInv
<1>11. FailedInv'
  BY <1>1 DEF FlowInv, FailedInv, Labels
<1> QED BY <1>2, <1>3, <1>4, <1>9, <1>10, <1>11 DEF FlowInv

\* Every step of build() keeps its invariant.
LEMMA NextFlow == ASSUME FlowInv, [Next]_vars PROVE FlowInv'
<1>1. CASE AddBlock
  BY <1>1, AddBlockFlow
<1>2. CASE EndBlocks
  BY <1>2, EndBlocksFlow
<1>3. CASE ResolveLabels
  BY <1>3, ResolveLabelsFlow
<1>4. CASE ResolveNext
  BY <1>4, ResolveNextFlow
<1>5. CASE NextFails
  BY <1>5, NextFailsFlow
<1>6. CASE ResolvePrev
  BY <1>6, ResolvePrevFlow
<1>7. CASE \E code \in Codes : Build(code)
  BY <1>7, BuildFlow
<1>8. CASE UNCHANGED vars
  BY <1>8, StutterFlow
<1> QED BY <1>1, <1>2, <1>3, <1>4, <1>5, <1>6, <1>7, <1>8 DEF Next, Step

-----------------------------------------------------------------------------
(* What the invariant says of a graph.                                     *)

\* The writes of the links are never dropped.
LEMMA LinksFitFlow == ASSUME FlowInv PROVE LinksFit
<1> SUFFICES ASSUME phase \in {"next", "prev", "built"}
             PROVE  link_start <= Cardinality(DOMAIN links)
  BY DEF LinksFit
<1> DEFINE n == Len(basicblocks)
           start == NextEnd(n + 1)
<1>1. /\ n \in Nat /\ label_n \in Nat /\ jumps \in Nat /\ link_start \in Nat
      /\ DOMAIN links = 0 .. (label_n + 2 * jumps - 1)
      /\ phase \in {"next", "prev"} => k \in 1 .. n
  BY BlocksFacts, LinksFacts DEF FlowInv
<1>2. Cardinality(DOMAIN links) = label_n + 2 * jumps
  <2> DEFINE hi == label_n + 2 * jumps - 1
  <2>1. hi \in Int /\ hi + 1 = label_n + 2 * jumps /\ (0 > hi => label_n + 2 * jumps = 0)
    BY <1>1
  <2> HIDE DEF hi
  <2>2. Cardinality(0 .. hi) = IF 0 > hi THEN 0 ELSE hi - 0 + 1
    BY <2>1, FS_Interval
  <2>3. Cardinality(0 .. hi) = label_n + 2 * jumps
    BY <2>1, <2>2
  <2> QED BY <1>1, <2>3 DEF hi
<1>3. CASE phase = "next"
  <2>1. link_start = NextEnd(k)
    BY <1>3 DEF FlowInv, NextInv
  <2>2. k \in 1 .. (n + 1)
    BY <1>1, <1>3
  <2>3. NextEnd(k) \in label_n .. (label_n + jumps)
    BY <1>3, <2>2, NextEndFacts DEF FlowInv
  <2> QED BY <1>1, <1>2, <2>1, <2>3
<1>4. CASE phase \in {"prev", "built"}
  <2>1. Preceded \in 1 .. (n + 1)
    BY <1>1, <1>4 DEF Preceded
  <2>2. link_start = start + Cardinality(EdgesTo(Preceded))
    BY <1>4 DEF FlowInv, PrevInv
  <2>3. /\ Cardinality(EdgesTo(Preceded)) \in Nat
        /\ Cardinality(EdgesTo(Preceded)) <= start - label_n
        /\ start \in label_n .. (label_n + jumps)
    BY <1>4, <2>1, EdgesFit
  <2> DEFINE edges == Cardinality(EdgesTo(Preceded))
  <2> HIDE DEF edges, start
  <2>4. link_start = start + edges /\ edges \in Nat /\ edges <= start - label_n
    BY <2>2, <2>3 DEF edges
  <2> QED BY <1>1, <1>2, <2>3, <2>4
<1> QED BY <1>3, <1>4

\* A jump to a label, or any other that is_uncond_jump() and is_cond_jump() know,
\* is the last node of its block.
LEMMA JumpsAreLast ==
  ASSUME TypeOK, BlocksInv, NEW b \in 1 .. Len(basicblocks), NEW p \in 1 .. N, In(p, b),
         IsUncondJump(nodes[p]) \/ IsCondJump(nodes[p])
  PROVE  p = basicblocks[b].last /\ LastOf(b) = nodes[p]
<1>1. /\ DOMAIN basicblocks = 1 .. Len(basicblocks) /\ N \in Nat
      /\ basicblocks[b].first \in 1 .. N /\ basicblocks[b].last \in basicblocks[b].first .. N
  BY BlocksFacts, NodesFacts
<1>2. p \in basicblocks[b].first .. basicblocks[b].last
  BY DEF In
<1>3. p \notin basicblocks[b].first .. (basicblocks[b].last - 1)
  BY <1>1 DEF BlocksInv, BlocksPartition
<1>4. p = basicblocks[b].last
  BY <1>1, <1>2, <1>3
<1> QED BY <1>4 DEF LastOf

\* build() fails exactly on a jump to a label that is not in the code.
LEMMA FailsFlow == ASSUME FlowInv PROVE FailsOnMissingLabel
<1> SUFFICES ASSUME phase = "built",
                    NEW p \in DOMAIN nodes, JumpsToLabel(nodes[p]), nodes[p].l \notin Labels
             PROVE  FALSE
  BY DEF FlowInv, FailedInv, FailsOnMissingLabel, Idle
<1> DEFINE n == Len(basicblocks)
<1>1. /\ TypeOK /\ BlocksInv /\ LabelsInv /\ NextInv
      /\ n \in Nat /\ DOMAIN basicblocks = 1 .. n /\ N \in Nat /\ DOMAIN nodes = 1 .. N
      /\ Start = N + 1
  BY BlocksFacts, NodesFacts, LinksFacts DEF FlowInv
<1>2. p \in 1 .. N /\ p \in 1 .. (Start - 1) /\ nodes[p].l \in Nat
  BY <1>1, NodesFacts DEF Node
<1>3. PICK b \in 1 .. n : In(p, b)
  BY <1>1, <1>2 DEF BlocksInv
<1>4. LastOf(b) = nodes[p]
  <2>1. IsUncondJump(nodes[p]) \/ IsCondJump(nodes[p])
    BY DEF JumpsToLabel, IsUncondJump, IsCondJump
  <2> QED BY <1>1, <1>2, <1>3, <2>1, JumpsAreLast
<1>5. Found(nodes[p].l)
  <2>1. b \in 1 .. (Followed - 1)
    BY <1>1 DEF Followed
  <2> QED BY <1>1, <1>4, <2>1 DEF NextInv
<1>6. \E q \in 1 .. N : IsLabel(nodes[q]) /\ nodes[q].l = nodes[p].l
  BY <1>1, <1>2, <1>5, FoundLeadsToLabel
<1> QED BY <1>1, <1>6 DEF Labels

\* What a built graph knows of its blocks.
LEMMA BuiltFacts ==
  ASSUME FlowInv, phase = "built", NEW b \in 1 .. Len(basicblocks)
  PROVE  /\ JumpsToLabel(LastOf(b)) => Found(LastOf(b).l)
         /\ Next_(b) = Targets(b)
         /\ Prev_(b) = {from \in 1 .. Len(basicblocks) : b \in Next_(from)}
<1>1. Len(basicblocks) \in Nat /\ DOMAIN basicblocks = 1 .. Len(basicblocks)
  BY BlocksFacts DEF FlowInv
<1>2. b \in 1 .. (Followed - 1) /\ b \in 1 .. (Preceded - 1)
  BY <1>1 DEF Followed, Preceded
<1> QED BY <1>1, <1>2 DEF FlowInv, NextInv, PrevInv

\* Execution goes from block b to block c.
Leads(b, c) ==
  \E p, q \in DOMAIN nodes : In(p, b) /\ In(q, c) /\ Goes(p, q) /\ (b = c => q # p + 1)

\* Every edge is one that execution takes.
LEMMA EdgesLead ==
  ASSUME FlowInv, phase = "built",
         NEW b \in 1 .. Len(basicblocks), NEW c \in 1 .. Len(basicblocks), c \in Next_(b)
  PROVE  Leads(b, c)
<1> DEFINE p == basicblocks[b].last
<1>1. /\ TypeOK /\ BlocksInv /\ LabelsInv
      /\ Len(basicblocks) \in Nat /\ DOMAIN basicblocks = 1 .. Len(basicblocks)
      /\ N \in Nat /\ DOMAIN nodes = 1 .. N
      /\ \A x \in 1 .. Len(basicblocks) : /\ basicblocks[x].first \in 1 .. N
                                          /\ basicblocks[x].last \in basicblocks[x].first .. N
  BY BlocksFacts, NodesFacts DEF FlowInv
<1>2. p \in 1 .. N /\ In(p, b) /\ LastOf(b) = nodes[p] /\ nodes[p].l \in Nat
  <2>1. p \in 1 .. N /\ In(p, b) /\ LastOf(b) = nodes[p]
    BY <1>1 DEF In, LastOf
  <2> QED BY <1>1, <2>1, NodesFacts DEF Node
<1>3. c \in Targets(b) /\ (JumpsToLabel(LastOf(b)) => Found(LastOf(b).l))
  BY BuiltFacts
<1>4. CASE Falls(b) /\ c = b + 1
  <2> DEFINE q == basicblocks[c].first
  <2>1. q = p + 1
    <3>1. c # 1 /\ c - 1 = b
      BY <1>1, <1>4
    <3> QED BY <1>1, <3>1 DEF BlocksInv, BlocksPartition
  <2>2. q \in 1 .. N /\ In(q, c)
    BY <1>1 DEF In
  <2>3. Goes(p, q)
    BY <1>2, <1>4, <2>1 DEF Goes, Falls
  <2>4. b # c
    BY <1>4
  <2> HIDE DEF p, q
  <2> QED BY <1>1, <1>2, <2>2, <2>3, <2>4 DEF Leads
<1>5. CASE JumpsToLabel(LastOf(b)) /\ c = links[LastOf(b).l]
  <2>1. PICK q \in 1 .. N : In(q, c) /\ IsLabel(nodes[q]) /\ nodes[q].l = nodes[p].l
    BY <1>1, <1>2, <1>3, <1>5, FoundLeadsToLabel
  <2>2. Goes(p, q)
    BY <1>2, <1>5, <2>1 DEF Goes, JumpsToLabel
  <2>3. b = c => q # p + 1
    BY <1>1, <2>1 DEF In
  <2> HIDE DEF p
  <2> QED BY <1>1, <1>2, <2>1, <2>2, <2>3 DEF Leads
<1> QED BY <1>3, <1>4, <1>5 DEF Targets

\* Every way that execution takes is an edge, but for the jumps that
\* is_cond_jump() does not list.
LEMMA LeadsAreEdges ==
  ASSUME FlowInv, phase = "built", \A p \in DOMAIN nodes : nodes[p].kind # "unlisted",
         NEW b \in 1 .. Len(basicblocks), NEW c \in 1 .. Len(basicblocks), Leads(b, c)
  PROVE  c \in Next_(b)
<1> DEFINE n == Len(basicblocks)
<1>1. /\ TypeOK /\ BlocksInv /\ LabelsInv
      /\ n \in Nat /\ DOMAIN basicblocks = 1 .. n /\ N \in Nat /\ DOMAIN nodes = 1 .. N
      /\ \A x \in 1 .. n : /\ basicblocks[x].first \in 1 .. N
                           /\ basicblocks[x].last \in basicblocks[x].first .. N
  BY BlocksFacts, NodesFacts DEF FlowInv
<1>2. PICK p \in 1 .. N, q \in 1 .. N :
        In(p, b) /\ In(q, c) /\ Goes(p, q) /\ (b = c => q # p + 1)
  BY <1>1 DEF Leads
<1>3. CASE q = p + 1 /\ ~IsUncondJump(nodes[p])
  <2>1. p = basicblocks[b].last
    <3> SUFFICES ASSUME p # basicblocks[b].last PROVE FALSE
      OBVIOUS
    <3>1. In(q, b)
      BY <1>1, <1>2, <1>3 DEF In
    <3>2. b = c
      BY <1>1, <1>2, <3>1, InOneBlock
    <3> QED BY <1>2, <1>3, <3>2
  <2>2. b # n
    <3> SUFFICES ASSUME b = n PROVE FALSE
      OBVIOUS
    <3>1. nodes # << >>
      BY <1>1 DEF N
    <3>2. basicblocks[n].last = N
      BY <1>1, <3>1 DEF BlocksInv, BlocksPartition
    <3> QED BY <1>1, <1>2, <1>3, <2>1, <3>2
  <2>3. b + 1 \in 1 .. n /\ b < n
    <3>1. n \in Nat /\ b \in 1 .. n
      BY <1>1
    <3> HIDE DEF n
    <3> QED BY <2>2, <3>1
  <2>4. basicblocks[b + 1].first = q
    <3>1. b + 1 # 1 /\ (b + 1) - 1 = b
      BY <1>1
    <3> QED BY <1>1, <1>3, <2>1, <2>3, <3>1 DEF BlocksInv, BlocksPartition
  <2>5. In(q, b + 1)
    BY <1>1, <2>3, <2>4 DEF In
  <2>6. c = b + 1
    BY <1>1, <1>2, <2>3, <2>5, InOneBlock
  <2>7. Falls(b)
    BY <1>3, <2>1, <2>3 DEF Falls, LastOf
  <2> QED BY <2>6, <2>7, BuiltFacts DEF Targets
<1>4. CASE /\ nodes[p].kind \in {"goto", "cond", "unlisted"}
           /\ IsLabel(nodes[q]) /\ nodes[q].l = nodes[p].l
  <2>1. nodes[p].kind \in {"goto", "cond"}
    BY <1>1, <1>4
  <2>2. JumpsToLabel(nodes[p]) /\ (IsUncondJump(nodes[p]) \/ IsCondJump(nodes[p]))
    BY <2>1 DEF JumpsToLabel, IsUncondJump, IsCondJump
  <2>3. LastOf(b) = nodes[p]
    BY <1>1, <1>2, <2>2, JumpsAreLast
  <2>4. links[nodes[p].l] = c
    BY <1>1, <1>2, <1>4, LabelIsFound
  <2> QED BY <2>2, <2>3, <2>4, BuiltFacts DEF Targets
<1> QED BY <1>2, <1>3, <1>4 DEF Goes

-----------------------------------------------------------------------------
(* The theorems.                                                           *)

\* FlowGraph::build() establishes loop by loop that its blocks, the table of
\* labels, and the links of its blocks are right.
THEOREM FlowInvariant == Spec => []FlowInv
<1>1. Init => FlowInv
  BY InitFlow
<1>2. FlowInv /\ [Next]_vars => FlowInv'
  BY NextFlow
<1> QED BY <1>1, <1>2, PTL DEF Spec

\* The variables of build() keep their types: every link is a block or null.
THEOREM TypeCorrect == Spec => []TypeOK
<1>1. FlowInv => TypeOK
  BY DEF FlowInv
<1> QED BY <1>1, FlowInvariant, PTL

\* build_basicblocks() cuts any code into blocks that are entered at their start
\* and left at their end only.
THEOREM BlocksArePartition == Spec => []BlocksPartition
<1>1. FlowInv => BlocksPartition
  BY DEF FlowInv, BlocksInv
<1> QED BY <1>1, FlowInvariant, PTL

\* The links counted by build_basicblocks() are enough for resolve_next() and
\* resolve_prev(), whatever the code: no write to links_ is dropped.
THEOREM LinksAlwaysFit == Spec => []LinksFit
<1>1. FlowInv => LinksFit
  BY LinksFitFlow
<1> QED BY <1>1, FlowInvariant, PTL

\* build() fails exactly on a jump to a label that is not in the code.
THEOREM FailsExactly == Spec => []FailsOnMissingLabel
<1>1. FlowInv => FailsOnMissingLabel
  BY FailsFlow
<1> QED BY <1>1, FlowInvariant, PTL

\* Whatever the code, also one with jumps that is_cond_jump() does not list, the
\* graph of build() has only edges that execution takes, and next() and prev() of
\* its blocks are the same edges.
EdgesAreReal ==
  phase = "built" => \A b, c \in DOMAIN basicblocks :
    /\ c \in Next_(b) => Leads(b, c)
    /\ c \in Next_(b) <=> b \in Prev_(c)

\* For any code, jumps that is_cond_jump() does not list included, every edge of the
\* graph is one that execution takes, and next() and prev() are the same edges.
THEOREM EdgesAreSound == Spec => []EdgesAreReal
<1>1. FlowInv => EdgesAreReal
  <2> SUFFICES ASSUME FlowInv, phase = "built",
                      NEW b \in 1 .. Len(basicblocks), NEW c \in 1 .. Len(basicblocks)
               PROVE  (c \in Next_(b) => Leads(b, c)) /\ (c \in Next_(b) <=> b \in Prev_(c))
    BY BlocksFacts DEF EdgesAreReal, FlowInv
  <2> QED BY EdgesLead, BuiltFacts
<1> QED BY <1>1, FlowInvariant, PTL

\* When is_cond_jump() lists every conditional jump of the code, the graph of
\* build() has exactly the edges that execution takes.
THEOREM EdgesAreExact ==
  ASSUME \A code \in Codes : \A p \in DOMAIN code : code[p].kind # "unlisted"
  PROVE  Spec => []EdgesAreJumps
<1>1. FlowInv => EdgesAreJumps
  <2> SUFFICES ASSUME FlowInv, phase = "built",
                      NEW b \in 1 .. Len(basicblocks), NEW c \in 1 .. Len(basicblocks)
               PROVE  (c \in Next_(b) <=> Leads(b, c)) /\ (c \in Next_(b) <=> b \in Prev_(c))
    BY BlocksFacts DEF EdgesAreJumps, Leads, FlowInv
  <2>1. \A p \in DOMAIN nodes : nodes[p].kind # "unlisted"
    BY DEF FlowInv, TypeOK
  <2> QED BY <2>1, EdgesLead, LeadsAreEdges, BuiltFacts
<1> QED BY <1>1, FlowInvariant, PTL

=============================================================================
