-------------------------- MODULE TypeGraphProofs --------------------------
(***************************************************************************)
(* Proofs about TypeGraph for any declarations: chains of underlying types *)
(* end; CompleteTypes() completes a type after all types that its size and *)
(* comparability depend on, whatever the order of the map iteration; it    *)
(* returns only with declarations that Go allows, and panics only for      *)
(* declarations that Go does not allow unless one was early; and what      *)
(* complete types know of themselves is true.                              *)
(***************************************************************************)
EXTENDS TypeGraph, FiniteSetTheorems, WellFoundedInduction, TLAPS

-----------------------------------------------------------------------------
(* Iterations.                                                             *)

\* A set of naturals with 0 and the successor of each member has them all.
LEMMA AllNaturals ==
  ASSUME NEW S, 0 \in S, \A i \in Nat : i \in S => i + 1 \in S
  PROVE  Nat \subseteq S
<1> DEFINE R == OpToRel(<, Nat)
           T == Nat \ S
<1>1. \A x, y \in Nat : x < y => <<x, y>> \in R
  BY DEF OpToRel
<1>2. IsWellFoundedOn(R, Nat)
  BY NatLessThanWellFounded
<1> HIDE DEF R
<1>3. SUFFICES ASSUME T # {} PROVE FALSE
  OBVIOUS
<1>4. T \subseteq Nat
  OBVIOUS
<1> HIDE DEF T
<1>5. PICK x \in T : \A y \in T : ~(<<y, x>> \in R)
  BY <1>2, <1>3, <1>4, WFMin, Zenon
<1>6. x \in Nat /\ x \notin S
  BY DEF T
<1>7. x - 1 \in Nat /\ x - 1 < x
  BY <1>6
<1>8. x - 1 \in S
  BY <1>1, <1>5, <1>6, <1>7 DEF T
<1>9. (x - 1) + 1 = x
  BY <1>6
<1> QED BY <1>6, <1>7, <1>8, <1>9

\* f is a function that grows along next in each of N steps.
Grows(f, next, N) == \A i \in 0 .. (N - 1) : f[i + 1] = f[i] \cup UNION {next[t] : t \in f[i]}

\* The recursive function of Reached exists and is what the recursion says.
LEMMA ReachedSteps ==
  ASSUME NEW S, NEW next, NEW N \in Nat
  PROVE  \E f : /\ Reached(S, next, N) = f[N]
                /\ f[0] = S
                /\ Grows(f, next, N)
<1> DEFINE More(T) == T \cup UNION {next[t] : t \in T}
           Step(f, n) == [i \in 0 .. n |-> IF i = 0 THEN S ELSE More(f[i - 1])]
           done == {n \in Nat : \E f : f = Step(f, n)}
<1>1. 0 \in done
  <2> DEFINE f == [i \in 0 .. 0 |-> S]
  <2>1. f = Step(f, 0)
    OBVIOUS
  <2> QED BY <2>1
<1>2. ASSUME NEW n \in Nat, n \in done PROVE n + 1 \in done
  <2>1. PICK f : f = Step(f, n)
    BY <1>2
  <2> DEFINE g == Step(f, n + 1)
  <2>2. \A i \in 0 .. n : f[i] = IF i = 0 THEN S ELSE More(f[i - 1])
    <3> DEFINE h == Step(f, n)
    <3>1. \A i \in 0 .. n : h[i] = IF i = 0 THEN S ELSE More(f[i - 1])
      OBVIOUS
    <3> HIDE DEF h, More
    <3> QED BY <2>1, <3>1 DEF h
  <2>3. \A i \in 0 .. (n + 1) : g[i] = IF i = 0 THEN S ELSE More(f[i - 1])
    OBVIOUS
  <2>4. g = [i \in 0 .. (n + 1) |-> g[i]]
    OBVIOUS
  <2> HIDE DEF g, More
  <2>5. \A i \in 0 .. n : g[i] = f[i]
    <3>1. \A i \in 0 .. n : i \in 0 .. (n + 1)
      OBVIOUS
    <3> QED BY <2>2, <2>3, <3>1
  <2>6. ASSUME NEW i \in 0 .. (n + 1) PROVE g[i] = IF i = 0 THEN S ELSE More(g[i - 1])
    <3>1. CASE i = 0
      BY <2>3, <3>1
    <3>2. CASE i # 0
      <4>1. i - 1 \in 0 .. n
        BY <3>2
      <4> QED BY <2>3, <2>5, <3>2, <4>1
    <3> QED BY <3>1, <3>2
  <2>7. g = Step(g, n + 1)
    BY <2>4, <2>6
  <2> QED BY <2>7
<1>3. N \in done
  <2> HIDE DEF done
  <2> QED BY <1>1, <1>2, AllNaturals
<1> DEFINE f == CHOOSE f : f = Step(f, N)
<1>4. f = Step(f, N)
  BY <1>3
<1>5. Reached(S, next, N) = f[N]
  BY DEF Reached
<1>6. f[0] = S /\ \A i \in 0 .. (N - 1) : f[i + 1] = More(f[i])
  <2> DEFINE h == Step(f, N)
  <2> HIDE DEF f
  <2>1. h[0] = S
    OBVIOUS
  <2>2. ASSUME NEW i \in 0 .. (N - 1) PROVE h[i + 1] = More(f[i])
    <3>1. i + 1 \in 0 .. N /\ i + 1 # 0 /\ (i + 1) - 1 = i
      OBVIOUS
    <3> HIDE DEF More
    <3> QED BY <3>1
  <2>3. f = h
    BY <1>4
  <2> HIDE DEF h, More
  <2> QED BY <2>1, <2>2, <2>3
<1> QED BY <1>5, <1>6 DEF Grows

\* A step takes nothing away.
LEMMA StepsGrow ==
  ASSUME NEW f, NEW next, NEW N \in Nat,
         Grows(f, next, N),
         NEW k \in 0 .. N, NEW j \in 0 .. k
  PROVE  f[j] \subseteq f[k]
<1> DEFINE done == {d \in Nat : d <= k - j => f[j] \subseteq f[j + d]}
<1>1. 0 \in done
  <2>1. j + 0 = j
    OBVIOUS
  <2> QED BY <2>1
<1>2. ASSUME NEW d \in Nat, d \in done PROVE d + 1 \in done
  <2> SUFFICES ASSUME d + 1 <= k - j PROVE f[j] \subseteq f[j + (d + 1)]
    OBVIOUS
  <2>1. j + d \in 0 .. (N - 1) /\ j + (d + 1) = (j + d) + 1 /\ d <= k - j
    OBVIOUS
  <2>2. f[j + d] \subseteq f[(j + d) + 1]
    BY <2>1 DEF Grows
  <2> QED BY <1>2, <2>1, <2>2
<1> HIDE DEF done
<1>3. k - j \in done
  <2>1. k - j \in Nat
    OBVIOUS
  <2> QED BY <1>1, <1>2, <2>1, AllNaturals
<1>4. j + (k - j) = k /\ k - j <= k - j
  OBVIOUS
<1> QED BY <1>3, <1>4 DEF done

\* What is reached in one step.
LEMMA ReachedFirst ==
  ASSUME NEW S, NEW next, NEW N \in Nat
  PROVE  /\ S \subseteq Reached(S, next, N)
         /\ N # 0 => \A t \in S : next[t] \subseteq Reached(S, next, N)
<1>1. PICK f : /\ Reached(S, next, N) = f[N]
               /\ f[0] = S
               /\ Grows(f, next, N)
  BY ReachedSteps
<1>2. S \subseteq f[N]
  <2>1. 0 \in 0 .. N
    OBVIOUS
  <2>2. \A j \in 0 .. N : f[j] \subseteq f[N]
    BY <1>1, StepsGrow
  <2>3. f[0] = S
    BY <1>1
  <2> QED BY <2>1, <2>2, <2>3
<1>3. ASSUME N # 0, NEW t \in S PROVE next[t] \subseteq f[N]
  <2>1. 0 \in 0 .. (N - 1) /\ 0 + 1 = 1 /\ 1 \in 0 .. N
    BY <1>3
  <2>2. f[1] = f[0] \cup UNION {next[s] : s \in f[0]}
    BY <1>1, <2>1 DEF Grows
  <2>3. f[1] \subseteq f[N]
    BY <1>1, <2>1, StepsGrow
  <2> QED BY <1>1, <1>3, <2>2, <2>3
<1> QED BY <1>1, <1>2, <1>3

\* A set that next does not leave is not left.
LEMMA ReachedWithin ==
  ASSUME NEW S, NEW next, NEW N \in Nat, NEW C, S \subseteq C, \A t \in C : next[t] \subseteq C
  PROVE  Reached(S, next, N) \subseteq C
<1>1. PICK f : /\ Reached(S, next, N) = f[N]
               /\ f[0] = S
               /\ Grows(f, next, N)
  BY ReachedSteps
<1> DEFINE done == {i \in Nat : i <= N => f[i] \subseteq C}
<1>2. 0 \in done
  BY <1>1
<1>3. ASSUME NEW i \in Nat, i \in done PROVE i + 1 \in done
  <2> SUFFICES ASSUME i + 1 <= N PROVE f[i + 1] \subseteq C
    OBVIOUS
  <2>1. i \in 0 .. (N - 1) /\ i <= N
    OBVIOUS
  <2>2. f[i + 1] = f[i] \cup UNION {next[t] : t \in f[i]} /\ f[i] \subseteq C
    BY <1>1, <1>3, <2>1 DEF Grows
  <2> QED BY <2>2
<1> HIDE DEF done
<1>4. N \in done
  BY <1>2, <1>3, AllNaturals
<1> QED BY <1>1, <1>4 DEF done

\* In as many steps as there are elements, everything is reached.
LEMMA ReachedAll ==
  ASSUME NEW S, NEW next, NEW N \in Nat, NEW x \in S, NEW U, IsFiniteSet(U), Cardinality(U) <= N,
         Reached(S, next, N) \subseteq U
  PROVE  \A t \in Reached(S, next, N) : next[t] \subseteq Reached(S, next, N)
<1>1. PICK f : /\ Reached(S, next, N) = f[N]
               /\ f[0] = S
               /\ Grows(f, next, N)
  BY ReachedSteps
<1> DEFINE Stable(T) == \A t \in T : next[t] \subseteq T
           done == {i \in Nat : i <= N => Stable(f[i]) \/ Cardinality(f[i]) >= i + 1}
<1>2. \A i \in 0 .. N : IsFiniteSet(f[i]) /\ Cardinality(f[i]) \in Nat /\ Cardinality(f[i]) <= Cardinality(U)
  <2>1. TAKE i \in 0 .. N
  <2>2. f[i] \subseteq U
    BY <1>1, StepsGrow
  <2> QED BY <2>2, FS_Subset, FS_CardinalityType
<1>3. 0 \in done
  <2>1. 0 \in 0 .. N /\ x \in f[0]
    BY <1>1
  <2>2. Cardinality(f[0]) # 0
    BY <1>2, <2>1, FS_EmptySet
  <2>3. Cardinality(f[0]) \in Nat
    BY <1>2, <2>1
  <2> HIDE DEF Stable
  <2> QED BY <2>2, <2>3
<1>4. ASSUME NEW i \in Nat, i \in done PROVE i + 1 \in done
  <2> SUFFICES ASSUME i + 1 <= N PROVE Stable(f[i + 1]) \/ Cardinality(f[i + 1]) >= (i + 1) + 1
    OBVIOUS
  <2>1. i \in 0 .. (N - 1) /\ i \in 0 .. N /\ i + 1 \in 0 .. N /\ i <= N
    OBVIOUS
  <2>2. f[i + 1] = f[i] \cup UNION {next[t] : t \in f[i]}
    BY <1>1, <2>1 DEF Grows
  <2>3. CASE Stable(f[i])
    <3>1. f[i + 1] = f[i]
      BY <2>2, <2>3
    <3> QED BY <2>3, <3>1
  <2>4. CASE ~Stable(f[i])
    <3>1. f[i] \subseteq f[i + 1] /\ f[i] # f[i + 1]
      BY <2>2, <2>4
    <3>2. Cardinality(f[i]) >= i + 1
      BY <1>4, <2>1, <2>4
    <3>3. /\ IsFiniteSet(f[i + 1]) /\ Cardinality(f[i]) \in Nat /\ Cardinality(f[i + 1]) \in Nat
      BY <1>2, <2>1
    <3>4. Cardinality(f[i]) < Cardinality(f[i + 1])
      BY <3>1, <3>3, FS_Subset
    <3> HIDE DEF Stable
    <3> QED BY <3>2, <3>3, <3>4
  <2> QED BY <2>3, <2>4
<1>5. N \in done
  <2> HIDE DEF done
  <2> QED BY <1>3, <1>4, AllNaturals
<1>6. ~(Cardinality(f[N]) >= N + 1)
  <2>1. N \in 0 .. N
    OBVIOUS
  <2>2. Cardinality(f[N]) \in Nat /\ Cardinality(f[N]) <= Cardinality(U) /\ Cardinality(U) \in Nat
    BY <1>2, <2>1, FS_CardinalityType
  <2> QED BY <2>2
<1>7. Stable(f[N])
  <2> HIDE DEF Stable
  <2> QED BY <1>5, <1>6
<1> QED BY <1>1, <1>7

\* From a set that next does not leave, no step leads out.
LEMMA StableStays ==
  ASSUME NEW f, NEW next, NEW N \in Nat,
         Grows(f, next, N),
         NEW k \in 0 .. N, NEW j \in 0 .. k, \A t \in f[j] : next[t] \subseteq f[j]
  PROVE  f[k] = f[j]
<1> DEFINE done == {d \in Nat : d <= k - j => f[j + d] = f[j]}
<1>1. 0 \in done
  <2>1. j + 0 = j
    OBVIOUS
  <2> QED BY <2>1
<1>2. ASSUME NEW d \in Nat, d \in done PROVE d + 1 \in done
  <2> SUFFICES ASSUME d + 1 <= k - j PROVE f[j + (d + 1)] = f[j]
    OBVIOUS
  <2>1. j + d \in 0 .. (N - 1) /\ j + (d + 1) = (j + d) + 1 /\ d <= k - j
    OBVIOUS
  <2>2. f[j + d] = f[j]
    BY <1>2, <2>1
  <2>3. f[(j + d) + 1] = f[j + d] \cup UNION {next[t] : t \in f[j + d]}
    BY <2>1 DEF Grows
  <2> QED BY <2>1, <2>2, <2>3
<1> HIDE DEF done
<1>3. k - j \in done
  <2>1. k - j \in Nat
    OBVIOUS
  <2> QED BY <1>1, <1>2, <2>1, AllNaturals
<1>4. j + (k - j) = k /\ k - j <= k - j
  OBVIOUS
<1> QED BY <1>3, <1>4 DEF done

\* From types to types, downwards through the levels of literals.
Layered(next) ==
  \A t \in Types : /\ next[t] \subseteq Types
                   /\ t \in Basic => next[t] = {}
                   /\ t \in Literal => \A x \in next[t] \cap Literal : x.level < t.level

\* Unless more than Depth steps find another declared type, they find everything.
LEMMA LevelsSink ==
  ASSUME NEW f, NEW next, NEW N \in Nat, Layered(next),
         Grows(f, next, N),
         \A i \in 0 .. N : f[i] \subseteq Types,
         NEW i \in Nat, i + (Depth + 1) <= N, f[i + (Depth + 1)] \cap Named \subseteq f[i]
  PROVE  \A t \in f[i + (Depth + 1)] : next[t] \subseteq f[i + (Depth + 1)]
<1> DEFINE e == i + (Depth + 1)
           Low(m) == {x \in Types : x \in Basic \/ (x \in Literal /\ x.level <= Depth - m)}
           New1(m) == f[i + m + 1] \ f[i + m]
           done == {m \in Nat : m <= Depth => New1(m) \subseteq Low(m)}
<1>1. /\ Depth \in Nat /\ \A l \in Literal : l.level \in 1 .. Depth
      /\ \A t \in Types : t \in Named \/ t \in Basic \/ t \in Literal
  BY LiteralAssumption DEF Types
<1>2. ASSUME NEW m \in Nat, m <= Depth
      PROVE  /\ i + m \in 0 .. (N - 1) /\ i + m \in 0 .. N /\ i + m + 1 \in 0 .. N
             /\ f[i + m + 1] = f[i + m] \cup UNION {next[t] : t \in f[i + m]}
             /\ f[i] \subseteq f[i + m]
             /\ \A x \in New1(m) : x \in Types \ Named
  <2>1. i + m \in 0 .. (N - 1) /\ i + m \in 0 .. N /\ i + m + 1 \in 0 .. N /\ i \in 0 .. (i + m) /\ i + m \in Nat
    BY <1>1, <1>2
  <2>2. f[i + m + 1] = f[i + m] \cup UNION {next[t] : t \in f[i + m]}
    BY <2>1 DEF Grows
  <2>3. f[i] \subseteq f[i + m]
    BY <2>1, StepsGrow
  <2>4. f[i + m + 1] \subseteq f[e]
    <3>1. e \in 0 .. N /\ i + m + 1 \in 0 .. e
      BY <1>1, <1>2
    <3> HIDE DEF e
    <3> QED BY <3>1, StepsGrow
  <2>5. \A x \in New1(m) : x \in Types \ Named
    <3> TAKE x \in New1(m)
    <3>1. x \in Types /\ x \in f[e] /\ x \notin f[i]
      BY <2>1, <2>3, <2>4
    <3> QED BY <3>1
  <2> QED BY <2>1, <2>2, <2>3, <2>5
<1>3. 0 \in done
  <2>1. 0 <= Depth /\ 0 \in Nat /\ \A l \in Literal : l.level <= Depth - 0
    BY <1>1
  <2>2. \A x \in New1(0) : x \in Types \ Named
    BY <1>2, <2>1
  <2> HIDE DEF New1
  <2> QED BY <1>1, <2>1, <2>2
<1>4. ASSUME NEW m \in Nat, m \in done PROVE m + 1 \in done
  <2> SUFFICES ASSUME m + 1 <= Depth, NEW x \in New1(m + 1) PROVE x \in Low(m + 1)
    OBVIOUS
  <2>1. m <= Depth /\ m + 1 \in Nat /\ i + (m + 1) = i + m + 1
    BY <1>1
  <2>2. x \in Types \ Named
    BY <1>2, <2>1
  <2>3. PICK t \in f[i + m + 1] : x \in next[t]
    <3>1. f[i + (m + 1) + 1] = f[i + (m + 1)] \cup UNION {next[t] : t \in f[i + (m + 1)]}
      BY <1>2, <2>1
    <3> QED BY <2>1, <3>1
  <2>4. t \in New1(m)
    <3>1. f[i + m + 1] = f[i + m] \cup UNION {next[s] : s \in f[i + m]}
      BY <1>2, <2>1
    <3>2. x \notin f[i + m + 1]
      BY <2>1
    <3> QED BY <2>3, <3>1, <3>2
  <2>5. t \in Low(m)
    BY <1>4, <2>1, <2>4
  <2>6. t \in Literal /\ t.level <= Depth - m
    BY <2>3, <2>5 DEF Layered
  <2>7. CASE x \in Literal
    <3>1. x.level < t.level
      BY <2>3, <2>6, <2>7 DEF Layered, Types
    <3>2. x.level \in Int /\ t.level \in Int
      BY <1>1, <2>6, <2>7
    <3>3. x.level <= Depth - (m + 1)
      BY <1>1, <2>6, <3>1, <3>2
    <3> QED BY <2>2, <2>7, <3>3
  <2> QED BY <1>1, <2>2, <2>7
<1>5. Depth \in done
  <2> HIDE DEF done
  <2> QED BY <1>1, <1>3, <1>4, AllNaturals
<1>6. New1(Depth) \subseteq Basic
  <2>1. New1(Depth) \subseteq Low(Depth)
    BY <1>1, <1>5
  <2>2. \A l \in Literal : ~(l.level <= Depth - Depth)
    BY <1>1
  <2> HIDE DEF New1
  <2> QED BY <2>1, <2>2
<1>7. /\ f[i + Depth + 1] = f[i + Depth] \cup UNION {next[t] : t \in f[i + Depth]}
      /\ i + Depth + 1 = e
  BY <1>1, <1>2
<1>8. ASSUME NEW t \in f[e] PROVE next[t] \subseteq f[e]
  <2>1. CASE t \in f[i + Depth]
    BY <1>7, <2>1
  <2>2. CASE t \notin f[i + Depth]
    <3>1. t \in Basic
      BY <1>6, <1>7, <2>2
    <3> QED BY <3>1 DEF Layered, Types
  <2> QED BY <2>1, <2>2
<1> QED BY <1>8

\* MaxPath is a number of steps.
LEMMA MaxPathNat == MaxPath \in Nat \ {0}
<1> DEFINE a == Cardinality(Named) + 1
           b == Depth + 1
<1>1. a \in Nat \ {0} /\ b \in Nat \ {0}
  BY LiteralAssumption, FS_CardinalityType
<1>2. MaxPath = a * b
  BY DEF MaxPath
<1> HIDE DEF a, b
<1>3. \A x, y \in Nat \ {0} : x * y \in Nat \ {0}
  OBVIOUS
<1> QED BY <1>1, <1>2, <1>3

\* In MaxPath steps everything is reached: no path without a repetition is longer.
LEMMA LayeredReached ==
  ASSUME NEW next, Layered(next), NEW S \in SUBSET Types
  PROVE  \A t \in Reached(S, next, MaxPath) : next[t] \subseteq Reached(S, next, MaxPath)
<1> SUFFICES ASSUME NEW N, N = MaxPath
             PROVE  \A t \in Reached(S, next, N) : next[t] \subseteq Reached(S, next, N)
  OBVIOUS
<1> DEFINE D == Depth + 1
           c == Cardinality(Named)
           Stable(T) == \A t \in T : next[t] \subseteq T
<1>1. c \in Nat /\ D \in Nat /\ IsFiniteSet(Named)
  BY LiteralAssumption, FS_CardinalityType
<1>2. N = (c + 1) * D
  BY DEF MaxPath
<1>3. \A a, b, d \in Nat : a * d \in Nat /\ (a <= b => a * d <= b * d) /\ (a + 1) * d = a * d + d
  OBVIOUS
<1>4. N \in Nat
  <2> HIDE DEF c, D
  <2>1. c + 1 \in Nat
    BY <1>1
  <2> QED BY <1>1, <1>2, <1>3, <2>1
<1>5. PICK f : /\ Reached(S, next, N) = f[N]
               /\ f[0] = S
               /\ Grows(f, next, N)
  BY <1>4, ReachedSteps
<1>6. \A i \in 0 .. N : f[i] \subseteq Types
  <2>1. Reached(S, next, N) \subseteq Types
    BY <1>4, ReachedWithin DEF Layered
  <2>2. \A i \in 0 .. N : f[i] \subseteq f[N]
    BY <1>4, <1>5, StepsGrow
  <2> QED BY <1>5, <2>1, <2>2
<1> DEFINE At(k) == f[k * D]
           Count(k) == Cardinality(At(k) \cap Named)
           done == {k \in Nat : k <= c + 1 => Stable(At(k)) \/ Count(k) >= k}
<1>7. ASSUME NEW k \in Nat, k <= c + 1
      PROVE  k * D \in 0 .. N /\ IsFiniteSet(At(k) \cap Named) /\ Count(k) \in Nat /\ Count(k) <= c
  <2>1. k * D \in 0 .. N
    <3> HIDE DEF c, D
    <3>1. c + 1 \in Nat
      BY <1>1
    <3>2. k * D \in Nat /\ k * D <= (c + 1) * D
      BY <1>1, <1>3, <1>7, <3>1
    <3> DEFINE kd == k * D
               cd == (c + 1) * D
    <3>3. kd \in Nat /\ kd <= cd /\ N = cd /\ N \in Nat
      BY <1>2, <1>4, <3>2
    <3> HIDE DEF kd, cd
    <3>4. kd \in 0 .. N
      BY <3>3
    <3> QED BY <3>4 DEF kd
  <2> DEFINE T == At(k) \cap Named
  <2>2. T \subseteq Named
    OBVIOUS
  <2> HIDE DEF T
  <2>3. IsFiniteSet(T) /\ Cardinality(T) \in Nat /\ Cardinality(T) <= c
    BY <1>1, <2>2, FS_Subset, FS_CardinalityType
  <2> QED BY <2>1, <2>3 DEF T
<1>8. 0 \in done
  <2>1. 0 \in Nat /\ 0 <= c + 1
    BY <1>1
  <2>2. Count(0) \in Nat
    BY <1>7, <2>1
  <2> HIDE DEF Count, Stable
  <2> QED BY <2>2
<1>9. ASSUME NEW k \in Nat, k \in done PROVE k + 1 \in done
  <2> SUFFICES ASSUME k + 1 <= c + 1 PROVE Stable(At(k + 1)) \/ Count(k + 1) >= k + 1
    OBVIOUS
  <2>1. k <= c + 1 /\ k + 1 \in Nat
    BY <1>1
  <2> DEFINE i == k * D
             j == (k + 1) * D
  <2>2. i \in Nat /\ j = i + D /\ i \in 0 .. N /\ j \in 0 .. N /\ i \in 0 .. j
    <3> HIDE DEF c, D
    <3>1. i \in 0 .. N /\ j \in 0 .. N
      BY <1>7, <2>1
    <3>2. j = i + D
      BY <1>1, <1>3
    <3> HIDE DEF i, j
    <3> QED BY <1>1, <1>4, <3>1, <3>2
  <2>3. f[i] \subseteq f[j]
    <3> HIDE DEF i, j
    <3> QED BY <1>4, <1>5, <2>2, StepsGrow
  <2>4. CASE Stable(f[i])
    <3> HIDE DEF i, j
    <3>1. \A t \in f[i] : next[t] \subseteq f[i]
      BY <2>4
    <3>2. f[j] = f[i]
      BY <1>4, <1>5, <2>2, <3>1, StableStays
    <3>3. Stable(f[j])
      BY <2>4, <3>2
    <3> QED BY <3>3 DEF j
  <2>5. CASE f[j] \cap Named \subseteq f[i]
    <3> HIDE DEF i, j
    <3>1. j = i + (Depth + 1) /\ i + (Depth + 1) <= N
      BY <2>2
    <3> HIDE DEF D
    <3>2. f[i + (Depth + 1)] \cap Named \subseteq f[i]
      BY <2>5, <3>1
    <3>3. \A t \in f[i + (Depth + 1)] : next[t] \subseteq f[i + (Depth + 1)]
      BY <1>4, <1>5, <1>6, <2>2, <3>1, <3>2, LevelsSink
    <3>4. Stable(f[j])
      BY <3>1, <3>3
    <3> QED BY <3>4 DEF j
  <2>6. CASE ~Stable(f[i]) /\ ~(f[j] \cap Named \subseteq f[i])
    <3>1. Count(k) >= k
      BY <1>9, <2>1, <2>6
    <3> DEFINE A == f[i] \cap Named
               B == f[j] \cap Named
    <3>2. A \subseteq B /\ A # B
      BY <2>3, <2>6
    <3>3. Count(k) = Cardinality(A) /\ Count(k + 1) = Cardinality(B) /\ IsFiniteSet(B)
      BY <1>7, <2>1
    <3>4. Cardinality(A) \in Nat /\ Cardinality(B) \in Nat
      BY <1>7, <2>1
    <3> HIDE DEF A, B, Count, Stable
    <3>5. Cardinality(A) < Cardinality(B)
      BY <3>2, <3>3, <3>4, FS_Subset
    <3> QED BY <3>1, <3>3, <3>4, <3>5
  <2> QED BY <2>4, <2>5, <2>6
<1>10. c + 1 \in done
  <2>1. c + 1 \in Nat
    BY <1>1
  <2> HIDE DEF done, c
  <2> QED BY <1>8, <1>9, <2>1, AllNaturals
<1>11. Stable(At(c + 1))
  <2>1. c + 1 \in Nat /\ c + 1 <= c + 1
    BY <1>1
  <2>2. Count(c + 1) \in Nat /\ Count(c + 1) <= c
    BY <1>7, <2>1
  <2>3. Stable(At(c + 1)) \/ Count(c + 1) >= c + 1
    BY <1>10, <2>1
  <2> HIDE DEF Count, Stable, c
  <2> QED BY <1>1, <2>2, <2>3
<1>12. At(c + 1) = Reached(S, next, N)
  BY <1>2, <1>5
<1> HIDE DEF At
<1> QED BY <1>11, <1>12

-----------------------------------------------------------------------------
(* Literals.                                                               *)

\* What literals are made of.
LEMMA LiteralParts ==
  ASSUME NEW l \in Literal
  PROVE  /\ Parts(l) \subseteq Types /\ l.embeds \subseteq Named
         /\ \A p \in Parts(l) \cap Literal : p.level < l.level
         /\ l.kind = "array" => Parts(l) = {Head(l.parts)}
         /\ l.kind = "map" => Head(l.parts) \in Parts(l)
<1> DEFINE s == l.parts
<1>1. /\ s \in Seq(Types) /\ l.embeds \subseteq Named
      /\ \A p \in Range(s) \cap Literal : p.level < l.level
      /\ l.kind = "array" => Len(s) = 1
      /\ l.kind = "map" => Len(s) = 2
  BY LiteralAssumption
<1>2. Parts(l) = Range(s)
  BY DEF Parts
<1> HIDE DEF s
<1>3. Range(s) = {s[i] : i \in 1 .. Len(s)}
  BY <1>1 DEF Range
<1>4. \A i \in 1 .. Len(s) : s[i] \in Types
  BY <1>1
<1>5. Len(s) = 1 => Range(s) = {Head(s)}
  BY <1>1, <1>3
<1>6. Len(s) = 2 => Head(s) \in Range(s)
  BY <1>1, <1>3
<1> QED BY <1>1, <1>2, <1>3, <1>4, <1>5, <1>6 DEF s

-----------------------------------------------------------------------------
(* Making types.                                                           *)

AsFact(r) == [kind |-> r.kind, size |-> r.size, cmp |-> r.cmp, complete |-> r.complete]

\* A function from types to what they know of themselves.
Facts(f) == f = [t \in DOMAIN f |-> AsFact(f[t])]

\* New() knows the size, the comparability and the completeness of a literal.
LEMMA NewFacts ==
  ASSUME NEW l \in Literal, NEW f
  PROVE  New(l, f) = AsFact(New(l, f))
<1>1. l.kind \in Kinds
  BY LiteralAssumption
<1>2. \A size, cmp : Fact(l, size, cmp, f) = AsFact(Fact(l, size, cmp, f))
  BY DEF Fact, AsFact
<1>3. \E size, cmp : New(l, f) = Fact(l, size, cmp, f)
  BY <1>1 DEF Kinds, New, NewPointer, NewSlice, NewChan, NewMap, NewFunc, NewArray, NewStruct,
              NewInterface
<1> QED BY <1>2, <1>3

\* Extending a function by facts about literals.
LEMMA ExtendedFacts ==
  ASSUME NEW f, Facts(f), NEW L \in SUBSET Literal
  PROVE  LET g == Extended(f, [l \in L |-> New(l, f)])
         IN  /\ Facts(g) /\ DOMAIN g = DOMAIN f \cup L
             /\ \A t \in DOMAIN f : g[t] = f[t]
<1> DEFINE new == [l \in L |-> New(l, f)]
           g == Extended(f, new)
<1>1. /\ DOMAIN g = DOMAIN f \cup L
      /\ g = [t \in DOMAIN g |-> IF t \in DOMAIN f THEN f[t] ELSE new[t]]
      /\ \A t \in DOMAIN g : g[t] = IF t \in DOMAIN f THEN f[t] ELSE new[t]
  BY DEF Extended
<1>2. \A l \in L : new[l] = AsFact(new[l])
  BY NewFacts
<1>3. \A t \in DOMAIN f : f[t] = AsFact(f[t])
  <2> DEFINE h == [t \in DOMAIN f |-> AsFact(f[t])]
  <2>1. \A t \in DOMAIN f : h[t] = AsFact(f[t])
    OBVIOUS
  <2>2. f = h
    BY DEF Facts
  <2> HIDE DEF h
  <2> QED BY <2>1, <2>2
<1> HIDE DEF new, g
<1>4. \A t \in DOMAIN g : g[t] = AsFact(g[t])
  BY <1>1, <1>2, <1>3
<1>5. g = [t \in DOMAIN g |-> AsFact(g[t])]
  BY <1>1, <1>4
<1> QED BY <1>1, <1>5 DEF Facts, g, new

\* The next level of literals is made from what the levels below know.
Level(L, i, g) == Extended(g, [l \in {m \in L : m.level = i} |-> New(l, g)])

\* makeType() goes through the levels.
LEMMA MadeSteps ==
  ASSUME NEW f, NEW L
  PROVE  \E h : /\ Made(L, f) = h[Depth]
                /\ h[0] = f
                /\ \A i \in 0 .. (Depth - 1) : h[i + 1] = Level(L, i + 1, h[i])
<1> DEFINE At(n) == {m \in L : m.level = n}
           More(n, g) == Extended(g, [l \in At(n) |-> New(l, g)])
           Step(h, n) == [i \in 0 .. n |-> IF i = 0 THEN f ELSE More(i, h[i - 1])]
           done == {n \in Nat : \E h : h = Step(h, n)}
<1>0. Depth \in Nat
  BY LiteralAssumption
<1>1. 0 \in done
  <2> DEFINE h == [i \in 0 .. 0 |-> f]
  <2>1. h = Step(h, 0)
    OBVIOUS
  <2> QED BY <2>1
<1>2. ASSUME NEW n \in Nat, n \in done PROVE n + 1 \in done
  <2>1. PICK h : h = Step(h, n)
    BY <1>2
  <2> DEFINE g == Step(h, n + 1)
  <2>2. \A i \in 0 .. n : h[i] = IF i = 0 THEN f ELSE More(i, h[i - 1])
    <3> DEFINE k == Step(h, n)
    <3>1. \A i \in 0 .. n : k[i] = IF i = 0 THEN f ELSE More(i, h[i - 1])
      OBVIOUS
    <3> HIDE DEF k, More
    <3> QED BY <2>1, <3>1 DEF k
  <2>3. \A i \in 0 .. (n + 1) : g[i] = IF i = 0 THEN f ELSE More(i, h[i - 1])
    OBVIOUS
  <2>4. g = [i \in 0 .. (n + 1) |-> g[i]]
    OBVIOUS
  <2> HIDE DEF g, More
  <2>5. \A i \in 0 .. n : g[i] = h[i]
    <3>1. \A i \in 0 .. n : i \in 0 .. (n + 1)
      OBVIOUS
    <3> QED BY <2>2, <2>3, <3>1
  <2>6. ASSUME NEW i \in 0 .. (n + 1) PROVE g[i] = IF i = 0 THEN f ELSE More(i, g[i - 1])
    <3>1. CASE i = 0
      BY <2>3, <3>1
    <3>2. CASE i # 0
      <4>1. i - 1 \in 0 .. n
        BY <3>2
      <4> QED BY <2>3, <2>5, <3>2, <4>1
    <3> QED BY <3>1, <3>2
  <2>7. g = Step(g, n + 1)
    BY <2>4, <2>6
  <2> QED BY <2>7
<1>3. Depth \in done
  <2> HIDE DEF done
  <2> QED BY <1>0, <1>1, <1>2, AllNaturals
<1> DEFINE upTo == CHOOSE h : h = Step(h, Depth)
<1>4. upTo = Step(upTo, Depth)
  BY <1>3
<1>5. Made(L, f) = upTo[Depth]
  BY DEF Made
<1>6. upTo[0] = f /\ \A i \in 0 .. (Depth - 1) : upTo[i + 1] = More(i + 1, upTo[i])
  <2> DEFINE h == Step(upTo, Depth)
  <2> HIDE DEF upTo
  <2>1. h[0] = f
    BY <1>0
  <2>2. ASSUME NEW i \in 0 .. (Depth - 1) PROVE h[i + 1] = More(i + 1, upTo[i])
    <3>1. i + 1 \in 0 .. Depth /\ i + 1 # 0 /\ (i + 1) - 1 = i
      BY <1>0
    <3> HIDE DEF More
    <3> QED BY <3>1
  <2>3. upTo = h
    BY <1>4
  <2> HIDE DEF h, More
  <2> QED BY <2>1, <2>2, <2>3
<1>7. \A i, g : More(i, g) = Level(L, i, g)
  BY DEF Level
<1> HIDE DEF upTo, More
<1> QED BY <1>5, <1>6, <1>7

\* makeType() keeps what is known of the types made before, and makes all
\* literals of a type.
LEMMA MadeFacts ==
  ASSUME NEW f, Facts(f), NEW L \in SUBSET Literal
  PROVE  /\ Facts(Made(L, f))
         /\ DOMAIN f \cup L \subseteq DOMAIN Made(L, f)
         /\ \A t \in DOMAIN f : Made(L, f)[t] = f[t]
<1>0. Depth \in Nat
  BY LiteralAssumption
<1>1. PICK upTo : /\ Made(L, f) = upTo[Depth]
                  /\ upTo[0] = f
                  /\ \A i \in 0 .. (Depth - 1) : upTo[i + 1] = Level(L, i + 1, upTo[i])
  BY MadeSteps
<1> DEFINE Good(i) == /\ Facts(upTo[i])
                      /\ DOMAIN f \cup {l \in L : l.level <= i} \subseteq DOMAIN upTo[i]
                      /\ \A t \in DOMAIN f : upTo[i][t] = f[t]
           good == {i \in Nat : i <= Depth => Good(i)}
<1>7. \A l \in L : l.level \in 1 .. Depth
  BY LiteralAssumption
<1>8. 0 \in good
  <2>1. \A l \in L : ~(l.level <= 0)
    BY <1>0, <1>7
  <2> QED BY <1>1, <2>1
<1>9. ASSUME NEW i \in Nat, i \in good PROVE i + 1 \in good
  <2> SUFFICES ASSUME i + 1 <= Depth PROVE Good(i + 1)
    OBVIOUS
  <2>1. i \in 0 .. (Depth - 1) /\ i <= Depth
    BY <1>0
  <2>2. Good(i) /\ upTo[i + 1] = Level(L, i + 1, upTo[i])
    BY <1>1, <1>9, <2>1
  <2> DEFINE old == upTo[i]
             new == upTo[i + 1]
             M == {m \in L : m.level = i + 1}
  <2>3. M \in SUBSET Literal
    OBVIOUS
  <2>4. \A l \in L : l.level <= i + 1 => l.level <= i \/ l \in M
    BY <1>7
  <2>5. new = Extended(old, [l \in M |-> New(l, old)])
    BY <2>2 DEF Level
  <2>6. Facts(old) /\ DOMAIN f \subseteq DOMAIN old /\ (\A t \in DOMAIN f : old[t] = f[t])
    BY <2>2
  <2>7. {l \in L : l.level <= i} \subseteq DOMAIN old
    BY <2>2
  <2> HIDE DEF old, new, M
  <2>8. Facts(new) /\ DOMAIN new = DOMAIN old \cup M /\ (\A t \in DOMAIN old : new[t] = old[t])
    BY <2>3, <2>5, <2>6, ExtendedFacts
  <2>9. DOMAIN f \cup {l \in L : l.level <= i + 1} \subseteq DOMAIN new
    BY <2>4, <2>6, <2>7, <2>8
  <2>10. \A t \in DOMAIN f : new[t] = f[t]
    BY <2>6, <2>8
  <2> QED BY <2>8, <2>9, <2>10 DEF new
<1>10. Good(Depth)
  <2>1. Depth \in good
    <3> HIDE DEF good
    <3> QED BY <1>0, <1>8, <1>9, AllNaturals
  <2> HIDE DEF Good
  <2> QED BY <1>0, <2>1
<1>11. {l \in L : l.level <= Depth} = L
  BY <1>0, <1>7
<1> QED BY <1>1, <1>10, <1>11

-----------------------------------------------------------------------------
(* Chains of underlying types.                                             *)

\* No set of named types has all their underlying types in it.
NoCycles == \A S \in SUBSET Named : S # {} => \E n \in S : under[n] \notin S

\* From a type along its underlying type.
Onward ==
  [m \in Types \cup {NoType} |-> IF m \in Named THEN {under[m]} \ {NoType} ELSE {}]

\* A chain that stays within a set that underlying types do not leave.
LEMMA ChainWithin ==
  ASSUME NEW u \in Types \cup {NoType}, NEW C \in SUBSET (Types \cup {NoType}), u \in C,
         \A m \in C \cap Named : under[m] \in C \cup {NoType}
  PROVE  u \in Chain(u) /\ Chain(u) \subseteq C
<1> DEFINE next == Onward
           N == Cardinality(Named)
<1>1. N \in Nat
  BY LiteralAssumption, FS_CardinalityType
<1>2. Chain(u) = Reached({u}, next, N)
  BY DEF Chain, Onward
<1>3. \A t \in C : next[t] \subseteq C
  BY DEF Onward
<1> HIDE DEF next, N
<1>4. {u} \subseteq C
  OBVIOUS
<1>5. Reached({u}, next, N) \subseteq C
  BY <1>1, <1>3, <1>4, ReachedWithin
<1>6. {u} \subseteq Reached({u}, next, N)
  BY <1>1, ReachedFirst
<1> QED BY <1>2, <1>5, <1>6

\* Without cycles, every chain has an end.
LEMMA ChainEnds ==
  ASSUME NoCycles, under \in [Named -> Types \cup {NoType}], NEW u \in Types \cup {NoType}
  PROVE  /\ EndOf(u) \in Chain(u)
         /\ EndOf(u) \in Named => under[EndOf(u)] = NoType
<1> DEFINE next == Onward
           N == Cardinality(Named)
           T == Chain(u)
<1>1. N \in Nat /\ IsFiniteSet(Named) /\ Named \subseteq Types
  BY LiteralAssumption, FS_CardinalityType DEF Types
<1>2. T = Reached({u}, next, N)
  BY DEF Chain, Onward
<1>3. u \in T
  <2> DEFINE C == Types \cup {NoType}
  <2>1. \A m \in C \cap Named : under[m] \in C \cup {NoType}
    OBVIOUS
  <2> HIDE DEF T
  <2>2. C \in SUBSET (Types \cup {NoType}) /\ u \in C
    OBVIOUS
  <2> HIDE DEF C
  <2> QED BY <2>1, <2>2, ChainWithin DEF T
<1> HIDE DEF T, next, N
<1>4. \E t \in T : t \notin Named \/ under[t] = NoType
  <2> SUFFICES ASSUME \A t \in T : t \in Named /\ under[t] # NoType PROVE FALSE
    OBVIOUS
  <2>1. T \subseteq Named
    OBVIOUS
  <2>2. \A t \in T : next[t] \subseteq T
    <3>1. u \in {u} /\ N <= N /\ Reached({u}, next, N) \subseteq Named
      BY <1>1, <1>2, <2>1
    <3>2. Cardinality(Named) <= N
      BY <3>1 DEF N
    <3>3. \A t \in Reached({u}, next, N) : next[t] \subseteq Reached({u}, next, N)
      BY <1>1, <3>1, <3>2, ReachedAll
    <3> QED BY <1>2, <3>3
  <2>3. \A t \in T : next[t] = {under[t]}
    BY <1>1, <2>1 DEF next, Onward
  <2>4. T # {} /\ T \in SUBSET Named
    BY <1>3, <2>1
  <2>5. PICK n \in T : under[n] \notin T
    BY <2>4 DEF NoCycles
  <2> QED BY <2>2, <2>3, <2>5
<1>5. EndOf(u) = CHOOSE t \in T : t \notin Named \/ under[t] = NoType
  BY DEF EndOf, T
<1> DEFINE e == EndOf(u)
<1>6. e \in T /\ (e \notin Named \/ under[e] = NoType)
  BY <1>4, <1>5, Zenon
<1> QED BY <1>6 DEF T

\* A type that is not named is the end of its chain, and the one underlying a named
\* type, if it is not named, is the end of the chain from there.
LEMMA ShortChains ==
  ASSUME NoCycles, under \in [Named -> Types \cup {NoType}], NEW u \in Types \cup {NoType}
  PROVE  /\ u \notin Named => EndOf(u) = u
         /\ u \in Named /\ under[u] \notin Named \cup {NoType} => EndOf(u) = under[u]
<1>1. Named \subseteq Types
  BY DEF Types
<1>2. ASSUME u \notin Named PROVE EndOf(u) = u
  <2> DEFINE C == {u}
  <2>1. C \in SUBSET (Types \cup {NoType}) /\ u \in C
    OBVIOUS
  <2>2. \A m \in C \cap Named : under[m] \in C \cup {NoType}
    BY <1>2
  <2> HIDE DEF C
  <2>3. Chain(u) \subseteq C
    BY <2>1, <2>2, ChainWithin
  <2>4. EndOf(u) \in Chain(u)
    BY ChainEnds
  <2> QED BY <2>3, <2>4 DEF C
<1>3. ASSUME u \in Named, under[u] \notin Named \cup {NoType} PROVE EndOf(u) = under[u]
  <2> DEFINE C == {u, under[u]}
  <2>1. C \in SUBSET (Types \cup {NoType}) /\ u \in C
    BY <1>3
  <2>2. \A m \in C \cap Named : under[m] \in C \cup {NoType}
    BY <1>3
  <2> HIDE DEF C
  <2>3. Chain(u) \subseteq C
    BY <2>1, <2>2, ChainWithin
  <2>4. EndOf(u) \in Chain(u) /\ (EndOf(u) \in Named => under[EndOf(u)] = NoType)
    BY ChainEnds
  <2>5. EndOf(u) \in {u, under[u]}
    BY <2>3, <2>4 DEF C
  <2> QED BY <1>3, <2>4, <2>5
<1> QED BY <1>2, <1>3

-----------------------------------------------------------------------------
(* What values contain, by the declarations alone.                         *)

\* Inside leads through the levels of literals, and from predeclared types nowhere.
LEMMA InsideLayered ==
  ASSUME decl \in [Named -> Types]
  PROVE  Layered([s \in Types |-> Inside(s)])
<1> DEFINE next == [s \in Types |-> Inside(s)]
<1>1. /\ Named \subseteq Types /\ Named \cap Literal = {} /\ Basic \cap (Named \cup Literal) = {}
  BY LiteralAssumption DEF Types
<1>2. ASSUME NEW t \in Types
      PROVE  /\ Inside(t) \subseteq Types
             /\ t \in Basic => Inside(t) = {}
             /\ t \in Literal => \A x \in Inside(t) \cap Literal : x.level < t.level
  <2>1. CASE t \in Named
    BY <1>1, <2>1 DEF Inside
  <2>2. CASE t \in Literal
    <3>1. t \notin Named /\ t \notin Basic
      BY <1>1, <2>2
    <3>2. Inside(t) = Parts(t) \/ Inside(t) = t.embeds \/ Inside(t) = {}
      BY <3>1 DEF Inside
    <3>3. /\ Parts(t) \subseteq Types /\ t.embeds \subseteq Named
          /\ \A p \in Parts(t) \cap Literal : p.level < t.level
      BY <2>2, LiteralParts
    <3> QED BY <1>1, <3>1, <3>2, <3>3
  <2>3. CASE t \notin Named /\ t \notin Literal
    BY <2>3 DEF Inside, IsLiteral
  <2> QED BY <2>1, <2>2, <2>3
<1>3. \A t \in Types : next[t] = Inside(t)
  OBVIOUS
<1> HIDE DEF next
<1>4. Layered(next)
  BY <1>2, <1>3 DEF Layered
<1> QED BY <1>4 DEF next

\* What a type contains, it contains at any depth.
LEMMA ContainedAll ==
  ASSUME decl \in [Named -> Types], NEW t \in Types
  PROVE  /\ Inside(t) \subseteq Contained(t) /\ Contained(t) \subseteq Types
         /\ \A s \in Contained(t) : Inside(s) \subseteq Contained(t)
         /\ \A C : /\ Inside(t) \subseteq C
                   /\ C \subseteq Types
                   /\ \A s \in C : Inside(s) \subseteq C
                   => Contained(t) \subseteq C
<1> DEFINE next == [s \in Types |-> Inside(s)]
           N == MaxPath
           S == Inside(t)
<1>1. Layered(next)
  BY InsideLayered
<1>2. \A s \in Types : next[s] = Inside(s)
  OBVIOUS
<1>3. N \in Nat
  BY MaxPathNat
<1>4. Contained(t) = Reached(S, next, N)
  BY DEF Contained
<1> HIDE DEF next, N
<1>5. S \subseteq Types
  BY <1>1, <1>2 DEF Layered
<1> HIDE DEF S
<1>6. S \subseteq Reached(S, next, N)
  BY <1>3, ReachedFirst
<1>7. Reached(S, next, N) \subseteq Types
  <2>1. \A s \in Types : next[s] \subseteq Types
    BY <1>1 DEF Layered
  <2> QED BY <1>3, <1>5, <2>1, ReachedWithin
<1>8. \A s \in Reached(S, next, N) : next[s] \subseteq Reached(S, next, N)
  BY <1>1, <1>5, LayeredReached DEF N
<1>9. ASSUME NEW C, S \subseteq C, C \subseteq Types, \A s \in C : Inside(s) \subseteq C
      PROVE  Reached(S, next, N) \subseteq C
  <2>1. \A s \in C : next[s] \subseteq C
    BY <1>2, <1>9
  <2> QED BY <1>3, <1>9, <2>1, ReachedWithin
<1> QED BY <1>2, <1>4, <1>6, <1>7, <1>8, <1>9 DEF S

\* What is contained is what is inside, and what that contains.
LEMMA ContainedParts ==
  ASSUME decl \in [Named -> Types], NEW t \in Types
  PROVE  /\ \A s \in Contained(t) : Contained(s) \subseteq Contained(t)
         /\ \A s \in Contained(t) : \/ s \in Inside(t)
                                    \/ \E d \in Inside(t) : s \in Contained(d)
<1>1. /\ Inside(t) \subseteq Contained(t) /\ Contained(t) \subseteq Types
      /\ \A s \in Contained(t) : Inside(s) \subseteq Contained(t)
  BY ContainedAll
<1>2. ASSUME NEW s \in Contained(t) PROVE Contained(s) \subseteq Contained(t)
  <2>1. s \in Types /\ Inside(s) \subseteq Contained(t)
    BY <1>1
  <2> QED BY <1>1, <2>1, ContainedAll
<1> DEFINE C == Inside(t) \cup UNION {Contained(d) : d \in Inside(t)}
<1>3. Inside(t) \subseteq C /\ C \subseteq Types
  BY <1>1, <1>2
<1>4. ASSUME NEW s \in C PROVE Inside(s) \subseteq C
  <2>1. \A d \in Inside(t) : d \in Types
    BY <1>1
  <2>2. CASE s \in Inside(t)
    <3>1. Inside(s) \subseteq Contained(s)
      BY <2>1, <2>2, ContainedAll
    <3> QED BY <2>2, <3>1
  <2>3. ASSUME NEW d \in Inside(t), s \in Contained(d) PROVE Inside(s) \subseteq C
    <3>1. Inside(s) \subseteq Contained(d)
      BY <2>1, <2>3, ContainedAll
    <3> QED BY <3>1
  <2> QED BY <2>2, <2>3
<1> HIDE DEF C
<1>5. Contained(t) \subseteq C
  BY <1>3, <1>4, ContainedAll
<1> QED BY <1>2, <1>5 DEF C

\* Neither the type nor anything in it contains itself.
Founded(t) == \A s \in {t} \cup Contained(t) : s \notin Contained(s)

\* The declarations lead from n to u: they give n no literals but u and what u contains.
Leads(n, u) ==
  /\ u \in Contained(n)
  /\ Contained(n) \subseteq Named \cup {u} \cup Contained(u)
  /\ Founded(u) => Founded(n)

\* Of a type that cannot be compared: values contain what Go cannot compare, or a channel.
Uncomparable(t) ==
  \E s \in {t} \cup Contained(t) : s \in Literal /\ s.kind \in {"slice", "chan", "map", "func"}

\* A type of parts that do not contain themselves does not contain itself.
LEMMA FoundedUp ==
  ASSUME decl \in [Named -> Types], NEW t \in Types, \A d \in Inside(t) : Founded(d)
  PROVE  Founded(t)
<1>1. ASSUME NEW s \in Contained(t) PROVE s \notin Contained(s)
  <2>1. CASE s \in Inside(t)
    BY <2>1 DEF Founded
  <2>2. ASSUME NEW d \in Inside(t), s \in Contained(d) PROVE s \notin Contained(s)
    BY <2>2 DEF Founded
  <2> QED BY <2>1, <2>2, ContainedParts
<1>2. t \notin Contained(t)
  BY <1>1
<1> QED BY <1>1, <1>2 DEF Founded

\* A type of comparable parts is comparable, unless its kind is not.
LEMMA ComparableUp ==
  ASSUME decl \in [Named -> Types], NEW t \in Types,
         t \in Literal => t.kind \notin {"slice", "map", "func"},
         \A d \in Inside(t) : Comparable(d)
  PROVE  Comparable(t)
<1>1. ASSUME NEW s \in Contained(t), s \in Literal PROVE s.kind \notin {"slice", "map", "func"}
  <2>1. CASE s \in Inside(t)
    BY <1>1, <2>1 DEF Comparable
  <2>2. ASSUME NEW d \in Inside(t), s \in Contained(d) PROVE s.kind \notin {"slice", "map", "func"}
    BY <1>1, <2>2 DEF Comparable
  <2> QED BY <2>1, <2>2, ContainedParts
<1> QED BY <1>1 DEF Comparable

\* A type that contains one that cannot be compared cannot be compared.
LEMMA UncomparableUp ==
  ASSUME decl \in [Named -> Types], NEW t \in Types, NEW d \in Contained(t), Uncomparable(d)
  PROVE  Uncomparable(t)
<1>1. Contained(d) \subseteq Contained(t)
  BY ContainedParts
<1> QED BY <1>1 DEF Uncomparable

\* A named type leads to the type it is declared with.
LEMMA LeadsFirst ==
  ASSUME decl \in [Named -> Types], NEW n \in Named
  PROVE  Leads(n, decl[n])
<1>1. n \in Types /\ Inside(n) = {decl[n]} /\ decl[n] \in Types
  BY DEF Types, Inside
<1>2. decl[n] \in Contained(n) /\ Contained(n) \subseteq {decl[n]} \cup Contained(decl[n])
  BY <1>1, ContainedAll, ContainedParts
<1>3. Founded(decl[n]) => Founded(n)
  BY <1>1, FoundedUp
<1> QED BY <1>2, <1>3 DEF Leads

\* Declarations lead on.
LEMMA LeadsOn ==
  ASSUME decl \in [Named -> Types], NEW n \in Named, NEW m \in Named, NEW u, Leads(n, m), Leads(m, u)
  PROVE  Leads(n, u)
<1>1. n \in Types /\ m \in Types
  BY DEF Types
<1>2. Contained(m) \subseteq Contained(n)
  BY <1>1, ContainedParts DEF Leads
<1> QED BY <1>2 DEF Leads

\* A named type is comparable if and only if the literal it leads to is, and an interface
\* if that is.
LEMMA LeadsAlike ==
  ASSUME decl \in [Named -> Types], NEW n \in Named, NEW u, Leads(n, u)
  PROVE  /\ Comparable(u) => Comparable(n)
         /\ Uncomparable(u) => Uncomparable(n)
         /\ IsLiteral(u, "interface") => IsInterface(n)
<1>1. Named \cap Literal = {}
  BY LiteralAssumption
<1>2. ASSUME Comparable(u) PROVE Comparable(n)
  <2> SUFFICES ASSUME NEW s \in {n} \cup Contained(n), s \in Literal
               PROVE  s.kind \notin {"slice", "map", "func"}
    BY DEF Comparable
  <2>1. s \in {u} \cup Contained(u)
    BY <1>1 DEF Leads
  <2> QED BY <1>2, <2>1 DEF Comparable
<1>3. ASSUME IsLiteral(u, "interface") PROVE IsInterface(n)
  <2>1. u \in Contained(n) /\ \A r \in Contained(n) \ Contained(u) : r \in Named \cup {u}
    BY DEF Leads
  <2> QED BY <1>3, <2>1 DEF IsInterface
<1>4. Uncomparable(u) => Uncomparable(n)
  BY UncomparableUp DEF Leads, Types
<1> QED BY <1>2, <1>3, <1>4

-----------------------------------------------------------------------------
(* The invariant.                                                          *)

Shape ==
  /\ decl \in [Named -> Types]
  /\ under \in [Named -> Types \cup {NoType}]
  /\ Facts(fact) /\ Named \cup Basic \subseteq DOMAIN fact
  /\ completed \in Seq(Types)

\* The type underlying a named type is one that some declaration names.
Origins == \A n \in Declared : \E m \in Declared : decl[m] = under[n]

\* Nothing is known of a type that is not declared.
UndeclaredUnknown == \A n \in Named \ Declared : fact[n].cmp = "unknown" /\ ~fact[n].complete

\* What a declared type copied from has been made.
Grounded == \A n \in Declared : under[n] \in DOMAIN fact

\* A complete named type has a complete underlying type, which is not named.
CompleteUnder ==
  phase # "panic" =>
    \A n \in Named : fact[n].complete =>
      /\ under[n] \notin Named \cup {NoType}
      /\ fact[under[n]].complete

\* While CompleteTypes() is at work: chains are declared; what is left is not
\* complete; strong dependencies on what is left are in the graph; a declared type
\* that is not left has an underlying type that is not named, and that is not left
\* unless it is of a kind that nothing depends on strongly; and no underlying type
\* is forgotten.
ChainsDeclared == \A n \in Declared : under[n] \in Named => under[n] \in Declared
LeftIncomplete == \A t \in DOMAIN fwd : t \in DOMAIN fact => ~fact[t].complete
StrongListed ==
  \A t \in DOMAIN fwd : \A d \in StrongDeps(t) :
    d \in DOMAIN fwd /\ ~Weakened(d) => d \in fwd[t].strong
Settled ==
  \A n \in Declared : n \notin DOMAIN fwd =>
    under[n] \notin Named /\ (under[n] \in DOMAIN fwd => Weakened(under[n]))
Accounted ==
  \A n \in Declared : \/ under[n] \in Named
                      \/ fact[under[n]].complete
                      \/ under[n] \in DOMAIN fwd
                      \/ \E x \in DOMAIN completed : completed[x] = under[n]
NoneAgain == \A x \in DOMAIN completed : completed[x] \notin DOMAIN fwd

\* No type is completed twice.
NoneTwice == \A x, y \in DOMAIN completed : completed[x] = completed[y] => x = y

Working ==
  phase = "completing" =>
    /\ ChainsDeclared /\ LeftIncomplete /\ StrongListed /\ Settled /\ Accounted /\ NoneAgain
    /\ StrongFirst

TypeGraphInv ==
  /\ Shape /\ NoCycles /\ Origins /\ UndeclaredUnknown /\ Grounded /\ CompleteUnder
  /\ NoneTwice /\ Working

\* Before anything is declared.
LEMMA InitInv == Init => TypeGraphInv
<1> SUFFICES ASSUME Init PROVE TypeGraphInv
  OBVIOUS
<1>1. NoType \notin Named
  BY LiteralAssumption DEF Types
<1>2. /\ decl \in [Named -> Types] /\ under = [n \in Named |-> NoType]
      /\ phase = "idle" /\ completed = << >>
      /\ DOMAIN fact = Named \cup Basic
      /\ \A t \in Named : fact[t] = [kind |-> "invalid", size |-> Unknown, cmp |-> "unknown", complete |-> FALSE]
  BY DEF Init
<1>3. Facts(fact)
  <2> DEFINE named == [kind |-> "invalid", size |-> Unknown, cmp |-> "unknown", complete |-> FALSE]
             basic == [kind |-> "basic", size |-> 1, cmp |-> "yes", complete |-> TRUE]
  <2>1. named = AsFact(named) /\ basic = AsFact(basic)
    BY DEF AsFact
  <2>2. fact = [t \in Named \cup Basic |-> IF t \in Named THEN named ELSE basic]
    BY DEF Init
  <2> HIDE DEF named, basic
  <2> QED BY <2>1, <2>2 DEF Facts
<1>4. Shape
  BY <1>2, <1>3 DEF Shape
<1>5. NoCycles
  BY <1>1, <1>2 DEF NoCycles
<1>6. Declared = {}
  BY <1>2 DEF Declared
<1> QED BY <1>2, <1>4, <1>5, <1>6
        DEF TypeGraphInv, Origins, UndeclaredUnknown, Grounded, CompleteUnder, NoneTwice, Working

\* A declaration that is not refused: its chain has an end that is not the type itself,
\* and the end is a type that has been made.
LEMMA DeclarationFacts ==
  ASSUME TypeGraphInv, NEW n \in Named, SetUnderlying(n), phase' # "panic"
  PROVE  LET L == SubLiterals(decl[n])
             f == Made(L, fact)
             u == EndOf(decl[n])
         IN  /\ phase = "idle" /\ phase' = "idle" /\ under[n] = NoType
             /\ decl' = decl /\ completed' = completed
             /\ \A l \in L : ~Refused(l, f)
             /\ Facts(f) /\ DOMAIN fact \cup L \subseteq DOMAIN f
             /\ \A t \in DOMAIN fact : f[t] = fact[t]
             /\ u \in Chain(decl[n]) /\ u # n /\ (u \in Named => under[u] = NoType)
             /\ u \in Types /\ u # NoType /\ u \in DOMAIN f
             /\ \E m \in Declared \cup {n} : decl[m] = u
             /\ under' \in [Named -> Types \cup {NoType}] /\ under'[n] = u
             /\ \A m \in Named : m # n => under'[m] = under[m]
             /\ Declared' = Declared \cup {n}
             /\ DOMAIN fact' = DOMAIN f /\ n \in DOMAIN f /\ fact'[n] = f[u]
             /\ \A t \in DOMAIN f : t # n => fact'[t] = f[t]
             /\ fact' = [f EXCEPT ![n] = f[u]]
<1> DEFINE L == SubLiterals(decl[n])
           f == Made(L, fact)
           u == EndOf(decl[n])
           refused == (\E l \in L : Refused(l, f)) \/ n \in Chain(decl[n])
<1>0. /\ NoType \notin Types /\ Named \subseteq Types /\ NoType \notin Named
      /\ \A t \in Types : t \in Named \cup Basic \cup Literal
  BY LiteralAssumption DEF Types
<1>1. /\ decl \in [Named -> Types] /\ under \in [Named -> Types \cup {NoType}]
      /\ Facts(fact) /\ Named \cup Basic \subseteq DOMAIN fact /\ completed \in Seq(Types)
  BY DEF TypeGraphInv, Shape
<1>2. /\ Facts(f) /\ DOMAIN fact \cup L \subseteq DOMAIN f
      /\ \A t \in DOMAIN fact : f[t] = fact[t]
  <2>1. L \in SUBSET Literal
    BY DEF SubLiterals
  <2> HIDE DEF L
  <2> QED BY <1>1, <2>1, MadeFacts
<1>3. decl[n] \in Types /\ (decl[n] \in Literal => decl[n] \in L)
  <2> DEFINE next == [s \in Types |-> Parts(s)]
  <2>1. Depth \in Nat
    BY LiteralAssumption
  <2> HIDE DEF next
  <2>2. {decl[n]} \subseteq Reached({decl[n]}, next, Depth)
    BY <2>1, ReachedFirst
  <2> QED BY <1>1, <2>2 DEF SubLiterals, next
<1> HIDE DEF L, f
<1>4. /\ phase = "idle" /\ under[n] = NoType
      /\ fact' = IF refused THEN f ELSE Fill(n, u, f)
      /\ under' = IF refused THEN under ELSE [under EXCEPT ![n] = u]
      /\ phase' = IF refused THEN "panic" ELSE "idle"
      /\ decl' = decl /\ completed' = completed
  BY DEF SetUnderlying, f, L, graphs
<1>5. /\ fact' = [f EXCEPT ![n] = f[u]] /\ under' = [under EXCEPT ![n] = u]
      /\ phase' = "idle" /\ decl' = decl /\ completed' = completed /\ n \notin Chain(decl[n])
      /\ \A l \in L : ~Refused(l, f)
  BY <1>4 DEF Fill
<1> DEFINE C == {t \in Types : /\ t \in DOMAIN f
                               /\ \E m \in Declared \cup {n} : decl[m] = t}
<1>6. Chain(decl[n]) \subseteq C
  <2>1. decl[n] \in C
    BY <1>0, <1>1, <1>2, <1>3
  <2>2. ASSUME NEW m \in C \cap Named PROVE under[m] \in C \cup {NoType}
    <3> SUFFICES ASSUME under[m] # NoType PROVE under[m] \in C
      OBVIOUS
    <3>1. m \in Declared /\ under[m] \in Types
      BY <1>1 DEF Declared
    <3>2. under[m] \in DOMAIN f
      BY <1>2, <3>1 DEF TypeGraphInv, Grounded
    <3>3. \E k \in Declared : decl[k] = under[m]
      BY <3>1 DEF TypeGraphInv, Origins
    <3> QED BY <3>1, <3>2, <3>3
  <2>3. C \in SUBSET (Types \cup {NoType}) /\ decl[n] \in Types \cup {NoType}
    BY <1>3
  <2> HIDE DEF C
  <2> QED BY <2>1, <2>2, <2>3, ChainWithin
<1>7. u \in Chain(decl[n]) /\ (u \in Named => under[u] = NoType)
  <2>1. decl[n] \in Types \cup {NoType}
    BY <1>3
  <2> QED BY <1>1, <2>1, ChainEnds DEF TypeGraphInv
<1>8. u \in C /\ u # n
  BY <1>5, <1>6, <1>7
<1>9. /\ u \in Types /\ u # NoType /\ u \in DOMAIN f
      /\ \E m \in Declared \cup {n} : decl[m] = u
  BY <1>0, <1>8
<1> HIDE DEF u, C, refused
<1>10. under' \in [Named -> Types \cup {NoType}] /\ under'[n] = u
      /\ \A m \in Named : m # n => under'[m] = under[m]
  BY <1>1, <1>5, <1>9
<1>11. Declared' = Declared \cup {n}
  BY <1>9, <1>10 DEF Declared
<1>12. /\ DOMAIN fact' = DOMAIN f /\ n \in DOMAIN f /\ fact'[n] = f[u]
      /\ \A t \in DOMAIN f : t # n => fact'[t] = f[t]
  BY <1>1, <1>2, <1>5
<1> QED BY <1>2, <1>4, <1>5, <1>7, <1>8, <1>9, <1>10, <1>11, <1>12 DEF L, f, u

\* A declaration: its chain has an end that is not the type itself, so no cycle is
\* closed, and the end is a type that has been made.
LEMMA SetUnderlyingInv ==
  ASSUME TypeGraphInv, NEW n \in Named, SetUnderlying(n)
  PROVE  TypeGraphInv'
<1> DEFINE L == SubLiterals(decl[n])
           f == Made(L, fact)
           u == EndOf(decl[n])
           refused == (\E l \in L : Refused(l, f)) \/ n \in Chain(decl[n])
<1>0. /\ NoType \notin Types /\ Named \subseteq Types /\ NoType \notin Named
      /\ \A t \in Types : t \in Named \cup Basic \cup Literal
  BY LiteralAssumption DEF Types
<1>1. /\ decl \in [Named -> Types] /\ under \in [Named -> Types \cup {NoType}]
      /\ Facts(fact) /\ Named \cup Basic \subseteq DOMAIN fact /\ completed \in Seq(Types)
  BY DEF TypeGraphInv, Shape
<1>2. /\ Facts(f) /\ DOMAIN fact \cup L \subseteq DOMAIN f
      /\ \A t \in DOMAIN fact : f[t] = fact[t]
  <2>1. L \in SUBSET Literal
    BY DEF SubLiterals
  <2> HIDE DEF L
  <2> QED BY <1>1, <2>1, MadeFacts
<1>3. decl[n] \in Types /\ (decl[n] \in Literal => decl[n] \in L)
  <2> DEFINE next == [s \in Types |-> Parts(s)]
  <2>1. Depth \in Nat
    BY LiteralAssumption
  <2> HIDE DEF next
  <2>2. {decl[n]} \subseteq Reached({decl[n]}, next, Depth)
    BY <2>1, ReachedFirst
  <2> QED BY <1>1, <2>2 DEF SubLiterals, next
<1>10. phase' # "panic" =>
         /\ phase = "idle" /\ phase' = "idle" /\ under[n] = NoType
         /\ decl' = decl /\ completed' = completed
         /\ \A l \in L : ~Refused(l, f)
         /\ Facts(f) /\ DOMAIN fact \cup L \subseteq DOMAIN f
         /\ \A t \in DOMAIN fact : f[t] = fact[t]
         /\ u \in Chain(decl[n]) /\ u # n /\ (u \in Named => under[u] = NoType)
         /\ u \in Types /\ u # NoType /\ u \in DOMAIN f
         /\ \E m \in Declared \cup {n} : decl[m] = u
         /\ under' \in [Named -> Types \cup {NoType}] /\ under'[n] = u
         /\ \A m \in Named : m # n => under'[m] = under[m]
         /\ Declared' = Declared \cup {n}
         /\ DOMAIN fact' = DOMAIN f /\ n \in DOMAIN f /\ fact'[n] = f[u]
         /\ \A t \in DOMAIN f : t # n => fact'[t] = f[t]
         /\ fact' = [f EXCEPT ![n] = f[u]]
  BY DeclarationFacts
<1> HIDE DEF L, f
<1>4. /\ phase = "idle" /\ under[n] = NoType
      /\ fact' = IF refused THEN f ELSE Fill(n, u, f)
      /\ under' = IF refused THEN under ELSE [under EXCEPT ![n] = u]
      /\ phase' = IF refused THEN "panic" ELSE "idle"
      /\ decl' = decl /\ completed' = completed
  BY DEF SetUnderlying, f, L, graphs
<1>5. CASE refused
  <2>1. fact' = f /\ under' = under /\ phase' = "panic" /\ decl' = decl /\ completed' = completed
    BY <1>4, <1>5
  <2>2. Declared' = Declared
    BY <2>1 DEF Declared
  <2>3. Shape'
    BY <1>1, <1>2, <2>1 DEF Shape
  <2>4. NoCycles' /\ Origins'
    BY <2>1, <2>2 DEF TypeGraphInv, NoCycles, Origins
  <2>5. UndeclaredUnknown' /\ Grounded'
    BY <1>1, <1>2, <2>1, <2>2 DEF TypeGraphInv, UndeclaredUnknown, Grounded
  <2>6. CompleteUnder' /\ NoneTwice' /\ Working'
    BY <2>1 DEF TypeGraphInv, CompleteUnder, NoneTwice, Working
  <2> QED BY <2>3, <2>4, <2>5, <2>6 DEF TypeGraphInv
<1>6. CASE ~refused
  <2>0. phase' # "panic"
    BY <1>4, <1>6
  <2> HIDE DEF u
  <2>1. /\ phase' = "idle" /\ decl' = decl /\ completed' = completed
        /\ fact' = [f EXCEPT ![n] = f[u]]
    BY <1>10, <2>0
  <2>3. u # n /\ (u \in Named => under[u] = NoType)
    BY <1>10, <2>0
  <2>5. /\ u \in Types /\ u # NoType /\ u \in DOMAIN f
        /\ \E m \in Declared \cup {n} : decl[m] = u
    BY <1>10, <2>0
  <2>6. under' \in [Named -> Types \cup {NoType}] /\ under'[n] = u
        /\ \A m \in Named : m # n => under'[m] = under[m]
    BY <1>10, <2>0
  <2>7. Declared' = Declared \cup {n}
    BY <1>10, <2>0
  <2>8. /\ DOMAIN fact' = DOMAIN f /\ n \in DOMAIN f /\ fact'[n] = f[u]
        /\ \A t \in DOMAIN f : t # n => fact'[t] = f[t]
    BY <1>10, <2>0
  <2>9. Facts(fact')
    <3> DEFINE h == [t \in DOMAIN f |-> AsFact(f[t])]
               new == fact'
    <3>1. f = h
      BY <1>2 DEF Facts
    <3>2. \A t \in DOMAIN f : h[t] = AsFact(f[t])
      OBVIOUS
    <3> HIDE DEF h
    <3>3. \A t \in DOMAIN f : f[t] = AsFact(f[t])
      BY <3>1, <3>2
    <3>4. new = [t \in DOMAIN f |-> new[t]] /\ DOMAIN new = DOMAIN f
      BY <2>1, <2>8
    <3>5. \A t \in DOMAIN f : new[t] = AsFact(new[t])
      BY <2>5, <2>8, <3>3
    <3> HIDE DEF new
    <3>6. new = [t \in DOMAIN new |-> AsFact(new[t])]
      BY <3>4, <3>5
    <3> QED BY <3>6 DEF Facts, new
  <2>10. Shape'
    BY <1>1, <1>2, <2>1, <2>6, <2>8, <2>9 DEF Shape
  <2>11. NoCycles'
    <3> SUFFICES ASSUME NEW S \in SUBSET Named, S # {} PROVE \E m \in S : under'[m] \notin S
      BY DEF NoCycles
    <3>1. PICK m \in S : under[m] \notin S
      BY DEF TypeGraphInv, NoCycles
    <3>2. CASE n \notin S
      BY <2>6, <3>1, <3>2
    <3>3. CASE n \in S /\ u \notin S
      BY <2>6, <3>3
    <3>4. CASE n \in S /\ u \in S
      <4>1. under'[u] = NoType
        BY <2>3, <2>6, <3>4
      <4> QED BY <1>0, <3>4, <4>1
    <3> QED BY <3>2, <3>3, <3>4
  <2>12. Origins'
    <3> SUFFICES ASSUME NEW m \in Declared'
                 PROVE  \E k \in Declared' : decl'[k] = under'[m]
      BY DEF Origins
    <3>1. CASE m = n
      BY <2>1, <2>5, <2>6, <2>7, <3>1
    <3>2. CASE m # n
      <4>1. m \in Declared /\ m \in Named /\ under'[m] = under[m]
        BY <2>6, <2>7, <3>2 DEF Declared
      <4> QED BY <2>1, <2>7, <4>1 DEF TypeGraphInv, Origins
    <3> QED BY <3>1, <3>2
  <2>13. UndeclaredUnknown'
    <3> SUFFICES ASSUME NEW m \in Named, m \notin Declared'
                 PROVE  fact'[m].cmp = "unknown" /\ ~fact'[m].complete
      BY DEF UndeclaredUnknown
    <3>1. m # n /\ m \notin Declared
      BY <2>7
    <3>2. fact'[m] = fact[m]
      BY <1>1, <1>2, <2>8, <3>1
    <3> QED BY <3>1, <3>2 DEF TypeGraphInv, UndeclaredUnknown
  <2>14. Grounded'
    <3> SUFFICES ASSUME NEW m \in Declared' PROVE under'[m] \in DOMAIN fact'
      BY DEF Grounded
    <3>1. CASE m = n
      BY <2>5, <2>6, <2>8, <3>1
    <3>2. CASE m # n
      <4>1. m \in Declared /\ m \in Named /\ under'[m] = under[m]
        BY <2>6, <2>7, <3>2 DEF Declared
      <4> QED BY <1>2, <2>8, <4>1 DEF TypeGraphInv, Grounded
    <3> QED BY <3>1, <3>2
  <2>15. CompleteUnder'
    <3> SUFFICES ASSUME NEW m \in Named, fact'[m].complete
                 PROVE  under'[m] \notin Named \cup {NoType} /\ fact'[under'[m]].complete
      BY DEF CompleteUnder
    <3>1. CASE m = n
      <4>1. f[u].complete
        BY <2>8, <3>1
      <4>2. u \notin Named
        <5> SUFFICES ASSUME u \in Named PROVE FALSE
          OBVIOUS
        <5>1. fact[u].complete /\ u \notin Declared
          BY <1>1, <1>2, <2>3, <4>1 DEF Declared
        <5> QED BY <5>1 DEF TypeGraphInv, UndeclaredUnknown
      <4> QED BY <2>3, <2>5, <2>6, <2>8, <3>1, <4>1, <4>2
    <3>2. CASE m # n
      <4>1. fact[m].complete /\ under'[m] = under[m]
        BY <1>1, <1>2, <2>6, <2>8, <3>2
      <4>2. under[m] \notin Named \cup {NoType} /\ fact[under[m]].complete
        BY <1>4, <4>1 DEF TypeGraphInv, CompleteUnder
      <4>3. under[m] \in DOMAIN fact
        BY <4>2 DEF TypeGraphInv, Grounded, Declared
      <4>4. fact'[under[m]] = fact[under[m]]
        BY <1>2, <2>8, <4>2, <4>3
      <4> QED BY <4>1, <4>2, <4>4
    <3> QED BY <3>1, <3>2
  <2>16. NoneTwice' /\ Working'
    BY <2>1 DEF TypeGraphInv, NoneTwice, Working
  <2> QED BY <2>10, <2>11, <2>12, <2>13, <2>14, <2>15, <2>16 DEF TypeGraphInv
<1> QED BY <1>5, <1>6

\* What a type depends on is a type, or not yet known.
LEMMA DepsAreTypes ==
  ASSUME under \in [Named -> Types \cup {NoType}], NEW t \in Types
  PROVE  Deps(t) \subseteq Types \cup {NoType} /\ StrongDeps(t) \subseteq Deps(t)
<1>1. Named \subseteq Types /\ Literal \subseteq Types
  BY DEF Types
<1>2. CASE t \in Named
  BY <1>2 DEF Deps, StrongDeps
<1>3. CASE t \notin Named /\ t \in Literal
  <2>1. Parts(t) \subseteq Types /\ t.embeds \subseteq Named
    BY <1>3, LiteralParts
  <2> QED BY <1>1, <1>3, <2>1 DEF Deps, StrongDeps, IsLiteral
<1>4. CASE t \notin Named /\ t \notin Literal
  BY <1>4 DEF Deps, StrongDeps, IsLiteral
<1> QED BY <1>2, <1>3, <1>4

\* CompleteTypes() collects incomplete types, among them all incomplete named types
\* and their incomplete underlying types.
LEMMA CollectedTypes ==
  ASSUME Shape
  PROVE  /\ Collected(Declared) \subseteq Incomplete(Types)
         /\ Incomplete(Declared) \subseteq Collected(Declared)
         /\ \A n \in Incomplete(Declared) : Incomplete({under[n]}) \subseteq Collected(Declared)
<1> DEFINE start == Incomplete(Declared)
           next == [t \in Types |-> Incomplete(Deps(t))]
           C == Incomplete(Types)
<1>1. /\ under \in [Named -> Types \cup {NoType}] /\ NoType \notin Types
      /\ Named \subseteq Types /\ Declared \subseteq Named
      /\ IsFiniteSet(Named) /\ Depth \in Nat
  BY LiteralAssumption DEF Shape, Types, Declared
<1>2. MaxPath \in Nat /\ MaxPath # 0
  BY MaxPathNat
<1>3. start \subseteq C
  BY <1>1 DEF Incomplete
<1>4. \A t \in C : next[t] \subseteq C
  <2> TAKE t \in C
  <2>1. t \in Types
    BY DEF Incomplete
  <2>2. next[t] = Incomplete(Deps(t)) /\ Deps(t) \subseteq Types \cup {NoType}
    BY <1>1, <2>1, DepsAreTypes
  <2> QED BY <2>2 DEF Incomplete
<1>5. Collected(Declared) = Reached(start, next, MaxPath)
  BY DEF Collected
<1>6. ASSUME NEW n \in start
      PROVE  n \in Named /\ next[n] = Incomplete({under[n]})
  BY <1>1 DEF Incomplete, Deps
<1> HIDE DEF start, next, C
<1>7. Reached(start, next, MaxPath) \subseteq C
  BY <1>2, <1>3, <1>4, ReachedWithin
<1>8. /\ start \subseteq Reached(start, next, MaxPath)
      /\ MaxPath # 0 => \A n \in start : next[n] \subseteq Reached(start, next, MaxPath)
  BY <1>2, ReachedFirst
<1> QED BY <1>2, <1>5, <1>6, <1>7, <1>8 DEF start, C

\* The graph that CompleteTypes() begins with.
LEMMA CompleteTypesInv ==
  ASSUME TypeGraphInv, CompleteTypes
  PROVE  TypeGraphInv'
<1>1. /\ decl' = decl /\ fact' = fact /\ under' = under /\ completed' = << >>
      /\ phase = "idle" /\ phase' = "completing" /\ Closed
      /\ fwd' = Forward(Collected(Declared))
  BY DEF CompleteTypes
<1>2. Shape /\ NoCycles /\ Origins /\ UndeclaredUnknown /\ Grounded /\ CompleteUnder
  BY DEF TypeGraphInv
<1>3. Declared' = Declared
  BY <1>1 DEF Declared
<1>4. Shape' /\ NoCycles' /\ Origins' /\ UndeclaredUnknown' /\ Grounded'
  BY <1>1, <1>2, <1>3 DEF Shape, NoCycles, Origins, UndeclaredUnknown, Grounded
<1>5. CompleteUnder'
  BY <1>1, <1>2 DEF CompleteUnder
<1> DEFINE T == Collected(Declared)
<1>6. /\ T \subseteq Incomplete(Types)
      /\ Incomplete(Declared) \subseteq T
      /\ \A n \in Incomplete(Declared) : Incomplete({under[n]}) \subseteq T
  BY <1>2, CollectedTypes
<1> HIDE DEF T
<1>7. /\ DOMAIN fwd' = T
      /\ \A t \in T : fwd'[t].strong = {d \in Incomplete(StrongDeps(t)) : ~Weakened(d)}
  BY <1>1 DEF Forward, T
<1>8. \A n \in Declared : n \in Named /\ under[n] \in Types /\ n # NoType
  BY <1>2, LiteralAssumption DEF Declared, Shape, Types
<1>9. \A n \in Declared : n \notin T => fact[n].complete
  BY <1>6, <1>8 DEF Incomplete
<1>10. ChainsDeclared'
  <2> SUFFICES ASSUME NEW n \in Declared, under[n] \in Named PROVE under[n] \in Declared
    BY <1>1, <1>3 DEF ChainsDeclared
  <2>1. PICK m \in Declared : decl[m] = under[n]
    BY <1>2 DEF Origins
  <2>2. NamedIn(decl[m]) \subseteq Declared
    BY <1>1 DEF Closed
  <2>3. decl[m] \in NamedIn(decl[m])
    BY <2>1 DEF NamedIn
  <2> QED BY <2>1, <2>2, <2>3
<1>11. LeftIncomplete'
  BY <1>1, <1>6, <1>7 DEF LeftIncomplete, Incomplete
<1>12. StrongListed'
  <2> SUFFICES ASSUME NEW t \in T, NEW d \in StrongDeps(t), d \in T, ~Weakened(d)
               PROVE  d \in fwd'[t].strong
    BY <1>1, <1>7 DEF StrongListed, StrongDeps
  <2>1. d \in Incomplete(StrongDeps(t))
    BY <1>6 DEF Incomplete
  <2> QED BY <1>7, <2>1
<1>13. Settled'
  <2> SUFFICES ASSUME NEW n \in Declared, n \notin T PROVE under[n] \notin Named /\ under[n] \notin T
    BY <1>1, <1>3, <1>7 DEF Settled
  <2>1. fact[n].complete /\ n \in Named
    BY <1>8, <1>9
  <2>2. under[n] \notin Named /\ fact[under[n]].complete
    BY <1>1, <1>2, <2>1 DEF CompleteUnder
  <2> QED BY <1>6, <2>2 DEF Incomplete
<1>14. Accounted'
  <2> SUFFICES ASSUME NEW n \in Declared PROVE fact[under[n]].complete \/ under[n] \in T
    BY <1>1, <1>3, <1>7 DEF Accounted
  <2>1. CASE fact[n].complete
    BY <1>1, <1>2, <1>8, <2>1 DEF CompleteUnder
  <2>2. CASE ~fact[n].complete
    <3>1. n \in Incomplete(Declared)
      BY <1>8, <2>2 DEF Incomplete
    <3>2. under[n] # NoType
      BY DEF Declared
    <3> QED BY <1>6, <3>1, <3>2 DEF Incomplete
  <2> QED BY <2>1, <2>2
<1>15. NoneAgain' /\ NoneTwice' /\ StrongFirst'
  <2>1. DOMAIN completed' = {}
    BY <1>1
  <2> QED BY <2>1 DEF NoneAgain, NoneTwice, StrongFirst
<1>16. Working'
  BY <1>10, <1>11, <1>12, <1>13, <1>14, <1>15 DEF Working
<1> QED BY <1>4, <1>5, <1>15, <1>16 DEF TypeGraphInv

\* What complete() makes of a type whose strong dependencies have all been completed.
\* The type underlying a named type is then not named, and is not left unless it is of
\* a kind that nothing depends on strongly.
LEMMA CompleteFacts ==
  ASSUME TypeGraphInv, NEW t \in Types, CompleteOne(t)
  PROVE  /\ t \in DOMAIN fact => ~fact[t].complete
         /\ DOMAIN fact' = DOMAIN fact /\ Facts(fact')
         /\ \A s \in DOMAIN fact : s # t => fact'[s] = fact[s]
         /\ under' \in [Named -> Types \cup {NoType}]
         /\ \A n \in Named : n # t => under'[n] = under[n]
         /\ t \in Named \ Declared => fact' = fact /\ under' = under
         /\ t \in Declared =>
              LET e == under'[t]
              IN  /\ e \in Types \ Named /\ e # NoType /\ e \in DOMAIN fact
                  /\ e \in DOMAIN fwd => Weakened(e)
                  /\ \E n \in Declared : under[n] = e
                  /\ fact'[t].complete => fact[e].complete
                  /\ fact'[t] = fact[t] \/ fact'[t] = fact[e]
                  /\ e = under[t] \/ (under[t] \in Declared /\ e = under[under[t]])
<1>0. /\ NoType \notin Types /\ Named \subseteq Types /\ NoType \notin Named
      /\ Named \cap Literal = {}
  BY LiteralAssumption DEF Types
<1>1. /\ phase = "completing" /\ t \in DOMAIN fwd /\ fwd[t].strong = {}
      /\ fact' = [fact EXCEPT ![t] = CompleteFact(t)]
      /\ under' = IF t \in Named THEN [under EXCEPT ![t] = EndOf(under[t])] ELSE under
  BY DEF CompleteOne
<1>2. /\ decl \in [Named -> Types] /\ under \in [Named -> Types \cup {NoType}]
      /\ Facts(fact) /\ Named \subseteq DOMAIN fact
  BY DEF TypeGraphInv, Shape
<1>3. NoCycles /\ Grounded /\ ChainsDeclared /\ LeftIncomplete /\ StrongListed /\ Settled
  BY <1>1 DEF TypeGraphInv, Working
<1>4. t \in DOMAIN fact => ~fact[t].complete
  BY <1>1, <1>3 DEF LeftIncomplete
<1>5. /\ DOMAIN fact' = DOMAIN fact
      /\ \A s \in DOMAIN fact : fact'[s] = IF s = t THEN CompleteFact(t) ELSE fact[s]
      /\ fact' = [s \in DOMAIN fact |-> fact'[s]]
  <2> DEFINE new == CompleteFact(t)
             f == fact'
  <2>1. f = [fact EXCEPT ![t] = new]
    BY <1>1
  <2> HIDE DEF new, f
  <2>2. /\ DOMAIN f = DOMAIN fact /\ f = [s \in DOMAIN fact |-> f[s]]
        /\ \A s \in DOMAIN fact : f[s] = IF s = t THEN new ELSE fact[s]
    BY <2>1
  <2> QED BY <2>2 DEF new, f
<1>6. ASSUME t \in Named
      PROVE  /\ under'[t] = EndOf(under[t])
             /\ under' \in [Named -> Types \cup {NoType}]
             /\ \A n \in Named : n # t => under'[n] = under[n]
             /\ CompleteFact(t) = IF under'[t] # under[t] THEN fact[under'[t]] ELSE fact[t]
             /\ under[t] \in DOMAIN fwd => Weakened(under[t])
  <2>1. under[t] \in Types \cup {NoType}
    BY <1>2, <1>6
  <2>2. EndOf(under[t]) \in Types \cup {NoType}
    <3> DEFINE C == Types \cup {NoType}
    <3>1. \A m \in C \cap Named : under[m] \in C \cup {NoType}
      BY <1>2
    <3>2. C \in SUBSET (Types \cup {NoType}) /\ under[t] \in C
      BY <2>1
    <3> HIDE DEF C
    <3>3. Chain(under[t]) \subseteq C
      BY <3>1, <3>2, ChainWithin
    <3>4. EndOf(under[t]) \in Chain(under[t])
      BY <1>2, <1>3, <2>1, ChainEnds
    <3> QED BY <3>3, <3>4 DEF C
  <2>3. under' = [under EXCEPT ![t] = EndOf(under[t])]
    BY <1>1, <1>6
  <2>4. under'[t] = EndOf(under[t])
    BY <1>2, <1>6, <2>3
  <2>5. CompleteFact(t) = IF under'[t] # under[t] THEN fact[under'[t]] ELSE fact[t]
    <3>1. CompleteFact(t) = CompleteNamed(t)
      BY <1>0, <1>6 DEF CompleteFact, IsLiteral
    <3>2. CompleteNamed(t) = IF EndOf(under[t]) # under[t] THEN fact[EndOf(under[t])] ELSE fact[t]
      BY DEF CompleteNamed
    <3> QED BY <2>4, <3>1, <3>2
  <2>6. StrongDeps(t) = {under[t]}
    BY <1>6 DEF StrongDeps
  <2>7. under[t] \in DOMAIN fwd => Weakened(under[t])
    BY <1>1, <1>3, <2>6 DEF StrongListed
  <2> HIDE DEF CompleteFact
  <2> QED BY <1>2, <1>6, <2>2, <2>3, <2>4, <2>5, <2>7
<1>7. /\ under' \in [Named -> Types \cup {NoType}]
      /\ \A n \in Named : n # t => under'[n] = under[n]
  BY <1>1, <1>2, <1>6
<1>8. ASSUME t \in Named, t \notin Declared PROVE fact' = fact /\ under' = under
  <2>1. under[t] = NoType
    BY <1>8 DEF Declared
  <2>2. under'[t] = NoType
    BY <1>0, <1>2, <1>3, <1>6, <1>8, <2>1, ShortChains
  <2>3. under' = under
    BY <1>2, <1>7, <2>1, <2>2
  <2>4. CompleteFact(t) = fact[t]
    BY <1>6, <1>8, <2>1, <2>2
  <2>5. \A s \in DOMAIN fact : fact'[s] = fact[s]
    BY <1>5, <2>4
  <2>6. fact = [s \in DOMAIN fact |-> fact[s]]
    <3> DEFINE h == [s \in DOMAIN fact |-> AsFact(fact[s])]
    <3>1. fact = h
      BY <1>2 DEF Facts
    <3>2. h = [s \in DOMAIN h |-> h[s]] /\ DOMAIN h = DOMAIN fact
      OBVIOUS
    <3> HIDE DEF h
    <3> QED BY <3>1, <3>2
  <2> QED BY <1>5, <2>3, <2>5, <2>6
<1> DEFINE e == under'[t]
<1>9. ASSUME t \in Declared
      PROVE  /\ e \in Types \ Named /\ e # NoType /\ e \in DOMAIN fact
             /\ e \in DOMAIN fwd => Weakened(e)
             /\ \E n \in Declared : under[n] = e
             /\ fact'[t].complete => fact[e].complete
             /\ fact'[t] = fact[t] \/ fact'[t] = fact[e]
             /\ e = under[t] \/ (under[t] \in Declared /\ e = under[under[t]])
  <2>1. t \in Named /\ under[t] \in Types /\ under[t] # NoType /\ under[t] \in DOMAIN fact
    BY <1>2, <1>3, <1>9 DEF Declared, Grounded
  <2>2. CASE under[t] \notin Named
    <3>1. e = under[t]
      BY <1>2, <1>3, <1>6, <2>1, <2>2, ShortChains
    <3>2. fact'[t] = fact[t]
      BY <1>2, <1>5, <1>6, <2>1, <3>1
    <3> QED BY <1>2, <1>4, <1>6, <1>9, <2>1, <2>2, <3>1, <3>2
  <2>3. CASE under[t] \in Named
    <3> DEFINE u == under[t]
    <3>1. u \in Declared
      BY <1>3, <1>9, <2>3 DEF ChainsDeclared
    <3>2. u \notin DOMAIN fwd
      BY <1>0, <1>6, <2>1, <2>3 DEF Weakened
    <3>3. under[u] \notin Named /\ (under[u] \in DOMAIN fwd => Weakened(under[u]))
      BY <1>3, <3>1, <3>2 DEF Settled
    <3>4. under[u] \in Types /\ under[u] # NoType /\ under[u] \in DOMAIN fact
      BY <1>2, <1>3, <2>3, <3>1 DEF Declared, Grounded
    <3>5. e = under[u]
      BY <1>2, <1>3, <1>6, <2>1, <2>3, <3>3, <3>4, ShortChains
    <3>6. fact'[t] = fact[e]
      BY <1>2, <1>5, <1>6, <2>1, <2>3, <3>3, <3>5
    <3> QED BY <3>1, <3>3, <3>4, <3>5, <3>6
  <2> QED BY <2>2, <2>3
<1>10. \A s \in DOMAIN fact : fact[s] = AsFact(fact[s])
  <2> DEFINE h == [s \in DOMAIN fact |-> AsFact(fact[s])]
  <2>1. fact = h
    BY <1>2 DEF Facts
  <2>2. \A s \in DOMAIN fact : h[s] = AsFact(fact[s])
    OBVIOUS
  <2> HIDE DEF h
  <2> QED BY <2>1, <2>2
<1>11. ASSUME t \in DOMAIN fact PROVE CompleteFact(t) = AsFact(CompleteFact(t))
  <2>1. \A size, cmp : Fact(t, size, cmp, fact) = AsFact(Fact(t, size, cmp, fact))
    BY DEF Fact, AsFact
  <2>2. CASE t \in Named
    <3>1. under'[t] # under[t] => under'[t] \in DOMAIN fact
      BY <1>8, <1>9, <2>2
    <3> QED BY <1>6, <1>10, <1>11, <2>2, <3>1
  <2>3. CASE t \notin Named /\ IsLiteral(t, "array")
    <3>1. CompleteFact(t) = CompleteArray(t)
      BY <2>3 DEF CompleteFact, IsLiteral
    <3> QED BY <2>1, <3>1 DEF CompleteArray
  <2>4. CASE t \notin Named /\ ~IsLiteral(t, "array") /\ IsLiteral(t, "struct")
    <3>1. CompleteFact(t) = CompleteStruct(t)
      BY <2>4 DEF CompleteFact
    <3> QED BY <2>1, <3>1 DEF CompleteStruct
  <2>5. CASE t \notin Named /\ ~IsLiteral(t, "array") /\ ~IsLiteral(t, "struct")
    <3>1. CompleteFact(t) = fact[t]
      BY <2>5 DEF CompleteFact
    <3> QED BY <1>10, <1>11, <3>1
  <2> QED BY <2>2, <2>3, <2>4, <2>5
<1>12. Facts(fact')
  <2> DEFINE f == fact'
  <2>1. \A s \in DOMAIN fact : f[s] = AsFact(f[s])
    BY <1>5, <1>10, <1>11
  <2>2. DOMAIN f = DOMAIN fact /\ f = [s \in DOMAIN fact |-> f[s]]
    BY <1>5
  <2> HIDE DEF f
  <2>3. f = [s \in DOMAIN f |-> AsFact(f[s])]
    BY <2>1, <2>2
  <2> QED BY <2>3 DEF Facts, f
<1> QED BY <1>4, <1>5, <1>7, <1>8, <1>9, <1>12

\* A type is completed and taken off the graph.
LEMMA CompleteOneInv ==
  ASSUME TypeGraphInv, NEW t \in Types, CompleteOne(t)
  PROVE  TypeGraphInv'
<1> DEFINE e == under'[t]
<1>0. /\ NoType \notin Types /\ Named \subseteq Types /\ NoType \notin Named
      /\ Named \cap Literal = {}
  BY LiteralAssumption DEF Types
<1>1. /\ phase = "completing" /\ phase' = phase /\ decl' = decl
      /\ t \in DOMAIN fwd /\ fwd[t].strong = {}
      /\ fwd' = Without(fwd, t, Strong(inv, t), Weak(inv, t))
      /\ completed' = Append(completed, t)
  BY DEF CompleteOne
<1>2. /\ decl \in [Named -> Types] /\ under \in [Named -> Types \cup {NoType}]
      /\ Named \cup Basic \subseteq DOMAIN fact /\ completed \in Seq(Types)
  BY DEF TypeGraphInv, Shape
<1>3. /\ NoCycles /\ Origins /\ UndeclaredUnknown /\ Grounded /\ CompleteUnder
      /\ ChainsDeclared /\ LeftIncomplete /\ StrongListed /\ Settled /\ Accounted /\ NoneAgain
      /\ StrongFirst
  BY <1>1 DEF TypeGraphInv, Working
<1>4. /\ t \in DOMAIN fact => ~fact[t].complete
      /\ DOMAIN fact' = DOMAIN fact /\ Facts(fact')
      /\ \A s \in DOMAIN fact : s # t => fact'[s] = fact[s]
      /\ under' \in [Named -> Types \cup {NoType}]
      /\ \A n \in Named : n # t => under'[n] = under[n]
      /\ t \in Named \ Declared => fact' = fact /\ under' = under
  BY CompleteFacts
<1>5. t \in Declared =>
        /\ e \in Types \ Named /\ e # NoType /\ e \in DOMAIN fact
        /\ e \in DOMAIN fwd => Weakened(e)
        /\ \E n \in Declared : under[n] = e
        /\ fact'[t].complete => fact[e].complete
  BY CompleteFacts
<1> HIDE DEF e
<1>6. /\ DOMAIN fwd' = DOMAIN fwd \ {t}
      /\ \A s \in DOMAIN fwd' : \A d \in fwd[s].strong : d # t => d \in fwd'[s].strong
  <2> DEFINE g == fwd'
             strongly == Strong(inv, t)
             weakly == Weak(inv, t)
             left(s) == IF s \in strongly THEN fwd[s].strong \ {t} ELSE fwd[s].strong
  <2>1. g = Without(fwd, t, strongly, weakly)
    BY <1>1
  <2> HIDE DEF g, strongly, weakly
  <2>2. DOMAIN g = DOMAIN fwd \ {t}
    BY <2>1 DEF Without
  <2>3. \A s \in DOMAIN fwd \ {t} : g[s].strong = left(s)
    <3>1. g = [s \in DOMAIN fwd \ {t} |->
                [strong |-> left(s),
                 weak |-> IF s \in strongly \cup weakly THEN fwd[s].weak \ {t} ELSE fwd[s].weak]]
      BY <2>1 DEF Without
    <3> HIDE DEF left
    <3> QED BY <3>1
  <2>4. \A s \in DOMAIN g : \A d \in fwd[s].strong : d # t => d \in g[s].strong
    BY <2>2, <2>3
  <2> QED BY <2>2, <2>4 DEF g
<1>7. \A n \in Named : n \in Declared \/ under[n] = NoType
  BY DEF Declared
<1>8. Declared' = Declared
  <2>1. \A n \in Named : under'[n] # NoType <=> under[n] # NoType
    BY <1>4, <1>5, <1>7 DEF Declared, e
  <2> QED BY <2>1 DEF Declared
<1>9. \A n \in Declared : n # t => under'[n] = under[n]
  BY <1>4 DEF Declared
<1>10. /\ DOMAIN completed' = DOMAIN completed \cup {Len(completed) + 1}
       /\ Len(completed) \in Nat /\ DOMAIN completed = 1 .. Len(completed)
       /\ completed'[Len(completed) + 1] = t
       /\ \A x \in DOMAIN completed : completed'[x] = completed[x]
  BY <1>1, <1>2
<1>11. Shape'
  <2>1. completed' \in Seq(Types)
    BY <1>1, <1>2
  <2> QED BY <1>1, <1>2, <1>4, <2>1 DEF Shape
<1>12. NoCycles'
  <2> SUFFICES ASSUME NEW S \in SUBSET Named, S # {} PROVE \E n \in S : under'[n] \notin S
    BY DEF NoCycles
  <2>1. PICK n \in S : under[n] \notin S
    BY <1>3 DEF NoCycles
  <2>2. CASE n # t
    BY <1>4, <2>1, <2>2
  <2>3. CASE n = t /\ t \in Declared
    BY <1>5, <2>3 DEF e
  <2>4. CASE n = t /\ t \notin Declared
    BY <1>4, <2>1, <2>4
  <2> QED BY <2>2, <2>3, <2>4
<1>13. Origins' /\ ChainsDeclared'
  <2>1. ASSUME NEW n \in Declared, under'[n] \in Named PROVE n # t
    BY <1>5, <2>1 DEF e
  <2>2. ASSUME NEW n \in Declared PROVE \E m \in Declared : decl[m] = under'[n]
    <3>1. \E k \in Declared : under[k] = under'[n]
      BY <1>5, <1>9 DEF e
    <3> QED BY <1>3, <3>1 DEF Origins
  <2> QED BY <1>1, <1>3, <1>8, <1>9, <2>1, <2>2 DEF Origins, ChainsDeclared
<1>14. UndeclaredUnknown'
  <2> SUFFICES ASSUME NEW n \in Named, n \notin Declared PROVE fact'[n] = fact[n]
    BY <1>3, <1>8 DEF UndeclaredUnknown
  <2> QED BY <1>2, <1>4
<1>15. Grounded'
  BY <1>3, <1>4, <1>5, <1>8, <1>9 DEF Grounded, e
<1>16. CompleteUnder'
  <2> SUFFICES ASSUME NEW n \in Named, fact'[n].complete
               PROVE  under'[n] \notin Named \cup {NoType} /\ fact'[under'[n]].complete
    BY DEF CompleteUnder
  <2>1. CASE n = t
    <3>1. t \in Declared
      BY <1>2, <1>4, <2>1
    <3>2. e # t /\ fact[e].complete
      BY <1>5, <2>1, <3>1
    <3>3. fact'[e] = fact[e]
      BY <1>4, <1>5, <3>1, <3>2
    <3> QED BY <1>5, <2>1, <3>1, <3>2, <3>3 DEF e
  <2>2. CASE n # t
    <3>1. fact[n].complete /\ under'[n] = under[n]
      BY <1>2, <1>4, <2>2
    <3>2. under[n] \notin Named \cup {NoType} /\ fact[under[n]].complete
      BY <1>1, <1>3, <3>1 DEF CompleteUnder
    <3>3. under[n] \in DOMAIN fact
      BY <1>3, <3>2 DEF Grounded, Declared
    <3>4. under[n] # t
      BY <1>4, <3>2, <3>3
    <3> QED BY <1>4, <3>1, <3>2, <3>3, <3>4
  <2> QED BY <2>1, <2>2
<1>17. LeftIncomplete'
  BY <1>3, <1>4, <1>6 DEF LeftIncomplete
<1>18. StrongListed'
  <2> SUFFICES ASSUME NEW s \in DOMAIN fwd', NEW d \in (StrongDeps(s))', d \in DOMAIN fwd', ~Weakened(d)
               PROVE  d \in fwd'[s].strong
    BY DEF StrongListed, Weakened
  <2>1. s \in DOMAIN fwd /\ s # t /\ d \in DOMAIN fwd /\ d # t
    BY <1>6
  <2>2. d \in StrongDeps(s)
    BY <1>4, <2>1 DEF StrongDeps
  <2>3. d \in fwd[s].strong
    BY <1>3, <2>1, <2>2 DEF StrongListed
  <2> QED BY <1>6, <2>1, <2>3
<1>19. Settled'
  <2> SUFFICES ASSUME NEW n \in Declared, n \notin DOMAIN fwd'
               PROVE  under'[n] \notin Named /\ (under'[n] \in DOMAIN fwd' => Weakened(under'[n]))
    BY <1>8 DEF Settled, Weakened
  <2>1. CASE n = t
    BY <1>5, <1>6, <2>1 DEF e
  <2>2. CASE n # t
    BY <1>3, <1>6, <1>9, <2>2 DEF Settled
  <2> QED BY <2>1, <2>2
<1>20. Accounted'
  <2> DEFINE Known1(u) == \/ fact[u].complete
                          \/ u \in DOMAIN fwd
                          \/ \E x \in DOMAIN completed : completed[x] = u
             Known2(u) == \/ fact'[u].complete
                          \/ u \in DOMAIN fwd'
                          \/ \E x \in DOMAIN completed' : completed'[x] = u
  <2>1. ASSUME NEW u \in DOMAIN fact, Known1(u) PROVE Known2(u)
    <3>1. CASE u = t
      BY <1>10, <3>1
    <3>2. CASE u # t /\ fact[u].complete
      BY <1>4, <3>2
    <3>3. CASE u # t /\ u \in DOMAIN fwd
      BY <1>6, <3>3
    <3>4. CASE \E x \in DOMAIN completed : completed[x] = u
      BY <1>10, <3>4
    <3> QED BY <2>1, <3>1, <3>2, <3>3, <3>4
  <2>2. \A n \in Declared : under[n] \in DOMAIN fact /\ (under[n] \in Named \/ Known1(under[n]))
    BY <1>3 DEF Grounded, Accounted
  <2> SUFFICES ASSUME NEW n \in Declared PROVE under'[n] \in Named \/ Known2(under'[n])
    BY <1>8 DEF Accounted
  <2> HIDE DEF Known1, Known2
  <2>3. CASE n = t
    <3>1. PICK m \in Declared : under[m] = e
      BY <1>5, <2>3
    <3>2. e \in DOMAIN fact /\ Known1(e)
      BY <1>5, <2>2, <2>3, <3>1
    <3>3. Known2(e)
      BY <2>1, <3>2
    <3> QED BY <2>3, <3>3 DEF e
  <2>4. CASE n # t
    BY <1>9, <2>1, <2>2, <2>4
  <2> QED BY <2>3, <2>4
<1>21. NoneAgain' /\ NoneTwice'
  <2>1. NoneTwice
    BY DEF TypeGraphInv
  <2>2. \A x \in DOMAIN completed : completed[x] # t
    BY <1>1, <1>3 DEF NoneAgain
  <2> QED BY <1>3, <1>6, <1>10, <2>1, <2>2 DEF NoneAgain, NoneTwice
<1>22. StrongFirst'
  <2> SUFFICES ASSUME NEW x \in DOMAIN completed', NEW d \in (Needs(completed[x]))', ~Weakened(d)
               PROVE  d \notin DOMAIN fwd' /\ \A y \in DOMAIN completed' : completed'[y] = d => y < x
    BY DEF StrongFirst, Weakened
  <2>1. CASE x \in DOMAIN completed
    <3>1. completed'[x] = completed[x] /\ completed[x] # t
      BY <1>1, <1>3, <1>10, <2>1 DEF NoneAgain
    <3>2. d \in Needs(completed[x])
      BY <1>1, <1>4, <3>1 DEF Needs, Inside
    <3>3. /\ d \notin DOMAIN fwd
          /\ \A y \in DOMAIN completed : completed[y] = d => y < x
      BY <1>1, <1>3, <2>1, <3>2 DEF StrongFirst
    <3>4. d # t
      BY <1>1, <3>3
    <3> QED BY <1>6, <1>10, <3>3, <3>4
  <2>2. CASE x = Len(completed) + 1
    <3>1. d \in (Needs(t))'
      BY <1>10, <2>2
    <3>2. d \notin DOMAIN fwd
      <4>1. CASE t \in Declared
        <5>1. d = e
          BY <3>1, <4>1 DEF Needs, Declared, e
        <5> QED BY <1>5, <4>1, <5>1
      <4>2. CASE t \in Named /\ t \notin Declared
        <5>1. d \in StrongDeps(t)
          BY <1>4, <3>1, <4>2 DEF Needs, StrongDeps
        <5> QED BY <1>1, <1>3, <5>1 DEF StrongListed
      <4>3. CASE t \notin Named
        <5>1. d \in StrongDeps(t)
          BY <3>1, <4>3 DEF Needs, Inside, StrongDeps, IsLiteral
        <5> QED BY <1>1, <1>3, <5>1 DEF StrongListed
      <4> QED BY <4>1, <4>2, <4>3
    <3>3. d # t
      BY <1>1, <3>2
    <3>4. \A y \in DOMAIN completed : y < x
      BY <1>10, <2>2
    <3> QED BY <1>6, <1>10, <2>2, <3>2, <3>3, <3>4
  <2> QED BY <1>10, <2>1, <2>2
<1>23. Working'
  BY <1>13, <1>17, <1>18, <1>19, <1>20, <1>21, <1>22 DEF Working
<1> QED BY <1>11, <1>12, <1>13, <1>14, <1>15, <1>16, <1>21, <1>23 DEF TypeGraphInv

\* The panic of an invalid recursive type changes nothing else.
LEMMA InvalidRecursiveTypeInv ==
  ASSUME TypeGraphInv, InvalidRecursiveType
  PROVE  TypeGraphInv'
<1>1. /\ phase' = "panic"
      /\ decl' = decl /\ fact' = fact /\ under' = under /\ completed' = completed
  BY DEF InvalidRecursiveType, graphs
<1>2. Declared' = Declared
  BY <1>1 DEF Declared
<1> QED BY <1>1, <1>2 DEF TypeGraphInv, Shape, NoCycles, Origins, UndeclaredUnknown, Grounded,
                          CompleteUnder, NoneTwice, Working

\* What the loop of CompleteTypes() marks complete keeps everything else it knows.
LEMMA MarkedFacts ==
  ASSUME Facts(fact), NEW S,
         fact' = [t \in DOMAIN fact |-> IF t \in S THEN [fact[t] EXCEPT !.complete = TRUE] ELSE fact[t]]
  PROVE  /\ Facts(fact') /\ DOMAIN fact' = DOMAIN fact
         /\ \A s \in DOMAIN fact : /\ fact'[s].kind = fact[s].kind /\ fact'[s].cmp = fact[s].cmp
                                   /\ fact'[s].size = fact[s].size
                                   /\ fact'[s].complete <=> fact[s].complete \/ s \in S
                                   /\ s \notin S => fact'[s] = fact[s]
<1> DEFINE h == [t \in DOMAIN fact |-> AsFact(fact[t])]
           f == fact'
<1>1. DOMAIN f = DOMAIN fact /\ f = [t \in DOMAIN fact |-> f[t]]
  OBVIOUS
<1>2. ASSUME NEW s \in DOMAIN fact
      PROVE  /\ f[s] = AsFact(f[s])
             /\ f[s].kind = fact[s].kind /\ f[s].cmp = fact[s].cmp /\ f[s].size = fact[s].size
             /\ f[s].complete <=> fact[s].complete \/ s \in S
             /\ s \notin S => f[s] = fact[s]
  <2> DEFINE r == fact[s]
             yes == TRUE
             new == [r EXCEPT !.complete = yes]
  <2>1. fact = h /\ h[s] = AsFact(r)
    BY DEF Facts
  <2>2. r = AsFact(r)
    <3> HIDE DEF h
    <3> QED BY <2>1
  <2>3. /\ s \in S => f[s] = new
        /\ s \notin S => f[s] = r
        /\ yes
    OBVIOUS
  <2> HIDE DEF r, h, yes, f
  <2>4. new = [kind |-> r.kind, size |-> r.size, cmp |-> r.cmp, complete |-> yes]
    BY <2>2 DEF AsFact
  <2>5. /\ new = AsFact(new)
        /\ new.kind = r.kind /\ new.cmp = r.cmp /\ new.size = r.size /\ new.complete
    BY <2>3, <2>4 DEF AsFact
  <2> HIDE DEF new
  <2> QED BY <2>2, <2>3, <2>5 DEF r
<1> HIDE DEF f
<1>3. f = [t \in DOMAIN f |-> AsFact(f[t])]
  BY <1>1, <1>2
<1> QED BY <1>1, <1>2, <1>3 DEF Facts, f

\* The end of CompleteTypes(): of a type that is not declared it is not known whether it
\* is comparable, so it fails the check; if none fails, the types that are completed and
\* their underlying types are complete.
LEMMA FinishInv ==
  ASSUME TypeGraphInv, Finish
  PROVE  TypeGraphInv'
<1> DEFINE failing == {x \in DOMAIN completed : FailsCheck(completed[x])}
           before == {y \in DOMAIN completed : \A z \in failing : y < z}
           passed == {completed[x] : x \in before}
<1>1. /\ phase = "completing" /\ DOMAIN fwd = {}
      /\ fact' = [t \in DOMAIN fact |-> IF t \in passed THEN [fact[t] EXCEPT !.complete = TRUE] ELSE fact[t]]
      /\ phase' = IF failing = {} THEN "idle" ELSE "panic"
      /\ decl' = decl /\ under' = under /\ completed' = completed
  BY DEF Finish, graphs
<1>2. /\ decl \in [Named -> Types] /\ under \in [Named -> Types \cup {NoType}]
      /\ Facts(fact) /\ Named \cup Basic \subseteq DOMAIN fact /\ completed \in Seq(Types)
  BY DEF TypeGraphInv, Shape
<1>3. /\ NoCycles /\ Origins /\ UndeclaredUnknown /\ Grounded /\ CompleteUnder
      /\ Settled /\ Accounted
  BY <1>1 DEF TypeGraphInv, Working
<1>5. ASSUME NEW s \in passed PROVE ~FailsCheck(s)
  <2>1. PICK x \in before : s = completed[x]
    OBVIOUS
  <2>2. x \in Nat
    BY <1>2
  <2>3. ~(x < x)
    BY <2>2
  <2> HIDE DEF FailsCheck
  <2> QED BY <2>1, <2>3
<1>6. failing = {} => passed = {completed[x] : x \in DOMAIN completed}
  OBVIOUS
<1> HIDE DEF passed, failing
<1>7. /\ Facts(fact') /\ DOMAIN fact' = DOMAIN fact
      /\ \A s \in DOMAIN fact : s \notin passed => fact'[s] = fact[s]
      /\ \A s \in DOMAIN fact : fact'[s].complete <=> fact[s].complete \/ s \in passed
  BY <1>1, <1>2, MarkedFacts
<1>10. Declared' = Declared
  BY <1>1 DEF Declared
<1>11. ASSUME NEW n \in Named, n \notin Declared PROVE n \notin passed
  <2>1. FailsCheck(n)
    <3>1. fact[n].cmp = "unknown"
      BY <1>3, <1>11 DEF UndeclaredUnknown
    <3> QED BY <3>1 DEF FailsCheck
  <2> QED BY <1>5, <2>1
<1>12. Shape'
  BY <1>1, <1>2, <1>7 DEF Shape
<1>13. NoCycles' /\ Origins'
  BY <1>1, <1>3, <1>10 DEF NoCycles, Origins
<1>14. UndeclaredUnknown'
  <2> SUFFICES ASSUME NEW n \in Named, n \notin Declared PROVE fact'[n] = fact[n]
    BY <1>3, <1>10 DEF UndeclaredUnknown
  <2> QED BY <1>2, <1>7, <1>11
<1>15. Grounded'
  BY <1>1, <1>3, <1>7, <1>10 DEF Grounded
<1>16. CompleteUnder'
  <2> SUFFICES ASSUME failing = {}, NEW n \in Named, fact'[n].complete
               PROVE  under[n] \notin Named \cup {NoType} /\ fact'[under[n]].complete
    BY <1>1 DEF CompleteUnder
  <2>1. ASSUME NEW s \in DOMAIN fact, fact[s].complete PROVE fact'[s].complete
    BY <1>7, <2>1
  <2>2. CASE n \notin passed
    <3>1. fact[n].complete
      BY <1>2, <1>7, <2>2
    <3>2. under[n] \notin Named \cup {NoType} /\ fact[under[n]].complete
      BY <1>1, <1>3, <3>1 DEF CompleteUnder
    <3>3. under[n] \in DOMAIN fact
      BY <1>3, <3>2 DEF Grounded, Declared
    <3> QED BY <2>1, <3>2, <3>3
  <2>3. CASE n \in passed
    <3>1. n \in Declared
      BY <1>11, <2>3
    <3>2. under[n] \notin Named /\ under[n] # NoType /\ under[n] \in DOMAIN fact
      BY <1>1, <1>3, <3>1 DEF Settled, Grounded, Declared
    <3>3. fact[under[n]].complete \/ under[n] \in passed
      BY <1>1, <1>3, <1>6, <3>1, <3>2 DEF Accounted
    <3> QED BY <1>7, <2>1, <3>2, <3>3
  <2> QED BY <2>2, <2>3
<1>17. NoneTwice' /\ Working'
  BY <1>1 DEF TypeGraphInv, NoneTwice, Working
<1> QED BY <1>12, <1>13, <1>14, <1>15, <1>16, <1>17 DEF TypeGraphInv

\* Every step of the declarations and of CompleteTypes().
LEMMA NextInv == TypeGraphInv /\ [Next]_vars => TypeGraphInv'
<1> SUFFICES ASSUME TypeGraphInv, [Next]_vars PROVE TypeGraphInv'
  OBVIOUS
<1>1. ASSUME NEW n \in Named, SetUnderlying(n) PROVE TypeGraphInv'
  BY <1>1, SetUnderlyingInv
<1>2. CASE CompleteTypes
  BY <1>2, CompleteTypesInv
<1>3. ASSUME NEW t \in Types, CompleteOne(t) PROVE TypeGraphInv'
  BY <1>3, CompleteOneInv
<1>4. CASE InvalidRecursiveType
  BY <1>4, InvalidRecursiveTypeInv
<1>5. CASE Finish
  BY <1>5, FinishInv
<1>6. CASE UNCHANGED vars
  BY <1>6 DEF vars, graphs, TypeGraphInv, Shape, NoCycles, Origins, UndeclaredUnknown, Grounded,
              CompleteUnder, Working, Declared, ChainsDeclared, LeftIncomplete, StrongListed,
              StrongDeps, Settled, Accounted, NoneAgain, NoneTwice, StrongFirst, Needs, Inside
<1> QED BY <1>1, <1>2, <1>3, <1>4, <1>5, <1>6 DEF Next

-----------------------------------------------------------------------------
(* What types know of themselves is true of them.                          *)

\* Comparable means comparable and not comparable means not; a complete type does not
\* contain itself and knows whether it is comparable; literals are made with their parts,
\* complete with them, and know whether they are comparable unless that depends on parts.
Sound(f) ==
  /\ DOMAIN f \subseteq Types
  /\ \A t \in DOMAIN f : /\ f[t].cmp \in {"yes", "no", "unknown"}
                         /\ f[t].cmp = "yes" => Comparable(t)
                         /\ f[t].cmp = "no" => Uncomparable(t)
                         /\ f[t].complete => Founded(t) /\ f[t].cmp # "unknown"
  /\ \A l \in DOMAIN f \cap Literal :
       /\ Parts(l) \subseteq DOMAIN f
       /\ f[l].kind = l.kind
       /\ f[l].complete => \A p \in Parts(l) : f[p].complete
       /\ Weakened(l) => f[l].cmp # "unknown"

\* What New() and complete() call comparable.
CmpOf(l, cmp, f) ==
  /\ l.kind \in {"ptr", "interface"} => cmp = "yes"
  /\ l.kind \in {"slice", "chan", "map", "func"} => cmp = "no"
  /\ l.kind = "array" => cmp = f[Head(l.parts)].cmp
  /\ l.kind = "struct" => cmp = StructCmp(l, f)

\* What is computed from parts that are right about themselves is right.
LEMMA FactSound ==
  ASSUME decl \in [Named -> Types], NEW f, Sound(f), NEW l \in Literal, Parts(l) \subseteq DOMAIN f,
         l.kind = "interface" => Founded(l) /\ Comparable(l),
         NEW size, NEW cmp, CmpOf(l, cmp, f), NEW r, r = Fact(l, size, cmp, f)
  PROVE  /\ r.kind = l.kind
         /\ r.cmp \in {"yes", "no", "unknown"}
         /\ r.cmp = "yes" => Comparable(l)
         /\ r.cmp = "no" => Uncomparable(l)
         /\ Weakened(l) => r.cmp # "unknown"
         /\ r.complete => Founded(l) /\ r.cmp # "unknown" /\ \A p \in Parts(l) : f[p].complete
<1>1. /\ r.kind = l.kind /\ r.cmp = cmp
      /\ r.complete <=> \A p \in Parts(l) : f[p].complete
  BY DEF Fact
<1>2. l \in Types /\ l \notin Named /\ l.kind \in Kinds
  BY LiteralAssumption DEF Types
<1>3. \A p \in Parts(l) : /\ f[p].cmp \in {"yes", "no", "unknown"}
                          /\ f[p].cmp = "yes" => Comparable(p)
                          /\ f[p].cmp = "no" => Uncomparable(p)
                          /\ f[p].complete => Founded(p) /\ f[p].cmp # "unknown"
  BY DEF Sound
<1> HIDE DEF Sound
<1>4. CASE l.kind = "interface"
  BY <1>1, <1>4 DEF CmpOf
<1>5. CASE l.kind \in {"ptr", "slice", "chan", "map", "func"}
  <2>1. Inside(l) = {}
    BY <1>2, <1>5 DEF Inside, IsLiteral
  <2>2. Founded(l)
    BY <1>2, <2>1, FoundedUp
  <2>3. l.kind = "ptr" => Comparable(l)
    BY <1>2, <2>1, ComparableUp
  <2>4. (cmp = "yes" /\ l.kind = "ptr") \/ (cmp = "no" /\ l.kind # "ptr")
    BY <1>5 DEF CmpOf
  <2>5. l.kind # "ptr" => Uncomparable(l)
    BY <1>5 DEF Uncomparable
  <2> QED BY <1>1, <2>2, <2>3, <2>4, <2>5
<1>6. CASE l.kind \in {"array", "struct"}
  <2>1. Inside(l) = Parts(l)
    BY <1>2, <1>6 DEF Inside, IsLiteral
  <2>2. r.complete => Founded(l)
    BY <1>1, <1>2, <1>3, <2>1, FoundedUp
  <2>3. (\A p \in Parts(l) : f[p].cmp = "yes") => Comparable(l)
    BY <1>2, <1>3, <1>6, <2>1, ComparableUp
  <2>6. ASSUME NEW p \in Parts(l), f[p].cmp = "no" PROVE Uncomparable(l)
    BY <1>2, <1>3, <2>1, <2>6, ContainedAll, UncomparableUp
  <2>7. ~Weakened(l)
    BY <1>6 DEF Weakened
  <2>4. CASE l.kind = "array"
    <3>1. Parts(l) = {Head(l.parts)} /\ cmp = f[Head(l.parts)].cmp
      BY <2>4, LiteralParts DEF CmpOf
    <3> QED BY <1>1, <1>3, <2>2, <2>3, <2>6, <2>7, <3>1
  <2>5. CASE l.kind = "struct"
    <3>1. cmp = StructCmp(l, f)
      BY <2>5 DEF CmpOf
    <3>2. /\ cmp \in {"yes", "no", "unknown"}
          /\ cmp = "yes" => \A p \in Parts(l) : f[p].cmp = "yes"
          /\ cmp = "unknown" => \E p \in Parts(l) : f[p].cmp = "unknown"
          /\ cmp = "no" => \E p \in Parts(l) : f[p].cmp = "no"
      BY <1>3, <3>1 DEF StructCmp
    <3> QED BY <1>1, <1>3, <2>2, <2>3, <2>6, <2>7, <3>2
  <2> QED BY <1>6, <2>4, <2>5
<1> QED BY <1>2, <1>4, <1>5, <1>6 DEF Kinds

\* A level of literals is right about itself if the levels below are.
LEMMA LevelSound ==
  ASSUME decl \in [Named -> Types], NEW f, Sound(f), NEW L \in SUBSET Literal, NEW i,
         \A l \in L : l.kind = "interface" => Founded(l) /\ Comparable(l),
         \A l \in L : l.level = i => Parts(l) \subseteq DOMAIN f
  PROVE  Sound(Level(L, i, f))
<1> DEFINE M == {m \in L : m.level = i}
           new == [l \in M |-> New(l, f)]
           g == Level(L, i, f)
<1>1. /\ DOMAIN g = DOMAIN f \cup M
      /\ \A t \in DOMAIN g : g[t] = IF t \in DOMAIN f THEN f[t] ELSE New(t, f)
  BY DEF Level, Extended
<1>2. ASSUME NEW l \in M
      PROVE  LET r == New(l, f)
             IN  /\ r.kind = l.kind
                 /\ r.cmp \in {"yes", "no", "unknown"}
                 /\ r.cmp = "yes" => Comparable(l)
                 /\ r.cmp = "no" => Uncomparable(l)
                 /\ Weakened(l) => r.cmp # "unknown"
                 /\ r.complete => Founded(l) /\ r.cmp # "unknown" /\ \A p \in Parts(l) : f[p].complete
  <2>1. l \in Literal /\ l.kind \in Kinds /\ Parts(l) \subseteq DOMAIN f
    BY LiteralAssumption
  <2>2. PICK size, cmp : New(l, f) = Fact(l, size, cmp, f) /\ CmpOf(l, cmp, f)
    BY <2>1 DEF Kinds, New, NewPointer, NewSlice, NewChan, NewMap, NewFunc, NewArray, NewStruct,
                NewInterface, CmpOf
  <2> DEFINE r == New(l, f)
  <2>3. r = Fact(l, size, cmp, f)
    BY <2>2
  <2>4. l.kind = "interface" => Founded(l) /\ Comparable(l)
    OBVIOUS
  <2> HIDE DEF r, M
  <2>5. /\ r.kind = l.kind
        /\ r.cmp \in {"yes", "no", "unknown"}
        /\ r.cmp = "yes" => Comparable(l)
        /\ r.cmp = "no" => Uncomparable(l)
        /\ Weakened(l) => r.cmp # "unknown"
        /\ r.complete => Founded(l) /\ r.cmp # "unknown" /\ \A p \in Parts(l) : f[p].complete
    BY <2>1, <2>2, <2>3, <2>4, FactSound
  <2> QED BY <2>5 DEF r
<1>3. M \subseteq Literal /\ Literal \subseteq Types /\ \A l \in M : Parts(l) \subseteq DOMAIN f
  BY DEF Types
<1> HIDE DEF g, M
<1>4. DOMAIN g \subseteq Types
  BY <1>1, <1>3 DEF Sound
<1>5. ASSUME NEW t \in DOMAIN g
      PROVE  /\ g[t].cmp \in {"yes", "no", "unknown"}
             /\ g[t].cmp = "yes" => Comparable(t)
             /\ g[t].cmp = "no" => Uncomparable(t)
             /\ g[t].complete => Founded(t) /\ g[t].cmp # "unknown"
  <2>1. CASE t \in DOMAIN f
    BY <1>1, <2>1 DEF Sound
  <2>2. CASE t \notin DOMAIN f
    BY <1>1, <1>2, <2>2
  <2> QED BY <2>1, <2>2
<1>6. ASSUME NEW l \in DOMAIN g \cap Literal
      PROVE  /\ Parts(l) \subseteq DOMAIN g
             /\ g[l].kind = l.kind
             /\ g[l].complete => \A p \in Parts(l) : g[p].complete
             /\ Weakened(l) => g[l].cmp # "unknown"
  <2>1. CASE l \in DOMAIN f
    <3>1. /\ Parts(l) \subseteq DOMAIN f /\ f[l].kind = l.kind
          /\ f[l].complete => \A p \in Parts(l) : f[p].complete
          /\ Weakened(l) => f[l].cmp # "unknown"
      BY <2>1 DEF Sound
    <3> QED BY <1>1, <2>1, <3>1
  <2>2. CASE l \notin DOMAIN f
    <3>1. l \in M /\ g[l] = New(l, f)
      BY <1>1, <2>2
    <3>2. /\ Parts(l) \subseteq DOMAIN f /\ g[l].kind = l.kind
          /\ g[l].complete => \A p \in Parts(l) : f[p].complete
          /\ Weakened(l) => g[l].cmp # "unknown"
      BY <1>2, <1>3, <3>1
    <3> QED BY <1>1, <3>2
  <2> QED BY <2>1, <2>2
<1>7. Sound(g)
  BY <1>4, <1>5, <1>6 DEF Sound
<1> QED BY <1>7 DEF g

\* The literals within a type are made of literals within it.
LEMMA SubLiteralsClosed ==
  ASSUME NEW t \in Types
  PROVE  /\ SubLiterals(t) \subseteq Literal
         /\ t \in Literal => t \in SubLiterals(t)
         /\ \A l \in SubLiterals(t) : Parts(l) \cap Literal \subseteq SubLiterals(t)
<1> DEFINE next == [s \in Types |-> Parts(s)]
           S == {t}
<1>1. /\ Depth \in Nat /\ \A l \in Literal : l.level \in 1 .. Depth /\ l \in Types
  BY LiteralAssumption DEF Types
<1>2. /\ \A s \in Types : next[s] = Parts(s)
      /\ \A s \in Types \ Literal : next[s] = {}
  BY DEF Parts
<1>3. SubLiterals(t) = Reached(S, next, Depth) \cap Literal
  BY DEF SubLiterals
<1> HIDE DEF next
<1>4. PICK f : Reached(S, next, Depth) = f[Depth] /\ f[0] = S /\ Grows(f, next, Depth)
  BY <1>1, ReachedSteps
<1>5. \A s \in Types : next[s] \subseteq Types
  BY <1>2, LiteralParts
<1>6. S \subseteq Reached(S, next, Depth) /\ Reached(S, next, Depth) \subseteq Types
  BY <1>1, <1>5, ReachedFirst, ReachedWithin
<1>7. \A m \in 0 .. Depth : f[m] \subseteq Types
  <2>1. Depth \in 0 .. Depth /\ \A m \in 0 .. Depth : m \in 0 .. Depth
    BY <1>1
  <2>2. \A m \in 0 .. Depth : f[m] \subseteq f[Depth]
    BY <1>1, <1>4, <2>1, StepsGrow
  <2> QED BY <1>4, <1>6, <2>2
<1> DEFINE Low(m) == \A l \in f[m] \cap Literal : l.level <= Depth - m \/ (m # 0 /\ l \in f[m - 1])
           done == {m \in Nat : m <= Depth => Low(m)}
<1>8. 0 \in done
  BY <1>1
<1>9. ASSUME NEW m \in Nat, m \in done PROVE m + 1 \in done
  <2> SUFFICES ASSUME m + 1 <= Depth, NEW l \in f[m + 1] \cap Literal, l \notin f[m]
               PROVE  l.level <= Depth - (m + 1)
    <3>1. m + 1 # 0 /\ (m + 1) - 1 = m
      OBVIOUS
    <3> QED BY <3>1
  <2>1. m <= Depth /\ m \in 0 .. (Depth - 1) /\ m \in 0 .. Depth
    BY <1>1
  <2>2. PICK s \in f[m] : l \in next[s]
    BY <1>4, <2>1 DEF Grows
  <2>3. s \in Literal /\ l \in Parts(s)
    BY <1>2, <1>7, <2>1, <2>2
  <2>4. s.level <= Depth - m
    <3>1. ASSUME m # 0, s \in f[m - 1] PROVE FALSE
      <4>1. m - 1 \in 0 .. (Depth - 1) /\ (m - 1) + 1 = m
        BY <1>1, <2>1, <3>1
      <4>2. f[m] = f[m - 1] \cup UNION {next[x] : x \in f[m - 1]}
        BY <1>4, <4>1 DEF Grows
      <4> QED BY <2>2, <3>1, <4>2
    <3> QED BY <1>9, <2>1, <2>3, <3>1
  <2>5. l.level < s.level
    BY <2>3, LiteralParts
  <2>6. l.level \in Int /\ s.level \in Int
    BY <1>1, <2>3
  <2> QED BY <1>1, <2>4, <2>5, <2>6
<1>10. Low(Depth)
  <2>1. Depth \in done
    <3> HIDE DEF done
    <3> QED BY <1>1, <1>8, <1>9, AllNaturals
  <2> HIDE DEF Low
  <2> QED BY <1>1, <2>1
<1>11. ASSUME NEW l \in f[Depth] \cap Literal PROVE Parts(l) \subseteq f[Depth]
  <2>1. ~(l.level <= Depth - Depth)
    BY <1>1
  <2>2. Depth # 0 /\ l \in f[Depth - 1]
    BY <1>10, <2>1
  <2>3. Depth - 1 \in 0 .. (Depth - 1) /\ (Depth - 1) + 1 = Depth
    BY <1>1, <2>2
  <2>4. f[Depth] = f[Depth - 1] \cup UNION {next[x] : x \in f[Depth - 1]}
    BY <1>4, <2>3 DEF Grows
  <2>5. next[l] = Parts(l)
    BY <1>1, <1>2
  <2> QED BY <2>2, <2>4, <2>5
<1> QED BY <1>3, <1>4, <1>6, <1>11

\* What is embedded is declared and an interface, whose values do not contain themselves.
EmbedsKnown ==
  \A l \in DOMAIN fact \cap Literal :
    /\ \A n \in l.embeds : n \in Declared /\ IsLiteral(under[n], "interface")
    /\ l.kind = "interface" => Founded(l) /\ Comparable(l)

\* All literals of a declaration have been made.
AllMade == \A n \in Declared : SubLiterals(decl[n]) \subseteq DOMAIN fact

\* The type underlying a declared type is where its declaration leads.
Leading ==
  \A n \in Declared : /\ Leads(n, under[n])
                      /\ decl[n] \notin Named => under[n] = decl[n]

\* The keys of complete maps are comparable.
MapKeys ==
  \A l \in DOMAIN fact \cap Literal :
    l.kind = "map" /\ fact[l].complete => Comparable(Head(l.parts))

\* The types that CompleteTypes() collected have been made and are declared, and their
\* parts are complete or collected too; those completed do not contain themselves.
Collection == DOMAIN fwd \cup {completed[x] : x \in DOMAIN completed}
Gathered ==
  /\ Collection \subseteq DOMAIN fact /\ Collection \cap Named \subseteq Declared
  /\ \A l \in Collection \cap Literal : \A p \in Parts(l) : fact[p].complete \/ p \in Collection
  /\ \A x \in DOMAIN completed : Founded(completed[x])

Sane ==
  phase # "panic" =>
    /\ Sound(fact) /\ EmbedsKnown /\ AllMade /\ Leading /\ MapKeys
    /\ phase = "completing" => Gathered

\* The declarations never change, and with them what values contain.
LEMMA DeclKept ==
  ASSUME decl' = decl
  PROVE  /\ \A t : Comparable(t)' = Comparable(t) /\ Founded(t)' = Founded(t)
         /\ \A n, u : Leads(n, u)' = Leads(n, u)
         /\ Sound(fact)' <=> Sound(fact')
<1>1. \A t : Inside(t)' = Inside(t)
  BY DEF Inside
<1>2. \A t : Contained(t)' = Contained(t)
  BY <1>1 DEF Contained
<1>3. \A t : Comparable(t)' = Comparable(t) /\ Founded(t)' = Founded(t)
  BY <1>2 DEF Comparable, Founded
<1>4. \A n, u : Leads(n, u)' = Leads(n, u)
  BY <1>2, <1>3 DEF Leads
<1>5. Sound(fact)' <=> Sound(fact')
  <2>1. \A t : Uncomparable(t)' = Uncomparable(t) /\ Weakened(t)' = Weakened(t)
    BY <1>2 DEF Uncomparable, Weakened
  <2> QED BY <1>3, <2>1 DEF Sound
<1> QED BY <1>3, <1>4, <1>5

\* An interface that embeds what is known to be interfaces.
LEMMA InterfaceSound ==
  ASSUME TypeGraphInv, Sane, phase # "panic", NEW l \in Literal, l.kind = "interface",
         \A n \in l.embeds : IsLiteral(under[n], "interface")
  PROVE  Founded(l) /\ Comparable(l)
<1>1. /\ decl \in [Named -> Types] /\ Grounded /\ EmbedsKnown /\ Leading
      /\ l \in Types /\ l \notin Named /\ NoType \notin Literal /\ l.embeds \subseteq Named
  BY LiteralParts, LiteralAssumption DEF TypeGraphInv, Shape, Sane, Types
<1>2. Inside(l) = l.embeds
  BY <1>1 DEF Inside, IsLiteral
<1>3. ASSUME NEW n \in l.embeds PROVE Founded(n) /\ Comparable(n)
  <2>1. under[n] \in Literal /\ under[n].kind = "interface" /\ n \in Named
    BY <1>1 DEF IsLiteral
  <2>2. n \in Declared
    BY <1>1, <2>1 DEF Declared
  <2>3. Founded(under[n]) /\ Comparable(under[n]) /\ Leads(n, under[n])
    BY <1>1, <2>1, <2>2 DEF Grounded, EmbedsKnown, Leading
  <2> QED BY <1>1, <2>1, <2>3, LeadsAlike DEF Leads
<1> QED BY <1>1, <1>2, <1>3, FoundedUp, ComparableUp

\* makeType() makes the literals of a type level by level, each after its parts.
LEMMA MadeLevels ==
  ASSUME NEW f, Named \cup Basic \subseteq DOMAIN f, NEW t \in Types
  PROVE  LET L == SubLiterals(t)
         IN  \E h : /\ Made(L, f) = h[Depth] /\ DOMAIN h[Depth] = DOMAIN f \cup L
                    /\ h[0] = f
                    /\ \A i \in 0 .. (Depth - 1) :
                         /\ h[i + 1] = Level(L, i + 1, h[i])
                         /\ \A l \in L : l.level = i + 1 => Parts(l) \subseteq DOMAIN h[i]
<1> DEFINE L == SubLiterals(t)
<1>1. Depth \in Nat /\ \A l \in Literal : l.level \in 1 .. Depth
  BY LiteralAssumption
<1>2. L \in SUBSET Literal /\ \A l \in L : Parts(l) \cap Literal \subseteq L
  BY SubLiteralsClosed
<1> HIDE DEF L
<1>4. PICK h : /\ Made(L, f) = h[Depth]
               /\ h[0] = f
               /\ \A i \in 0 .. (Depth - 1) : h[i + 1] = Level(L, i + 1, h[i])
  BY MadeSteps
<1> DEFINE UpTo(i) == {l \in L : l.level <= i}
           Good(i) == DOMAIN h[i] = DOMAIN f \cup UpTo(i)
           done == {i \in Nat : i <= Depth => Good(i)}
<1>5. 0 \in done
  <2>1. UpTo(0) = {}
    BY <1>1, <1>2
  <2> QED BY <1>4, <2>1
<1>6. ASSUME NEW i \in Nat, i \in done PROVE i + 1 \in done
  <2> SUFFICES ASSUME i + 1 <= Depth PROVE Good(i + 1)
    OBVIOUS
  <2>1. i <= Depth /\ i \in 0 .. (Depth - 1)
    BY <1>1
  <2> DEFINE g == h[i]
  <2>2. DOMAIN g = DOMAIN f \cup UpTo(i)
    BY <1>6, <2>1
  <2>3. h[i + 1] = Level(L, i + 1, g)
    BY <1>4, <2>1
  <2> HIDE DEF g
  <2>4. DOMAIN Level(L, i + 1, g) = DOMAIN g \cup {l \in L : l.level = i + 1}
    BY DEF Level, Extended
  <2>5. UpTo(i + 1) = UpTo(i) \cup {l \in L : l.level = i + 1}
    BY <1>1, <1>2
  <2> HIDE DEF UpTo
  <2> QED BY <2>2, <2>3, <2>4, <2>5
<1>7. \A i \in Nat : i <= Depth => Good(i)
  <2>1. \A i \in Nat : i \in done
    <3> HIDE DEF done
    <3> QED BY <1>5, <1>6, AllNaturals
  <2> HIDE DEF Good
  <2> QED BY <2>1
<1>8. DOMAIN h[Depth] = DOMAIN f \cup L
  <2>1. UpTo(Depth) = L
    BY <1>1, <1>2
  <2> HIDE DEF UpTo
  <2> QED BY <1>1, <1>7, <2>1
<1>9. ASSUME NEW i \in 0 .. (Depth - 1), NEW l \in L, l.level = i + 1
      PROVE  Parts(l) \subseteq DOMAIN h[i]
  <2>1. DOMAIN h[i] = DOMAIN f \cup UpTo(i)
    BY <1>1, <1>7
  <2>2. /\ Parts(l) \subseteq Types /\ Parts(l) \cap Literal \subseteq L
        /\ \A p \in Parts(l) \cap Literal : p.level < l.level
    BY <1>2, LiteralParts
  <2>3. \A p \in Parts(l) \cap Literal : p \in UpTo(i)
    BY <1>1, <1>9, <2>2
  <2> HIDE DEF UpTo
  <2> QED BY <2>1, <2>2, <2>3 DEF Types
<1> QED BY <1>4, <1>8, <1>9 DEF L

\* makeType() makes literals that are right about themselves.
LEMMA MadeSound ==
  ASSUME TypeGraphInv, Sane, phase # "panic", NEW t \in Types,
         \A l \in SubLiterals(t) : \A n \in l.embeds : IsLiteral(under[n], "interface")
  PROVE  LET f == Made(SubLiterals(t), fact)
         IN  Sound(f) /\ DOMAIN f = DOMAIN fact \cup SubLiterals(t)
<1> DEFINE L == SubLiterals(t)
<1>1. /\ decl \in [Named -> Types] /\ Sound(fact) /\ Named \cup Basic \subseteq DOMAIN fact
      /\ Depth \in Nat
  BY LiteralAssumption DEF TypeGraphInv, Shape, Sane
<1>2. L \in SUBSET Literal
  BY SubLiteralsClosed
<1>3. \A l \in L : l.kind = "interface" => Founded(l) /\ Comparable(l)
  BY <1>2, InterfaceSound
<1>4. PICK h : /\ Made(L, fact) = h[Depth] /\ DOMAIN h[Depth] = DOMAIN fact \cup L
               /\ h[0] = fact
               /\ \A i \in 0 .. (Depth - 1) :
                    /\ h[i + 1] = Level(L, i + 1, h[i])
                    /\ \A l \in L : l.level = i + 1 => Parts(l) \subseteq DOMAIN h[i]
  BY <1>1, MadeLevels
<1> HIDE DEF L
<1> DEFINE done == {i \in Nat : i <= Depth => Sound(h[i])}
<1>5. 0 \in done
  BY <1>1, <1>4
<1>6. ASSUME NEW i \in Nat, i \in done PROVE i + 1 \in done
  <2> SUFFICES ASSUME i + 1 <= Depth PROVE Sound(h[i + 1])
    OBVIOUS
  <2>1. i <= Depth /\ i \in 0 .. (Depth - 1)
    BY <1>1
  <2> DEFINE g == h[i]
  <2>2. /\ Sound(g) /\ h[i + 1] = Level(L, i + 1, g)
        /\ \A l \in L : l.level = i + 1 => Parts(l) \subseteq DOMAIN g
    BY <1>4, <1>6, <2>1
  <2> HIDE DEF g
  <2> QED BY <1>1, <1>2, <1>3, <2>2, LevelSound
<1>7. Sound(h[Depth])
  <2>1. Depth \in done
    <3> HIDE DEF done
    <3> QED BY <1>1, <1>5, <1>6, AllNaturals
  <2> QED BY <1>1, <2>1
<1> QED BY <1>4, <1>7 DEF L

\* Before anything is declared.
LEMMA InitSane == Init => Sane
<1> SUFFICES ASSUME Init PROVE Sane
  OBVIOUS
<1>1. /\ decl \in [Named -> Types] /\ phase = "idle" /\ Declared = {}
      /\ DOMAIN fact = Named \cup Basic
      /\ \A t \in Named : fact[t].cmp = "unknown" /\ ~fact[t].complete
      /\ \A t \in Basic \ Named : fact[t].cmp = "yes"
  BY DEF Init, Declared
<1>2. /\ Named \cap Literal = {} /\ Basic \cap (Named \cup Literal) = {}
      /\ Named \cup Basic \subseteq Types
  BY LiteralAssumption DEF Types
<1>3. ASSUME NEW t \in Basic PROVE Comparable(t) /\ Founded(t)
  <2>1. t \in Types /\ t \notin Literal /\ Inside(t) = {}
    BY <1>2 DEF Inside, IsLiteral
  <2> QED BY <1>1, <2>1, ComparableUp, FoundedUp
<1>4. Sound(fact)
  BY <1>1, <1>2, <1>3 DEF Sound
<1> QED BY <1>1, <1>2, <1>4 DEF Sane, EmbedsKnown, AllMade, Leading, MapKeys

\* The types of a chain are where the declarations lead.
LEMMA ChainLeads ==
  ASSUME TypeGraphInv, Leading, NEW n \in Named, NEW u \in Chain(decl[n]), u # NoType
  PROVE  Leads(n, u)
<1>1. /\ decl \in [Named -> Types] /\ under \in [Named -> Types \cup {NoType}]
      /\ NoType \notin Types /\ Named \subseteq Types
  BY LiteralAssumption DEF TypeGraphInv, Shape, Types
<1> DEFINE C == {t \in Types : Leads(n, t)}
<1>2. decl[n] \in C /\ decl[n] \in Types \cup {NoType}
  BY <1>1, LeadsFirst
<1>3. ASSUME NEW m \in C \cap Named PROVE under[m] \in C \cup {NoType}
  <2> SUFFICES ASSUME under[m] # NoType PROVE under[m] \in C
    OBVIOUS
  <2>1. Leads(m, under[m]) /\ under[m] \in Types
    BY <1>1 DEF Leading, Declared
  <2> QED BY <1>1, <2>1, LeadsOn
<1>4. C \in SUBSET (Types \cup {NoType})
  OBVIOUS
<1> HIDE DEF C
<1>5. Chain(decl[n]) \subseteq C
  BY <1>2, <1>3, <1>4, ChainWithin
<1> QED BY <1>5 DEF C

\* A declaration makes literals that are right about themselves, and copies from a type
\* that its declaration leads to.
LEMMA SetUnderlyingSane ==
  ASSUME TypeGraphInv, Sane, NEW n \in Named, SetUnderlying(n)
  PROVE  Sane'
<1> SUFFICES ASSUME phase' # "panic" PROVE Sane'
  BY DEF Sane
<1> DEFINE L == SubLiterals(decl[n])
           f == Made(L, fact)
           u == EndOf(decl[n])
<1>1. /\ phase = "idle" /\ phase' = "idle" /\ under[n] = NoType /\ decl' = decl
      /\ \A l \in L : ~Refused(l, f)
      /\ \A t \in DOMAIN fact : f[t] = fact[t]
      /\ u \in Chain(decl[n]) /\ u \in Types /\ u # NoType /\ u \in DOMAIN f
      /\ under'[n] = u /\ \A m \in Named : m # n => under'[m] = under[m]
      /\ Declared' = Declared \cup {n}
      /\ DOMAIN fact' = DOMAIN f /\ n \in DOMAIN f /\ fact'[n] = f[u]
      /\ \A t \in DOMAIN f : t # n => fact'[t] = f[t]
  BY DeclarationFacts
<1>2. /\ decl \in [Named -> Types] /\ under \in [Named -> Types \cup {NoType}] /\ decl[n] \in Types
      /\ NoCycles /\ UndeclaredUnknown /\ Named \cup Basic \subseteq DOMAIN fact
      /\ EmbedsKnown /\ AllMade /\ Leading /\ MapKeys
      /\ NoType \notin Types /\ Named \cap Literal = {} /\ Literal \subseteq Types
      /\ n \notin Declared /\ Declared \subseteq Named
  BY <1>1, LiteralAssumption DEF TypeGraphInv, Shape, Sane, Types, Declared
<1>3. L \in SUBSET Literal
  BY <1>2, SubLiteralsClosed
<1>4. \A l \in L : \A m \in l.embeds : IsLiteral(under[m], "interface")
  BY <1>1 DEF Refused
<1>5. Sound(f) /\ DOMAIN f = DOMAIN fact \cup L
  BY <1>1, <1>2, <1>4, MadeSound
<1>6. /\ \A t : Comparable(t)' = Comparable(t) /\ Founded(t)' = Founded(t)
      /\ \A m, t : Leads(m, t)' = Leads(m, t)
      /\ Sound(fact)' <=> Sound(fact')
  BY <1>1, DeclKept
<1>7. Leads(n, u)
  BY <1>1, <1>2, ChainLeads
<1>8. decl[n] \notin Named => u = decl[n]
  BY <1>2, ShortChains
<1>9. AllMade'
  <2> SUFFICES ASSUME NEW m \in Declared' PROVE SubLiterals(decl[m]) \subseteq DOMAIN f
    BY <1>1 DEF AllMade
  <2>1. CASE m = n
    BY <1>5, <2>1
  <2>2. CASE m # n
    BY <1>1, <1>2, <1>5, <2>2 DEF AllMade
  <2> QED BY <2>1, <2>2
<1>10. /\ \A l \in L : l.kind = "interface" => Founded(l) /\ Comparable(l)
       /\ \A l \in L : l.kind = "map" => f[Head(l.parts)].cmp # "no"
  BY <1>1, <1>3, <1>4, InterfaceSound DEF Sane, Refused
<1> HIDE DEF L, f, u
<1>11. Sound(fact')
  <2>1. DOMAIN f \subseteq Types
    BY <1>5 DEF Sound
  <2>2. \A t \in DOMAIN f : /\ f[t].cmp \in {"yes", "no", "unknown"}
                            /\ f[t].cmp = "yes" => Comparable(t)
                            /\ f[t].cmp = "no" => Uncomparable(t)
                            /\ f[t].complete => Founded(t) /\ f[t].cmp # "unknown"
    BY <1>5 DEF Sound
  <2>3. \A l \in DOMAIN f \cap Literal : /\ Parts(l) \subseteq DOMAIN f
                                         /\ f[l].kind = l.kind
                                         /\ f[l].complete => \A p \in Parts(l) : f[p].complete
                                         /\ Weakened(l) => f[l].cmp # "unknown"
    BY <1>5 DEF Sound
  <2>4. ~f[n].complete
    BY <1>1, <1>2 DEF UndeclaredUnknown
  <2>5. /\ f[u].cmp \in {"yes", "no", "unknown"}
        /\ f[u].cmp = "yes" => Comparable(n)
        /\ f[u].cmp = "no" => Uncomparable(n)
        /\ f[u].complete => Founded(n) /\ f[u].cmp # "unknown"
    BY <1>1, <1>2, <1>7, <2>2, LeadsAlike DEF Leads
  <2>6. ASSUME NEW t \in DOMAIN f
        PROVE  /\ fact'[t].cmp \in {"yes", "no", "unknown"}
               /\ fact'[t].cmp = "yes" => Comparable(t)
               /\ fact'[t].cmp = "no" => Uncomparable(t)
               /\ fact'[t].complete => Founded(t) /\ fact'[t].cmp # "unknown"
    <3>1. CASE t = n
      BY <1>1, <2>5, <3>1
    <3>2. CASE t # n
      BY <1>1, <2>2, <3>2
    <3> QED BY <3>1, <3>2
  <2>7. ASSUME NEW l \in DOMAIN f \cap Literal
        PROVE  /\ fact'[l].kind = l.kind
               /\ fact'[l].complete => \A p \in Parts(l) : fact'[p].complete
               /\ Weakened(l) => fact'[l].cmp # "unknown"
    <3>1. l # n /\ fact'[l] = f[l]
      BY <1>1, <1>2
    <3>2. \A p \in Parts(l) : f[p].complete => p # n /\ fact'[p] = f[p]
      BY <1>1, <2>3, <2>4
    <3> QED BY <2>3, <3>1, <3>2
  <2> QED BY <1>1, <2>1, <2>3, <2>6, <2>7 DEF Sound
<1>12. ASSUME NEW l \in DOMAIN f \cap Literal
       PROVE  /\ \A m \in l.embeds : m \in Declared' /\ IsLiteral(under'[m], "interface")
              /\ l.kind = "interface" => Founded(l) /\ Comparable(l)
  <2>1. l.embeds \subseteq Named
    BY LiteralParts
  <2>2. CASE l \in DOMAIN fact
    <3>1. /\ \A m \in l.embeds : m \in Declared /\ IsLiteral(under[m], "interface")
          /\ l.kind = "interface" => Founded(l) /\ Comparable(l)
      BY <1>2, <2>2 DEF EmbedsKnown
    <3> QED BY <1>1, <1>2, <2>1, <3>1
  <2>3. CASE l \in L
    <3>1. \A m \in l.embeds : under[m] \in Literal /\ under[m] # NoType
      BY <1>2, <1>4, <2>3 DEF IsLiteral
    <3>2. \A m \in l.embeds : m \in Declared /\ m # n
      BY <1>1, <2>1, <3>1 DEF Declared
    <3> QED BY <1>1, <1>4, <1>10, <2>1, <2>3, <3>2
  <2> QED BY <1>5, <2>2, <2>3
<1>13. EmbedsKnown'
  BY <1>1, <1>6, <1>12 DEF EmbedsKnown
<1>14. Leading'
  <2> SUFFICES ASSUME NEW m \in Declared'
               PROVE  Leads(m, under'[m]) /\ (decl[m] \notin Named => under'[m] = decl[m])
    BY <1>1, <1>6 DEF Leading
  <2>1. CASE m = n
    BY <1>1, <1>7, <1>8, <2>1
  <2>2. CASE m # n
    BY <1>1, <1>2, <2>2 DEF Leading
  <2> QED BY <2>1, <2>2
<1>15. MapKeys'
  <2> SUFFICES ASSUME NEW l \in DOMAIN f \cap Literal, l.kind = "map", f[l].complete
               PROVE  Comparable(Head(l.parts))
    <3>1. \A l \in DOMAIN f \cap Literal : fact'[l] = f[l]
      BY <1>1, <1>2
    <3> QED BY <1>1, <1>6, <3>1 DEF MapKeys
  <2>1. CASE l \in DOMAIN fact
    BY <1>1, <1>2, <2>1 DEF MapKeys
  <2>2. CASE l \in L
    <3> DEFINE key == Head(l.parts)
    <3>1. key \in Parts(l) /\ Parts(l) \subseteq DOMAIN f /\ \A p \in Parts(l) : f[p].complete
      BY <1>5, LiteralParts DEF Sound
    <3> HIDE DEF key
    <3>2. /\ f[key].cmp \in {"yes", "no", "unknown"}
          /\ f[key].cmp = "yes" => Comparable(key)
          /\ f[key].complete => f[key].cmp # "unknown"
      BY <1>5, <3>1 DEF Sound
    <3>3. f[key].cmp # "no"
      BY <1>10, <2>2 DEF key
    <3>4. Comparable(key)
      BY <3>1, <3>2, <3>3
    <3> QED BY <3>4 DEF key
  <2> QED BY <1>5, <2>1, <2>2
<1> QED BY <1>1, <1>6, <1>9, <1>11, <1>13, <1>14, <1>15 DEF Sane

\* CompleteTypes() collects declared types and their literals, and with each literal its
\* incomplete parts.
LEMMA CollectedClosed ==
  ASSUME TypeGraphInv, AllMade, Leading, Closed
  PROVE  /\ Collected(Declared) \subseteq DOMAIN fact
         /\ Collected(Declared) \cap Named \subseteq Declared
         /\ \A l \in Collected(Declared) \cap Literal : \A p \in Parts(l) :
              fact[p].complete \/ p \in Collected(Declared)
         /\ \A t \in Collected(Declared) \cap Types : Incomplete(Deps(t)) \subseteq Collected(Declared)
<1> DEFINE next == [t \in Types |-> Incomplete(Deps(t))]
           N == MaxPath
           S == Incomplete(Declared)
           Within(n) == SubLiterals(decl[n])
           W == Declared \cup Basic \cup UNION {Within(n) : n \in Declared}
           T == Collected(Declared)
<1>1. /\ decl \in [Named -> Types] /\ under \in [Named -> Types \cup {NoType}]
      /\ Named \cup Basic \subseteq DOMAIN fact /\ Origins
      /\ NoType \notin Types /\ Named \subseteq Types /\ Literal \subseteq Types
      /\ Named \cap Literal = {} /\ Basic \cap (Named \cup Literal) = {}
      /\ Declared \subseteq Named
      /\ \A t \in Types : t \in Named \/ t \in Basic \/ t \in Literal
  BY LiteralAssumption DEF TypeGraphInv, Shape, Types, Declared
<1>2. N \in Nat
  BY MaxPathNat
<1>3. T = Reached(S, next, N) /\ \A t \in Types : next[t] = Incomplete(Deps(t))
  BY DEF Collected
<1> HIDE DEF next, N, T
<1>4. S \subseteq Types /\ S \subseteq Declared
  BY <1>1 DEF Incomplete
<1>5. \A t \in Types : next[t] \subseteq Types /\ next[t] \subseteq Deps(t) \ {NoType}
  BY <1>1, <1>3, DepsAreTypes DEF Incomplete
<1>6. \A l \in Literal : Deps(l) = Parts(l) \cup l.embeds
  BY <1>1 DEF Deps
<1>7. Layered(next)
  <2> SUFFICES ASSUME NEW t \in Types
               PROVE  /\ t \in Basic => next[t] = {}
                      /\ t \in Literal => \A x \in next[t] \cap Literal : x.level < t.level
    BY <1>5 DEF Layered
  <2>1. CASE t \in Basic
    <3>1. Deps(t) = {}
      BY <1>1, <2>1 DEF Deps
    <3> QED BY <1>1, <1>5, <2>1, <3>1
  <2>2. CASE t \in Literal
    <3>1. /\ t.embeds \subseteq Named /\ \A p \in Parts(t) \cap Literal : p.level < t.level
      BY <2>2, LiteralParts
    <3> QED BY <1>1, <1>5, <1>6, <2>2, <3>1
  <2> QED BY <2>1, <2>2
<1>8. W \subseteq Types /\ S \subseteq W
  BY <1>1, <1>4, SubLiteralsClosed DEF Types
<1>9. ASSUME NEW n \in Declared, NEW l \in Within(n)
      PROVE  Deps(l) \subseteq W
  <2>1. /\ l \in Literal /\ Parts(l) \cap Literal \subseteq Within(n) /\ decl[n] \in Types
    BY <1>1, <1>9, SubLiteralsClosed
  <2>2. (Parts(l) \cap Named) \cup l.embeds \subseteq NamedIn(decl[n])
    BY <1>9 DEF NamedIn
  <2>3. NamedIn(decl[n]) \subseteq Declared
    BY <1>9 DEF Closed
  <2>4. Parts(l) \subseteq Types
    BY <2>1, LiteralParts
  <2> QED BY <1>1, <1>6, <1>9, <2>1, <2>2, <2>3, <2>4
<1>10. ASSUME NEW n \in Declared PROVE under[n] \in W
  <2>1. PICK m \in Declared : decl[m] = under[n]
    BY <1>1 DEF Origins
  <2>2. CASE decl[m] \in Named
    <3>1. decl[m] \in NamedIn(decl[m])
      BY <2>2 DEF NamedIn
    <3>2. decl[m] \in Declared
      BY <3>1 DEF Closed
    <3> QED BY <2>1, <3>2
  <2>3. CASE decl[m] \in Literal
    <3>1. decl[m] \in Within(m)
      BY <1>1, <2>3, SubLiteralsClosed
    <3> QED BY <2>1, <3>1
  <2>4. CASE decl[m] \in Basic
    BY <2>1, <2>4
  <2> QED BY <1>1, <2>2, <2>3, <2>4
<1>11. ASSUME NEW t \in W PROVE next[t] \subseteq W
  <2>1. t \in Types
    BY <1>8
  <2>2. CASE t \in Declared
    <3>1. Deps(t) = {under[t]}
      BY <1>1, <2>2 DEF Deps
    <3> HIDE DEF W
    <3> QED BY <1>5, <1>10, <2>1, <2>2, <3>1
  <2>3. CASE t \in Basic
    <3>1. Deps(t) = {}
      BY <1>1, <2>3 DEF Deps
    <3> QED BY <1>5, <2>1, <3>1
  <2>4. ASSUME NEW n \in Declared, t \in Within(n) PROVE next[t] \subseteq W
    <3> HIDE DEF W, Within
    <3> QED BY <1>5, <1>9, <2>1, <2>4
  <2> QED BY <2>2, <2>3, <2>4
<1>12. W \subseteq DOMAIN fact /\ W \cap Named \subseteq Declared
  <2>1. \A n \in Declared : Within(n) \subseteq DOMAIN fact /\ Within(n) \subseteq Literal
    BY <1>1, SubLiteralsClosed DEF AllMade
  <2> HIDE DEF Within
  <2> QED BY <1>1, <2>1
<1> HIDE DEF W, S
<1>13. T \subseteq W
  BY <1>2, <1>3, <1>8, <1>11, ReachedWithin
<1>14. \A t \in T : next[t] \subseteq T
  <2>1. S \in SUBSET Types
    BY <1>4
  <2> QED BY <1>3, <1>7, <2>1, LayeredReached DEF N
<1>15. ASSUME NEW l \in T \cap Literal, NEW p \in Parts(l) PROVE fact[p].complete \/ p \in T
  <2>1. p \in Types /\ p \in Deps(l) /\ p # NoType
    BY <1>1, <1>6, LiteralParts
  <2>2. fact[p].complete \/ p \in next[l]
    BY <1>1, <1>3, <2>1 DEF Incomplete
  <2> QED BY <1>14, <2>2
<1>16. \A t \in T \cap Types : Incomplete(Deps(t)) \subseteq T
  BY <1>3, <1>14
<1> QED BY <1>12, <1>13, <1>15, <1>16 DEF T

\* The graph that CompleteTypes() begins with.
LEMMA CompleteTypesSane ==
  ASSUME TypeGraphInv, Sane, CompleteTypes
  PROVE  Sane'
<1>1. /\ decl' = decl /\ fact' = fact /\ under' = under /\ completed' = << >>
      /\ phase = "idle" /\ phase' = "completing" /\ Closed
      /\ DOMAIN fwd' = Collected(Declared)
  BY DEF CompleteTypes, Forward
<1>2. Sound(fact) /\ EmbedsKnown /\ AllMade /\ Leading /\ MapKeys
  BY <1>1 DEF Sane
<1>3. /\ \A t : Comparable(t)' = Comparable(t) /\ Founded(t)' = Founded(t)
      /\ \A m, t : Leads(m, t)' = Leads(m, t)
      /\ Sound(fact)' <=> Sound(fact')
  BY <1>1, DeclKept
<1>4. Declared' = Declared
  BY <1>1 DEF Declared
<1>5. Sound(fact)' /\ EmbedsKnown' /\ AllMade' /\ Leading' /\ MapKeys'
  BY <1>1, <1>2, <1>3, <1>4 DEF EmbedsKnown, AllMade, Leading, MapKeys
<1> DEFINE T == Collected(Declared)
<1>6. /\ T \subseteq DOMAIN fact /\ T \cap Named \subseteq Declared
      /\ \A l \in T \cap Literal : \A p \in Parts(l) : fact[p].complete \/ p \in T
  BY <1>1, <1>2, CollectedClosed
<1> HIDE DEF T
<1>7. Collection' = T
  BY <1>1 DEF Collection, T
<1>8. Gathered'
  BY <1>1, <1>4, <1>6, <1>7 DEF Gathered
<1> QED BY <1>1, <1>5, <1>8 DEF Sane

\* A type that is completed is right about itself, and does not contain itself: what it
\* contains was complete or completed before.
LEMMA CompleteOneSane ==
  ASSUME TypeGraphInv, Sane, NEW t \in Types, CompleteOne(t)
  PROVE  Sane'
<1> DEFINE e == under'[t]
<1>1. /\ phase = "completing" /\ phase' = phase /\ decl' = decl
      /\ t \in DOMAIN fwd /\ fwd[t].strong = {}
      /\ DOMAIN fwd' = DOMAIN fwd \ {t}
      /\ completed' = Append(completed, t)
      /\ fact' = [fact EXCEPT ![t] = CompleteFact(t)]
  BY DEF CompleteOne, Without
<1>2. /\ decl \in [Named -> Types] /\ under \in [Named -> Types \cup {NoType}]
      /\ Named \cup Basic \subseteq DOMAIN fact /\ completed \in Seq(Types)
      /\ NoType \notin Types /\ Named \cap Literal = {} /\ Basic \cap (Named \cup Literal) = {}
      /\ Literal \subseteq Types /\ Named \subseteq Types /\ Declared \subseteq Named
  BY LiteralAssumption DEF TypeGraphInv, Shape, Types, Declared
<1>3. /\ Sound(fact) /\ EmbedsKnown /\ AllMade /\ Leading /\ MapKeys /\ Gathered
      /\ StrongListed /\ Grounded /\ Accounted
  BY <1>1 DEF Sane, TypeGraphInv, Working
<1>4. t \in DOMAIN fact /\ (t \in Named => t \in Declared)
  BY <1>1, <1>3 DEF Gathered, Collection
<1>5. /\ ~fact[t].complete
      /\ DOMAIN fact' = DOMAIN fact
      /\ \A s \in DOMAIN fact : s # t => fact'[s] = fact[s]
      /\ \A n \in Named : n # t => under'[n] = under[n]
      /\ fact'[t] = CompleteFact(t)
  BY <1>1, <1>4, CompleteFacts
<1>6. t \in Declared => /\ e \in Types \ Named /\ e # NoType /\ e \in DOMAIN fact
                        /\ e \in DOMAIN fwd => Weakened(e)
                        /\ \E n \in Declared : under[n] = e
                        /\ fact'[t] = fact[t] \/ fact'[t] = fact[e]
                        /\ e = under[t] \/ (under[t] \in Declared /\ e = under[under[t]])
  BY CompleteFacts
<1>7. /\ \A s : Comparable(s)' = Comparable(s) /\ Founded(s)' = Founded(s)
      /\ \A m, s : Leads(m, s)' = Leads(m, s)
      /\ Sound(fact)' <=> Sound(fact')
  BY <1>1, DeclKept
<1> HIDE DEF e
<1>8. Declared' = Declared
  <2>1. \A n \in Named : under'[n] # NoType <=> under[n] # NoType
    BY <1>4, <1>5, <1>6 DEF Declared, e
  <2> QED BY <2>1 DEF Declared
<1>9. Collection' = Collection
  <2>1. /\ DOMAIN completed' = DOMAIN completed \cup {Len(completed) + 1}
        /\ Len(completed) + 1 \notin DOMAIN completed
        /\ completed'[Len(completed) + 1] = t
        /\ \A x \in DOMAIN completed : completed'[x] = completed[x]
    BY <1>1, <1>2
  <2>2. {completed'[x] : x \in DOMAIN completed'} = {completed[x] : x \in DOMAIN completed} \cup {t}
    BY <2>1
  <2> QED BY <1>1, <2>2 DEF Collection
<1>10. t \in Declared => Leads(t, e)
  BY <1>2, <1>3, <1>6, LeadsOn DEF Leading
<1>11. Leading'
  <2> SUFFICES ASSUME NEW n \in Declared
               PROVE  Leads(n, under'[n]) /\ (decl[n] \notin Named => under'[n] = decl[n])
    BY <1>1, <1>7, <1>8 DEF Leading
  <2>1. CASE n = t
    <3>1. decl[n] \notin Named => under[n] = decl[n]
      BY <1>3 DEF Leading
    <3> QED BY <1>2, <1>6, <1>10, <2>1, <3>1 DEF e
  <2>2. CASE n # t
    BY <1>2, <1>3, <1>5, <2>2 DEF Leading
  <2> QED BY <2>1, <2>2
<1>12. \A d \in DOMAIN fact : fact[d].complete => Founded(d)
  BY <1>3 DEF Sound
<1>13. ASSUME NEW d \in Types, Weakened(d), d \in DOMAIN fact PROVE Founded(d)
  <2>1. CASE d.kind = "interface"
    BY <1>3, <1>13, <2>1 DEF EmbedsKnown, Weakened
  <2>2. CASE d.kind # "interface"
    <3>1. Inside(d) = {}
      BY <1>2, <1>13, <2>2 DEF Weakened, Inside, IsLiteral
    <3> QED BY <1>2, <3>1, FoundedUp
  <2> QED BY <2>1, <2>2
<1>14. \A x \in DOMAIN completed : Founded(completed[x])
  BY <1>3 DEF Gathered
<1>15. Founded(t)
  <2>1. CASE t \in Named
    <3>1. t \in Declared
      BY <1>4, <2>1
    <3>2. CASE Weakened(e)
      BY <1>2, <1>6, <1>10, <1>13, <3>1, <3>2 DEF Leads
    <3>3. CASE ~Weakened(e)
      <4>1. fact[e].complete \/ \E x \in DOMAIN completed : completed[x] = e
        BY <1>3, <1>6, <3>1, <3>3 DEF Accounted
      <4>2. Founded(e)
        BY <1>6, <1>12, <1>14, <3>1, <4>1
      <4> QED BY <1>10, <3>1, <4>2 DEF Leads
    <3> QED BY <3>2, <3>3
  <2>2. CASE IsLiteral(t, "interface")
    BY <1>3, <1>4, <2>2 DEF EmbedsKnown, IsLiteral
  <2>3. CASE IsLiteral(t, "array") \/ IsLiteral(t, "struct")
    <3>1. t \in Literal /\ t \notin Named /\ Inside(t) = Parts(t) /\ StrongDeps(t) = Parts(t)
      BY <1>2, <2>3 DEF Inside, StrongDeps, IsLiteral
    <3>2. ASSUME NEW d \in Parts(t) PROVE Founded(d)
      <4>1. d \in DOMAIN fact /\ d \in Types
        BY <1>3, <1>4, <3>1, <3>2 DEF Sound
      <4>2. fact[d].complete \/ d \in Collection
        BY <1>1, <1>3, <3>1, <3>2 DEF Gathered, Collection
      <4>3. CASE Weakened(d)
        BY <1>13, <4>1, <4>3
      <4>4. CASE ~Weakened(d)
        <5>1. d \notin DOMAIN fwd
          BY <1>1, <1>3, <3>1, <3>2, <4>4 DEF StrongListed
        <5> QED BY <1>12, <1>14, <4>1, <4>2, <5>1 DEF Collection
      <4> QED BY <4>3, <4>4
    <3> QED BY <1>2, <3>1, <3>2, FoundedUp
  <2>4. CASE t \notin Named /\ ~IsLiteral(t, "interface") /\ ~IsLiteral(t, "array") /\ ~IsLiteral(t, "struct")
    <3>1. Inside(t) = {}
      BY <2>4 DEF Inside
    <3> QED BY <1>2, <3>1, FoundedUp
  <2> QED BY <2>1, <2>2, <2>3, <2>4
<1>16. /\ fact'[t].cmp \in {"yes", "no", "unknown"}
       /\ fact'[t].cmp = "yes" => Comparable(t)
       /\ fact'[t].cmp = "no" => Uncomparable(t)
       /\ fact'[t].complete => fact'[t].cmp # "unknown"
       /\ t \in Literal =>
            /\ fact'[t].kind = t.kind
            /\ fact'[t].complete => \A p \in Parts(t) : fact[p].complete
            /\ Weakened(t) => fact'[t].cmp # "unknown"
            /\ t.kind = "map" => ~fact'[t].complete
  <2>0. \A s \in DOMAIN fact : /\ fact[s].cmp \in {"yes", "no", "unknown"}
                               /\ fact[s].cmp = "yes" => Comparable(s)
                               /\ fact[s].cmp = "no" => Uncomparable(s)
                               /\ fact[s].complete => fact[s].cmp # "unknown"
    BY <1>3 DEF Sound
  <2>1. CASE fact'[t] = fact[t]
    BY <1>3, <1>4, <1>5, <2>0, <2>1 DEF Sound
  <2>2. CASE t \in Named /\ fact'[t] # fact[t]
    <3>1. fact'[t] = fact[e] /\ e \in DOMAIN fact /\ Leads(t, e)
      BY <1>4, <1>6, <1>10, <2>2
    <3>2. (Comparable(e) => Comparable(t)) /\ (Uncomparable(e) => Uncomparable(t))
      BY <1>2, <2>2, <3>1, LeadsAlike
    <3> QED BY <1>2, <2>0, <2>2, <3>1, <3>2
  <2>3. CASE IsLiteral(t, "array") \/ IsLiteral(t, "struct")
    <3>1. t \in Literal /\ t \notin Named /\ Parts(t) \subseteq DOMAIN fact
      BY <1>2, <1>3, <1>4, <2>3 DEF Sound, IsLiteral
    <3>2. PICK size, cmp : CompleteFact(t) = Fact(t, size, cmp, fact) /\ CmpOf(t, cmp, fact)
      BY <2>3, <3>1 DEF CompleteFact, CompleteArray, CompleteStruct, CmpOf, IsLiteral
    <3> DEFINE r == fact'[t]
    <3>3. r = Fact(t, size, cmp, fact) /\ t.kind \in {"array", "struct"}
      BY <1>5, <2>3, <3>2 DEF IsLiteral
    <3> HIDE DEF r
    <3>4. /\ r.kind = t.kind
          /\ r.cmp \in {"yes", "no", "unknown"}
          /\ r.cmp = "yes" => Comparable(t)
          /\ r.cmp = "no" => Uncomparable(t)
          /\ Weakened(t) => r.cmp # "unknown"
          /\ r.complete => Founded(t) /\ r.cmp # "unknown" /\ \A p \in Parts(t) : fact[p].complete
      BY <1>2, <1>3, <3>1, <3>2, <3>3, FactSound
    <3> QED BY <3>3, <3>4 DEF r
  <2>4. CASE t \notin Named /\ ~IsLiteral(t, "array") /\ ~IsLiteral(t, "struct")
    <3>1. fact'[t] = fact[t]
      BY <1>5, <2>4 DEF CompleteFact
    <3> QED BY <2>1, <3>1
  <2> QED BY <2>1, <2>2, <2>3, <2>4
<1>17. Sound(fact')
  <2>1. ASSUME NEW s \in DOMAIN fact
        PROVE  /\ fact'[s].cmp \in {"yes", "no", "unknown"}
               /\ fact'[s].cmp = "yes" => Comparable(s)
               /\ fact'[s].cmp = "no" => Uncomparable(s)
               /\ fact'[s].complete => Founded(s) /\ fact'[s].cmp # "unknown"
    <3>1. CASE s = t
      BY <1>15, <1>16, <3>1
    <3>2. CASE s # t
      BY <1>3, <1>5, <3>2 DEF Sound
    <3> QED BY <3>1, <3>2
  <2>2. ASSUME NEW l \in DOMAIN fact \cap Literal
        PROVE  /\ Parts(l) \subseteq DOMAIN fact
               /\ fact'[l].kind = l.kind
               /\ fact'[l].complete => \A p \in Parts(l) : fact'[p].complete
               /\ Weakened(l) => fact'[l].cmp # "unknown"
    <3>1. Parts(l) \subseteq DOMAIN fact
      BY <1>3 DEF Sound
    <3>2. /\ fact'[l].kind = l.kind
          /\ fact'[l].complete => \A p \in Parts(l) : fact[p].complete
          /\ Weakened(l) => fact'[l].cmp # "unknown"
      <4>1. CASE l = t
        BY <1>16, <4>1
      <4>2. CASE l # t
        BY <1>3, <1>5, <4>2 DEF Sound
      <4> QED BY <4>1, <4>2
    <3>3. \A p \in Parts(l) : fact[p].complete => fact'[p].complete
      BY <1>5, <3>1
    <3> QED BY <3>1, <3>2, <3>3
  <2>3. DOMAIN fact \subseteq Types
    BY <1>3 DEF Sound
  <2> QED BY <1>5, <2>1, <2>2, <2>3 DEF Sound
<1>18. EmbedsKnown'
  <2> SUFFICES ASSUME NEW l \in DOMAIN fact \cap Literal, NEW n \in l.embeds
               PROVE  n \in Declared /\ IsLiteral(under'[n], "interface")
    BY <1>3, <1>5, <1>7, <1>8 DEF EmbedsKnown
  <2>1. n \in Declared /\ IsLiteral(under[n], "interface")
    BY <1>3 DEF EmbedsKnown
  <2>2. CASE n = t
    <3>1. under[t] \notin Declared
      BY <1>2, <2>1, <2>2 DEF IsLiteral
    <3> QED BY <1>6, <2>1, <2>2, <3>1 DEF e
  <2>3. CASE n # t
    BY <1>2, <1>5, <2>1, <2>3
  <2> QED BY <2>1, <2>2, <2>3
<1>19. AllMade'
  BY <1>1, <1>3, <1>5, <1>8 DEF AllMade, SubLiterals
<1>20. MapKeys'
  <2> SUFFICES ASSUME NEW l \in DOMAIN fact \cap Literal, l.kind = "map", fact'[l].complete
               PROVE  Comparable(Head(l.parts))
    BY <1>5, <1>7 DEF MapKeys
  <2>1. l # t
    BY <1>16
  <2> QED BY <1>3, <1>5, <2>1 DEF MapKeys
<1>21. Gathered'
  <2>1. /\ Collection \subseteq DOMAIN fact /\ Collection \cap Named \subseteq Declared
        /\ \A l \in Collection \cap Literal : \A p \in Parts(l) : fact[p].complete \/ p \in Collection
    BY <1>3 DEF Gathered
  <2>2. \A l \in Collection \cap Literal : \A p \in Parts(l) : fact[p].complete => fact'[p].complete
    <3>1. \A l \in Collection \cap Literal : Parts(l) \subseteq DOMAIN fact
      BY <1>3, <2>1 DEF Sound
    <3> QED BY <1>5, <3>1
  <2>3. \A x \in DOMAIN completed' : Founded(completed'[x])
    BY <1>1, <1>2, <1>14, <1>15
  <2> QED BY <1>5, <1>7, <1>8, <1>9, <2>1, <2>2, <2>3 DEF Gathered
<1> QED BY <1>1, <1>7, <1>11, <1>17, <1>18, <1>19, <1>20, <1>21 DEF Sane

\* What CompleteTypes() marks complete has complete parts, knows whether it is comparable,
\* and is no map whose key is not.
LEMMA FinishSane ==
  ASSUME TypeGraphInv, Sane, Finish
  PROVE  Sane'
<1> DEFINE failing == {x \in DOMAIN completed : FailsCheck(completed[x])}
           before == {y \in DOMAIN completed : \A z \in failing : y < z}
           passed == {completed[x] : x \in before}
           done == {completed[x] : x \in DOMAIN completed}
<1>1. /\ phase = "completing" /\ DOMAIN fwd = {}
      /\ fact' = [t \in DOMAIN fact |-> IF t \in passed THEN [fact[t] EXCEPT !.complete = TRUE] ELSE fact[t]]
      /\ phase' = IF failing = {} THEN "idle" ELSE "panic"
      /\ decl' = decl /\ under' = under
  BY DEF Finish
<1> SUFFICES ASSUME failing = {} PROVE Sane'
  BY <1>1 DEF Sane
<1>2. /\ Facts(fact) /\ Named \cap Literal = {}
      /\ Sound(fact) /\ EmbedsKnown /\ AllMade /\ Leading /\ MapKeys /\ Gathered
  BY <1>1, LiteralAssumption DEF TypeGraphInv, Shape, Sane
<1>3. passed = done /\ phase' = "idle"
  BY <1>1
<1>4. /\ \A l \in done \cap Literal : \A p \in Parts(l) : fact[p].complete \/ p \in done
      /\ \A t \in done : Founded(t)
  BY <1>1, <1>2 DEF Gathered, Collection
<1>5. \A t \in done : ~FailsCheck(t)
  <2> HIDE DEF FailsCheck
  <2> QED OBVIOUS
<1> HIDE DEF passed, failing, done
<1>6. DOMAIN fact' = DOMAIN fact
  BY <1>1, <1>2, MarkedFacts
<1>7. ASSUME NEW s \in DOMAIN fact
      PROVE  /\ fact'[s].kind = fact[s].kind /\ fact'[s].cmp = fact[s].cmp
             /\ fact'[s].complete <=> fact[s].complete \/ s \in done
  BY <1>1, <1>2, <1>3, MarkedFacts
<1>8. /\ \A t : Comparable(t)' = Comparable(t) /\ Founded(t)' = Founded(t)
      /\ \A m, t : Leads(m, t)' = Leads(m, t)
      /\ Sound(fact)' <=> Sound(fact')
  BY <1>1, DeclKept
<1>9. Declared' = Declared
  BY <1>1 DEF Declared
<1>10. \A t \in DOMAIN fact \cap done : fact[t].cmp # "unknown"
  BY <1>5 DEF FailsCheck
<1>11. Sound(fact')
  <2>1. DOMAIN fact \subseteq Types
    BY <1>2 DEF Sound
  <2>2. \A t \in DOMAIN fact : /\ fact[t].cmp \in {"yes", "no", "unknown"}
                               /\ fact[t].cmp = "yes" => Comparable(t)
                               /\ fact[t].cmp = "no" => Uncomparable(t)
                               /\ fact[t].complete => Founded(t) /\ fact[t].cmp # "unknown"
    BY <1>2 DEF Sound
  <2>3. \A l \in DOMAIN fact \cap Literal : /\ Parts(l) \subseteq DOMAIN fact
                                            /\ fact[l].kind = l.kind
                                            /\ fact[l].complete => \A p \in Parts(l) : fact[p].complete
                                            /\ Weakened(l) => fact[l].cmp # "unknown"
    BY <1>2 DEF Sound
  <2>4. \A t \in DOMAIN fact : /\ fact'[t].cmp \in {"yes", "no", "unknown"}
                               /\ fact'[t].cmp = "yes" => Comparable(t)
                               /\ fact'[t].cmp = "no" => Uncomparable(t)
                               /\ fact'[t].complete => Founded(t) /\ fact'[t].cmp # "unknown"
    BY <1>4, <1>7, <1>10, <2>2
  <2>5. ASSUME NEW l \in DOMAIN fact \cap Literal, fact'[l].complete, NEW p \in Parts(l)
        PROVE  fact'[p].complete
    <3>1. p \in DOMAIN fact
      BY <2>3
    <3>2. fact[p].complete \/ p \in done
      BY <1>4, <1>7, <2>3, <2>5
    <3> QED BY <1>7, <3>1, <3>2
  <2>6. \A l \in DOMAIN fact \cap Literal : /\ Parts(l) \subseteq DOMAIN fact
                                            /\ fact'[l].kind = l.kind
                                            /\ Weakened(l) => fact'[l].cmp # "unknown"
    BY <1>7, <2>3
  <2> QED BY <1>6, <2>1, <2>4, <2>5, <2>6 DEF Sound
<1>12. EmbedsKnown' /\ AllMade' /\ Leading'
  BY <1>1, <1>2, <1>6, <1>8, <1>9 DEF EmbedsKnown, AllMade, SubLiterals, Leading
<1>13. MapKeys'
  <2> SUFFICES ASSUME NEW l \in DOMAIN fact \cap Literal, l.kind = "map", fact'[l].complete
               PROVE  Comparable(Head(l.parts))
    BY <1>6, <1>8 DEF MapKeys
  <2>1. CASE fact[l].complete
    BY <1>2, <2>1 DEF MapKeys
  <2>2. CASE l \in done
    <3>1. fact[l].kind = "map" /\ l \notin Named
      BY <1>2 DEF Sound
    <3>2. fact[Head(l.parts)].cmp = "yes"
      BY <1>5, <2>2, <3>1 DEF FailsCheck, KeyOf
    <3>3. Head(l.parts) \in DOMAIN fact
      BY <1>2, LiteralParts DEF Sound
    <3> QED BY <1>2, <3>2, <3>3 DEF Sound
  <2> QED BY <1>7, <2>1, <2>2
<1> QED BY <1>3, <1>8, <1>11, <1>12, <1>13 DEF Sane

\* Every step keeps what types know of themselves true.
LEMMA NextSane == TypeGraphInv /\ Sane /\ [Next]_vars => Sane'
<1> SUFFICES ASSUME TypeGraphInv, Sane, [Next]_vars PROVE Sane'
  OBVIOUS
<1>1. ASSUME NEW n \in Named, SetUnderlying(n) PROVE Sane'
  BY <1>1, SetUnderlyingSane
<1>2. CASE CompleteTypes
  BY <1>2, CompleteTypesSane
<1>3. ASSUME NEW t \in Types, CompleteOne(t) PROVE Sane'
  BY <1>3, CompleteOneSane
<1>4. CASE InvalidRecursiveType
  BY <1>4 DEF InvalidRecursiveType, Sane
<1>5. CASE Finish
  BY <1>5, FinishSane
<1>6. CASE UNCHANGED vars
  <2>1. /\ decl' = decl /\ fact' = fact /\ under' = under /\ phase' = phase
        /\ fwd' = fwd /\ completed' = completed
    BY <1>6 DEF vars, graphs
  <2>2. /\ \A t : Comparable(t)' = Comparable(t) /\ Founded(t)' = Founded(t)
        /\ \A m, t : Leads(m, t)' = Leads(m, t)
        /\ Sound(fact)' <=> Sound(fact')
    BY <2>1, DeclKept
  <2>3. Declared' = Declared /\ Collection' = Collection
    BY <2>1 DEF Declared, Collection
  <2>4. EmbedsKnown' = EmbedsKnown /\ AllMade' = AllMade /\ Leading' = Leading
    BY <2>1, <2>2, <2>3 DEF EmbedsKnown, AllMade, SubLiterals, Leading
  <2>5. MapKeys' = MapKeys /\ Gathered' = Gathered
    BY <2>1, <2>2, <2>3 DEF MapKeys, Gathered
  <2> QED BY <2>1, <2>2, <2>4, <2>5 DEF Sane
<1> QED BY <1>1, <1>2, <1>3, <1>4, <1>5, <1>6 DEF Next

\* Declarations whose types are all complete mention complete types only.
LEMMA MentionComplete ==
  ASSUME TypeGraphInv, Sane, phase = "idle", Closed, \A n \in Declared : fact[n].complete
  PROVE  AllMentioned(Declared) \cap Literal \subseteq {l \in DOMAIN fact \cap Literal : fact[l].complete}
<1> DEFINE next == [s \in Types |-> Mentioned(s)]
           M == {l \in DOMAIN fact \cap Literal : fact[l].complete}
           C == Declared \cup Basic \cup M
<1>1. /\ decl \in [Named -> Types] /\ UndeclaredUnknown /\ CompleteUnder
      /\ Sound(fact) /\ EmbedsKnown /\ AllMade /\ Leading
      /\ Named \cap Literal = {} /\ Basic \cap (Named \cup Literal) = {}
      /\ Types = Named \cup Basic \cup Literal /\ Declared \subseteq Named
      /\ DOMAIN fact \subseteq Types
  BY LiteralAssumption DEF TypeGraphInv, Shape, Sane, Sound, Types, Declared
<1>2. MaxPath \in Nat
  BY MaxPathNat
<1>3. ASSUME NEW t \in C PROVE Mentioned(t) \subseteq C
  <2>1. CASE t \in Declared
    <3>1. Mentioned(t) = {decl[t]} /\ decl[t] \in Types
      BY <1>1, <2>1 DEF Mentioned
    <3>2. CASE decl[t] \in Named
      <4>1. decl[t] \in Declared
        BY <2>1, <3>2 DEF Closed, NamedIn
      <4> QED BY <3>1, <4>1
    <3>3. CASE decl[t] \in Literal
      <4>1. under[t] = decl[t] /\ fact[under[t]].complete
        BY <1>1, <2>1, <3>3 DEF Leading, CompleteUnder
      <4>2. decl[t] \in DOMAIN fact
        BY <1>1, <2>1, <3>3, SubLiteralsClosed DEF AllMade
      <4> QED BY <3>1, <3>3, <4>1, <4>2
    <3> QED BY <1>1, <3>1, <3>2, <3>3
  <2>2. CASE t \in Basic
    <3>1. Mentioned(t) = {}
      BY <1>1, <2>2 DEF Mentioned
    <3> QED BY <3>1
  <2>3. CASE t \in M
    <3>1. Mentioned(t) = Parts(t) \cup t.embeds
      BY <1>1, <2>3 DEF Mentioned
    <3>2. t.embeds \subseteq Declared /\ Declared \subseteq C
      BY <1>1, <2>3 DEF EmbedsKnown
    <3>3. ASSUME NEW p \in Parts(t) PROVE p \in C
      <4>1. p \in DOMAIN fact /\ fact[p].complete
        BY <1>1, <2>3 DEF Sound
      <4>2. p \in Named => p \in Declared
        BY <1>1, <4>1 DEF UndeclaredUnknown
      <4> QED BY <1>1, <4>1, <4>2
    <3> HIDE DEF C
    <3> QED BY <3>1, <3>2, <3>3
  <2> QED BY <2>1, <2>2, <2>3
<1>4. \A t \in C : next[t] \subseteq C
  <2>1. C \subseteq Types
    BY <1>1
  <2> HIDE DEF C
  <2> QED BY <1>3, <2>1
<1>5. Declared \subseteq C
  OBVIOUS
<1> HIDE DEF next, C
<1>6. Reached(Declared, next, MaxPath) \subseteq C
  BY <1>2, <1>4, <1>5, ReachedWithin
<1>7. AllMentioned(Declared) \subseteq C
  BY <1>6 DEF AllMentioned, next
<1> QED BY <1>1, <1>7 DEF C

\* The types of complete declarations are ones that Go allows.
LEMMA CompleteAreValid ==
  ASSUME TypeGraphInv, Sane, phase = "idle", Closed, \A n \in Declared : fact[n].complete
  PROVE  Valid(Declared)
<1>1. /\ decl \in [Named -> Types] /\ Named \subseteq DOMAIN fact /\ Declared \subseteq Named
      /\ Sound(fact) /\ EmbedsKnown /\ Leading /\ MapKeys
  BY DEF TypeGraphInv, Shape, Sane, Declared
<1>2. \A n \in Declared : n \notin Contained(n)
  BY <1>1 DEF Sound, Founded
<1>3. ASSUME NEW l \in AllMentioned(Declared) \cap Literal
      PROVE  /\ l.kind = "map" => Comparable(Head(l.parts))
             /\ \A n \in l.embeds : IsInterface(n)
  <2>1. l \in DOMAIN fact \cap Literal /\ fact[l].complete
    BY MentionComplete
  <2>2. l.kind = "map" => Comparable(Head(l.parts))
    BY <1>1, <2>1 DEF MapKeys
  <2>3. ASSUME NEW n \in l.embeds PROVE IsInterface(n)
    <3>1. n \in Declared /\ IsLiteral(under[n], "interface")
      BY <1>1, <2>1 DEF EmbedsKnown
    <3>2. Leads(n, under[n])
      BY <1>1, <3>1 DEF Leading
    <3> QED BY <1>1, <3>1, <3>2, LeadsAlike
  <2> QED BY <2>2, <2>3
<1> QED BY <1>2, <1>3 DEF Valid

-----------------------------------------------------------------------------
(* Panics have a reason in the declarations.                               *)

\* Go's channels are comparable, NewChan() makes them not comparable.
NoChannels == \A l \in Literal : l.kind # "chan"

\* What the declarations mention, they mention at any depth.
LEMMA MentionedAll ==
  ASSUME decl \in [Named -> Types]
  PROVE  /\ Named \subseteq AllMentioned(Named)
         /\ \A t \in AllMentioned(Named) : Mentioned(t) \subseteq AllMentioned(Named)
<1> DEFINE next == [s \in Types |-> Mentioned(s)]
<1>1. /\ Named \subseteq Types /\ Named \cap Literal = {} /\ Basic \cap (Named \cup Literal) = {}
      /\ MaxPath \in Nat
  BY LiteralAssumption, MaxPathNat DEF Types
<1>2. ASSUME NEW t \in Types
      PROVE  /\ Mentioned(t) \subseteq Types
             /\ t \in Basic => Mentioned(t) = {}
             /\ t \in Literal => \A x \in Mentioned(t) \cap Literal : x.level < t.level
  <2>1. CASE t \in Named
    BY <1>1, <2>1 DEF Mentioned
  <2>2. CASE t \in Literal
    <3>1. Mentioned(t) = Parts(t) \cup t.embeds /\ t \notin Basic
      BY <1>1, <2>2 DEF Mentioned
    <3>2. /\ Parts(t) \subseteq Types /\ t.embeds \subseteq Named
          /\ \A p \in Parts(t) \cap Literal : p.level < t.level
      BY <2>2, LiteralParts
    <3> QED BY <1>1, <3>1, <3>2
  <2>3. CASE t \notin Named /\ t \notin Literal
    BY <2>3 DEF Mentioned
  <2> QED BY <2>1, <2>2, <2>3
<1>3. \A t \in Types : next[t] = Mentioned(t)
  OBVIOUS
<1> HIDE DEF next
<1>4. Layered(next)
  BY <1>2, <1>3 DEF Layered
<1>5. AllMentioned(Named) = Reached(Named, next, MaxPath)
  BY DEF AllMentioned, next
<1>6. Named \subseteq Reached(Named, next, MaxPath)
  BY <1>1, ReachedFirst
<1>7. Reached(Named, next, MaxPath) \subseteq Types
  <2>1. \A t \in Types : next[t] \subseteq Types
    BY <1>4 DEF Layered
  <2> QED BY <1>1, <2>1, ReachedWithin
<1>8. \A t \in Reached(Named, next, MaxPath) : next[t] \subseteq Reached(Named, next, MaxPath)
  BY <1>1, <1>4, LayeredReached
<1> QED BY <1>3, <1>5, <1>6, <1>7, <1>8

\* They mention the literals they are made of.
LEMMA LiteralsMentioned ==
  ASSUME decl \in [Named -> Types], NEW n \in Named
  PROVE  SubLiterals(decl[n]) \subseteq AllMentioned(Named)
<1> DEFINE next == [s \in Types |-> Parts(s)]
           C == AllMentioned(Named) \cap Types
<1>1. /\ Depth \in Nat /\ Named \cap Literal = {} /\ n \in AllMentioned(Named)
      /\ \A t \in AllMentioned(Named) : Mentioned(t) \subseteq AllMentioned(Named)
  BY LiteralAssumption, MentionedAll
<1>2. decl[n] \in C
  BY <1>1 DEF Mentioned
<1>3. ASSUME NEW t \in C PROVE next[t] \subseteq C
  <2>1. CASE t \in Literal
    <3>1. Parts(t) \subseteq Types /\ Parts(t) \subseteq Mentioned(t)
      BY <1>1, <2>1, LiteralParts DEF Mentioned
    <3> QED BY <1>1, <3>1
  <2>2. CASE t \notin Literal
    BY <2>2 DEF Parts
  <2> QED BY <2>1, <2>2
<1>4. {decl[n]} \subseteq C
  BY <1>2
<1> HIDE DEF next
<1>5. Reached({decl[n]}, next, Depth) \subseteq C
  <2> HIDE DEF C
  <2> QED BY <1>1, <1>3, <1>4, ReachedWithin
<1> QED BY <1>5 DEF SubLiterals, next

\* Named types that lead to a type which is no interface are none.
LEMMA NoInterface ==
  ASSUME decl \in [Named -> Types], NEW m \in Named, Founded(m),
         NEW u, Leads(m, u), u \notin Named, ~IsLiteral(u, "interface")
  PROVE  ~IsInterface(m)
<1> SUFFICES ASSUME NEW s \in Contained(m), IsLiteral(s, "interface"),
                    \A r \in Contained(m) \ Contained(s) : r \in Named \cup {s}
             PROVE  FALSE
  BY DEF IsInterface
<1>1. u \in Contained(s)
  BY DEF Leads
<1>2. s \in Contained(u)
  BY LiteralAssumption DEF Leads, IsLiteral
<1>3. s \in Types /\ m \in Types
  BY ContainedAll DEF IsLiteral, Types
<1>4. s \in Contained(s)
  BY <1>1, <1>2, <1>3, ContainedParts
<1> QED BY <1>4 DEF Founded

\* From s to something that its values contain, part of it if s is a literal.
Leans(s, d) == d \in Contained(s) /\ (s \in Literal => d \in Inside(s))

\* If each type of a set leans on another, some declared type contains itself.
LEMMA LeaningCycle ==
  ASSUME decl \in [Named -> Types], NEW S \in SUBSET Types, S # {},
         \A t \in S : \E d \in S : Leans(t, d)
  PROVE  \E n \in Named : n \in Contained(n)
<1> SUFFICES ASSUME \A n \in Named : n \notin Contained(n) PROVE FALSE
  OBVIOUS
<1> DEFINE Names(t) == Named \cap Contained(t)
           Size(t) == Cardinality(Names(t))
           done == {k \in Nat : \A t \in S : k <= Size(t)}
<1>1. /\ IsFiniteSet(Named) /\ Named \subseteq Types
      /\ Depth \in Nat /\ \A l \in Literal : l.level \in 1 .. Depth
      /\ \A t \in Types : t \in Named \/ t \in Basic \/ t \in Literal
      /\ Named \cap Literal = {} /\ Basic \cap (Named \cup Literal) = {}
  BY LiteralAssumption DEF Types
<1>2. \A t \in Types : IsFiniteSet(Names(t)) /\ Size(t) \in Nat
  <2>1. \A t \in Types : IsFiniteSet(Names(t))
    BY <1>1, FS_Subset
  <2> HIDE DEF Names
  <2> QED BY <2>1, FS_CardinalityType
<1>3. ASSUME NEW t \in Types, NEW d \in Contained(t)
      PROVE  Size(d) <= Size(t) /\ (d \in Named => Size(d) < Size(t))
  <2>1. d \in Types /\ Names(d) \subseteq Names(t) /\ (d \in Named => d \in Names(t) /\ d \notin Names(d))
    BY ContainedAll, ContainedParts
  <2> HIDE DEF Names
  <2>2. /\ Size(d) <= Size(t)
        /\ Size(t) = Size(d) => Names(t) = Names(d)
    BY <1>2, <2>1, FS_Subset
  <2> HIDE DEF Size
  <2> QED BY <1>2, <2>1, <2>2
<1> HIDE DEF Names, Size
<1>4. 0 \in done
  BY <1>2
<1>5. ASSUME NEW k \in Nat, k \in done PROVE k + 1 \in done
  <2> DEFINE K == {t \in S : Size(t) = k}
             deep == {j \in Nat : \A l \in K \cap Literal : j <= l.level}
  <2>1. ASSUME NEW t \in K PROVE \E d \in K : Leans(t, d) /\ d \in Literal
    <3>1. PICK d \in S : Leans(t, d)
      OBVIOUS
    <3>2. Size(d) <= Size(t) /\ (d \in Named => Size(d) < Size(t))
      BY <1>3, <3>1 DEF Leans
    <3>3. d \in Types /\ Size(d) \in Nat /\ k <= Size(d) /\ Size(t) = k
      BY <1>2, <1>5
    <3>4. d \in K /\ d \notin Named
      BY <3>2, <3>3
    <3>5. d \notin Basic
      <4>1. ASSUME d \in Basic PROVE FALSE
        <5>1. Inside(d) = {}
          BY <1>1, <4>1 DEF Inside, IsLiteral
        <5>2. Contained(d) = {}
          BY <3>3, <5>1, ContainedAll
        <5> QED BY <5>2 DEF Leans
      <4> QED BY <4>1
    <3> QED BY <1>1, <3>1, <3>3, <3>4, <3>5
  <2>2. 0 \in deep
    BY <1>1
  <2>3. ASSUME NEW j \in Nat, j \in deep PROVE j + 1 \in deep
    <3> SUFFICES ASSUME NEW l \in K \cap Literal PROVE j + 1 <= l.level
      OBVIOUS
    <3>1. PICK d \in K : Leans(l, d) /\ d \in Literal
      BY <2>1
    <3>2. d \in Inside(l)
      BY <3>1 DEF Leans
    <3>3. d.level < l.level
      <4>1. l \in Types
        OBVIOUS
      <4> QED BY <3>1, <3>2, <4>1, InsideLayered DEF Layered
    <3>4. j <= d.level /\ d.level \in Nat /\ l.level \in Nat
      BY <1>1, <2>3, <3>1
    <3> QED BY <3>3, <3>4
  <2>4. Depth + 1 \in deep
    <3>1. Depth + 1 \in Nat
      BY <1>1
    <3> HIDE DEF deep
    <3> QED BY <2>2, <2>3, <3>1, AllNaturals
  <2>5. K = {}
    <3>1. ASSUME NEW t \in K PROVE FALSE
      <4>1. PICK d \in K : d \in Literal
        BY <2>1
      <4>2. Depth + 1 <= d.level /\ d.level \in 1 .. Depth
        BY <1>1, <2>4, <4>1
      <4> QED BY <1>1, <4>2
    <3> QED BY <3>1
  <2>6. ASSUME NEW t \in S PROVE k + 1 <= Size(t)
    <3>1. Size(t) \in Nat /\ k <= Size(t) /\ Size(t) # k
      BY <1>2, <1>5, <2>5
    <3> QED BY <3>1
  <2> QED BY <2>6
<1>6. PICK t \in S : TRUE
  OBVIOUS
<1>7. Size(t) + 1 \in done
  <2>1. Size(t) + 1 \in Nat
    BY <1>2
  <2> HIDE DEF done
  <2> QED BY <1>4, <1>5, <2>1, AllNaturals
<1> QED BY <1>2, <1>6, <1>7

\* A key that cannot be compared is a mistake of the declarations.
LEMMA BadKey ==
  ASSUME NoChannels, NEW l \in AllMentioned(Named) \cap Literal, l.kind = "map",
         Uncomparable(Head(l.parts))
  PROVE  ~Valid(Named)
<1>1. ~Comparable(Head(l.parts))
  BY DEF NoChannels, Uncomparable, Comparable
<1> QED BY <1>1 DEF Valid

\* Only literals of the declarations are made.
AllNamed == DOMAIN fact \cap Literal \subseteq AllMentioned(Named)

\* Types that believe to be maps are maps, and what is predeclared is known and is none.
MapsKnown ==
  /\ \A n \in Named : fact[n].kind = "map" => IsLiteral(under[n], "map")
  /\ \A b \in Basic : fact[b].cmp = "yes" /\ fact[b].complete /\ fact[b].kind # "map"

\* If no declaration is early, what is embedded is complete, and a type copied from a type
\* without a name knows whether it is comparable.
EmbedsComplete == \A l \in DOMAIN fact \cap Literal : \A m \in l.embeds : fact[m].complete
CopiesKnow == \A n \in Declared : under[n] \notin Named => fact[n].cmp # "unknown"

\* So do the types completed; and what is left leans on what is left, and is found from it.
PickedKnow == \A x \in DOMAIN completed : fact[completed[x]].cmp # "unknown"
Linked ==
  \A s \in DOMAIN fwd : \A d \in fwd[s].strong :
    d \in DOMAIN fwd /\ Leans(s, d) /\ d \in DOMAIN inv /\ s \in inv[d].strong

Accepting ==
  /\ phase = "panic" /\ ~early /\ NoChannels => ~Valid(Named)
  /\ phase # "panic" =>
       /\ AllNamed /\ MapsKnown
       /\ ~early => /\ EmbedsComplete /\ CopiesKnow
                    /\ phase = "completing" => PickedKnow /\ Linked

\* What the declarations mention and whether they are valid does not change.
LEMMA ValidKept ==
  ASSUME decl' = decl
  PROVE  /\ AllMentioned(Named)' = AllMentioned(Named)
         /\ Valid(Named)' <=> Valid(Named)
         /\ \A s, d : Leans(s, d)' <=> Leans(s, d)
<1>1. \A t : Inside(t)' = Inside(t) /\ Mentioned(t)' = Mentioned(t)
  BY DEF Inside, Mentioned
<1>2. \A t : Contained(t)' = Contained(t)
  BY <1>1 DEF Contained
<1>3. AllMentioned(Named)' = AllMentioned(Named)
  BY <1>1 DEF AllMentioned
<1>4. \A t : Comparable(t)' = Comparable(t) /\ IsInterface(t)' = IsInterface(t)
  BY <1>2 DEF Comparable, IsInterface
<1>5. Valid(Named)' <=> Valid(Named)
  BY <1>2, <1>3, <1>4 DEF Valid
<1>6. \A s, d : Leans(s, d)' <=> Leans(s, d)
  BY <1>1, <1>2 DEF Leans
<1> QED BY <1>3, <1>5, <1>6

\* Before anything is declared.
LEMMA InitAccepting == Init => Accepting
<1> SUFFICES ASSUME Init PROVE Accepting
  OBVIOUS
<1>1. /\ phase = "idle" /\ Declared = {}
      /\ DOMAIN fact = Named \cup Basic
      /\ \A t \in Named : fact[t].kind = "invalid"
      /\ \A t \in Basic \ Named : fact[t].kind = "basic" /\ fact[t].cmp = "yes" /\ fact[t].complete
  BY DEF Init, Declared
<1>2. Named \cap Literal = {} /\ Basic \cap (Named \cup Literal) = {}
  BY LiteralAssumption
<1> QED BY <1>1, <1>2 DEF Accepting, AllNamed, MapsKnown, EmbedsComplete, CopiesKnow

\* A declaration is refused for its own sake, if it is not early.
LEMMA RefusedForReason ==
  ASSUME TypeGraphInv, Sane, Accepting, NEW n \in Named, SetUnderlying(n), phase' = "panic",
         ~early', NoChannels
  PROVE  ~Valid(Named)
<1> DEFINE L == SubLiterals(decl[n])
           f == Made(L, fact)
<1>1. /\ phase = "idle" /\ under[n] = NoType
      /\ (\E l \in L : Refused(l, f)) \/ n \in Chain(decl[n])
      /\ \A l \in L : \A m \in l.embeds : fact[m].complete
  BY DEF SetUnderlying
<1>2. /\ decl \in [Named -> Types] /\ under \in [Named -> Types \cup {NoType}] /\ decl[n] \in Types
      /\ Sound(fact) /\ Leading /\ CompleteUnder /\ Named \subseteq DOMAIN fact
      /\ NoType \notin Types /\ Named \subseteq Types
  BY <1>1, LiteralAssumption DEF TypeGraphInv, Shape, Sane, Types
<1>3. L \subseteq Literal /\ L \subseteq AllMentioned(Named)
  BY <1>2, SubLiteralsClosed, LiteralsMentioned
<1>4. CASE n \in Chain(decl[n])
  <2>1. Leads(n, n)
    BY <1>2, <1>4, ChainLeads
  <2> QED BY <2>1 DEF Leads, Valid
<1>5. ASSUME NEW l \in L, NEW m \in l.embeds, ~IsLiteral(under[m], "interface")
      PROVE  ~Valid(Named)
  <2>1. m \in Named /\ fact[m].complete
    BY <1>1, <1>3, <1>5, LiteralParts
  <2>2. under[m] \notin Named \cup {NoType}
    BY <1>1, <2>1 DEF TypeGraphInv, CompleteUnder
  <2>3. Leads(m, under[m]) /\ Founded(m)
    BY <1>2, <2>1, <2>2 DEF Leading, Declared, Sound
  <2>4. ~IsInterface(m)
    BY <1>2, <1>5, <2>1, <2>2, <2>3, NoInterface
  <2> QED BY <1>3, <1>5, <2>4 DEF Valid
<1>6. ASSUME NEW l \in L, Refused(l, f), \A k \in L : \A m \in k.embeds : IsLiteral(under[m], "interface")
      PROVE  ~Valid(Named)
  <2>1. Sound(f) /\ L \subseteq DOMAIN f
    BY <1>1, <1>2, <1>6, MadeSound
  <2> DEFINE key == Head(l.parts)
  <2>2. l.kind = "map" /\ f[key].cmp = "no" /\ l \in Literal
    BY <1>3, <1>6 DEF Refused
  <2>3. key \in DOMAIN f
    BY <2>1, <2>2, LiteralParts DEF Sound
  <2> HIDE DEF key, f, L
  <2>4. Uncomparable(key)
    BY <2>1, <2>2, <2>3 DEF Sound
  <2>5. l \in AllMentioned(Named)
    BY <1>3
  <2> QED BY <2>2, <2>4, <2>5, BadKey DEF key
<1> HIDE DEF L, f
<1> QED BY <1>1, <1>4, <1>5, <1>6

\* A declaration that is accepted.
LEMMA SetUnderlyingAccepting ==
  ASSUME TypeGraphInv, Sane, Accepting, NEW n \in Named, SetUnderlying(n)
  PROVE  Accepting'
<1>1. decl' = decl /\ phase = "idle"
  BY DEF SetUnderlying
<1>2. AllMentioned(Named)' = AllMentioned(Named) /\ (Valid(Named)' <=> Valid(Named))
  BY <1>1, ValidKept
<1>3. CASE phase' = "panic"
  <2>1. ~early' /\ NoChannels => ~Valid(Named)
    BY <1>3, RefusedForReason
  <2>2. NoChannels' <=> NoChannels
    BY DEF NoChannels
  <2> QED BY <1>2, <1>3, <2>1, <2>2 DEF Accepting
<1>4. CASE phase' # "panic"
  <2> DEFINE L == SubLiterals(decl[n])
             f == Made(L, fact)
             u == EndOf(decl[n])
  <2>1. /\ phase' = "idle" /\ under[n] = NoType
        /\ \A l \in L : ~Refused(l, f)
        /\ DOMAIN fact \cup L \subseteq DOMAIN f
        /\ \A t \in DOMAIN fact : f[t] = fact[t]
        /\ u \in Types /\ u # NoType /\ u \in DOMAIN f /\ (u \in Named => under[u] = NoType)
        /\ under'[n] = u /\ \A m \in Named : m # n => under'[m] = under[m]
        /\ Declared' = Declared \cup {n}
        /\ DOMAIN fact' = DOMAIN f /\ n \in DOMAIN f /\ fact'[n] = f[u]
        /\ \A t \in DOMAIN f : t # n => fact'[t] = f[t]
    BY <1>4, DeclarationFacts
  <2>2. /\ decl \in [Named -> Types] /\ under \in [Named -> Types \cup {NoType}] /\ decl[n] \in Types
        /\ UndeclaredUnknown /\ Named \cup Basic \subseteq DOMAIN fact
        /\ NoType \notin Types /\ Named \cap Literal = {} /\ Basic \cap (Named \cup Literal) = {}
        /\ \A t \in Types : t \in Named \/ t \in Basic \/ t \in Literal
        /\ n \notin Declared /\ Declared \subseteq Named /\ NoType \notin Literal
        /\ AllNamed /\ MapsKnown /\ (~early => EmbedsComplete /\ CopiesKnow)
    BY <1>1, <2>1, LiteralAssumption DEF TypeGraphInv, Shape, Types, Declared, Accepting
  <2>3. /\ \A l \in L : \A m \in l.embeds : IsLiteral(under[m], "interface")
        /\ ~early' => /\ ~early /\ (u \in Literal => f[u].cmp # "unknown")
                      /\ \A l \in L : \A m \in l.embeds : fact[m].complete
    BY <2>1 DEF SetUnderlying, Refused, Known
  <2>4. Sound(f) /\ DOMAIN f = DOMAIN fact \cup L
    BY <1>1, <2>2, <2>3, MadeSound
  <2>5. L \subseteq AllMentioned(Named) /\ L \subseteq Literal
    BY <2>2, LiteralsMentioned, SubLiteralsClosed
  <2> HIDE DEF L, f, u
  <2>6. AllNamed'
    BY <1>2, <2>1, <2>2, <2>4, <2>5 DEF AllNamed
  <2>7. MapsKnown'
    <3>1. ASSUME f[u].kind = "map" PROVE IsLiteral(u, "map")
      <4>1. u \notin Named
        <5>1. ASSUME u \in Named PROVE FALSE
          <6>1. f[u] = fact[u] /\ under[u] = NoType
            BY <2>1, <2>2, <5>1
          <6> QED BY <2>2, <3>1, <5>1, <6>1 DEF MapsKnown, IsLiteral
        <5> QED BY <5>1
      <4>2. u \notin Basic
        BY <2>1, <2>2, <3>1 DEF MapsKnown
      <4>3. u \in Literal
        BY <2>1, <2>2, <4>1, <4>2
      <4>4. f[u].kind = u.kind
        BY <2>1, <2>4, <4>3 DEF Sound
      <4> QED BY <3>1, <4>3, <4>4 DEF IsLiteral
    <3>2. ASSUME NEW m \in Named, fact'[m].kind = "map" PROVE IsLiteral(under'[m], "map")
      <4>1. CASE m = n
        BY <2>1, <3>1, <3>2, <4>1
      <4>2. CASE m # n
        <5>1. fact'[m] = fact[m] /\ under'[m] = under[m]
          BY <2>1, <2>2, <4>2
        <5> QED BY <2>2, <3>2, <5>1 DEF MapsKnown
      <4> QED BY <4>1, <4>2
    <3>3. \A b \in Basic : fact'[b] = fact[b]
      BY <2>1, <2>2
    <3> QED BY <2>2, <3>2, <3>3 DEF MapsKnown, IsLiteral
  <2>8. ASSUME ~early' PROVE EmbedsComplete'
    <3> SUFFICES ASSUME NEW l \in DOMAIN f \cap Literal, NEW m \in l.embeds PROVE fact'[m].complete
      BY <2>1 DEF EmbedsComplete
    <3>1. fact[m].complete /\ m \in Named
      BY <2>2, <2>3, <2>4, <2>8, LiteralParts DEF EmbedsComplete
    <3>2. m # n
      BY <2>2, <3>1 DEF UndeclaredUnknown
    <3> QED BY <2>1, <2>2, <3>1, <3>2
  <2>9. ASSUME ~early' PROVE CopiesKnow'
    <3> SUFFICES ASSUME NEW m \in Declared \cup {n}, under'[m] \notin Named PROVE fact'[m].cmp # "unknown"
      BY <2>1 DEF CopiesKnow
    <3>1. CASE m = n
      <4>1. u \in Literal \/ u \in Basic
        BY <2>1, <2>2, <3>1
      <4>2. u \in Basic => f[u].cmp = "yes"
        BY <2>1, <2>2 DEF MapsKnown
      <4> QED BY <2>1, <2>3, <2>9, <3>1, <4>1, <4>2
    <3>2. CASE m # n
      <4>1. m \in Declared /\ fact'[m] = fact[m] /\ under'[m] = under[m]
        BY <2>1, <2>2, <3>2
      <4> QED BY <2>2, <2>3, <2>9, <4>1 DEF CopiesKnow
    <3> QED BY <3>1, <3>2
  <2> QED BY <2>1, <2>6, <2>7, <2>8, <2>9 DEF Accepting
<1> QED BY <1>3, <1>4

\* The graph begins with an edge back for each strong dependency, if no declaration is early.
LEMMA CompleteTypesAccepting ==
  ASSUME TypeGraphInv, Sane, Accepting, CompleteTypes
  PROVE  Accepting'
<1>1. /\ decl' = decl /\ fact' = fact /\ under' = under /\ completed' = << >> /\ early' = early
      /\ phase = "idle" /\ phase' = "completing" /\ Closed
      /\ fwd' = Forward(Collected(Declared)) /\ inv' = Inverted(fwd')
  BY DEF CompleteTypes
<1>2. /\ AllMentioned(Named)' = AllMentioned(Named)
      /\ \A s, d : Leans(s, d)' <=> Leans(s, d)
  BY <1>1, ValidKept
<1>3. AllNamed' /\ MapsKnown' /\ (~early' => EmbedsComplete' /\ CopiesKnow')
  <2>1. AllNamed /\ MapsKnown /\ (~early => EmbedsComplete /\ CopiesKnow)
    BY <1>1 DEF Accepting
  <2>2. Declared' = Declared
    BY <1>1 DEF Declared
  <2> QED BY <1>1, <1>2, <2>1, <2>2 DEF AllNamed, MapsKnown, EmbedsComplete, CopiesKnow, IsLiteral
<1>4. PickedKnow'
  BY <1>1 DEF PickedKnow
<1> DEFINE T == Collected(Declared)
<1>5. /\ T \subseteq DOMAIN fact /\ T \cap Named \subseteq Declared /\ T \subseteq Types
      /\ \A t \in T : Incomplete(Deps(t)) \subseteq T
  BY <1>1, CollectedClosed DEF Sane, Sound
<1>6. /\ decl \in [Named -> Types] /\ Leading /\ Named \cap Literal = {} /\ Named \subseteq Types
      /\ Literal \subseteq Types
  BY <1>1, LiteralAssumption DEF TypeGraphInv, Shape, Sane, Types
<1> DEFINE g == Forward(T)
<1>7. /\ DOMAIN g = T
      /\ \A s \in T : g[s].strong = {d \in Incomplete(StrongDeps(s)) : ~Weakened(d)}
  BY DEF Forward
<1> HIDE DEF T, g
<1>8. ASSUME ~early, NEW s \in T, NEW d \in g[s].strong
      PROVE  d \in T /\ Leans(s, d) /\ ~Weakened(s)
  <2>1. d \in Incomplete(StrongDeps(s)) /\ s \in Types /\ s \in DOMAIN fact
    BY <1>5, <1>7, <1>8
  <2>2. CASE s \in Named
    <3>1. StrongDeps(s) = {under[s]} /\ Deps(s) = {under[s]} /\ s \in Declared /\ s \notin Literal
      BY <1>5, <1>6, <1>8, <2>2 DEF StrongDeps, Deps
    <3>2. d = under[s] /\ d \in Incomplete(Deps(s))
      BY <2>1, <3>1 DEF Incomplete
    <3>3. d \in Contained(s)
      BY <1>6, <3>1, <3>2 DEF Leading, Leads
    <3> QED BY <1>5, <1>8, <3>1, <3>2, <3>3 DEF Leans, Weakened
  <2>3. CASE IsLiteral(s, "interface")
    <3>1. StrongDeps(s) = s.embeds /\ s \in Literal
      BY <1>6, <2>3 DEF StrongDeps, IsLiteral
    <3>2. fact[d].complete
      BY <1>1, <1>8, <2>1, <3>1 DEF Accepting, EmbedsComplete, Incomplete
    <3> QED BY <2>1, <3>2 DEF Incomplete
  <2>4. CASE IsLiteral(s, "array") \/ IsLiteral(s, "struct")
    <3>1. /\ s \in Literal /\ s \notin Named /\ ~Weakened(s)
          /\ StrongDeps(s) = Parts(s) /\ Inside(s) = Parts(s) /\ Parts(s) \subseteq Deps(s)
      BY <1>6, <2>4 DEF StrongDeps, Inside, Deps, IsLiteral, Weakened
    <3>2. d \in Inside(s) /\ d \in Incomplete(Deps(s))
      BY <2>1, <3>1 DEF Incomplete
    <3>3. d \in Contained(s)
      BY <1>6, <2>1, <3>2, ContainedAll
    <3> QED BY <1>5, <1>8, <3>1, <3>2, <3>3 DEF Leans
  <2>5. CASE s \notin Named /\ ~IsLiteral(s, "interface") /\ ~IsLiteral(s, "array") /\ ~IsLiteral(s, "struct")
    <3>1. StrongDeps(s) = {}
      BY <2>5 DEF StrongDeps
    <3> QED BY <2>1, <3>1 DEF Incomplete
  <2> QED BY <2>2, <2>3, <2>4, <2>5
<1>9. \A s \in T : \A d \in g[s].strong :
        ~Weakened(s) => d \in DOMAIN Inverted(g) /\ s \in Inverted(g)[d].strong
  BY <1>7 DEF Inverted
<1>10. ASSUME ~early PROVE Linked'
  <2>1. fwd' = g /\ inv' = Inverted(g)
    BY <1>1 DEF g, T
  <2>2. \A s \in T : \A d \in g[s].strong :
          d \in T /\ Leans(s, d) /\ d \in DOMAIN Inverted(g) /\ s \in Inverted(g)[d].strong
    BY <1>8, <1>9, <1>10
  <2> QED BY <1>2, <1>7, <2>1, <2>2 DEF Linked
<1> QED BY <1>1, <1>3, <1>4, <1>10 DEF Accepting

\* What a type is completed from is complete, completed before, or needs not be.
Ready(d) == fact[d].complete \/ Weakened(d) \/ d \in Basic \/ \E x \in DOMAIN completed : completed[x] = d

\* A named type keeps what it copied from a type without a name, or copies it now; arrays
\* and structs are computed from their parts; and all of these are ready.
LEMMA CompleteFrom ==
  ASSUME TypeGraphInv, Sane, NEW t \in Types, CompleteOne(t)
  PROVE  LET e == under'[t]
         IN  /\ t \in DOMAIN fact /\ (t \in Named => t \in Declared)
             /\ t \in Named => /\ e \in Types \ Named /\ e \in DOMAIN fact /\ Ready(e)
                               /\ under[t] \in Named => fact'[t] = fact[e]
                               /\ under[t] \notin Named => e = under[t] /\ fact'[t] = fact[t]
             /\ IsLiteral(t, "array") \/ IsLiteral(t, "struct") =>
                  Parts(t) \subseteq DOMAIN fact /\ \A d \in Parts(t) : Ready(d)
             /\ t \notin Named /\ ~IsLiteral(t, "array") /\ ~IsLiteral(t, "struct") => fact'[t] = fact[t]
<1> DEFINE e == under'[t]
<1>1. /\ phase = "completing" /\ t \in DOMAIN fwd /\ fwd[t].strong = {}
      /\ under' = IF t \in Named THEN [under EXCEPT ![t] = EndOf(under[t])] ELSE under
  BY DEF CompleteOne
<1>2. /\ under \in [Named -> Types \cup {NoType}] /\ NoCycles
      /\ Sound(fact) /\ Gathered /\ StrongListed /\ Accounted
      /\ Named \cap Literal = {} /\ Basic \cap (Named \cup Literal) = {}
  BY <1>1, LiteralAssumption DEF Sane, TypeGraphInv, Working, Shape
<1>3. t \in DOMAIN fact /\ (t \in Named => t \in Declared)
  BY <1>1, <1>2 DEF Gathered, Collection
<1>4. fact'[t] = CompleteFact(t)
  BY <1>3, CompleteFacts DEF CompleteOne
<1>5. CASE t \in Named
  <2>1. t \in Declared /\ ~IsLiteral(t, "array") /\ ~IsLiteral(t, "struct")
    BY <1>2, <1>3, <1>5 DEF IsLiteral
  <2>2. /\ e \in Types \ Named /\ e # NoType /\ e \in DOMAIN fact
        /\ e \in DOMAIN fwd => Weakened(e)
        /\ \E n \in Declared : under[n] = e
    BY <2>1, CompleteFacts
  <2>3. e = EndOf(under[t])
    BY <1>1, <1>2, <1>5
  <2>4. fact'[t] = CompleteNamed(t)
    BY <1>4, <1>5, <2>1 DEF CompleteFact
  <2>5. under[t] \notin Named => e = under[t]
    BY <1>2, <1>5, <2>3, ShortChains
  <2> HIDE DEF e
  <2>6. Ready(e)
    BY <1>2, <2>2 DEF Ready, Accounted
  <2>7. IF e # under[t] THEN fact'[t] = fact[e] ELSE fact'[t] = fact[t]
    BY <2>3, <2>4 DEF CompleteNamed
  <2> QED BY <1>3, <1>5, <2>1, <2>2, <2>5, <2>6, <2>7 DEF e
<1>6. CASE IsLiteral(t, "array") \/ IsLiteral(t, "struct")
  <2>1. t \in Literal /\ t \notin Named /\ Parts(t) \subseteq DOMAIN fact /\ StrongDeps(t) = Parts(t)
    BY <1>2, <1>3, <1>6 DEF Sound, IsLiteral, StrongDeps
  <2>2. ASSUME NEW d \in Parts(t) PROVE Ready(d)
    <3>1. fact[d].complete \/ d \in Collection
      BY <1>1, <1>2, <2>1 DEF Gathered, Collection
    <3>2. d \in DOMAIN fwd => Weakened(d)
      BY <1>1, <1>2, <2>1 DEF StrongListed
    <3> QED BY <3>1, <3>2 DEF Collection, Ready
  <2> QED BY <1>3, <1>6, <2>1, <2>2
<1>7. CASE t \notin Named /\ ~IsLiteral(t, "array") /\ ~IsLiteral(t, "struct")
  BY <1>3, <1>4, <1>7 DEF CompleteFact
<1> QED BY <1>5, <1>6, <1>7

\* A type that is completed knows whether it is comparable, and no edge to it is left.
LEMMA CompleteOneAccepting ==
  ASSUME TypeGraphInv, Sane, Accepting, NEW t \in Types, CompleteOne(t)
  PROVE  Accepting'
<1> DEFINE e == under'[t]
<1>1. /\ phase = "completing" /\ phase' = phase /\ decl' = decl /\ early' = early
      /\ t \in DOMAIN fwd /\ fwd[t].strong = {}
      /\ completed' = Append(completed, t)
      /\ fact' = [fact EXCEPT ![t] = CompleteFact(t)]
      /\ fwd' = Without(fwd, t, Strong(inv, t), Weak(inv, t))
      /\ inv' = Without(inv, t, Strong(fwd, t), Weak(fwd, t))
  BY DEF CompleteOne
<1>2. /\ decl \in [Named -> Types] /\ under \in [Named -> Types \cup {NoType}]
      /\ Named \cup Basic \subseteq DOMAIN fact /\ completed \in Seq(Types)
      /\ NoType \notin Types /\ Named \cap Literal = {} /\ Basic \cap (Named \cup Literal) = {}
      /\ Named \subseteq Types /\ Declared \subseteq Named
      /\ \A s \in Types : s \in Named \/ s \in Basic \/ s \in Literal
  BY LiteralAssumption DEF TypeGraphInv, Shape, Types, Declared
<1>3. /\ Sound(fact) /\ Gathered
      /\ AllNamed /\ MapsKnown
      /\ ~early => EmbedsComplete /\ CopiesKnow /\ PickedKnow /\ Linked
  BY <1>1 DEF Sane, TypeGraphInv, Working, Accepting
<1>4. /\ t \in DOMAIN fact /\ (t \in Named => t \in Declared)
      /\ t \in Named => /\ e \in Types \ Named /\ e \in DOMAIN fact /\ Ready(e)
                        /\ under[t] \in Named => fact'[t] = fact[e]
                        /\ under[t] \notin Named => e = under[t] /\ fact'[t] = fact[t]
      /\ IsLiteral(t, "array") \/ IsLiteral(t, "struct") =>
           Parts(t) \subseteq DOMAIN fact /\ \A d \in Parts(t) : Ready(d)
      /\ t \notin Named /\ ~IsLiteral(t, "array") /\ ~IsLiteral(t, "struct") => fact'[t] = fact[t]
  BY CompleteFrom
<1>5. /\ ~fact[t].complete
      /\ DOMAIN fact' = DOMAIN fact
      /\ \A s \in DOMAIN fact : s # t => fact'[s] = fact[s]
      /\ \A n \in Named : n # t => under'[n] = under[n]
      /\ fact'[t] = CompleteFact(t)
  BY <1>1, <1>4, CompleteFacts
<1>8. /\ AllMentioned(Named)' = AllMentioned(Named)
      /\ \A s, d : Leans(s, d)' <=> Leans(s, d)
  BY <1>1, ValidKept
<1> HIDE DEF e
<1>9. Declared' = Declared
  <2>1. \A n \in Named : under'[n] # NoType <=> under[n] # NoType
    BY <1>2, <1>4, <1>5 DEF Declared, e
  <2> QED BY <2>1 DEF Declared
<1>10. t \notin Basic
  BY <1>3, <1>5 DEF MapsKnown
<1>11. AllNamed'
  BY <1>3, <1>5, <1>8 DEF AllNamed
<1>12. MapsKnown'
  <2>1. ASSUME NEW n \in Named, fact'[n].kind = "map" PROVE IsLiteral(under'[n], "map")
    <3>1. CASE n # t
      BY <1>2, <1>3, <1>5, <2>1, <3>1 DEF MapsKnown
    <3>2. CASE n = t /\ under[t] \in Named
      <4>1. e \in DOMAIN fact /\ e \in Types \ Named /\ fact[e].kind = "map"
        BY <1>4, <2>1, <3>2
      <4>2. e \in Literal /\ fact[e].kind = e.kind
        BY <1>2, <1>3, <4>1 DEF MapsKnown, Sound
      <4> QED BY <3>2, <4>1, <4>2 DEF IsLiteral, e
    <3>3. CASE n = t /\ under[t] \notin Named
      BY <1>3, <1>4, <2>1, <3>3 DEF MapsKnown, e
    <3> QED BY <3>1, <3>2, <3>3
  <2>2. \A b \in Basic : fact'[b] = fact[b]
    BY <1>2, <1>5, <1>10
  <2> QED BY <1>3, <2>1, <2>2 DEF MapsKnown, IsLiteral
<1>13. ASSUME ~early PROVE EmbedsComplete'
  <2> SUFFICES ASSUME NEW l \in DOMAIN fact \cap Literal, NEW m \in l.embeds PROVE fact'[m].complete
    BY <1>5 DEF EmbedsComplete
  <2>1. fact[m].complete /\ m \in Named
    BY <1>3, <1>13, LiteralParts DEF EmbedsComplete
  <2> QED BY <1>2, <1>5, <2>1
<1>14. ASSUME ~early, NEW d \in DOMAIN fact, Ready(d) PROVE fact[d].cmp # "unknown"
  BY <1>3, <1>14 DEF Ready, Sound, MapsKnown, PickedKnow, Weakened
<1>15. ASSUME ~early PROVE fact'[t].cmp # "unknown"
  <2>1. CASE t \in Named /\ under[t] \in Named
    BY <1>4, <1>14, <1>15, <2>1
  <2>2. CASE t \in Named /\ under[t] \notin Named
    BY <1>3, <1>4, <1>15, <2>2 DEF CopiesKnow
  <2>3. CASE IsLiteral(t, "array") \/ IsLiteral(t, "struct")
    <3>1. t \in Literal /\ t \notin Named
      BY <1>2, <2>3 DEF IsLiteral
    <3>2. \A d \in Parts(t) : fact[d].cmp \in {"yes", "no"}
      BY <1>3, <1>4, <1>14, <1>15, <2>3 DEF Sound
    <3>3. PICK size, cmp : CompleteFact(t) = Fact(t, size, cmp, fact) /\ CmpOf(t, cmp, fact)
      BY <2>3, <3>1 DEF CompleteFact, CompleteArray, CompleteStruct, CmpOf, IsLiteral
    <3>4. fact'[t].cmp = cmp
      BY <1>5, <3>3 DEF Fact
    <3>5. CASE t.kind = "array"
      BY <3>1, <3>2, <3>3, <3>4, <3>5, LiteralParts DEF CmpOf
    <3>6. CASE t.kind = "struct"
      BY <3>2, <3>3, <3>4, <3>6 DEF CmpOf, StructCmp
    <3> QED BY <2>3, <3>5, <3>6 DEF IsLiteral
  <2>4. CASE t \notin Named /\ ~IsLiteral(t, "array") /\ ~IsLiteral(t, "struct")
    <3>1. t \in Literal /\ t.kind \in Kinds
      BY <1>2, <1>10, <2>4, LiteralAssumption
    <3>2. Weakened(t)
      BY <2>4, <3>1 DEF Kinds, IsLiteral, Weakened
    <3> QED BY <1>4, <1>14, <1>15, <2>4, <3>2 DEF Ready
  <2> QED BY <2>1, <2>2, <2>3, <2>4
<1>16. ASSUME ~early PROVE CopiesKnow'
  <2> SUFFICES ASSUME NEW n \in Declared, under'[n] \notin Named PROVE fact'[n].cmp # "unknown"
    BY <1>9 DEF CopiesKnow
  <2>1. CASE n = t
    BY <1>15, <1>16, <2>1
  <2>2. CASE n # t
    <3>1. fact'[n] = fact[n] /\ under'[n] = under[n]
      BY <1>2, <1>5, <2>2
    <3> QED BY <1>3, <1>16, <3>1 DEF CopiesKnow
  <2> QED BY <2>1, <2>2
<1>17. ASSUME ~early PROVE PickedKnow'
  <2> SUFFICES ASSUME NEW x \in DOMAIN completed' PROVE fact'[completed'[x]].cmp # "unknown"
    BY DEF PickedKnow
  <2>1. completed'[x] = t \/ (x \in DOMAIN completed /\ completed'[x] = completed[x])
    BY <1>1, <1>2
  <2>2. CASE completed'[x] = t
    BY <1>15, <1>17, <2>2
  <2>3. CASE completed'[x] # t
    <3>1. x \in DOMAIN completed /\ completed'[x] = completed[x] /\ completed[x] \in DOMAIN fact
      BY <1>3, <2>1, <2>3 DEF Gathered, Collection
    <3> QED BY <1>3, <1>5, <1>17, <2>3, <3>1 DEF PickedKnow
  <2> QED BY <2>2, <2>3
<1>18. ASSUME ~early PROVE Linked'
  <2> SUFFICES ASSUME NEW s \in DOMAIN fwd', NEW d \in fwd'[s].strong
               PROVE  d \in DOMAIN fwd' /\ Leans(s, d) /\ d \in DOMAIN inv' /\ s \in inv'[d].strong
    BY <1>8 DEF Linked
  <2> DEFINE in == Strong(inv, t)
             out == Strong(fwd, t)
  <2>0. /\ DOMAIN fwd' = DOMAIN fwd \ {t}
        /\ \A r \in DOMAIN fwd \ {t} : fwd'[r].strong = IF r \in in THEN fwd[r].strong \ {t} ELSE fwd[r].strong
        /\ DOMAIN inv' = DOMAIN inv \ {t}
        /\ \A r \in DOMAIN inv \ {t} : inv'[r].strong = IF r \in out THEN inv[r].strong \ {t} ELSE inv[r].strong
    BY <1>1 DEF Without
  <2>1. /\ s \in DOMAIN fwd /\ s # t
        /\ d \in fwd[s].strong /\ (s \in Strong(inv, t) => d # t)
    BY <2>0
  <2> HIDE DEF in, out
  <2>2. d \in DOMAIN fwd /\ Leans(s, d) /\ d \in DOMAIN inv /\ s \in inv[d].strong
    BY <1>3, <1>18, <2>1 DEF Linked
  <2>3. d # t
    BY <2>1, <2>2 DEF Strong
  <2>4. s \in inv'[d].strong
    BY <2>0, <2>1, <2>2, <2>3
  <2> QED BY <2>0, <2>1, <2>2, <2>3, <2>4
<1> QED BY <1>1, <1>11, <1>12, <1>13, <1>16, <1>17, <1>18 DEF Accepting

\* CompleteTypes() stops at a type only if it is a map with a key that cannot be compared,
\* unless a declaration was early.
LEMMA FailsForReason ==
  ASSUME TypeGraphInv, Sane, Accepting, Finish, ~early, NoChannels,
         NEW x \in DOMAIN completed, FailsCheck(completed[x])
  PROVE  ~Valid(Named)
<1> DEFINE t == completed[x]
           l == IF t \in Named THEN under[t] ELSE t
           key == Head(l.parts)
<1>1. /\ phase = "completing" /\ DOMAIN fwd = {}
      /\ Sound(fact) /\ Gathered /\ Accounted /\ Grounded
      /\ AllNamed /\ MapsKnown /\ PickedKnow
      /\ completed \in Seq(Types) /\ Named \cup Basic \subseteq DOMAIN fact
      /\ Named \cap Literal = {} /\ Types = Named \cup Basic \cup Literal
  BY LiteralAssumption DEF Finish, Sane, TypeGraphInv, Working, Shape, Accepting, Types
<1>2. t \in DOMAIN fact /\ t \in Types /\ (t \in Named => t \in Declared)
  BY <1>1 DEF Gathered, Collection
<1>3. fact[t].cmp # "unknown" /\ FailsCheck(t)
  BY <1>1 DEF PickedKnow
<1>4. \/ fact[l].complete
      \/ \E y \in DOMAIN completed : completed[y] = l
  <2>1. CASE t \in Named
    <3>1. t \in Declared /\ l = under[t] /\ IsLiteral(under[t], "map")
      <4>1. fact[t].kind = "map"
        BY <1>3 DEF FailsCheck
      <4> QED BY <1>1, <1>2, <2>1, <4>1 DEF MapsKnown
    <3> QED BY <1>1, <3>1 DEF Accounted, IsLiteral
  <2>2. CASE t \notin Named
    BY <2>2
  <2> QED BY <2>1, <2>2
<1> HIDE DEF t
<1>5. fact[t].kind = "map" /\ fact[key].cmp # "yes"
  BY <1>3 DEF FailsCheck, KeyOf
<1>6. l \in DOMAIN fact \cap Literal /\ l.kind = "map"
  <2>1. CASE t \in Named
    <3>1. IsLiteral(under[t], "map")
      BY <1>1, <1>5, <2>1 DEF MapsKnown
    <3>2. under[t] \in DOMAIN fact
      BY <1>1, <1>2, <2>1 DEF Grounded
    <3> QED BY <2>1, <3>1, <3>2 DEF IsLiteral
  <2>2. CASE t \notin Named
    <3>1. t \in Literal
      BY <1>1, <1>2, <1>5, <2>2 DEF MapsKnown
    <3>2. t.kind = "map"
      BY <1>1, <1>2, <1>5, <3>1 DEF Sound
    <3> QED BY <1>2, <2>2, <3>1, <3>2
  <2> QED BY <2>1, <2>2
<1> HIDE DEF l
<1>7. key \in Parts(l) /\ key \in DOMAIN fact
  BY <1>1, <1>6, LiteralParts DEF Sound
<1> HIDE DEF key
<1>8. fact[key].complete \/ \E y \in DOMAIN completed : completed[y] = key
  <2>1. CASE fact[l].complete
    BY <1>1, <1>6, <1>7, <2>1 DEF Sound
  <2>2. CASE \E y \in DOMAIN completed : completed[y] = l
    <3>1. l \in Collection
      BY <2>2 DEF Collection
    <3>2. fact[key].complete \/ key \in Collection
      BY <1>1, <1>6, <1>7, <3>1 DEF Gathered
    <3> QED BY <1>1, <3>2 DEF Collection
  <2> QED BY <1>4, <2>1, <2>2
<1>9. fact[key].cmp # "unknown"
  BY <1>1, <1>7, <1>8 DEF Sound, PickedKnow
<1>10. Uncomparable(key)
  BY <1>1, <1>5, <1>7, <1>9 DEF Sound
<1>11. l \in AllMentioned(Named)
  BY <1>1, <1>6 DEF AllNamed
<1> QED BY <1>6, <1>10, <1>11, BadKey DEF key

\* What CompleteTypes() did, it did for a reason.
LEMMA FinishAccepting ==
  ASSUME TypeGraphInv, Sane, Accepting, Finish
  PROVE  Accepting'
<1> DEFINE failing == {x \in DOMAIN completed : FailsCheck(completed[x])}
           before == {y \in DOMAIN completed : \A z \in failing : y < z}
           passed == {completed[x] : x \in before}
<1>1. /\ phase = "completing" /\ decl' = decl /\ under' = under /\ early' = early
      /\ phase' = IF failing = {} THEN "idle" ELSE "panic"
      /\ fact' = [t \in DOMAIN fact |-> IF t \in passed THEN [fact[t] EXCEPT !.complete = TRUE] ELSE fact[t]]
  BY DEF Finish
<1>2. AllMentioned(Named)' = AllMentioned(Named) /\ (Valid(Named)' <=> Valid(Named))
  BY <1>1, ValidKept
<1>3. /\ DOMAIN fact' = DOMAIN fact
      /\ \A s \in DOMAIN fact : /\ fact'[s].kind = fact[s].kind /\ fact'[s].cmp = fact[s].cmp
                                /\ fact[s].complete => fact'[s].complete
  <2> HIDE DEF passed
  <2> QED BY <1>1, MarkedFacts DEF TypeGraphInv, Shape
<1>4. /\ AllNamed /\ MapsKnown /\ (~early => EmbedsComplete /\ CopiesKnow)
      /\ Named \cup Basic \subseteq DOMAIN fact
  BY <1>1 DEF Accepting, TypeGraphInv, Shape
<1>5. Declared' = Declared /\ Declared \subseteq Named
  BY <1>1 DEF Declared
<1>6. AllNamed'
  BY <1>2, <1>3, <1>4 DEF AllNamed
<1>7. MapsKnown'
  BY <1>1, <1>3, <1>4 DEF MapsKnown, IsLiteral
<1>8. ~early => EmbedsComplete'
  <2>1. \A l \in Literal : l.embeds \subseteq Named
    BY LiteralParts
  <2> QED BY <1>3, <1>4, <2>1 DEF EmbedsComplete
<1>9. ~early => CopiesKnow'
  BY <1>1, <1>3, <1>4, <1>5 DEF CopiesKnow
<1>10. failing # {} /\ ~early /\ NoChannels => ~Valid(Named)
  <2> HIDE DEF FailsCheck
  <2> QED BY FailsForReason
<1>11. NoChannels' <=> NoChannels
  BY DEF NoChannels
<1> HIDE DEF failing
<1> QED BY <1>1, <1>2, <1>6, <1>7, <1>8, <1>9, <1>10, <1>11 DEF Accepting

\* A cycle of strong dependencies is one of the declarations.
LEMMA InvalidAccepting ==
  ASSUME TypeGraphInv, Sane, Accepting, InvalidRecursiveType
  PROVE  Accepting'
<1>1. /\ phase = "completing" /\ phase' = "panic" /\ decl' = decl /\ early' = early
      /\ DOMAIN fwd # {} /\ \A t \in DOMAIN fwd : fwd[t].strong # {}
  BY DEF InvalidRecursiveType
<1>2. Valid(Named)' <=> Valid(Named)
  BY <1>1, ValidKept
<1>3. ASSUME ~early PROVE ~Valid(Named)
  <2> DEFINE S == DOMAIN fwd
  <2>1. /\ decl \in [Named -> Types] /\ S \in SUBSET Types
        /\ \A t \in S : \A d \in fwd[t].strong : d \in S /\ Leans(t, d)
    BY <1>1, <1>3 DEF TypeGraphInv, Shape, Sane, Sound, Gathered, Collection, Accepting, Linked
  <2>2. \A t \in S : \E d \in S : Leans(t, d)
    BY <1>1, <2>1
  <2>3. S # {}
    BY <1>1
  <2> HIDE DEF S
  <2>4. \E n \in Named : n \in Contained(n)
    BY <2>1, <2>2, <2>3, LeaningCycle
  <2> QED BY <2>4 DEF Valid
<1> QED BY <1>1, <1>2, <1>3 DEF Accepting

\* Every step that panics has a reason.
LEMMA NextAccepting == TypeGraphInv /\ Sane /\ Accepting /\ [Next]_vars => Accepting'
<1> SUFFICES ASSUME TypeGraphInv, Sane, Accepting, [Next]_vars PROVE Accepting'
  OBVIOUS
<1>1. ASSUME NEW n \in Named, SetUnderlying(n) PROVE Accepting'
  BY <1>1, SetUnderlyingAccepting
<1>2. CASE CompleteTypes
  BY <1>2, CompleteTypesAccepting
<1>3. ASSUME NEW t \in Types, CompleteOne(t) PROVE Accepting'
  BY <1>3, CompleteOneAccepting
<1>4. CASE InvalidRecursiveType
  BY <1>4, InvalidAccepting
<1>5. CASE Finish
  BY <1>5, FinishAccepting
<1>6. CASE UNCHANGED vars
  <2>1. /\ decl' = decl /\ fact' = fact /\ under' = under /\ phase' = phase /\ early' = early
        /\ fwd' = fwd /\ inv' = inv /\ completed' = completed
    BY <1>6 DEF vars, graphs
  <2>2. /\ AllMentioned(Named)' = AllMentioned(Named)
        /\ Valid(Named)' <=> Valid(Named)
        /\ \A s, d : Leans(s, d)' <=> Leans(s, d)
    BY <2>1, ValidKept
  <2>3. /\ AllNamed' = AllNamed /\ MapsKnown' = MapsKnown /\ EmbedsComplete' = EmbedsComplete
        /\ CopiesKnow' = CopiesKnow /\ PickedKnow' = PickedKnow
    BY <2>1, <2>2 DEF AllNamed, MapsKnown, EmbedsComplete, CopiesKnow, PickedKnow, Declared, IsLiteral
  <2>4. Linked' <=> Linked
    BY <2>1, <2>2 DEF Linked
  <2>5. NoChannels' <=> NoChannels
    BY DEF NoChannels
  <2> QED BY <2>1, <2>2, <2>3, <2>4, <2>5 DEF Accepting
<1> QED BY <1>1, <1>2, <1>3, <1>4, <1>5, <1>6 DEF Next

-----------------------------------------------------------------------------
(* Sizes.                                                                  *)

\* The recursive function of Total exists, and what it adds up are naturals.
LEMMA TotalNat ==
  ASSUME NEW s \in Seq(Nat)
  PROVE  Total(s) \in Nat
<1> DEFINE N == Len(s)
           Step(f, n) == [i \in 0 .. n |-> IF i = 0 THEN 0 ELSE f[i - 1] + s[i]]
           done == {n \in Nat : n <= N => \E f : f = Step(f, n) /\ \A i \in 0 .. n : f[i] \in Nat}
<1>1. N \in Nat /\ \A i \in 1 .. N : s[i] \in Nat
  OBVIOUS
<1> HIDE DEF N
<1>2. 0 \in done
  <2> DEFINE f == [i \in 0 .. 0 |-> 0]
  <2>1. f = Step(f, 0) /\ \A i \in 0 .. 0 : f[i] \in Nat
    OBVIOUS
  <2> QED BY <2>1
<1>3. ASSUME NEW n \in Nat, n \in done PROVE n + 1 \in done
  <2> SUFFICES ASSUME n + 1 <= N
               PROVE  \E f : f = Step(f, n + 1) /\ \A i \in 0 .. (n + 1) : f[i] \in Nat
    OBVIOUS
  <2>1. PICK f : f = Step(f, n) /\ \A i \in 0 .. n : f[i] \in Nat
    BY <1>1, <1>3
  <2> DEFINE g == Step(f, n + 1)
  <2>2. \A i \in 0 .. n : f[i] = IF i = 0 THEN 0 ELSE f[i - 1] + s[i]
    <3> DEFINE k == Step(f, n)
    <3>1. \A i \in 0 .. n : k[i] = IF i = 0 THEN 0 ELSE f[i - 1] + s[i]
      OBVIOUS
    <3>2. f = k
      BY <2>1
    <3> HIDE DEF k
    <3> QED BY <3>1, <3>2
  <2>3. \A i \in 0 .. (n + 1) : g[i] = IF i = 0 THEN 0 ELSE f[i - 1] + s[i]
    OBVIOUS
  <2>4. g = [i \in 0 .. (n + 1) |-> g[i]]
    OBVIOUS
  <2> HIDE DEF g
  <2>5. \A i \in 0 .. n : g[i] = f[i]
    BY <2>2, <2>3
  <2>6. ASSUME NEW i \in 0 .. (n + 1)
        PROVE  g[i] = (IF i = 0 THEN 0 ELSE g[i - 1] + s[i]) /\ g[i] \in Nat
    <3>1. CASE i = 0
      BY <2>3, <3>1
    <3>2. CASE i # 0
      <4>1. i - 1 \in 0 .. n /\ i \in 1 .. N
        BY <1>1, <3>2
      <4>2. g[i] = f[i - 1] + s[i] /\ g[i - 1] = f[i - 1]
        BY <2>3, <2>5, <3>2, <4>1
      <4>3. f[i - 1] \in Nat /\ s[i] \in Nat
        BY <1>1, <2>1, <4>1
      <4> HIDE DEF g
      <4> QED BY <3>2, <4>2, <4>3
    <3> QED BY <3>1, <3>2
  <2>7. g = Step(g, n + 1)
    BY <2>4, <2>6
  <2> QED BY <2>6, <2>7
<1>4. N \in done
  <2> HIDE DEF done
  <2> QED BY <1>1, <1>2, <1>3, AllNaturals
<1>5. \A f, g : f = Step(f, N) /\ g = Step(g, N) /\ (\A i \in 0 .. N : f[i] \in Nat) => g[N] \in Nat
  <2> SUFFICES ASSUME NEW f, NEW g, f = Step(f, N), g = Step(g, N), \A i \in 0 .. N : f[i] \in Nat
               PROVE  g[N] \in Nat
    OBVIOUS
  <2> DEFINE same == {n \in Nat : n <= N => g[n] = f[n]}
  <2>1. \A i \in 0 .. N : f[i] = IF i = 0 THEN 0 ELSE f[i - 1] + s[i]
    <3> DEFINE k == Step(f, N)
    <3>1. \A i \in 0 .. N : k[i] = IF i = 0 THEN 0 ELSE f[i - 1] + s[i]
      OBVIOUS
    <3>2. f = k
      OBVIOUS
    <3> HIDE DEF k
    <3> QED BY <3>1, <3>2
  <2>2. \A i \in 0 .. N : g[i] = IF i = 0 THEN 0 ELSE g[i - 1] + s[i]
    <3> DEFINE k == Step(g, N)
    <3>1. \A i \in 0 .. N : k[i] = IF i = 0 THEN 0 ELSE g[i - 1] + s[i]
      OBVIOUS
    <3>2. g = k
      OBVIOUS
    <3> HIDE DEF k
    <3> QED BY <3>1, <3>2
  <2>3. 0 \in same
    BY <1>1, <2>1, <2>2
  <2>4. ASSUME NEW i \in Nat, i \in same PROVE i + 1 \in same
    <3> SUFFICES ASSUME i + 1 <= N PROVE g[i + 1] = f[i + 1]
      OBVIOUS
    <3>1. i + 1 \in 0 .. N /\ i + 1 # 0 /\ (i + 1) - 1 = i /\ i <= N
      BY <1>1
    <3>2. g[i] = f[i]
      BY <2>4, <3>1
    <3>3. g[i + 1] = g[i] + s[i + 1] /\ f[i + 1] = f[i] + s[i + 1]
      BY <2>1, <2>2, <3>1
    <3> QED BY <3>2, <3>3
  <2>5. N \in same
    <3> HIDE DEF same
    <3> QED BY <1>1, <2>3, <2>4, AllNaturals
  <2>6. g[N] = f[N] /\ N \in 0 .. N
    BY <1>1, <2>5
  <2> QED BY <2>6
<1> DEFINE upTo == CHOOSE f : f = Step(f, N)
<1>6. PICK f : f = Step(f, N) /\ \A i \in 0 .. N : f[i] \in Nat
  BY <1>1, <1>4
<1>7. upTo = Step(upTo, N)
  BY <1>6
<1>8. Total(s) = upTo[N]
  BY DEF Total, N
<1> HIDE DEF upTo, Step
<1>9. upTo[N] \in Nat
  BY <1>5, <1>6, <1>7
<1> QED BY <1>8, <1>9

\* A size that is computed from parts is a natural if those of the parts are known, and
\* what is made without looking at its parts knows its size.
LEMMA SizeFacts ==
  ASSUME NEW l \in Literal, NEW f, \A p \in Parts(l) : f[p].size \in Nat \cup {Unknown}
  PROVE  LET known == \A p \in Parts(l) : f[p].size # Unknown
         IN  /\ StructSize(l, f) \in Nat \cup {Unknown} /\ (known => StructSize(l, f) # Unknown)
             /\ l.kind = "array" => \A k \in Nat :
                  LET s == ArraySize(Head(l.parts), k, f)
                  IN  s \in Nat \cup {Unknown} /\ (known => s # Unknown)
             /\ New(l, f).size \in Nat \cup {Unknown} /\ (known => New(l, f).size # Unknown)
             /\ Weakened(l) => New(l, f).size # Unknown
<1> DEFINE known == \A p \in Parts(l) : f[p].size # Unknown
           sizes == [i \in DOMAIN l.parts |-> f[l.parts[i]].size]
<1>0. /\ Unknown \notin Nat /\ l.kind \in Kinds /\ ArrayLen \in Nat
      /\ l.parts \in Seq(Types) /\ Parts(l) = {l.parts[i] : i \in DOMAIN l.parts}
  BY LiteralAssumption DEF Unknown, Parts, Range
<1>1. StructSize(l, f) \in Nat \cup {Unknown} /\ (known => StructSize(l, f) # Unknown)
  <2>1. CASE ~known
    BY <2>1 DEF StructSize
  <2>2. CASE known
    <3>1. \A i \in DOMAIN l.parts : sizes[i] \in Nat
      BY <1>0, <2>2
    <3>2. DOMAIN l.parts = 1 .. Len(l.parts) /\ Len(l.parts) \in Nat
      BY <1>0
    <3>3. sizes \in Seq(Nat)
      <4>1. sizes \in [1 .. Len(l.parts) -> Nat]
        BY <3>1, <3>2
      <4> HIDE DEF sizes
      <4>2. [1 .. Len(l.parts) -> Nat] \subseteq Seq(Nat)
        BY <3>2
      <4> QED BY <4>1, <4>2
    <3> HIDE DEF sizes
    <3>4. Total(sizes) \in Nat
      BY <3>3, TotalNat
    <3>5. StructSize(l, f) = Total(sizes)
      BY <2>2 DEF StructSize, sizes
    <3> QED BY <1>0, <3>4, <3>5
  <2> QED BY <2>1, <2>2
<1>2. ASSUME l.kind = "array", NEW k \in Nat
      PROVE  LET s == ArraySize(Head(l.parts), k, f)
             IN  s \in Nat \cup {Unknown} /\ (known => s # Unknown)
  <2> DEFINE size == f[Head(l.parts)].size
  <2>1. Head(l.parts) \in Parts(l)
    BY <1>2, LiteralParts
  <2>2. size \in Nat \cup {Unknown} /\ (known => size # Unknown)
    BY <2>1
  <2>3. ArraySize(Head(l.parts), k, f) = IF size = Unknown THEN Unknown ELSE k * size
    BY DEF ArraySize
  <2> HIDE DEF size, known
  <2>4. size \in Nat => k * size \in Nat
    OBVIOUS
  <2> QED BY <1>0, <2>2, <2>3, <2>4
<1>3. /\ l.kind = "struct" => New(l, f).size = StructSize(l, f)
      /\ l.kind = "array" => New(l, f).size = ArraySize(Head(l.parts), ArrayLen, f)
      /\ l.kind \in {"ptr", "slice", "chan", "map", "func", "interface"} => New(l, f).size \in {1, 2, 3}
  BY DEF New, NewPointer, NewSlice, NewChan, NewMap, NewFunc, NewArray, NewStruct, NewInterface, Fact
<1>4. Weakened(l) => l.kind \in {"ptr", "slice", "chan", "map", "func", "interface"}
  BY DEF Weakened
<1>5. 1 # Unknown /\ 2 # Unknown /\ 3 # Unknown
  BY DEF Unknown
<1> HIDE DEF known
<1>6. New(l, f).size \in Nat \cup {Unknown} /\ (known => New(l, f).size # Unknown)
  <2>1. CASE l.kind = "struct"
    BY <1>1, <1>3, <2>1
  <2>2. CASE l.kind = "array"
    BY <1>0, <1>2, <1>3, <2>2
  <2>3. CASE l.kind \in {"ptr", "slice", "chan", "map", "func", "interface"}
    BY <1>3, <1>5, <2>3
  <2> QED BY <1>0, <2>1, <2>2, <2>3 DEF Kinds
<1>7. Weakened(l) => New(l, f).size # Unknown
  BY <1>3, <1>4, <1>5
<1> QED BY <1>1, <1>2, <1>6, <1>7 DEF known

\* What is made of parts of the same sizes has the same size.
LEMMA NewAlike ==
  ASSUME NEW l \in Literal, l.kind # "array", NEW f, NEW g,
         l.kind = "struct" => \A p \in Parts(l) : f[p].size = g[p].size
  PROVE  New(l, f).size = New(l, g).size
<1>0. l.kind \in Kinds /\ Parts(l) = {l.parts[i] : i \in DOMAIN l.parts}
  BY LiteralAssumption DEF Parts, Range
<1>1. CASE l.kind = "struct"
  <2>1. [i \in DOMAIN l.parts |-> f[l.parts[i]].size] = [i \in DOMAIN l.parts |-> g[l.parts[i]].size]
    BY <1>0, <1>1
  <2>2. (\E p \in Parts(l) : f[p].size = Unknown) <=> \E p \in Parts(l) : g[p].size = Unknown
    BY <1>1
  <2>3. StructSize(l, f) = StructSize(l, g)
    BY <2>1, <2>2 DEF StructSize
  <2> QED BY <1>1, <2>3 DEF New, NewStruct, Fact
<1>2. CASE l.kind # "struct"
  BY <1>0, <1>2 DEF Kinds, New, NewPointer, NewSlice, NewChan, NewMap, NewFunc, NewInterface, Fact
<1> QED BY <1>1, <1>2

\* Sizes are naturals or unknown; what is predeclared and what is made without looking at
\* its parts knows its size; and without arrays, a known size is that of its parts.
Sized(f) ==
  /\ \A t \in DOMAIN f : f[t].size \in Nat \cup {Unknown}
  /\ \A b \in Basic : f[b].size # Unknown
  /\ \A l \in DOMAIN f \cap Literal :
       /\ Parts(l) \subseteq DOMAIN f
       /\ Weakened(l) => f[l].size # Unknown
       /\ NoArrays(l) /\ f[l].size # Unknown => f[l].size = New(l, f).size

\* Nothing but arrays changes a size that is known.
Stays(f, g) ==
  \A t \in DOMAIN f : ~IsLiteral(t, "array") /\ f[t].size # Unknown => g[t].size = f[t].size

\* Neither the size of a literal without arrays nor those it was computed from change.
LEMMA SizeStays ==
  ASSUME decl \in [Named -> Types], NEW f, NEW g, Stays(f, g), NEW l \in DOMAIN f \cap Literal,
         Parts(l) \subseteq DOMAIN f, NoArrays(l), f[l].size # Unknown, f[l].size = New(l, f).size
  PROVE  g[l].size # Unknown /\ g[l].size = New(l, g).size
<1>1. l \in Types /\ l \notin Named /\ ~IsLiteral(l, "array")
  BY LiteralAssumption DEF Types, NoArrays
<1>2. g[l].size = f[l].size
  BY <1>1 DEF Stays
<1>3. ASSUME l.kind = "struct", NEW p \in Parts(l) PROVE f[p].size = g[p].size
  <2>1. Inside(l) = Parts(l)
    BY <1>1, <1>3 DEF Inside, IsLiteral
  <2>2. p \in Contained(l)
    BY <1>1, <2>1, ContainedAll
  <2>3. ~IsLiteral(p, "array")
    BY <2>2 DEF NoArrays
  <2>4. New(l, f).size = StructSize(l, f)
    BY <1>3 DEF New, NewStruct, Fact
  <2>5. f[p].size # Unknown
    BY <2>4 DEF StructSize
  <2> QED BY <2>3, <2>5 DEF Stays
<1>4. l.kind # "array"
  BY <1>1 DEF IsLiteral
<1>5. New(l, f).size = New(l, g).size
  BY <1>3, <1>4, NewAlike
<1> QED BY <1>2, <1>5

\* What is complete knows its size.
CompleteSized(f) == \A t \in DOMAIN f : f[t].complete => f[t].size # Unknown

\* A level of literals has sizes if the levels below have.
LEMMA LevelSized ==
  ASSUME decl \in [Named -> Types], NEW f, Sized(f), Basic \subseteq DOMAIN f,
         NEW L \in SUBSET Literal, NEW i,
         \A l \in L : l.level = i => Parts(l) \subseteq DOMAIN f
  PROVE  /\ Sized(Level(L, i, f)) /\ Basic \subseteq DOMAIN Level(L, i, f)
         /\ CompleteSized(f) => CompleteSized(Level(L, i, f))
<1> DEFINE M == {m \in L : m.level = i}
           g == Level(L, i, f)
<1>1. /\ DOMAIN g = DOMAIN f \cup M
      /\ \A t \in DOMAIN g : g[t] = IF t \in DOMAIN f THEN f[t] ELSE New(t, f)
  BY DEF Level, Extended
<1>2. M \subseteq Literal /\ \A l \in M : Parts(l) \subseteq DOMAIN f
  OBVIOUS
<1> HIDE DEF g, M
<1>3. ASSUME NEW l \in M
      PROVE  LET r == New(l, f)
             IN  /\ r.size \in Nat \cup {Unknown}
                 /\ Weakened(l) => r.size # Unknown
                 /\ CompleteSized(f) /\ r.complete => r.size # Unknown
  <2> DEFINE r == New(l, f)
  <2>1. l \in Literal /\ l.kind \in Kinds /\ Parts(l) \subseteq DOMAIN f
    BY <1>2, LiteralAssumption
  <2>2. \A p \in Parts(l) : f[p].size \in Nat \cup {Unknown}
    BY <2>1 DEF Sized
  <2>3. /\ r.size \in Nat \cup {Unknown} /\ (Weakened(l) => r.size # Unknown)
        /\ (\A p \in Parts(l) : f[p].size # Unknown) => r.size # Unknown
    BY <2>1, <2>2, SizeFacts
  <2>4. \A size, cmp : Fact(l, size, cmp, f).complete <=> \A p \in Parts(l) : f[p].complete
    BY DEF Fact
  <2>5. \E size, cmp : r = Fact(l, size, cmp, f)
    BY <2>1 DEF Kinds, New, NewPointer, NewSlice, NewChan, NewMap, NewFunc, NewArray, NewStruct,
                NewInterface
  <2> HIDE DEF r
  <2>6. r.complete => \A p \in Parts(l) : f[p].complete
    BY <2>4, <2>5
  <2>7. CompleteSized(f) /\ r.complete => r.size # Unknown
    BY <2>1, <2>3, <2>6 DEF CompleteSized
  <2> QED BY <2>3, <2>7 DEF r
<1>4. Stays(f, g)
  BY <1>1 DEF Stays
<1>5. ASSUME NEW l \in DOMAIN g \cap Literal
      PROVE  /\ Parts(l) \subseteq DOMAIN g
             /\ Weakened(l) => g[l].size # Unknown
             /\ NoArrays(l) /\ g[l].size # Unknown => g[l].size = New(l, g).size
  <2>1. CASE l \in DOMAIN f
    <3>1. /\ Parts(l) \subseteq DOMAIN f /\ (Weakened(l) => f[l].size # Unknown)
          /\ NoArrays(l) /\ f[l].size # Unknown => f[l].size = New(l, f).size
          /\ g[l] = f[l] /\ l \in DOMAIN f \cap Literal
      BY <1>1, <2>1 DEF Sized
    <3> QED BY <1>1, <1>4, <3>1, SizeStays
  <2>2. CASE l \notin DOMAIN f
    <3>1. l \in M /\ g[l] = New(l, f) /\ Parts(l) \subseteq DOMAIN f
      BY <1>1, <1>2, <2>2
    <3>2. \A p \in Parts(l) : g[p] = f[p]
      BY <1>1, <3>1
    <3>3. NoArrays(l) => l.kind # "array"
      BY DEF NoArrays, IsLiteral
    <3>4. l.kind # "array" => New(l, f).size = New(l, g).size
      BY <3>2, NewAlike
    <3> QED BY <1>1, <1>3, <3>1, <3>3, <3>4
  <2> QED BY <2>1, <2>2
<1>6. ASSUME NEW t \in DOMAIN g PROVE g[t].size \in Nat \cup {Unknown}
  BY <1>1, <1>3 DEF Sized
<1>7. \A b \in Basic : g[b].size # Unknown
  BY <1>1 DEF Sized
<1>8. Sized(g)
  BY <1>5, <1>6, <1>7 DEF Sized
<1>9. CompleteSized(f) => CompleteSized(g)
  BY <1>1, <1>3 DEF CompleteSized
<1> QED BY <1>1, <1>8, <1>9 DEF g

\* makeType() makes literals that have sizes.
LEMMA MadeSized ==
  ASSUME decl \in [Named -> Types], NEW f, Sized(f), Named \cup Basic \subseteq DOMAIN f, NEW t \in Types
  PROVE  LET g == Made(SubLiterals(t), f)
         IN  Sized(g) /\ (CompleteSized(f) => CompleteSized(g))
<1> DEFINE L == SubLiterals(t)
<1>1. Depth \in Nat
  BY LiteralAssumption
<1>2. L \in SUBSET Literal
  BY SubLiteralsClosed
<1>3. PICK h : /\ Made(L, f) = h[Depth]
               /\ h[0] = f
               /\ \A i \in 0 .. (Depth - 1) :
                    /\ h[i + 1] = Level(L, i + 1, h[i])
                    /\ \A l \in L : l.level = i + 1 => Parts(l) \subseteq DOMAIN h[i]
  BY MadeLevels
<1> HIDE DEF L
<1> DEFINE Good(g) == Sized(g) /\ Basic \subseteq DOMAIN g /\ (CompleteSized(f) => CompleteSized(g))
           done == {i \in Nat : i <= Depth => Good(h[i])}
<1>4. 0 \in done
  BY <1>3
<1>5. ASSUME NEW i \in Nat, i \in done PROVE i + 1 \in done
  <2> SUFFICES ASSUME i + 1 <= Depth PROVE Good(h[i + 1])
    OBVIOUS
  <2>1. i <= Depth /\ i \in 0 .. (Depth - 1)
    BY <1>1
  <2> DEFINE g == h[i]
  <2>2. /\ Good(g) /\ h[i + 1] = Level(L, i + 1, g)
        /\ \A l \in L : l.level = i + 1 => Parts(l) \subseteq DOMAIN g
    BY <1>3, <1>5, <2>1
  <2> HIDE DEF g
  <2> QED BY <1>2, <2>2, LevelSized
<1>6. Good(h[Depth])
  <2>1. Depth \in done
    <3> HIDE DEF done
    <3> QED BY <1>1, <1>4, <1>5, AllNaturals
  <2> HIDE DEF Good
  <2> QED BY <1>1, <2>1
<1> QED BY <1>3, <1>6 DEF L

\* A named type knows no size before it copied from a type without a name, and is of the
\* kind of that.
Copied ==
  \A n \in Named : IF under[n] \in Named \cup {NoType} THEN fact[n].size = Unknown
                   ELSE fact[n].kind = fact[under[n]].kind

\* If no declaration is early, it has copied a size that is known and, without arrays, that
\* does not change; and types completed know their sizes.
CopiesSized ==
  \A n \in Declared : under[n] \notin Named =>
    /\ fact[n].size # Unknown
    /\ NoArrays(n) => fact[n].size = fact[under[n]].size
PickedSized == \A x \in DOMAIN completed : fact[completed[x]].size # Unknown

Measured ==
  phase # "panic" =>
    /\ Sized(fact) /\ Copied
    /\ ~early => /\ CompleteSized(fact) /\ CopiesSized
                 /\ phase = "completing" => PickedSized

\* The declarations never change, and with them which types have arrays.
LEMMA SizesKept ==
  ASSUME decl' = decl
  PROVE  /\ \A t : NoArrays(t)' <=> NoArrays(t)
         /\ Sized(fact)' <=> Sized(fact')
         /\ CompleteSized(fact)' <=> CompleteSized(fact')
<1>1. \A t : Inside(t)' = Inside(t)
  BY DEF Inside
<1>2. \A t : Contained(t)' = Contained(t)
  BY <1>1 DEF Contained
<1>3. \A t : NoArrays(t)' <=> NoArrays(t)
  BY <1>2 DEF NoArrays
<1>4. Sized(fact)' <=> Sized(fact')
  BY <1>3 DEF Sized
<1>5. CompleteSized(fact)' <=> CompleteSized(fact')
  BY DEF CompleteSized
<1> QED BY <1>3, <1>4, <1>5

\* Before anything is declared.
LEMMA InitMeasured == Init => Measured
<1> SUFFICES ASSUME Init PROVE Measured
  OBVIOUS
<1>1. /\ phase = "idle" /\ Declared = {} /\ under = [n \in Named |-> NoType]
      /\ DOMAIN fact = Named \cup Basic
      /\ \A t \in Named : fact[t].size = Unknown /\ ~fact[t].complete
      /\ \A t \in Basic \ Named : fact[t].size = 1
  BY DEF Init, Declared
<1>2. Named \cap Literal = {} /\ Basic \cap (Named \cup Literal) = {} /\ 1 # Unknown
  BY LiteralAssumption DEF Unknown
<1>3. Sized(fact)
  BY <1>1, <1>2 DEF Sized
<1>4. Copied
  BY <1>1 DEF Copied
<1>5. CompleteSized(fact) /\ CopiesSized
  BY <1>1, <1>2 DEF CompleteSized, CopiesSized
<1> QED BY <1>1, <1>3, <1>4, <1>5 DEF Measured

\* A declaration: what it copies is known unless it is early.
LEMMA SetUnderlyingMeasured ==
  ASSUME TypeGraphInv, Sane, Measured, NEW n \in Named, SetUnderlying(n)
  PROVE  Measured'
<1>1. CASE phase' = "panic"
  BY <1>1 DEF Measured
<1>2. CASE phase' # "panic"
  <2> DEFINE L == SubLiterals(decl[n])
             f == Made(L, fact)
             u == EndOf(decl[n])
  <2>1. /\ phase = "idle" /\ phase' = "idle" /\ under[n] = NoType /\ decl' = decl
        /\ DOMAIN fact \cup L \subseteq DOMAIN f
        /\ \A t \in DOMAIN fact : f[t] = fact[t]
        /\ u # n /\ u \in Types /\ u # NoType /\ u \in DOMAIN f /\ (u \in Named => under[u] = NoType)
        /\ under'[n] = u /\ \A m \in Named : m # n => under'[m] = under[m]
        /\ Declared' = Declared \cup {n}
        /\ DOMAIN fact' = DOMAIN f /\ n \in DOMAIN f /\ fact'[n] = f[u]
        /\ \A t \in DOMAIN f : t # n => fact'[t] = f[t]
    BY <1>2, DeclarationFacts
  <2>2. /\ decl \in [Named -> Types] /\ decl[n] \in Types
        /\ under \in [Named -> Types \cup {NoType}]
        /\ Named \cup Basic \subseteq DOMAIN fact /\ Grounded /\ Leading
        /\ NoType \notin Types /\ Named \cap Literal = {} /\ Basic \cap (Named \cup Literal) = {}
        /\ Named \subseteq Types /\ NoType \notin Named
        /\ \A t \in Types : t \in Named \/ t \in Basic \/ t \in Literal
        /\ n \notin Declared /\ Declared \subseteq Named
        /\ Sized(fact) /\ Copied /\ (~early => CompleteSized(fact) /\ CopiesSized)
    BY <2>1, LiteralAssumption DEF TypeGraphInv, Shape, Sane, Types, Declared, Measured
  <2>3. ~early' => ~early /\ (u \in Literal => f[u].size # Unknown)
    BY DEF SetUnderlying, Known
  <2>4. Sized(f) /\ (CompleteSized(fact) => CompleteSized(f))
    BY <2>2, MadeSized
  <2>5. /\ \A t : NoArrays(t)' <=> NoArrays(t)
        /\ Sized(fact)' <=> Sized(fact')
        /\ CompleteSized(fact)' <=> CompleteSized(fact')
    BY <2>1, SizesKept
  <2> HIDE DEF L, f, u
  <2>6. fact[n].size = Unknown /\ f[n] = fact[n]
    BY <2>1, <2>2 DEF Copied
  <2>7. Stays(f, fact')
    BY <2>1, <2>6 DEF Stays
  <2>8. Sized(fact')
    <3>1. \A t \in DOMAIN fact' : fact'[t].size \in Nat \cup {Unknown}
      BY <2>1, <2>4 DEF Sized
    <3>2. \A b \in Basic : fact'[b].size # Unknown
      BY <2>1, <2>2, <2>4 DEF Sized
    <3>3. ASSUME NEW l \in DOMAIN fact' \cap Literal
          PROVE  /\ Parts(l) \subseteq DOMAIN fact'
                 /\ Weakened(l) => fact'[l].size # Unknown
                 /\ NoArrays(l) /\ fact'[l].size # Unknown => fact'[l].size = New(l, fact').size
      <4>1. /\ l \in DOMAIN f \cap Literal /\ fact'[l] = f[l]
            /\ Parts(l) \subseteq DOMAIN f /\ (Weakened(l) => f[l].size # Unknown)
            /\ NoArrays(l) /\ f[l].size # Unknown => f[l].size = New(l, f).size
        BY <2>1, <2>2, <2>4 DEF Sized
      <4> QED BY <2>1, <2>2, <2>7, <4>1, SizeStays
    <3> QED BY <3>1, <3>2, <3>3 DEF Sized
  <2>9. Copied'
    <3> SUFFICES ASSUME NEW m \in Named
                 PROVE  IF under'[m] \in Named \cup {NoType} THEN fact'[m].size = Unknown
                        ELSE fact'[m].kind = fact'[under'[m]].kind
      BY DEF Copied
    <3>1. CASE m = n /\ u \in Named
      <4>1. f[u] = fact[u] /\ fact[u].size = Unknown
        BY <2>1, <2>2, <3>1 DEF Copied
      <4> QED BY <2>1, <3>1, <4>1
    <3>2. CASE m = n /\ u \notin Named
      BY <2>1, <3>2
    <3>3. CASE m # n
      <4>1. fact'[m] = fact[m] /\ under'[m] = under[m]
        BY <2>1, <2>2, <3>3
      <4>2. CASE under[m] \in Named \cup {NoType}
        BY <2>2, <4>1, <4>2 DEF Copied
      <4>3. CASE under[m] \notin Named \cup {NoType}
        <5>1. under[m] \in DOMAIN fact
          BY <2>2, <4>3 DEF Grounded, Declared
        <5>2. fact'[under[m]] = fact[under[m]]
          BY <2>1, <4>3, <5>1
        <5> QED BY <2>2, <4>1, <4>3, <5>2 DEF Copied
      <4> QED BY <4>2, <4>3
    <3> QED BY <3>1, <3>2, <3>3
  <2>10. ASSUME ~early', NEW t \in DOMAIN fact', fact'[t].complete PROVE fact'[t].size # Unknown
    BY <2>1, <2>2, <2>3, <2>4, <2>10 DEF CompleteSized
  <2>11. ASSUME ~early', NEW m \in Declared \cup {n}, under'[m] \notin Named
         PROVE  fact'[m].size # Unknown /\ (NoArrays(m) => fact'[m].size = fact'[under'[m]].size)
    <3>1. CASE m = n
      <4>1. u \in Basic \/ u \in Literal
        BY <2>1, <2>2, <2>11, <3>1
      <4>2. f[u].size # Unknown
        BY <2>3, <2>4, <2>11, <4>1 DEF Sized
      <4> QED BY <2>1, <3>1, <4>2
    <3>2. CASE m # n
      <4>1. m \in Declared /\ fact'[m] = fact[m] /\ under'[m] = under[m] /\ under[m] \notin Named
        BY <2>1, <2>2, <2>11, <3>2
      <4>2. under[m] \in DOMAIN fact /\ under[m] # n
        BY <2>2, <4>1 DEF Grounded
      <4>3. fact'[under[m]] = fact[under[m]]
        BY <2>1, <4>2
      <4> QED BY <2>2, <2>3, <2>11, <4>1, <4>3 DEF CopiesSized
    <3> QED BY <3>1, <3>2
  <2>12. ~early' => CopiesSized'
    BY <2>1, <2>5, <2>11 DEF CopiesSized
  <2>13. ~early' => CompleteSized(fact')
    BY <2>10 DEF CompleteSized
  <2> QED BY <2>1, <2>5, <2>8, <2>9, <2>12, <2>13 DEF Measured
<1> QED BY <1>1, <1>2

\* CompleteTypes() begins with what is known.
LEMMA CompleteTypesMeasured ==
  ASSUME Measured, CompleteTypes
  PROVE  Measured'
<1>1. /\ decl' = decl /\ fact' = fact /\ under' = under /\ completed' = << >> /\ early' = early
      /\ phase = "idle" /\ phase' = "completing"
  BY DEF CompleteTypes
<1>2. /\ \A t : NoArrays(t)' <=> NoArrays(t)
      /\ Sized(fact)' <=> Sized(fact')
      /\ CompleteSized(fact)' <=> CompleteSized(fact')
  BY <1>1, SizesKept
<1>3. Sized(fact) /\ Copied /\ (~early => CompleteSized(fact) /\ CopiesSized)
  BY <1>1 DEF Measured
<1>4. Copied' /\ (CopiesSized' <=> CopiesSized) /\ PickedSized'
  BY <1>1, <1>2, <1>3 DEF Copied, CopiesSized, PickedSized, Declared
<1> QED BY <1>1, <1>2, <1>3, <1>4 DEF Measured

\* What CompleteTypes() marks complete has been completed, and so knows its size.
LEMMA FinishMeasured ==
  ASSUME TypeGraphInv, Measured, Finish
  PROVE  Measured'
<1> DEFINE failing == {x \in DOMAIN completed : FailsCheck(completed[x])}
           passed == {completed[x] : x \in {y \in DOMAIN completed : \A z \in failing : y < z}}
<1>1. /\ phase = "completing" /\ decl' = decl /\ under' = under /\ early' = early
      /\ phase' \in {"idle", "panic"}
      /\ fact' = [t \in DOMAIN fact |-> IF t \in passed THEN [fact[t] EXCEPT !.complete = TRUE] ELSE fact[t]]
  BY DEF Finish
<1>2. passed \subseteq {completed[x] : x \in DOMAIN completed}
  OBVIOUS
<1> HIDE DEF passed
<1>3. /\ DOMAIN fact' = DOMAIN fact
      /\ \A s \in DOMAIN fact : /\ fact'[s].kind = fact[s].kind /\ fact'[s].size = fact[s].size
                                /\ fact'[s].complete <=> fact[s].complete \/ s \in passed
  BY <1>1, MarkedFacts DEF TypeGraphInv, Shape
<1>4. /\ Sized(fact) /\ Copied /\ (~early => CompleteSized(fact) /\ CopiesSized /\ PickedSized)
      /\ decl \in [Named -> Types] /\ Named \cup Basic \subseteq DOMAIN fact /\ Grounded
      /\ Declared' = Declared /\ Declared \subseteq Named
  BY <1>1 DEF Measured, TypeGraphInv, Shape, Declared
<1>5. /\ \A t : NoArrays(t)' <=> NoArrays(t)
      /\ Sized(fact)' <=> Sized(fact')
      /\ CompleteSized(fact)' <=> CompleteSized(fact')
  BY <1>1, SizesKept
<1>6. Stays(fact, fact')
  BY <1>3 DEF Stays
<1>7. Sized(fact')
  <2>1. \A t \in DOMAIN fact' : fact'[t].size \in Nat \cup {Unknown}
    BY <1>3, <1>4 DEF Sized
  <2>2. \A b \in Basic : fact'[b].size # Unknown
    BY <1>3, <1>4 DEF Sized
  <2>3. ASSUME NEW l \in DOMAIN fact' \cap Literal
        PROVE  /\ Parts(l) \subseteq DOMAIN fact'
               /\ Weakened(l) => fact'[l].size # Unknown
               /\ NoArrays(l) /\ fact'[l].size # Unknown => fact'[l].size = New(l, fact').size
    <3>1. /\ l \in DOMAIN fact \cap Literal /\ fact'[l].size = fact[l].size
          /\ Parts(l) \subseteq DOMAIN fact /\ (Weakened(l) => fact[l].size # Unknown)
          /\ NoArrays(l) /\ fact[l].size # Unknown => fact[l].size = New(l, fact).size
      BY <1>3, <1>4 DEF Sized
    <3> QED BY <1>3, <1>4, <1>6, <3>1, SizeStays
  <2> QED BY <2>1, <2>2, <2>3 DEF Sized
<1>8. \A n \in Declared : under[n] \in DOMAIN fact
  BY <1>4 DEF Grounded
<1>9. \A n \in Named : under[n] \notin Named \cup {NoType} => n \in Declared
  BY DEF Declared
<1>10. Copied'
  BY <1>1, <1>3, <1>4, <1>8, <1>9 DEF Copied
<1>11. ~early => CopiesSized'
  BY <1>1, <1>3, <1>4, <1>5, <1>8 DEF CopiesSized
<1>12. ~early => CompleteSized(fact')
  BY <1>2, <1>3, <1>4 DEF CompleteSized, PickedSized
<1> QED BY <1>1, <1>5, <1>7, <1>10, <1>11, <1>12 DEF Measured

\* What complete() makes of a type: a size that was known stays, but that of an array; and
\* one is known afterwards, unless a declaration is early.
LEMMA CompleteSizes ==
  ASSUME TypeGraphInv, Sane, Measured, NEW t \in Types, CompleteOne(t)
  PROVE  LET r == fact'[t]
         IN  /\ r.size \in Nat \cup {Unknown}
             /\ t \notin Named => r.kind = fact[t].kind
             /\ ~IsLiteral(t, "array") /\ fact[t].size # Unknown => r.size = fact[t].size
             /\ t \in Literal /\ ~IsLiteral(t, "array") =>
                  r.size = fact[t].size \/ r.size = New(t, fact).size
             /\ ~early => r.size # Unknown
<1> DEFINE e == under'[t]
           r == fact'[t]
<1>1. /\ phase = "completing"
      /\ fact' = [fact EXCEPT ![t] = CompleteFact(t)]
  BY DEF CompleteOne
<1>2. /\ Named \cup Basic \subseteq DOMAIN fact /\ Sound(fact) /\ Sized(fact) /\ Copied
      /\ ~early => CompleteSized(fact) /\ CopiesSized /\ PickedSized
      /\ NoType \notin Types /\ Named \cap Literal = {} /\ Basic \cap (Named \cup Literal) = {}
      /\ \A s \in Types : s \in Named \/ s \in Basic \/ s \in Literal
      /\ Gathered
  BY <1>1, LiteralAssumption DEF TypeGraphInv, Shape, Sane, Types, Measured
<1>3. /\ t \in DOMAIN fact /\ (t \in Named => t \in Declared)
      /\ t \in Named => /\ e \in Types \ Named /\ e \in DOMAIN fact /\ Ready(e)
                        /\ under[t] \in Named => r = fact[e]
                        /\ under[t] \notin Named => e = under[t] /\ r = fact[t]
      /\ IsLiteral(t, "array") \/ IsLiteral(t, "struct") =>
           Parts(t) \subseteq DOMAIN fact /\ \A d \in Parts(t) : Ready(d)
      /\ t \notin Named /\ ~IsLiteral(t, "array") /\ ~IsLiteral(t, "struct") => r = fact[t]
  BY CompleteFrom
<1>4. ~fact[t].complete /\ r = CompleteFact(t)
  BY <1>1, <1>3, CompleteFacts
<1> HIDE DEF e, r
<1>5. ASSUME ~early, NEW d \in DOMAIN fact, Ready(d) PROVE fact[d].size # Unknown
  <2>1. CASE fact[d].complete
    BY <1>2, <1>5, <2>1 DEF CompleteSized
  <2>2. CASE Weakened(d)
    <3>1. d \in DOMAIN fact \cap Literal
      BY <2>2 DEF Weakened
    <3> QED BY <1>2, <2>2, <3>1 DEF Sized
  <2>3. CASE d \in Basic
    BY <1>2, <2>3 DEF Sized
  <2>4. CASE \E x \in DOMAIN completed : completed[x] = d
    BY <1>2, <1>5, <2>4 DEF PickedSized
  <2> QED BY <1>5, <2>1, <2>2, <2>3, <2>4 DEF Ready
<1>6. fact[t].size \in Nat \cup {Unknown}
  BY <1>2, <1>3 DEF Sized
<1>7. CASE t \in Named
  <2>1. t \notin Literal /\ ~IsLiteral(t, "array") /\ under[t] # NoType
    BY <1>2, <1>3, <1>7 DEF IsLiteral, Declared
  <2>2. CASE under[t] \in Named
    <3>1. r = fact[e] /\ e \in DOMAIN fact /\ Ready(e)
      BY <1>3, <1>7, <2>2
    <3>2. fact[t].size = Unknown
      BY <1>2, <1>7, <2>2 DEF Copied
    <3>3. fact[e].size \in Nat \cup {Unknown}
      BY <1>2, <3>1 DEF Sized
    <3>4. ~early => fact[e].size # Unknown
      BY <1>5, <3>1
    <3> QED BY <1>7, <2>1, <3>1, <3>2, <3>3, <3>4 DEF r
  <2>3. CASE under[t] \notin Named
    <3>1. r = fact[t] /\ t \in Declared
      BY <1>3, <1>7, <2>3
    <3>2. ~early => fact[t].size # Unknown
      BY <1>2, <2>3, <3>1 DEF CopiesSized
    <3> QED BY <1>6, <1>7, <2>1, <3>1, <3>2 DEF r
  <2> QED BY <2>2, <2>3
<1>8. CASE IsLiteral(t, "array") \/ IsLiteral(t, "struct")
  <2>1. t \in Literal /\ t \notin Named /\ Parts(t) \subseteq DOMAIN fact
    BY <1>2, <1>3, <1>8 DEF IsLiteral
  <2>2. \A p \in Parts(t) : fact[p].size \in Nat \cup {Unknown}
    BY <1>2, <2>1 DEF Sized
  <2>3. ~early => \A p \in Parts(t) : fact[p].size # Unknown
    BY <1>3, <1>5, <1>8, <2>1
  <2>4. fact[t].kind = t.kind
    BY <1>2, <1>3, <2>1 DEF Sound
  <2>5. CASE t.kind = "array"
    <3> DEFINE size == ArraySize(Head(t.parts), 0, fact)
    <3>1. size \in Nat \cup {Unknown} /\ (~early => size # Unknown)
      <4>1. 0 \in Nat
        OBVIOUS
      <4> QED BY <2>1, <2>2, <2>3, <2>5, <4>1, SizeFacts
    <3>2. \A cmp : Fact(t, size, cmp, fact).size = size /\ Fact(t, size, cmp, fact).kind = t.kind
      BY DEF Fact
    <3>3. \E cmp : r = Fact(t, size, cmp, fact)
      BY <1>4, <2>1, <2>5 DEF CompleteFact, CompleteArray, IsLiteral
    <3>4. r.size = size /\ r.kind = t.kind
      BY <3>2, <3>3
    <3>5. IsLiteral(t, "array")
      BY <2>1, <2>5 DEF IsLiteral
    <3> QED BY <2>4, <3>1, <3>4, <3>5 DEF r
  <2>6. CASE t.kind = "struct"
    <3> DEFINE size == IF fact[t].size = Unknown THEN StructSize(t, fact) ELSE fact[t].size
    <3>1. StructSize(t, fact) \in Nat \cup {Unknown} /\ (~early => StructSize(t, fact) # Unknown)
      BY <2>1, <2>2, <2>3, SizeFacts
    <3>2. New(t, fact).size = StructSize(t, fact)
      BY <2>6 DEF New, NewStruct, Fact
    <3>3. \A cmp : Fact(t, size, cmp, fact).size = size /\ Fact(t, size, cmp, fact).kind = t.kind
      BY DEF Fact
    <3>4. \E cmp : r = Fact(t, size, cmp, fact)
      BY <1>4, <2>1, <2>6 DEF CompleteFact, CompleteStruct, IsLiteral
    <3>5. r.size = size /\ r.kind = t.kind
      BY <3>3, <3>4
    <3> QED BY <1>6, <2>4, <3>1, <3>2, <3>5 DEF r
  <2> QED BY <1>8, <2>5, <2>6 DEF IsLiteral
<1>9. CASE t \notin Named /\ ~IsLiteral(t, "array") /\ ~IsLiteral(t, "struct")
  <2>1. r = fact[t]
    BY <1>3, <1>9
  <2>2. ASSUME t \in Literal PROVE Weakened(t)
    <3>1. t.kind \in Kinds
      BY <2>2, LiteralAssumption
    <3> QED BY <1>9, <2>2, <3>1 DEF Kinds, IsLiteral, Weakened
  <2>3. fact[t].size # Unknown
    BY <1>2, <1>3, <1>9, <2>2 DEF Sized
  <2> QED BY <1>6, <2>1, <2>3 DEF r
<1> QED BY <1>7, <1>8, <1>9

\* An iteration of complete().
LEMMA CompleteOneMeasured ==
  ASSUME TypeGraphInv, Sane, Measured, NEW t \in Types, CompleteOne(t)
  PROVE  Measured'
<1> DEFINE e == under'[t]
<1>1. /\ phase = "completing" /\ phase' = phase /\ decl' = decl /\ early' = early
      /\ completed' = Append(completed, t)
      /\ fact' = [fact EXCEPT ![t] = CompleteFact(t)]
  BY DEF CompleteOne
<1>2. /\ decl \in [Named -> Types] /\ under \in [Named -> Types \cup {NoType}]
      /\ Named \cup Basic \subseteq DOMAIN fact /\ completed \in Seq(Types)
      /\ NoType \notin Types /\ Named \cap Literal = {} /\ Basic \cap (Named \cup Literal) = {}
      /\ Named \subseteq Types /\ Literal \subseteq Types /\ Declared \subseteq Named
      /\ \A s \in Types : s \in Named \/ s \in Basic \/ s \in Literal
  BY LiteralAssumption DEF TypeGraphInv, Shape, Types, Declared
<1>3. /\ Sized(fact) /\ Copied /\ Gathered /\ Grounded /\ Leading
      /\ ~early => CompleteSized(fact) /\ CopiesSized /\ PickedSized
  BY <1>1 DEF Sane, TypeGraphInv, Measured
<1>4. /\ t \in DOMAIN fact /\ (t \in Named => t \in Declared)
      /\ t \in Named => /\ e \in Types \ Named /\ e \in DOMAIN fact
                        /\ under[t] \in Named => fact'[t] = fact[e]
                        /\ under[t] \notin Named => e = under[t] /\ fact'[t] = fact[t]
      /\ t \notin Named /\ ~IsLiteral(t, "array") /\ ~IsLiteral(t, "struct") => fact'[t] = fact[t]
  BY CompleteFrom
<1>5. /\ DOMAIN fact' = DOMAIN fact
      /\ \A s \in DOMAIN fact : s # t => fact'[s] = fact[s]
      /\ \A n \in Named : n # t => under'[n] = under[n]
  BY CompleteFacts
<1>6. /\ fact'[t].size \in Nat \cup {Unknown}
      /\ t \notin Named => fact'[t].kind = fact[t].kind
      /\ ~IsLiteral(t, "array") /\ fact[t].size # Unknown => fact'[t].size = fact[t].size
      /\ t \in Literal /\ ~IsLiteral(t, "array") =>
           fact'[t].size = fact[t].size \/ fact'[t].size = New(t, fact).size
      /\ ~early => fact'[t].size # Unknown
  BY CompleteSizes
<1>7. /\ \A s : NoArrays(s)' <=> NoArrays(s)
      /\ Sized(fact)' <=> Sized(fact')
      /\ CompleteSized(fact)' <=> CompleteSized(fact')
  BY <1>1, SizesKept
<1> HIDE DEF e
<1>8. Declared' = Declared
  <2>1. \A n \in Named : under'[n] # NoType <=> under[n] # NoType
    BY <1>2, <1>4, <1>5 DEF Declared, e
  <2> QED BY <2>1 DEF Declared
<1>9. Stays(fact, fact')
  BY <1>5, <1>6 DEF Stays
<1>10. Sized(fact')
  <2>1. \A s \in DOMAIN fact' : fact'[s].size \in Nat \cup {Unknown}
    BY <1>3, <1>5, <1>6 DEF Sized
  <2>2. ASSUME NEW b \in Basic PROVE fact'[b].size # Unknown
    <3>1. ~IsLiteral(b, "array") /\ b \in DOMAIN fact /\ fact[b].size # Unknown
      BY <1>2, <1>3 DEF Sized, IsLiteral
    <3> QED BY <1>9, <3>1 DEF Stays
  <2>3. ASSUME NEW l \in DOMAIN fact' \cap Literal
        PROVE  /\ Parts(l) \subseteq DOMAIN fact'
               /\ Weakened(l) => fact'[l].size # Unknown
               /\ NoArrays(l) /\ fact'[l].size # Unknown => fact'[l].size = New(l, fact').size
    <3>1. /\ l \in DOMAIN fact \cap Literal
          /\ Parts(l) \subseteq DOMAIN fact /\ (Weakened(l) => fact[l].size # Unknown)
          /\ NoArrays(l) /\ fact[l].size # Unknown => fact[l].size = New(l, fact).size
      BY <1>3, <1>5 DEF Sized
    <3>2. Weakened(l) => ~IsLiteral(l, "array")
      BY DEF Weakened, IsLiteral
    <3>3. Weakened(l) => fact'[l].size # Unknown
      BY <1>9, <3>1, <3>2 DEF Stays
    <3>4. CASE fact[l].size # Unknown
      BY <1>2, <1>5, <1>9, <3>1, <3>3, <3>4, SizeStays
    <3>5. ASSUME fact[l].size = Unknown, NoArrays(l), fact'[l].size # Unknown
          PROVE  fact'[l].size = New(l, fact').size
      <4>1. l = t
        BY <1>5, <3>1, <3>5
      <4>2. ~IsLiteral(l, "array") /\ l.kind # "array"
        BY <3>5 DEF NoArrays, IsLiteral
      <4>3. fact'[l].size = New(l, fact).size
        BY <1>6, <3>5, <4>1, <4>2
      <4>4. l \notin Parts(l)
        <5>1. \A p \in Parts(l) \cap Literal : p.level < l.level
          BY LiteralParts
        <5>2. l.level \in Int
          BY LiteralAssumption
        <5>3. ~(l.level < l.level)
          BY <5>2
        <5> QED BY <5>1, <5>3
      <4>5. \A p \in Parts(l) : fact[p].size = fact'[p].size
        BY <1>5, <3>1, <4>1, <4>4
      <4>6. New(l, fact).size = New(l, fact').size
        BY <4>2, <4>5, NewAlike
      <4> QED BY <4>3, <4>6
    <3> QED BY <1>5, <3>1, <3>3, <3>4, <3>5
  <2> QED BY <2>1, <2>2, <2>3 DEF Sized
<1>11. Copied'
  <2> SUFFICES ASSUME NEW n \in Named
               PROVE  IF under'[n] \in Named \cup {NoType} THEN fact'[n].size = Unknown
                      ELSE fact'[n].kind = fact'[under'[n]].kind
    BY DEF Copied
  <2>1. CASE n = t
    <3>1. /\ e \in Types \ Named /\ e \in DOMAIN fact /\ e # NoType /\ e # t /\ t \in Named
          /\ under[t] # NoType
      BY <1>2, <1>4, <2>1 DEF Declared
    <3>2. fact'[e] = fact[e]
      BY <1>5, <3>1
    <3>3. CASE under[t] \in Named
      BY <1>4, <2>1, <3>1, <3>2, <3>3 DEF e
    <3>4. CASE under[t] \notin Named
      <4>1. fact[t].kind = fact[under[t]].kind
        BY <1>3, <3>1, <3>4 DEF Copied
      <4> QED BY <1>4, <2>1, <3>1, <3>2, <3>4, <4>1 DEF e
    <3> QED BY <3>3, <3>4
  <2>2. CASE n # t
    <3>1. fact'[n] = fact[n] /\ under'[n] = under[n]
      BY <1>2, <1>5, <2>2
    <3>2. CASE under[n] \in Named \cup {NoType}
      BY <1>3, <3>1, <3>2 DEF Copied
    <3>3. CASE under[n] \notin Named \cup {NoType}
      <4>1. under[n] \in DOMAIN fact
        BY <1>3, <3>3 DEF Grounded, Declared
      <4>2. fact'[under[n]].kind = fact[under[n]].kind
        BY <1>5, <1>6, <3>3, <4>1
      <4> QED BY <1>3, <3>1, <3>3, <4>2 DEF Copied
    <3> QED BY <3>2, <3>3
  <2> QED BY <2>1, <2>2
<1>12. ASSUME ~early PROVE CompleteSized(fact')
  BY <1>3, <1>5, <1>6, <1>12 DEF CompleteSized
<1>13. ASSUME ~early, NEW n \in Declared, under'[n] \notin Named
       PROVE  fact'[n].size # Unknown /\ (NoArrays(n) => fact'[n].size = fact'[under'[n]].size)
  <2>1. CASE n = t
    <3>1. e \in Types \ Named /\ e \in DOMAIN fact /\ e # t /\ t \in Named
      BY <1>2, <1>4, <2>1
    <3>2. fact'[e] = fact[e]
      BY <1>5, <3>1
    <3>3. CASE under[t] \in Named
      BY <1>4, <1>6, <1>13, <2>1, <3>1, <3>2, <3>3 DEF e
    <3>4. CASE under[t] \notin Named
      BY <1>3, <1>4, <1>13, <2>1, <3>1, <3>2, <3>4 DEF CopiesSized, e
    <3> QED BY <3>3, <3>4
  <2>2. CASE n # t
    <3>1. fact'[n] = fact[n] /\ under'[n] = under[n] /\ under[n] \notin Named
      BY <1>2, <1>5, <1>13, <2>2
    <3>2. fact[n].size # Unknown /\ (NoArrays(n) => fact[n].size = fact[under[n]].size)
      BY <1>3, <1>13, <3>1 DEF CopiesSized
    <3>3. under[n] \in DOMAIN fact /\ Leads(n, under[n])
      BY <1>3 DEF Grounded, Leading
    <3>4. NoArrays(n) => ~IsLiteral(under[n], "array")
      BY <3>3 DEF Leads, NoArrays
    <3>5. NoArrays(n) => fact'[under[n]].size = fact[under[n]].size
      BY <1>9, <3>2, <3>3, <3>4 DEF Stays
    <3> QED BY <3>1, <3>2, <3>5
  <2> QED BY <2>1, <2>2
<1>14. ~early => CopiesSized'
  BY <1>7, <1>8, <1>13 DEF CopiesSized
<1>15. ASSUME ~early PROVE PickedSized'
  <2> SUFFICES ASSUME NEW x \in DOMAIN completed' PROVE fact'[completed'[x]].size # Unknown
    BY DEF PickedSized
  <2>1. completed'[x] = t \/ (x \in DOMAIN completed /\ completed'[x] = completed[x])
    BY <1>1, <1>2
  <2>2. CASE completed'[x] = t
    BY <1>6, <1>15, <2>2
  <2>3. CASE completed'[x] # t
    <3>1. x \in DOMAIN completed /\ completed'[x] = completed[x] /\ completed[x] \in DOMAIN fact
      BY <1>3, <2>1, <2>3 DEF Gathered, Collection
    <3> QED BY <1>3, <1>5, <1>15, <2>3, <3>1 DEF PickedSized
  <2> QED BY <2>2, <2>3
<1> QED BY <1>1, <1>7, <1>10, <1>11, <1>12, <1>14, <1>15 DEF Measured

\* Every step keeps sizes what they are.
LEMMA NextMeasured == TypeGraphInv /\ Sane /\ Measured /\ [Next]_vars => Measured'
<1> SUFFICES ASSUME TypeGraphInv, Sane, Measured, [Next]_vars PROVE Measured'
  OBVIOUS
<1>1. ASSUME NEW n \in Named, SetUnderlying(n) PROVE Measured'
  BY <1>1, SetUnderlyingMeasured
<1>2. CASE CompleteTypes
  BY <1>2, CompleteTypesMeasured
<1>3. ASSUME NEW t \in Types, CompleteOne(t) PROVE Measured'
  BY <1>3, CompleteOneMeasured
<1>4. CASE InvalidRecursiveType
  BY <1>4 DEF InvalidRecursiveType, Measured
<1>5. CASE Finish
  BY <1>5, FinishMeasured
<1>6. CASE UNCHANGED vars
  <2>1. /\ decl' = decl /\ fact' = fact /\ under' = under /\ phase' = phase /\ early' = early
        /\ completed' = completed
    BY <1>6 DEF vars, graphs
  <2>2. /\ \A t : NoArrays(t)' <=> NoArrays(t)
        /\ Sized(fact)' <=> Sized(fact)
        /\ CompleteSized(fact)' <=> CompleteSized(fact)
    BY <2>1, SizesKept
  <2>3. Copied' = Copied /\ (CopiesSized' <=> CopiesSized) /\ PickedSized' = PickedSized
    BY <2>1, <2>2 DEF Copied, CopiesSized, PickedSized, Declared
  <2> QED BY <2>1, <2>2, <2>3 DEF Measured
<1> QED BY <1>1, <1>2, <1>3, <1>4, <1>5, <1>6 DEF Next

-----------------------------------------------------------------------------
(* Type correctness, after a panic too.                                    *)

TypedFact(r) ==
  /\ r.kind \in Kinds \cup {"basic", "invalid"} /\ r.size \in Nat \cup {Unknown}
  /\ r.cmp \in {"yes", "no", "unknown"} /\ r.complete \in BOOLEAN

\* What is known is known of types, and of literals with their parts.
Typed(f) ==
  /\ DOMAIN f \subseteq Types
  /\ \A t \in DOMAIN f : TypedFact(f[t])
  /\ \A l \in DOMAIN f \cap Literal : Parts(l) \subseteq DOMAIN f

\* A graph of strong and weak dependencies between types.
TypedGraph(g) ==
  DOMAIN g \subseteq Types /\ g \in [DOMAIN g -> [strong : SUBSET Types, weak : SUBSET Types]]

TypedState ==
  /\ Typed(fact) /\ TypedGraph(fwd) /\ TypedGraph(inv)
  /\ phase \in {"idle", "completing", "panic"} /\ early \in BOOLEAN

\* What New() and complete() compute from parts has the right type.
LEMMA ComputedTyped ==
  ASSUME NEW l \in Literal, NEW f, Typed(f), Parts(l) \subseteq DOMAIN f
  PROVE  /\ TypedFact(New(l, f))
         /\ IsLiteral(l, "array") => TypedFact(Fact(l, ArraySize(Head(l.parts), 0, f), f[Head(l.parts)].cmp, f))
         /\ \A size \in Nat \cup {Unknown} : TypedFact(Fact(l, size, StructCmp(l, f), f))
         /\ StructSize(l, f) \in Nat \cup {Unknown}
<1> DEFINE Cmps == {"yes", "no", "unknown"}
           Sizes == Nat \cup {Unknown}
<1>1. /\ l.kind \in Kinds
      /\ \A p \in Parts(l) : f[p].size \in Sizes /\ f[p].cmp \in Cmps
  BY LiteralAssumption DEF Typed, TypedFact
<1>2. ASSUME NEW size \in Sizes, NEW cmp \in Cmps
      PROVE  TypedFact(Fact(l, size, cmp, f)) /\ Fact(l, size, cmp, f).size = size
  BY <1>1 DEF TypedFact, Fact
<1>3. /\ StructSize(l, f) \in Sizes /\ New(l, f).size \in Sizes
      /\ l.kind = "array" => ArraySize(Head(l.parts), 0, f) \in Sizes
  <2>1. 0 \in Nat
    OBVIOUS
  <2> QED BY <1>1, <2>1, SizeFacts
<1>4. StructCmp(l, f) \in Cmps
  BY DEF StructCmp
<1>5. l.kind = "array" => f[Head(l.parts)].cmp \in Cmps
  BY <1>1, LiteralParts
<1>6. \E size, cmp : New(l, f) = Fact(l, size, cmp, f) /\ cmp \in Cmps
  BY <1>1, <1>4, <1>5 DEF Kinds, New, NewPointer, NewSlice, NewChan, NewMap, NewFunc, NewArray,
                          NewStruct, NewInterface
<1> HIDE DEF Sizes, Cmps
<1>7. PICK size, cmp : New(l, f) = Fact(l, size, cmp, f) /\ cmp \in Cmps
  BY <1>6
<1>8. size \in Sizes
  <2>1. Fact(l, size, cmp, f).size = size
    BY DEF Fact
  <2> QED BY <1>3, <1>7, <2>1
<1>9. TypedFact(New(l, f))
  BY <1>2, <1>7, <1>8
<1> QED BY <1>2, <1>3, <1>4, <1>5, <1>9 DEF IsLiteral, Sizes, Cmps

\* makeType() makes literals of the right type.
LEMMA MadeTyped ==
  ASSUME NEW f, Typed(f), Named \cup Basic \subseteq DOMAIN f, NEW t \in Types
  PROVE  Typed(Made(SubLiterals(t), f))
<1> DEFINE L == SubLiterals(t)
<1>1. Depth \in Nat /\ Literal \subseteq Types
  BY LiteralAssumption DEF Types
<1>2. L \in SUBSET Literal
  BY SubLiteralsClosed
<1>3. PICK h : /\ Made(L, f) = h[Depth]
               /\ h[0] = f
               /\ \A i \in 0 .. (Depth - 1) :
                    /\ h[i + 1] = Level(L, i + 1, h[i])
                    /\ \A l \in L : l.level = i + 1 => Parts(l) \subseteq DOMAIN h[i]
  BY MadeLevels
<1> HIDE DEF L
<1> DEFINE done == {i \in Nat : i <= Depth => Typed(h[i])}
<1>4. 0 \in done
  BY <1>3
<1>5. ASSUME NEW i \in Nat, i \in done PROVE i + 1 \in done
  <2> SUFFICES ASSUME i + 1 <= Depth PROVE Typed(h[i + 1])
    OBVIOUS
  <2>1. i <= Depth /\ i \in 0 .. (Depth - 1)
    BY <1>1
  <2> DEFINE old == h[i]
             new == h[i + 1]
             M == {m \in L : m.level = i + 1}
  <2>2. /\ Typed(old) /\ new = Level(L, i + 1, old)
        /\ \A l \in M : l \in Literal /\ Parts(l) \subseteq DOMAIN old
    BY <1>2, <1>3, <1>5, <2>1
  <2>3. /\ DOMAIN new = DOMAIN old \cup M
        /\ \A s \in DOMAIN new : new[s] = IF s \in DOMAIN old THEN old[s] ELSE New(s, old)
    BY <2>2 DEF Level, Extended
  <2> HIDE DEF old, new, M
  <2>4. \A l \in M : TypedFact(New(l, old))
    BY <2>2, ComputedTyped
  <2>5. Typed(new)
    BY <1>1, <2>2, <2>3, <2>4 DEF Typed
  <2> QED BY <2>5 DEF new
<1>6. Typed(h[Depth])
  <2>1. Depth \in done
    <3> HIDE DEF done
    <3> QED BY <1>1, <1>4, <1>5, AllNaturals
  <2> QED BY <1>1, <2>1
<1> QED BY <1>3, <1>6 DEF L

\* Before anything is declared.
LEMMA InitTyped == Init => TypedState
<1> SUFFICES ASSUME Init PROVE TypedState
  OBVIOUS
<1>1. /\ phase = "idle" /\ early = FALSE /\ fwd = << >> /\ inv = << >>
      /\ DOMAIN fact = Named \cup Basic
  BY DEF Init
<1>2. Named \cap Literal = {} /\ Basic \cap (Named \cup Literal) = {} /\ Named \cup Basic \subseteq Types
  BY LiteralAssumption DEF Types
<1>3. ASSUME NEW t \in DOMAIN fact PROVE TypedFact(fact[t])
  <2>1. 1 \in Nat
    OBVIOUS
  <2>2. CASE t \in Named
    <3>1. fact[t] = [kind |-> "invalid", size |-> Unknown, cmp |-> "unknown", complete |-> FALSE]
      BY <2>2 DEF Init
    <3> QED BY <3>1 DEF TypedFact
  <2>3. CASE t \notin Named
    <3>1. fact[t] = [kind |-> "basic", size |-> 1, cmp |-> "yes", complete |-> TRUE]
      BY <1>1, <2>3 DEF Init
    <3> QED BY <2>1, <3>1 DEF TypedFact
  <2> QED BY <2>2, <2>3
<1>4. Typed(fact)
  BY <1>1, <1>2, <1>3 DEF Typed
<1>5. TypedGraph(<< >>)
  <2>1. DOMAIN << >> = {}
    OBVIOUS
  <2>2. << >> = [x \in {} |-> x]
    OBVIOUS
  <2> QED BY <2>1, <2>2 DEF TypedGraph
<1> QED BY <1>1, <1>4, <1>5 DEF TypedState

\* A declaration, refused or not.
LEMMA SetUnderlyingTyped ==
  ASSUME TypeGraphInv, TypedState, NEW n \in Named, SetUnderlying(n)
  PROVE  TypedState'
<1> DEFINE L == SubLiterals(decl[n])
           f == Made(L, fact)
           u == EndOf(decl[n])
<1>1. /\ phase' \in {"idle", "panic"} /\ fwd' = fwd /\ inv' = inv
      /\ early' \in BOOLEAN
      /\ phase' = "panic" => fact' = f
  BY DEF SetUnderlying, graphs
<1>2. decl[n] \in Types /\ Named \cup Basic \subseteq DOMAIN fact
  BY DEF TypeGraphInv, Shape
<1>3. Typed(f)
  BY <1>2, MadeTyped DEF TypedState
<1>4. Typed(fact')
  <2>1. CASE phase' = "panic"
    BY <1>1, <1>3, <2>1
  <2>2. CASE phase' # "panic"
    <3>1. /\ u \in DOMAIN f /\ DOMAIN fact' = DOMAIN f /\ n \in DOMAIN f /\ fact'[n] = f[u]
          /\ \A t \in DOMAIN f : t # n => fact'[t] = f[t]
      BY <2>2, DeclarationFacts
    <3> HIDE DEF f, u
    <3> QED BY <1>3, <3>1 DEF Typed
  <2> QED BY <2>1, <2>2
<1>5. TypedGraph(fwd)' /\ TypedGraph(inv)'
  BY <1>1 DEF TypedState, TypedGraph
<1>6. Typed(fact)'
  BY <1>4 DEF Typed
<1> QED BY <1>1, <1>5, <1>6 DEF TypedState

\* The graphs that CompleteTypes() begins with.
LEMMA CompleteTypesTyped ==
  ASSUME TypeGraphInv, TypedState, CompleteTypes
  PROVE  TypedState'
<1> DEFINE T == Collected(Declared)
<1>1. /\ fact' = fact /\ early' = early /\ phase' = "completing"
      /\ fwd' = Forward(T) /\ inv' = Inverted(fwd')
  BY DEF CompleteTypes
<1>2. T \subseteq Types /\ under \in [Named -> Types \cup {NoType}]
  BY CollectedTypes DEF TypeGraphInv, Shape, Incomplete
<1> HIDE DEF T
<1>3. TypedGraph(fwd')
  <2>1. ASSUME NEW t \in T PROVE Incomplete(Deps(t)) \subseteq Types /\ Incomplete(StrongDeps(t)) \subseteq Types
    BY <1>2, DepsAreTypes DEF Incomplete
  <2> DEFINE g == Forward(T)
  <2>2. /\ DOMAIN g = T /\ g = [t \in T |-> g[t]]
        /\ \A t \in T : g[t] \in [strong : SUBSET Types, weak : SUBSET Types]
    BY <2>1 DEF Forward
  <2> HIDE DEF g
  <2>3. TypedGraph(g)
    BY <1>2, <2>2 DEF TypedGraph
  <2> QED BY <1>1, <2>3 DEF g
<1>4. TypedGraph(inv')
  <2> DEFINE f == fwd'
             g == Inverted(f)
  <2>1. /\ DOMAIN f \subseteq Types
        /\ \A t \in DOMAIN f : f[t].strong \subseteq Types /\ f[t].weak \subseteq Types
    BY <1>3 DEF TypedGraph
  <2> HIDE DEF f
  <2>2. /\ DOMAIN g \subseteq Types /\ g = [t \in DOMAIN g |-> g[t]]
        /\ \A t \in DOMAIN g : g[t] \in [strong : SUBSET Types, weak : SUBSET Types]
    BY <2>1 DEF Inverted
  <2> HIDE DEF g
  <2>3. TypedGraph(g)
    BY <2>2 DEF TypedGraph
  <2> QED BY <1>1, <2>3 DEF f, g
<1>5. TypedGraph(fwd)' /\ TypedGraph(inv)'
  BY <1>3, <1>4 DEF TypedGraph
<1>6. Typed(fact)'
  BY <1>1 DEF TypedState, Typed
<1> QED BY <1>1, <1>5, <1>6 DEF TypedState

\* Taking a type off a graph.
LEMMA WithoutTyped ==
  ASSUME NEW g, TypedGraph(g), NEW t, NEW strongly, NEW weakly
  PROVE  TypedGraph(Without(g, t, strongly, weakly))
<1> DEFINE h == Without(g, t, strongly, weakly)
<1>1. /\ DOMAIN g \subseteq Types
      /\ \A s \in DOMAIN g : g[s].strong \subseteq Types /\ g[s].weak \subseteq Types
  BY DEF TypedGraph
<1>2. /\ DOMAIN h \subseteq Types /\ h = [s \in DOMAIN h |-> h[s]]
      /\ \A s \in DOMAIN h : h[s] \in [strong : SUBSET Types, weak : SUBSET Types]
  BY <1>1 DEF Without
<1> HIDE DEF h
<1>3. TypedGraph(h)
  BY <1>2 DEF TypedGraph
<1> QED BY <1>3 DEF h

\* An iteration of complete().
LEMMA CompleteOneTyped ==
  ASSUME TypeGraphInv, Sane, TypedState, NEW t \in Types, CompleteOne(t)
  PROVE  TypedState'
<1> DEFINE e == under'[t]
<1>1. /\ phase' = phase /\ early' = early
      /\ fact' = [fact EXCEPT ![t] = CompleteFact(t)]
      /\ fwd' = Without(fwd, t, Strong(inv, t), Weak(inv, t))
      /\ inv' = Without(inv, t, Strong(fwd, t), Weak(fwd, t))
  BY DEF CompleteOne
<1>2. /\ t \in DOMAIN fact
      /\ t \in Named => e \in DOMAIN fact /\ fact'[t] \in {fact[t], fact[e]}
      /\ IsLiteral(t, "array") \/ IsLiteral(t, "struct") => Parts(t) \subseteq DOMAIN fact
      /\ t \notin Named /\ ~IsLiteral(t, "array") /\ ~IsLiteral(t, "struct") => fact'[t] = fact[t]
  BY CompleteFrom
<1>3. DOMAIN fact' = DOMAIN fact /\ \A s \in DOMAIN fact : s # t => fact'[s] = fact[s]
  BY CompleteFacts
<1>4. fact'[t] = CompleteFact(t)
  BY <1>1, <1>2
<1> HIDE DEF e
<1>5. Typed(fact)
  BY DEF TypedState
<1>6. TypedFact(fact'[t])
  <2>1. CASE t \in Named
    BY <1>2, <1>5, <2>1 DEF Typed
  <2>2. CASE IsLiteral(t, "array") \/ IsLiteral(t, "struct")
    <3>1. t \in Literal /\ t \notin Named
      BY <2>2, LiteralAssumption DEF IsLiteral
    <3>2. /\ IsLiteral(t, "array") =>
               TypedFact(Fact(t, ArraySize(Head(t.parts), 0, fact), fact[Head(t.parts)].cmp, fact))
          /\ \A size \in Nat \cup {Unknown} : TypedFact(Fact(t, size, StructCmp(t, fact), fact))
          /\ StructSize(t, fact) \in Nat \cup {Unknown}
      BY <1>2, <1>5, <2>2, <3>1, ComputedTyped
    <3>3. CASE IsLiteral(t, "array")
      <4>0. ~IsLiteral(t, "struct")
        BY <3>3 DEF IsLiteral
      <4>1. fact'[t] = CompleteArray(t)
        BY <1>4, <3>1, <3>3, <4>0 DEF CompleteFact
      <4>2. fact'[t] = Fact(t, ArraySize(Head(t.parts), 0, fact), fact[Head(t.parts)].cmp, fact)
        BY <4>1 DEF CompleteArray
      <4> QED BY <3>2, <3>3, <4>2
    <3>4. CASE IsLiteral(t, "struct")
      <4>1. ~IsLiteral(t, "array")
        BY <3>4 DEF IsLiteral
      <4>2. fact[t].size \in Nat \cup {Unknown}
        BY <1>2, <1>5 DEF Typed, TypedFact
      <4>3. fact'[t] = CompleteStruct(t)
        BY <1>4, <3>1, <3>4, <4>1 DEF CompleteFact
      <4> DEFINE size == IF fact[t].size = Unknown THEN StructSize(t, fact) ELSE fact[t].size
      <4>4. size \in Nat \cup {Unknown}
        BY <3>2, <4>2
      <4>5. fact'[t] = Fact(t, size, StructCmp(t, fact), fact)
        BY <4>3 DEF CompleteStruct
      <4> HIDE DEF size
      <4> QED BY <3>2, <4>4, <4>5
    <3> QED BY <2>2, <3>3, <3>4
  <2>3. CASE t \notin Named /\ ~IsLiteral(t, "array") /\ ~IsLiteral(t, "struct")
    BY <1>2, <1>5, <2>3 DEF Typed
  <2> QED BY <2>1, <2>2, <2>3
<1>7. Typed(fact')
  BY <1>3, <1>5, <1>6 DEF Typed
<1>8. TypedGraph(fwd') /\ TypedGraph(inv')
  BY <1>1, WithoutTyped DEF TypedState
<1>9. Typed(fact)' /\ TypedGraph(fwd)' /\ TypedGraph(inv)'
  BY <1>7, <1>8 DEF Typed, TypedGraph
<1> QED BY <1>1, <1>9 DEF TypedState

\* Every step, those that panic included, keeps types.
LEMMA NextTyped == TypeGraphInv /\ Sane /\ TypedState /\ [Next]_vars => TypedState'
<1> SUFFICES ASSUME TypeGraphInv, Sane, TypedState, [Next]_vars PROVE TypedState'
  OBVIOUS
<1>1. ASSUME NEW n \in Named, SetUnderlying(n) PROVE TypedState'
  BY <1>1, SetUnderlyingTyped
<1>2. CASE CompleteTypes
  BY <1>2, CompleteTypesTyped
<1>3. ASSUME NEW t \in Types, CompleteOne(t) PROVE TypedState'
  BY <1>3, CompleteOneTyped
<1>4. CASE InvalidRecursiveType
  <2>1. phase' = "panic" /\ fact' = fact /\ fwd' = fwd /\ inv' = inv /\ early' = early
    BY <1>4 DEF InvalidRecursiveType, graphs
  <2> QED BY <2>1 DEF TypedState, Typed, TypedGraph
<1>5. CASE Finish
  <2>1. /\ phase' \in {"idle", "panic"} /\ fwd' = fwd /\ inv' = inv /\ early' = early
        /\ \E S : fact' = [t \in DOMAIN fact |-> IF t \in S THEN [fact[t] EXCEPT !.complete = TRUE] ELSE fact[t]]
    BY <1>5 DEF Finish, graphs
  <2>2. PICK S : fact' = [t \in DOMAIN fact |-> IF t \in S THEN [fact[t] EXCEPT !.complete = TRUE] ELSE fact[t]]
    BY <2>1
  <2>3. Facts(fact) /\ Typed(fact)
    BY DEF TypeGraphInv, Shape, TypedState
  <2>4. /\ DOMAIN fact' = DOMAIN fact
        /\ \A s \in DOMAIN fact : /\ fact'[s].kind = fact[s].kind /\ fact'[s].cmp = fact[s].cmp
                                  /\ fact'[s].size = fact[s].size
                                  /\ s \notin S => fact'[s] = fact[s]
    BY <2>2, <2>3, MarkedFacts
  <2>5. ASSUME NEW s \in DOMAIN fact PROVE fact'[s].complete \in BOOLEAN
    <3>1. CASE s \in S
      <4>1. "complete" \in DOMAIN fact[s]
        <5>1. fact[s] = AsFact(fact[s])
          BY <2>3 DEF Facts
        <5> QED BY <5>1 DEF AsFact
      <4>2. fact'[s].complete = TRUE
        BY <2>2, <3>1, <4>1
      <4> QED BY <4>2
    <3>2. CASE s \notin S
      BY <2>3, <2>4, <3>2 DEF Typed, TypedFact
    <3> QED BY <3>1, <3>2
  <2>6. Typed(fact')
    BY <2>3, <2>4, <2>5 DEF Typed, TypedFact
  <2>7. Typed(fact)' /\ TypedGraph(fwd)' /\ TypedGraph(inv)'
    BY <2>1, <2>6 DEF Typed, TypedFact, TypedGraph, TypedState
  <2> QED BY <2>1, <2>7 DEF TypedState
<1>6. CASE UNCHANGED vars
  BY <1>6 DEF vars, graphs, TypedState, Typed, TypedGraph
<1> QED BY <1>1, <1>2, <1>3, <1>4, <1>5, <1>6 DEF Next

-----------------------------------------------------------------------------
(* Theorems.                                                               *)

\* The declarations, what is known of their types and the graph of what is left to
\* complete belong together, in every state of SetUnderlying() and CompleteTypes().
THEOREM TypeGraphInvariant == Spec => []TypeGraphInv
<1>1. Init => TypeGraphInv
  BY InitInv
<1>2. TypeGraphInv /\ [Next]_vars => TypeGraphInv'
  BY NextInv
<1> QED BY <1>1, <1>2, PTL DEF Spec

\* CompleteTypes() completes a type after all types its size and comparability depend
\* on, for any declarations and any order of the map iteration.
THEOREM DependenciesFirst == Spec => []StrongFirst
<1>1. TypeGraphInv => StrongFirst
  BY DEF TypeGraphInv, Working, StrongFirst
<1> QED BY <1>1, TypeGraphInvariant, PTL

\* CompleteTypes() completes no type twice, and none that is still in its graph: the
\* iterations of complete() are at most as many as the types collected.
CompletedOnce ==
  /\ IsInjective(completed)
  /\ phase = "completing" => Range(completed) \cap DOMAIN fwd = {}

\* Each type is completed once, whatever the edges taken off the graph.
THEOREM EachCompletedOnce == Spec => []CompletedOnce
<1>1. TypeGraphInv => CompletedOnce
  BY DEF TypeGraphInv, Working, NoneTwice, NoneAgain, CompletedOnce, IsInjective, Range
<1> QED BY <1>1, TypeGraphInvariant, PTL

\* From any type, the chain of underlying types has an end within as many steps as there
\* are named types.
ChainsEnd ==
  \A u \in Types : EndOf(u) \in Chain(u) /\ (EndOf(u) \in Named => under[EndOf(u)] = NoType)

\* traverseUnderlyingCheckLoop() ends, whatever was declared, also after a panic: a
\* declaration never closes a chain to a cycle.
THEOREM ChainsAlwaysEnd == Spec => []ChainsEnd
<1>1. TypeGraphInv => ChainsEnd
  BY ChainEnds DEF TypeGraphInv, Shape, ChainsEnd
<1> QED BY <1>1, TypeGraphInvariant, PTL

\* Of a type that CompleteTypes() calls complete, the underlying type is complete and is
\* not itself a named type, while nothing has panicked.
THEOREM CompleteIsDeep == Spec => []CompleteUnder
<1>1. TypeGraphInv => CompleteUnder
  BY DEF TypeGraphInv
<1> QED BY <1>1, TypeGraphInvariant, PTL

\* What types know of themselves is true of them in every state before a panic, for any
\* declarations: this is the invariant that the next two theorems need.
THEOREM SaneInvariant == Spec => []Sane
<1>1. Init => Sane
  BY InitSane
<1>2. TypeGraphInv /\ Sane /\ [Next]_vars => Sane'
  BY NextSane
<1> QED BY <1>1, <1>2, TypeGraphInvariant, PTL DEF Spec

\* Of a type: it is comparable if it believes so, and if it is complete it knows whether
\* it is and no value of it, nor of a type within it, contains itself.
KnowsItself ==
  phase # "panic" =>
    \A t \in DOMAIN fact : /\ fact[t].cmp = "yes" => Comparable(t)
                           /\ fact[t].complete => Founded(t) /\ fact[t].cmp # "unknown"

\* complete() and fillFromUnderlying() never copy a comparability that is wrong, and the
\* loop of CompleteTypes() marks no type complete whose values have no finite size.
THEOREM TypesKnowThemselves == Spec => []KnowsItself
<1>1. Sane => KnowsItself
  BY DEF Sane, Sound, KnowsItself
<1> QED BY <1>1, SaneInvariant, PTL

\* CompleteTypes() never returns with declarations that Go does not allow, for any
\* declarations, any order of SetUnderlying() and any order of the map iteration.
THEOREM RejectsAllInvalid == Spec => []RejectsInvalid
<1>1. TypeGraphInv /\ Sane => RejectsInvalid
  BY CompleteAreValid DEF RejectsInvalid
<1> QED BY <1>1, TypeGraphInvariant, SaneInvariant, PTL

\* Panics of SetUnderlying() and CompleteTypes() have a reason in the declarations, for any
\* declarations without channels, unless one of them used a type too early: this is the
\* invariant that says so, with what it needs of the states before a panic.
THEOREM AcceptingInvariant == Spec => []Accepting
<1>1. Init => Accepting
  BY InitAccepting
<1>2. TypeGraphInv /\ Sane /\ Accepting /\ [Next]_vars => Accepting'
  BY NextAccepting
<1> QED BY <1>1, <1>2, TypeGraphInvariant, SaneInvariant, PTL DEF Spec

\* CompleteTypes() accepts every declaration that Go allows and that is not early, in any
\* order of SetUnderlying() and of the map iteration; channels aside, which it calls not
\* comparable.
THEOREM AcceptsAllValid == Spec => [](NoChannels => AcceptsValid)
<1>1. Accepting => (NoChannels => AcceptsValid)
  BY DEF Accepting, AcceptsValid
<1> QED BY <1>1, AcceptingInvariant, PTL

\* Of a complete type: it knows whether it is comparable, and rightly so.
ComparableRightly ==
  phase # "panic" =>
    \A t \in DOMAIN fact : fact[t].complete => fact[t].cmp = IF Comparable(t) THEN "yes" ELSE "no"

\* What complete types know of their comparability is what Go says of it, also if they
\* were declared early; channels aside.
THEOREM CompleteKnowRightly == Spec => [](NoChannels => ComparableRightly)
<1>1. Sane => (NoChannels => ComparableRightly)
  <2> SUFFICES ASSUME Sane, NoChannels, phase # "panic", NEW t \in DOMAIN fact, fact[t].complete
               PROVE  fact[t].cmp = IF Comparable(t) THEN "yes" ELSE "no"
    BY DEF ComparableRightly
  <2>1. /\ fact[t].cmp \in {"yes", "no"}
        /\ fact[t].cmp = "yes" => Comparable(t)
        /\ fact[t].cmp = "no" => Uncomparable(t)
    BY DEF Sane, Sound
  <2>2. Uncomparable(t) => ~Comparable(t)
    BY DEF NoChannels, Uncomparable, Comparable
  <2> QED BY <2>1, <2>2
<1> QED BY <1>1, SaneInvariant, PTL

\* Sizes are known when they have to be, and are those of what they were computed or copied
\* from, in every state before a panic and for any declarations: the invariant that the
\* next theorem needs.
THEOREM MeasuredInvariant == Spec => []Measured
<1>1. Init => Measured
  BY InitMeasured
<1>2. TypeGraphInv /\ Sane /\ Measured /\ [Next]_vars => Measured'
  BY NextMeasured
<1> QED BY <1>1, <1>2, TypeGraphInvariant, SaneInvariant, PTL DEF Spec

\* What a complete type knows of itself follows from what its parts know, for any
\* declarations, any order of SetUnderlying() and any order of the map iteration, unless a
\* declaration is early; channels aside, which CompleteTypes() calls not comparable.
THEOREM FactsAlwaysAgree == Spec => [](NoChannels => FactsAgree)
<1>1. /\ TypeGraphInv /\ Sane /\ Measured
      /\ NoChannels => ComparableRightly
      => (NoChannels => FactsAgree)
  <2> SUFFICES ASSUME TypeGraphInv, Sane, Measured, ComparableRightly, phase = "idle", ~early,
                      NEW t \in DOMAIN fact \ Basic, fact[t].complete
               PROVE  Agrees(t)
    BY DEF FactsAgree
  <2>1. /\ Sound(fact) /\ CompleteUnder /\ Sized(fact) /\ Copied /\ CompleteSized(fact) /\ CopiesSized
        /\ Types = Named \cup Basic \cup Literal
    BY DEF TypeGraphInv, Sane, Measured, Types
  <2>2. t \in Types /\ (t \notin Named => t \in DOMAIN fact \cap Literal)
    BY <2>1 DEF Sound
  <2>3. fact[t].size # Unknown /\ fact[t].cmp = IF Comparable(t) THEN "yes" ELSE "no"
    BY <2>1 DEF CompleteSized, ComparableRightly
  <2>4. CASE t \in Named
    <3>1. under[t] \notin Named \cup {NoType} /\ t \in Declared
      BY <2>1, <2>4 DEF CompleteUnder, Declared
    <3>2. fact[t].kind = fact[under[t]].kind
      BY <2>1, <2>4, <3>1 DEF Copied
    <3>3. NoArrays(t) => fact[t].size = fact[under[t]].size
      BY <2>1, <3>1 DEF CopiesSized
    <3> QED BY <2>3, <2>4, <3>1, <3>2, <3>3 DEF Agrees
  <2>5. CASE t \notin Named
    <3>1. NoArrays(t) => fact[t].size = New(t, fact).size
      BY <2>1, <2>2, <2>3, <2>5 DEF Sized
    <3> QED BY <2>3, <2>5, <3>1 DEF Agrees
  <2> QED BY <2>4, <2>5
<1> QED BY <1>1, TypeGraphInvariant, SaneInvariant, MeasuredInvariant, CompleteKnowRightly, PTL

\* Type correctness of the types and of typegraph2, also after a panic, which leaves the
\* types of a refused declaration half made.
THEOREM TypeCorrect == Spec => []TypeOK
<1>1. Init => TypedState
  BY InitTyped
<1>2. TypeGraphInv /\ Sane /\ TypedState /\ [Next]_vars => TypedState'
  BY NextTyped
<1>3. TypeGraphInv /\ TypedState /\ CompletedOnce => TypeOK
  <2> SUFFICES ASSUME TypeGraphInv, TypedState, CompletedOnce PROVE TypeOK
    OBVIOUS
  <2> DEFINE Ok == [kind : Kinds \cup {"basic", "invalid"},
                    size : Int, cmp : {"yes", "no", "unknown"}, complete : BOOLEAN]
  <2>1. Shape /\ Typed(fact)
    BY DEF TypeGraphInv, TypedState
  <2>2. ASSUME NEW t \in DOMAIN fact PROVE fact[t] \in Ok
    <3>1. fact[t] = AsFact(fact[t])
      BY <2>1 DEF Shape, Facts
    <3>2. TypedFact(fact[t])
      BY <2>1 DEF Typed
    <3>3. AsFact(fact[t]) \in Ok
      BY <3>2 DEF TypedFact, AsFact, Unknown
    <3> QED BY <3>1, <3>3
  <2> HIDE DEF Ok
  <2>3. fact \in [DOMAIN fact -> Ok]
    <3>1. fact = [t \in DOMAIN fact |-> fact[t]]
      BY <2>1 DEF Shape, Facts
    <3> QED BY <2>2, <3>1
  <2> QED BY <2>1, <2>3 DEF Shape, Typed, TypedState, TypedGraph, CompletedOnce, TypeOK, Ok
<1> QED BY <1>1, <1>2, <1>3, TypeGraphInvariant, SaneInvariant, EachCompletedOnce, PTL DEF Spec
=============================================================================
