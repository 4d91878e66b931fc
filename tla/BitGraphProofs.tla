--------------------------- MODULE BitGraphProofs ---------------------------
(***************************************************************************)
(* Proofs about BitGraph for graphs of any size, words of any width and    *)
(* any number of graphs: the bit matrix and the degree counters of         *)
(* onestl::Graph are the graph that graph.hpp promises.                    *)
(***************************************************************************)
EXTENDS BitGraph, FiniteSetTheorems, WellFoundedInduction, TLAPS

-----------------------------------------------------------------------------
(* Numbers.                                                                *)

\* The naturals are well-founded.
LEMMA MinProperty ==
  ASSUME NEW S \in SUBSET Nat, S # {}
  PROVE  Min(S) \in S /\ \A y \in S : Min(S) <= y
<1> DEFINE R == OpToRel(<, Nat)
<1>1. \A x, y \in Nat : x < y => <<x, y>> \in R
  BY DEF OpToRel
<1>2. IsWellFoundedOn(R, Nat)
  BY NatLessThanWellFounded
<1> HIDE DEF R
<1>3. PICK x \in S : \A y \in S : ~(<<y, x>> \in R)
  BY <1>2, WFMin, Zenon
<1>4. ASSUME NEW y \in S PROVE x <= y
  <2>1. ~(y < x)
    BY <1>1, <1>3
  <2> QED BY <2>1
<1> QED BY <1>4 DEF Min

\* A position is a word and a bit within it.
LEMMA Words ==
  ASSUME NEW m \in Nat
  PROVE  /\ m \div W \in Nat /\ m % W \in 0 .. (W - 1)
         /\ m = W * (m \div W) + (m % W)
<1>1. W \in Nat \ {0}
  BY SizeAssumption
<1> QED BY <1>1

\* Products of naturals grow with their factors.
LEMMA Products ==
  ASSUME NEW a \in Nat, NEW b \in Nat, NEW c \in Nat, a <= b
  PROVE  a * c \in Nat /\ b * c \in Nat /\ a * c <= b * c /\ c * a = a * c /\ c * b = b * c
OBVIOUS

\* RoundUp() is the least multiple of W that is not below its argument.
LEMMA RoundUpFacts ==
  ASSUME NEW m \in Nat
  PROVE  /\ RoundUp(m) \in Nat /\ m <= RoundUp(m) /\ RoundUp(m) % W = 0
         /\ \A cap \in Nat : cap % W = 0 /\ m <= cap => RoundUp(m) <= cap
<1> DEFINE q == (m + W - 1) \div W
           r == (m + W - 1) % W
<1>1. W \in Nat \ {0}
  BY SizeAssumption
<1>2. m + W - 1 \in Nat
  BY <1>1
<1>3. q \in Nat /\ r \in 0 .. (W - 1) /\ m + W - 1 = W * q + r
  BY <1>2, Words
<1>4. RoundUp(m) = W * q
  BY DEF RoundUp
<1> HIDE DEF q, r
<1>5. W * q \in Nat /\ m <= W * q
  BY <1>1, <1>3
<1>6. (W * q) % W = 0
  BY <1>1, <1>3
<1>7. ASSUME NEW cap \in Nat, cap % W = 0, m <= cap PROVE W * q <= cap
  <2> DEFINE c == cap \div W
  <2>1. c \in Nat /\ cap = W * c
    <3>1. cap = W * c + (cap % W) /\ c \in Nat
      BY <1>7, Words
    <3> HIDE DEF c
    <3> QED BY <1>1, <1>7, <3>1
  <2> HIDE DEF c
  <2>2. q <= c
    <3> SUFFICES ASSUME c + 1 <= q PROVE FALSE
      BY <1>3, <2>1
    <3>1. (c + 1) * W <= q * W
      BY <1>1, <1>3, <2>1, Products
    <3> QED BY <1>1, <1>3, <1>7, <2>1, <3>1
  <2> QED BY <1>1, <1>3, <2>1, <2>2, Products
<1> QED BY <1>4, <1>5, <1>6, <1>7

-----------------------------------------------------------------------------
(* BitSet.                                                                 *)

\* The head, the whole words and the tail that fill() writes are the range that
\* it was asked for.
LEMMA FillRangeFacts ==
  ASSUME NEW start \in Nat, NEW end \in Nat, start < end
  PROVE  FillRange(start, end) = start .. (end - 1)
<1> DEFINE s == start \div W
           e == end \div W
           aligned == IF start % W = 0 THEN start ELSE NextWord(start)
<1>1. W \in Nat \ {0}
  BY SizeAssumption
<1>2. /\ s \in Nat /\ e \in Nat /\ start % W \in 0 .. (W - 1) /\ end % W \in 0 .. (W - 1)
      /\ start = W * s + (start % W) /\ end = W * e + (end % W)
  BY Words
<1>3. FillRange(start, end) =
        IF s = e THEN start .. (end - 1)
        ELSE (start .. (aligned - 1)) \cup (aligned .. (W * e - 1)) \cup (W * e .. (end - 1))
  BY DEF FillRange
<1>4. NextWord(start) = W * s + W
  BY DEF NextWord
<1> HIDE DEF s, e
<1>5. CASE s = e
  BY <1>3, <1>5
<1>6. CASE s # e
  <2>1. s + 1 <= e
    <3> SUFFICES ASSUME e + 1 <= s PROVE FALSE
      BY <1>2, <1>6
    <3>1. (e + 1) * W <= s * W
      BY <1>1, <1>2, Products
    <3> QED BY <1>1, <1>2, <3>1
  <2>2. W * s + W <= W * e /\ W * s \in Nat /\ W * e \in Nat
    <3>1. (s + 1) * W <= e * W
      BY <1>1, <1>2, <2>1, Products
    <3> QED BY <1>1, <1>2, <3>1
  <2> DEFINE ws == W * s
             we == W * e
  <2> HIDE DEF ws, we
  <2>3. /\ ws \in Nat /\ we \in Nat /\ ws + W <= we /\ start % W \in 0 .. (W - 1)
        /\ end % W \in 0 .. (W - 1) /\ start = ws + (start % W) /\ end = we + (end % W)
        /\ aligned = IF start % W = 0 THEN start ELSE ws + W
    BY <1>2, <1>4, <2>2 DEF ws, we
  <2> HIDE DEF aligned
  <2>4. aligned \in Nat /\ start <= aligned /\ aligned <= we /\ we <= end
    BY <1>1, <2>3
  <2>5. (start .. (aligned - 1)) \cup (aligned .. (we - 1)) \cup (we .. (end - 1)) = start .. (end - 1)
    BY <2>3, <2>4
  <2> QED BY <1>3, <1>6, <2>5 DEF we
<1> QED BY <1>5, <1>6

\* What the memory of a BitSet may be.
BitsOK(bits) ==
  /\ bits \in Bits
  /\ bits.cap % W = 0 /\ bits.size <= bits.cap
  /\ bits.data \subseteq 0 .. (bits.cap - 1)

Clear(bits, start, end) == Fill(bits, FALSE, start, end)

\* fill(false) clears a range and nothing else.
LEMMA ClearFacts ==
  ASSUME NEW bits, BitsOK(bits), NEW start \in Nat, NEW end \in Nat
  PROVE  /\ BitsOK(Clear(bits, start, end))
         /\ Clear(bits, start, end).size = bits.size
         /\ Clear(bits, start, end).cap = bits.cap
         /\ Clear(bits, start, end).data = bits.data \ (start .. (end - 1))
<1> DEFINE range == IF start < end THEN FillRange(start, end) ELSE {}
           new == Clear(bits, start, end)
<1>1. range = start .. (end - 1)
  <2>1. CASE start < end
    BY <2>1, FillRangeFacts
  <2>2. CASE ~(start < end)
    BY <2>2
  <2> QED BY <2>1, <2>2
<1>2. new = [bits EXCEPT !.data = @ \ range]
  BY DEF Clear, Fill
<1> HIDE DEF range, new
<1>3. bits \in Bits /\ bits.data \ range \in SUBSET Nat
  BY DEF BitsOK, Bits
<1>4. /\ new \in Bits /\ new.size = bits.size /\ new.cap = bits.cap
      /\ new.data = bits.data \ range
  BY <1>2, <1>3 DEF Bits
<1>5. BitsOK(new)
  BY <1>4 DEF BitsOK
<1> QED BY <1>1, <1>4, <1>5 DEF new

\* resize() followed by fill(false), whatever was in the memory.
LEMMA EmptiedBits ==
  ASSUME NEW bits, BitsOK(bits), NEW m \in Nat
  PROVE  /\ BitsOK(Clear(Resize(bits, m), 0, m))
         /\ Clear(Resize(bits, m), 0, m).size = m
         /\ \A i \in 0 .. (m - 1) : i \notin Clear(Resize(bits, m), 0, m).data
<1>1. BitsOK(Resize(bits, m)) /\ Resize(bits, m).size = m
  <2>1. CASE m <= bits.size
    <3>1. Resize(bits, m) = [bits EXCEPT !.size = m]
      BY <2>1 DEF Resize
    <3> QED BY <2>1, <3>1 DEF BitsOK, Bits
  <2>2. CASE ~(m <= bits.size)
    <3> DEFINE doubled == IF bits.cap >= W THEN 2 * bits.cap ELSE W
               least == IF m >= doubled THEN m ELSE doubled
               cap == IF m > bits.cap THEN RoundUp(least) ELSE bits.cap
               grown == [bits EXCEPT !.size = m, !.cap = cap]
               toclear == Low(m, bits.cap)
    <3>1. bits.cap \in Nat /\ bits.size \in Nat /\ bits.cap % W = 0 /\ W \in Nat \ {0}
      BY SizeAssumption DEF BitsOK, Bits
    <3>2. doubled \in Nat
      BY <3>1
    <3>3. least \in Nat /\ m <= least
      <4> HIDE DEF doubled
      <4> QED BY <3>2
    <3> HIDE DEF least
    <3>4. cap \in Nat /\ m <= cap /\ bits.cap <= cap /\ cap % W = 0
      <4>1. CASE m > bits.cap
        <5>1. RoundUp(least) \in Nat /\ least <= RoundUp(least) /\ RoundUp(least) % W = 0
          BY <3>3, RoundUpFacts
        <5> QED BY <3>1, <3>3, <4>1, <5>1
      <4>2. CASE ~(m > bits.cap)
        BY <3>1, <4>2
      <4> QED BY <4>1, <4>2
    <3> HIDE DEF cap
    <3>5. BitsOK(grown) /\ grown.size = m
      <4>1. grown \in Bits /\ grown.size = m /\ grown.cap = cap /\ grown.data = bits.data
        BY <3>4 DEF BitsOK, Bits
      <4>2. \A i \in 0 .. (bits.cap - 1) : i \in 0 .. (cap - 1)
        BY <3>1, <3>4
      <4>3. grown.data \subseteq 0 .. (grown.cap - 1)
        BY <4>1, <4>2 DEF BitsOK
      <4> HIDE DEF grown
      <4> QED BY <3>4, <4>1, <4>3 DEF BitsOK
    <3>6. toclear \in Nat
      BY <3>1 DEF Low
    <3>7. Resize(bits, m) = Clear(grown, bits.size, toclear)
      BY <2>2 DEF Resize, cap, least, Clear
    <3> HIDE DEF grown, toclear
    <3>8. BitsOK(Clear(grown, bits.size, toclear)) /\ Clear(grown, bits.size, toclear).size = m
      <4> DEFINE start == bits.size
      <4>1. start \in Nat
        BY <3>1
      <4> HIDE DEF start
      <4>2. BitsOK(grown)
        BY <3>5
      <4>3. /\ BitsOK(Clear(grown, start, toclear))
            /\ Clear(grown, start, toclear).size = grown.size
        BY <3>6, <4>1, <4>2, ClearFacts
      <4> QED BY <3>5, <4>3 DEF start
    <3> QED BY <3>7, <3>8
  <2> QED BY <2>1, <2>2
<1>2. 0 \in Nat
  OBVIOUS
<1>3. /\ BitsOK(Clear(Resize(bits, m), 0, m))
      /\ Clear(Resize(bits, m), 0, m).size = Resize(bits, m).size
      /\ Clear(Resize(bits, m), 0, m).data = Resize(bits, m).data \ (0 .. (m - 1))
  BY <1>1, <1>2, ClearFacts
<1> QED BY <1>1, <1>3


-----------------------------------------------------------------------------
(* Graph: the memory.                                                      *)

\* The offsets of a matrix are within it, and no two pairs share one.
LEMMA Offsets ==
  ASSUME NEW n \in Nat, NEW a \in 0 .. (n - 1), NEW b \in 0 .. (n - 1),
         NEW c \in 0 .. (n - 1), NEW d \in 0 .. (n - 1)
  PROVE  /\ n * n \in Nat /\ b + a * n \in Nat /\ b + a * n < n * n
         /\ b + a * n = d + c * n => a = c /\ b = d
<1>1. \A x, y \in 0 .. (n - 1) : x < y => x * n \in Nat /\ y * n \in Nat /\ x * n + n <= y * n
  <2>1. TAKE x, y \in 0 .. (n - 1)
  <2>2. HAVE x < y
  <2>3. (x + 1) * n <= y * n /\ (x + 1) * n \in Nat /\ y * n \in Nat
    BY <2>2, Products
  <2>4. (x + 1) * n = x * n + n /\ x * n \in Nat
    OBVIOUS
  <2> QED BY <2>3, <2>4
<1>2. a * n \in Nat /\ c * n \in Nat /\ n * n \in Nat /\ a * n + n <= n * n
  <2>1. (a + 1) * n <= n * n /\ (a + 1) * n \in Nat /\ n * n \in Nat
    BY Products
  <2>2. (a + 1) * n = a * n + n /\ a * n \in Nat /\ c * n \in Nat
    OBVIOUS
  <2> QED BY <2>1, <2>2
<1> DEFINE an == a * n
           cn == c * n
           nn == n * n
<1>3. /\ an \in Nat /\ cn \in Nat /\ nn \in Nat /\ an + n <= nn
      /\ a < c => an + n <= cn
      /\ c < a => cn + n <= an
      /\ a = c => an = cn
  BY <1>1, <1>2
<1> HIDE DEF an, cn, nn
<1>4. nn \in Nat /\ b + an \in Nat /\ b + an < nn
  BY <1>3
<1>5. b + an = d + cn => a = c /\ b = d
  BY <1>3
<1> QED BY <1>4, <1>5 DEF an, cn, nn

\* What is in the matrix at row a and column b.
Edge(gr, a, b) == b + a * gr.n \in gr.bits.data

\* What holds of a Graph whatever its edges and counters are.
GraphOK(gr) ==
  /\ gr \in [n : 0 .. MaxNodes, bits : Bits, degree : UNION {[0 .. n - 1 -> Int] : n \in 0 .. MaxNodes}]
  /\ gr.degree \in [0 .. gr.n - 1 -> Int]
  /\ gr.bits.size = gr.n * gr.n
  /\ BitsOK(gr.bits)

Symmetric(gr) == \A a, b \in 0 .. (gr.n - 1) : Edge(gr, a, b) => Edge(gr, b, a)

\* The adjacency of a graph is what its matrix says of the nodes.
LEMMA AdjacencyFacts ==
  ASSUME NEW gr, GraphOK(gr)
  PROVE  /\ gr.n \in 0 .. MaxNodes /\ gr.n \in Nat
         /\ DOMAIN AdjacencyOf(gr) = 0 .. (gr.n - 1)
         /\ \A a \in 0 .. (gr.n - 1) :
              AdjacencyOf(gr)[a] = {b \in 0 .. (gr.n - 1) : Edge(gr, a, b)}
<1>1. gr.n \in 0 .. MaxNodes /\ gr.n \in Nat
  BY SizeAssumption DEF GraphOK
<1>2. \A a, b \in 0 .. (gr.n - 1) : Bit(gr.bits, b + a * gr.n) <=> Edge(gr, a, b)
  <2>1. TAKE a, b \in 0 .. (gr.n - 1)
  <2>2. b + a * gr.n < gr.n * gr.n
    BY <1>1, Offsets
  <2> QED BY <2>2 DEF Bit, Edge, GraphOK
<1>3. ASSUME NEW a \in 0 .. (gr.n - 1)
      PROVE  AdjacencyOf(gr)[a] = {b \in 0 .. (gr.n - 1) : Edge(gr, a, b)}
  <2>1. AdjacencyOf(gr)[a] = {b \in 0 .. (gr.n - 1) : Bit(gr.bits, b + a * gr.n)}
    BY DEF AdjacencyOf
  <2> QED BY <1>2, <2>1
<1> QED BY <1>1, <1>3 DEF AdjacencyOf

\* Two graphs with the same edges have the same adjacency.
LEMMA SameAdjacency ==
  ASSUME NEW gr, GraphOK(gr), NEW G, DOMAIN G = 0 .. (gr.n - 1), G = [r \in DOMAIN G |-> G[r]],
         \A a \in 0 .. (gr.n - 1) : G[a] \subseteq 0 .. (gr.n - 1),
         \A a, b \in 0 .. (gr.n - 1) : b \in G[a] <=> Edge(gr, a, b)
  PROVE  AdjacencyOf(gr) = G
<1>1. \A a \in 0 .. (gr.n - 1) : AdjacencyOf(gr)[a] = G[a]
  <2>1. TAKE a \in 0 .. (gr.n - 1)
  <2>2. AdjacencyOf(gr)[a] = {b \in 0 .. (gr.n - 1) : Edge(gr, a, b)}
    BY AdjacencyFacts
  <2> QED BY <2>2
<1>2. AdjacencyOf(gr) = [r \in DOMAIN AdjacencyOf(gr) |-> AdjacencyOf(gr)[r]]
  BY DEF AdjacencyOf
<1>3. DOMAIN AdjacencyOf(gr) = DOMAIN G
  BY AdjacencyFacts
<1> QED BY <1>1, <1>2, <1>3

\* set() of a bit in range.
LEMMA SetBitFacts ==
  ASSUME NEW bits, BitsOK(bits), NEW i \in Nat, i < bits.size, NEW value \in BOOLEAN
  PROVE  /\ BitsOK(SetBit(bits, i, value))
         /\ SetBit(bits, i, value).size = bits.size
         /\ \A j : j \in SetBit(bits, i, value).data <=>
                     IF j = i THEN value ELSE j \in bits.data
<1> DEFINE data == IF value THEN bits.data \cup {i} ELSE bits.data \ {i}
           new == [bits EXCEPT !.data = data]
<1>1. bits.size \in Nat /\ bits.cap \in Nat /\ bits.data \subseteq Nat /\ bits.size <= bits.cap
  BY DEF BitsOK, Bits
<1>2. SetBit(bits, i, value) = new
  BY <1>1 DEF SetBit
<1>3. data \subseteq 0 .. (bits.cap - 1) /\ data \in SUBSET Nat
  BY <1>1 DEF BitsOK
<1>4. \A j : j \in data <=> IF j = i THEN value ELSE j \in bits.data
  OBVIOUS
<1> HIDE DEF data
<1>5. new \in Bits /\ new.data = data /\ new.size = bits.size /\ new.cap = bits.cap
  BY <1>3 DEF BitsOK, Bits
<1> HIDE DEF new
<1>6. BitsOK(new)
  BY <1>3, <1>5 DEF BitsOK
<1> QED BY <1>2, <1>4, <1>5, <1>6

-----------------------------------------------------------------------------
(* Graph::set().                                                           *)

\* By how much set() changes the counters.
Change(gr, a, b, value) ==
  (IF value THEN 1 ELSE 0) - (IF Edge(gr, a, b) THEN 1 ELSE 0)

\* set() of two nodes in bounds writes the edge in both directions, and its
\* counters change by the difference, twice if the nodes are the same.
LEMMA PutFacts ==
  ASSUME NEW gr, GraphOK(gr), Symmetric(gr), NEW a \in 0 .. (gr.n - 1),
         NEW b \in 0 .. (gr.n - 1), NEW value \in BOOLEAN
  PROVE  /\ GraphOK(Put(gr, a, b, value))
         /\ Put(gr, a, b, value).n = gr.n
         /\ \A c, d \in 0 .. (gr.n - 1) :
              Edge(Put(gr, a, b, value), c, d) <=>
                IF (c = a /\ d = b) \/ (c = b /\ d = a) THEN value ELSE Edge(gr, c, d)
         /\ \A c \in 0 .. (gr.n - 1) :
              Put(gr, a, b, value).degree[c] =
                gr.degree[c] + (IF c = a THEN Change(gr, a, b, value) ELSE 0)
                             + (IF c = b THEN Change(gr, a, b, value) ELSE 0)
<1> DEFINE n == gr.n
           hi == IF a < b THEN b ELSE a
           lo == IF a < b THEN a ELSE b
           off == hi + lo * n
           off2 == lo + hi * n
           delta == Change(gr, a, b, value)
           one == SetBit(gr.bits, off, value)
           both == IF a # b THEN SetBit(one, off2, value) ELSE one
           new == Put(gr, a, b, value)
<1>1. n \in Nat /\ a \in 0 .. (n - 1) /\ b \in 0 .. (n - 1)
  BY AdjacencyFacts
<1>2. /\ hi \in 0 .. (n - 1) /\ lo \in 0 .. (n - 1) /\ hi < n
      /\ (a = hi /\ b = lo) \/ (a = lo /\ b = hi)
  BY <1>1
<1> HIDE DEF n, hi, lo
<1>3. /\ off \in Nat /\ off2 \in Nat /\ n * n \in Nat /\ off < n * n /\ off2 < n * n
  BY <1>1, <1>2, Offsets
<1>4. /\ Edge(gr, lo, hi) <=> off \in gr.bits.data
      /\ Edge(gr, a, b) <=> Edge(gr, lo, hi)
  <2>1. Edge(gr, lo, hi) <=> off \in gr.bits.data
    BY DEF Edge, n
  <2>2. Edge(gr, hi, lo) <=> Edge(gr, lo, hi)
    BY <1>2 DEF Symmetric, n
  <2> QED BY <1>2, <2>1, <2>2
<1>5. gr.bits.size = n * n /\ BitsOK(gr.bits)
  BY DEF GraphOK, n
<1>6. delta = (IF value THEN 1 ELSE 0) - (IF Bit(gr.bits, off) THEN 1 ELSE 0) /\ delta \in Int
  BY <1>3, <1>4, <1>5 DEF Change, Bit
<1>7. new = IF delta = 0 THEN gr
            ELSE [gr EXCEPT !.degree[hi] = @ + delta, !.degree[lo] = @ + delta, !.bits = both]
  <2> DEFINE delta2 == (IF value THEN 1 ELSE 0) - (IF Bit(gr.bits, off) THEN 1 ELSE 0)
  <2>1. new = IF hi >= n \/ delta2 = 0 THEN gr
              ELSE [gr EXCEPT !.degree[hi] = @ + delta2, !.degree[lo] = @ + delta2, !.bits = both]
    BY DEF Put, n, hi, lo
  <2>2. ~(hi >= n)
    BY <1>1, <1>2
  <2>3. delta2 = delta
    BY <1>6
  <2> HIDE DEF delta2, delta, new, both
  <2> QED BY <2>1, <2>2, <2>3
<1>8. CASE delta = 0
  <2>1. new = gr
    BY <1>7, <1>8
  <2>2. Edge(gr, a, b) <=> value
    BY <1>8 DEF Change
  <2>3. \A c, d \in 0 .. (n - 1) :
          Edge(gr, c, d) <=> IF (c = a /\ d = b) \/ (c = b /\ d = a) THEN value ELSE Edge(gr, c, d)
    BY <2>2, <1>1 DEF Symmetric, n
  <2>4. \A c \in 0 .. (n - 1) : gr.degree[c] \in Int
    BY DEF GraphOK, n
  <2>5. \A c \in 0 .. (n - 1) : gr.degree[c] =
          gr.degree[c] + (IF c = a THEN delta ELSE 0) + (IF c = b THEN delta ELSE 0)
    <3> HIDE DEF delta
    <3> QED BY <1>8, <2>4
  <2> HIDE DEF delta, new
  <2>6. GraphOK(new) /\ new.n = gr.n
    BY <2>1
  <2> QED BY <2>1, <2>3, <2>5, <2>6 DEF delta, new, n
<1>9. CASE delta # 0
  <2>1. /\ BitsOK(one) /\ one.size = n * n
        /\ \A j : j \in one.data <=> IF j = off THEN value ELSE j \in gr.bits.data
    BY <1>3, <1>5, SetBitFacts
  <2> HIDE DEF one
  <2>2. /\ BitsOK(both) /\ both.size = n * n
        /\ \A j : j \in both.data <=> IF j = off \/ j = off2 THEN value ELSE j \in gr.bits.data
    <3>1. CASE a # b
      <4>1. /\ BitsOK(SetBit(one, off2, value)) /\ SetBit(one, off2, value).size = one.size
            /\ \A j : j \in SetBit(one, off2, value).data <=>
                        IF j = off2 THEN value ELSE j \in one.data
        BY <1>3, <2>1, SetBitFacts
      <4> HIDE DEF off, off2
      <4> QED BY <2>1, <3>1, <4>1
    <3>2. CASE a = b
      <4>1. off = off2
        BY <1>2, <3>2
      <4> HIDE DEF off, off2
      <4> QED BY <2>1, <3>2, <4>1
    <3> QED BY <3>1, <3>2
  <2> HIDE DEF both, delta
  <2>3. new = [gr EXCEPT !.degree[hi] = @ + delta, !.degree[lo] = @ + delta, !.bits = both]
    BY <1>7, <1>9
  <2> HIDE DEF new
  <2> DEFINE degree == [gr.degree EXCEPT ![hi] = @ + delta, ![lo] = @ + delta]
  <2>4. gr.degree \in [0 .. n - 1 -> Int] /\ gr.n = n
    BY DEF GraphOK, n
  <2>5. /\ degree \in [0 .. n - 1 -> Int]
        /\ \A c \in 0 .. (n - 1) : degree[c] =
             gr.degree[c] + (IF c = a THEN delta ELSE 0) + (IF c = b THEN delta ELSE 0)
    <3> DEFINE old == gr.degree
               first == [old EXCEPT ![hi] = @ + delta]
    <3>1. delta \in Int /\ old \in [0 .. n - 1 -> Int]
      BY <1>6, <2>4 DEF delta
    <3>2. degree = [first EXCEPT ![lo] = @ + delta]
      OBVIOUS
    <3> HIDE DEF old, degree
    <3>3. /\ first \in [0 .. n - 1 -> Int]
          /\ \A c \in 0 .. (n - 1) : first[c] = old[c] + (IF c = hi THEN delta ELSE 0)
      BY <1>2, <3>1
    <3> HIDE DEF first
    <3>4. /\ degree \in [0 .. n - 1 -> Int]
          /\ \A c \in 0 .. (n - 1) : degree[c] = first[c] + (IF c = lo THEN delta ELSE 0)
      BY <1>2, <3>1, <3>2, <3>3
    <3>5. ASSUME NEW c \in 0 .. (n - 1)
          PROVE  degree[c] = old[c] + (IF c = a THEN delta ELSE 0) + (IF c = b THEN delta ELSE 0)
      <4>1. /\ old[c] \in Int
            /\ first[c] = old[c] + (IF c = hi THEN delta ELSE 0)
            /\ degree[c] = first[c] + (IF c = lo THEN delta ELSE 0)
        BY <3>1, <3>3, <3>4
      <4> QED BY <1>2, <3>1, <4>1
    <3> QED BY <3>4, <3>5 DEF old
  <2>6. new = [gr EXCEPT !.degree = degree, !.bits = both]
    BY <2>3
  <2> HIDE DEF degree
  <2>7. /\ new \in [n : 0 .. MaxNodes, bits : Bits, degree : UNION {[0 .. m - 1 -> Int] : m \in 0 .. MaxNodes}]
        /\ new.n = n /\ new.bits = both /\ new.degree = degree
    <3>1. both \in Bits
      BY <2>2 DEF BitsOK
    <3>2. n \in 0 .. MaxNodes
      BY AdjacencyFacts DEF n
    <3>3. degree \in UNION {[0 .. m - 1 -> Int] : m \in 0 .. MaxNodes}
      BY <2>5, <3>2
    <3> QED BY <2>6, <3>1, <3>3, <2>4 DEF GraphOK
  <2>8. GraphOK(new)
    BY <2>2, <2>5, <2>7 DEF GraphOK
  <2>9. ASSUME NEW c \in 0 .. (n - 1), NEW d \in 0 .. (n - 1)
        PROVE  Edge(new, c, d) <=>
                 IF (c = a /\ d = b) \/ (c = b /\ d = a) THEN value ELSE Edge(gr, c, d)
    <3>1. Edge(new, c, d) <=> d + c * n \in both.data
      BY <2>7 DEF Edge
    <3>2. Edge(gr, c, d) <=> d + c * n \in gr.bits.data
      BY <2>4 DEF Edge
    <3>3. /\ d + c * n = off <=> c = lo /\ d = hi
          /\ d + c * n = off2 <=> c = hi /\ d = lo
      BY <1>1, <1>2, Offsets
    <3> DEFINE e == d + c * n
    <3> HIDE DEF e, off, off2
    <3>4. /\ Edge(new, c, d) <=> e \in both.data
          /\ Edge(gr, c, d) <=> e \in gr.bits.data
          /\ e = off <=> c = lo /\ d = hi
          /\ e = off2 <=> c = hi /\ d = lo
      BY <3>1, <3>2, <3>3 DEF e
    <3> QED BY <1>2, <2>2, <3>4
  <2> QED BY <2>5, <2>7, <2>8, <2>9 DEF new, delta, n
<1> QED BY <1>6, <1>8, <1>9

\* The counters count the edges, and every edge is there in both directions.
Agree(gr) ==
  /\ Symmetric(gr)
  /\ \A a \in 0 .. (gr.n - 1) : gr.degree[a] = Degree(AdjacencyOf(gr), a)

\* The neighbours of a node are a finite set.
LEMMA NeighboursAreFinite ==
  ASSUME NEW gr, GraphOK(gr), NEW c \in 0 .. (gr.n - 1)
  PROVE  /\ IsFiniteSet(AdjacencyOf(gr)[c])
         /\ Cardinality(AdjacencyOf(gr)[c]) \in 0 .. gr.n
<1>1. gr.n \in Nat /\ AdjacencyOf(gr)[c] \subseteq 0 .. (gr.n - 1)
  BY AdjacencyFacts
<1>2. IsFiniteSet(0 .. (gr.n - 1)) /\ Cardinality(0 .. (gr.n - 1)) = gr.n
  <2>1. 0 \in Int /\ gr.n - 1 \in Int
    BY <1>1
  <2>2. /\ IsFiniteSet(0 .. (gr.n - 1))
        /\ Cardinality(0 .. (gr.n - 1)) = IF 0 > gr.n - 1 THEN 0 ELSE gr.n - 1 - 0 + 1
    BY <2>1, FS_Interval
  <2> QED BY <1>1, <2>2
<1>3. /\ IsFiniteSet(AdjacencyOf(gr)[c])
      /\ Cardinality(AdjacencyOf(gr)[c]) <= gr.n
  BY <1>1, <1>2, FS_Subset
<1> QED BY <1>1, <1>3, FS_CardinalityType

\* set() of two nodes in bounds is SetEdge, and the counters still count.
LEMMA PutAgrees ==
  ASSUME NEW gr, GraphOK(gr), Agree(gr), NEW a \in 0 .. (gr.n - 1),
         NEW b \in 0 .. (gr.n - 1), NEW value \in BOOLEAN
  PROVE  /\ AdjacencyOf(Put(gr, a, b, value)) = SetEdge(AdjacencyOf(gr), a, b, value)
         /\ Agree(Put(gr, a, b, value))
<1> DEFINE n == gr.n
           new == Put(gr, a, b, value)
           adj == AdjacencyOf(gr)
           delta == Change(gr, a, b, value)
           hit(c, d) == (c = a /\ d = b) \/ (c = b /\ d = a)
<1>1. n \in Nat /\ a \in 0 .. (n - 1) /\ b \in 0 .. (n - 1)
  BY AdjacencyFacts
<1>2. /\ GraphOK(new) /\ new.n = n
      /\ \A c, d \in 0 .. (n - 1) : Edge(new, c, d) <=> IF hit(c, d) THEN value ELSE Edge(gr, c, d)
      /\ \A c \in 0 .. (n - 1) :
           new.degree[c] = gr.degree[c] + (IF c = a THEN delta ELSE 0) + (IF c = b THEN delta ELSE 0)
  BY PutFacts DEF Agree
<1> HIDE DEF new
<1>3. /\ DOMAIN adj = 0 .. (n - 1)
      /\ \A c \in 0 .. (n - 1) : adj[c] = {d \in 0 .. (n - 1) : Edge(gr, c, d)}
  BY AdjacencyFacts
<1>4. /\ DOMAIN AdjacencyOf(new) = 0 .. (n - 1)
      /\ \A c \in 0 .. (n - 1) : AdjacencyOf(new)[c] = {d \in 0 .. (n - 1) : Edge(new, c, d)}
  BY <1>2, AdjacencyFacts
<1>5. Symmetric(new)
  BY <1>2 DEF Agree, Symmetric
<1>6. AdjacencyOf(new) = SetEdge(adj, a, b, value)
  <2> DEFINE ends(r) == (IF r = a THEN {b} ELSE {}) \cup (IF r = b THEN {a} ELSE {})
             G == [r \in DOMAIN adj |-> IF value THEN adj[r] \cup ends(r) ELSE adj[r] \ ends(r)]
  <2>1. SetEdge(adj, a, b, value) = G
    BY DEF SetEdge
  <2> HIDE DEF adj
  <2>2. DOMAIN G = 0 .. (n - 1) /\ G = [r \in DOMAIN G |-> G[r]]
    BY <1>3
  <2>3. \A c, d \in 0 .. (n - 1) : d \in G[c] <=> Edge(new, c, d)
    <3>1. TAKE c, d \in 0 .. (n - 1)
    <3>2. G[c] = IF value THEN adj[c] \cup ends(c) ELSE adj[c] \ ends(c)
      BY <1>3
    <3>3. d \in ends(c) <=> hit(c, d)
      OBVIOUS
    <3>4. d \in adj[c] <=> Edge(gr, c, d)
      BY <1>3
    <3> HIDE DEF ends, G, hit
    <3> QED BY <1>2, <3>2, <3>3, <3>4
  <2>4. \A c \in 0 .. (n - 1) : G[c] \subseteq 0 .. (n - 1)
    BY <1>1, <1>3
  <2> HIDE DEF G
  <2>5. AdjacencyOf(new) = G
    BY <1>2, <2>2, <2>3, <2>4, SameAdjacency
  <2> QED BY <2>1, <2>5
<1>7. ASSUME NEW c \in 0 .. (n - 1)
      PROVE  new.degree[c] = Degree(AdjacencyOf(new), c)
  <2> DEFINE S == adj[c]
             T == AdjacencyOf(new)[c]
  <2>1. IsFiniteSet(S) /\ Cardinality(S) \in Nat
    BY NeighboursAreFinite, <1>1
  <2>2. gr.degree[c] = Cardinality(S) + (IF c \in S THEN 1 ELSE 0)
    BY DEF Agree, Degree
  <2>3. Degree(AdjacencyOf(new), c) = Cardinality(T) + (IF c \in T THEN 1 ELSE 0)
    BY DEF Degree
  <2>4. \A d : d \in S <=> d \in 0 .. (n - 1) /\ Edge(gr, c, d)
    BY <1>3
  <2>5. \A d : d \in T <=> d \in 0 .. (n - 1) /\ IF hit(c, d) THEN value ELSE Edge(gr, c, d)
    BY <1>2, <1>4
  <2>6. delta = (IF value THEN 1 ELSE 0) - (IF Edge(gr, a, b) THEN 1 ELSE 0) /\ delta \in Int
    BY DEF Change
  <2>7. CASE c # a /\ c # b
    <3>1. T = S
      <4> HIDE DEF S, T
      <4> QED BY <2>4, <2>5, <2>7
    <3> QED BY <1>2, <2>1, <2>2, <2>3, <2>7, <3>1
  <2>8. CASE c = a \/ c = b
    <3> DEFINE d == IF c = a THEN b ELSE a
    <3>1. d \in 0 .. (n - 1) /\ (Edge(gr, c, d) <=> Edge(gr, a, b))
      BY <1>1, <2>8 DEF Agree, Symmetric
    <3>2. \A e : hit(c, e) <=> e = d
      BY <2>8
    <3>3. T = IF value THEN S \cup {d} ELSE S \ {d}
      <4> HIDE DEF S, T, d, hit
      <4> QED BY <2>4, <2>5, <3>1, <3>2
    <3>4. d \in S <=> Edge(gr, a, b)
      BY <2>4, <3>1
    <3>5. d = c <=> a = b
      BY <2>8
    <3>6. /\ IsFiniteSet(S \cup {d}) /\ IsFiniteSet(S \ {d})
          /\ Cardinality(S \cup {d}) = IF d \in S THEN Cardinality(S) ELSE Cardinality(S) + 1
          /\ Cardinality(S \ {d}) = IF d \in S THEN Cardinality(S) - 1 ELSE Cardinality(S)
      BY <2>1, FS_AddElement, FS_RemoveElement
    <3> HIDE DEF S, T, d, hit, delta
    <3>7. Cardinality(T) = Cardinality(S) + delta
      BY <2>1, <2>6, <3>3, <3>4, <3>6
    <3>8. (IF c \in T THEN 1 ELSE 0) = (IF c \in S THEN 1 ELSE 0) + (IF a = b THEN delta ELSE 0)
      <4>1. CASE a = b
        <5>1. c \in T <=> value
          BY <3>3, <3>5, <4>1
        <5>2. c \in S <=> Edge(gr, a, b)
          BY <3>4, <3>5, <4>1
        <5> QED BY <2>6, <4>1, <5>1, <5>2
      <4>2. CASE a # b
        <5>1. c \in T <=> c \in S
          BY <3>3, <3>5, <4>2
        <5> QED BY <4>2, <5>1
      <4> QED BY <4>1, <4>2
    <3>9. new.degree[c] = gr.degree[c] + (IF c = a THEN delta ELSE 0) + (IF c = b THEN delta ELSE 0)
      BY <1>2
    <3> DEFINE self == IF c \in S THEN 1 ELSE 0
               self2 == IF c \in T THEN 1 ELSE 0
    <3>10. self \in Int /\ self2 \in Int
      OBVIOUS
    <3>11. gr.degree[c] = Cardinality(S) + self /\ self2 = self + (IF a = b THEN delta ELSE 0)
      BY <2>2, <3>8
    <3>12. Degree(AdjacencyOf(new), c) = Cardinality(T) + self2
      BY <2>3
    <3> HIDE DEF self, self2
    <3> QED BY <2>1, <2>6, <2>8, <3>7, <3>9, <3>10, <3>11, <3>12
  <2> QED BY <2>7, <2>8
<1> QED BY <1>2, <1>5, <1>6, <1>7 DEF Agree, new

\* Out of bounds, set() does nothing.
LEMMA PutOutside ==
  ASSUME NEW gr, GraphOK(gr), NEW a \in Nat, NEW b \in Nat, NEW value, gr.n <= a \/ gr.n <= b
  PROVE  Put(gr, a, b, value) = gr
<1>1. gr.n \in Nat
  BY AdjacencyFacts
<1>2. (IF a < b THEN b ELSE a) >= gr.n
  BY <1>1
<1> QED BY <1>2 DEF Put

-----------------------------------------------------------------------------
(* Graph::first_set().                                                     *)

\* The next neighbour of a node, from a node on.
IsFirst(gr, node, first, c) ==
  IF \E d \in first .. (gr.n - 1) : Edge(gr, node, d)
  THEN /\ c \in first .. (gr.n - 1) /\ Edge(gr, node, c)
       /\ \A d \in first .. (gr.n - 1) : Edge(gr, node, d) => c <= d
  ELSE c = NoPos

\* first_set() finds it, whatever the words hold after the row.
LEMMA FirstSetFacts ==
  ASSUME NEW gr, GraphOK(gr), Agree(gr), NEW node \in 0 .. (gr.n - 1), NEW first \in 0 .. (gr.n - 1)
  PROVE  /\ IsFirst(gr, node, first, FirstSet(gr, node, first))
         /\ (\E d \in 0 .. (gr.n - 1) : Edge(gr, node, d)) => gr.degree[node] > 0
<1> DEFINE n == gr.n
           row == node * n
           cap == gr.bits.cap
           data == gr.bits.data
           found == {i \in row + first .. cap - 1 : i \in data}
           offset == Find(gr.bits, TRUE, row + first, row + n)
<1>1. n \in Nat /\ node \in 0 .. (n - 1) /\ first \in 0 .. (n - 1)
  BY AdjacencyFacts
<1>2. (\E d \in 0 .. (n - 1) : Edge(gr, node, d)) => gr.degree[node] > 0
  <2> SUFFICES ASSUME NEW d \in 0 .. (n - 1), Edge(gr, node, d) PROVE gr.degree[node] > 0
    OBVIOUS
  <2> DEFINE S == AdjacencyOf(gr)[node]
  <2>1. d \in S
    BY AdjacencyFacts
  <2>2. gr.degree[node] = Cardinality(S) + (IF node \in S THEN 1 ELSE 0)
    BY DEF Agree, Degree
  <2>3. IsFiniteSet(S) /\ Cardinality(S) \in 0 .. n
    BY NeighboursAreFinite
  <2> HIDE DEF S
  <2>4. Cardinality(S) # 0
    BY <2>1, <2>3, FS_EmptySet
  <2> QED BY <1>1, <2>2, <2>3, <2>4
<1>3. /\ cap \in Nat /\ gr.bits.size = n * n /\ n * n <= cap /\ data \subseteq 0 .. (cap - 1)
  BY DEF GraphOK, BitsOK, Bits
<1>4. row \in Nat /\ n * n \in Nat /\ row + n <= n * n
  <2>1. (node + 1) * n <= n * n /\ (node + 1) * n \in Nat /\ n * n \in Nat
    BY <1>1, Products
  <2>2. (node + 1) * n = node * n + n /\ node * n \in Nat
    BY <1>1
  <2> QED BY <2>1, <2>2
<1>5. \A d \in 0 .. (n - 1) : Edge(gr, node, d) <=> d + row \in data
  BY DEF Edge
<1> HIDE DEF row, cap, data, n
<1>6. Low(row + n, gr.bits.size) = row + n
  <2> DEFINE nn == n * n
  <2>1. nn \in Nat /\ row + n <= nn /\ gr.bits.size = nn
    BY <1>3, <1>4
  <2> HIDE DEF nn
  <2> QED BY <1>1, <1>4, <2>1 DEF Low
<1>7. offset = IF found # {} /\ Min(found) < row + n THEN Min(found) ELSE NoPos
  <2>1. offset = IF row + first < row + n /\ found # {} /\ Min(found) < row + n
                 THEN Min(found) ELSE NoPos
    BY <1>6 DEF Find, data, cap
  <2>2. row + first < row + n
    BY <1>1, <1>4
  <2> QED BY <2>1, <2>2
<1>8. FirstSet(gr, node, first) =
        IF gr.degree[node] = 0 \/ offset = NoPos THEN NoPos ELSE offset - row
  <2>1. ~(first >= n) /\ ~(node >= n)
    BY <1>1
  <2> QED BY <2>1 DEF FirstSet, n, row
<1> HIDE DEF offset
<1>9. found \subseteq Nat /\ \A d \in first .. (n - 1) : Edge(gr, node, d) <=> d + row \in found
  <2>1. found \subseteq Nat
    BY <1>1, <1>3, <1>4
  <2>2. ASSUME NEW d \in first .. (n - 1) PROVE Edge(gr, node, d) <=> d + row \in found
    <3>1. d \in 0 .. (n - 1) /\ d + row >= row + first
      BY <1>1, <1>4
    <3>2. Edge(gr, node, d) <=> d + row \in data
      BY <1>5, <3>1
    <3>3. d + row \in data => d + row \in row + first .. cap - 1
      BY <1>1, <1>3, <1>4, <3>1
    <3> QED BY <3>2, <3>3
  <2> QED BY <2>1, <2>2
<1>10. \A i \in found : row + first <= i
  BY <1>1, <1>3, <1>4
<1> HIDE DEF found
<1>11. CASE \E d \in first .. (n - 1) : Edge(gr, node, d)
  <2>1. PICK d \in first .. (n - 1) : Edge(gr, node, d)
    BY <1>11
  <2>2. d + row \in found /\ d \in 0 .. (n - 1)
    BY <1>1, <1>9, <2>1
  <2> DEFINE min == Min(found)
  <2>3. min \in found /\ \A i \in found : min <= i
    BY <1>9, <2>2, MinProperty
  <2> HIDE DEF min
  <2>4. min \in Nat /\ row + first <= min /\ min <= d + row
    BY <1>9, <1>10, <2>2, <2>3
  <2>5. offset = min
    BY <1>1, <1>4, <1>7, <2>2, <2>4 DEF min
  <2>6. gr.degree[node] # 0
    <3>1. gr.degree[node] \in Int
      BY DEF GraphOK, n
    <3> QED BY <1>2, <2>1, <2>2, <3>1
  <2>7. FirstSet(gr, node, first) = min - row
    BY <1>8, <2>4, <2>5, <2>6 DEF NoPos
  <2> DEFINE c == min - row
  <2>8. c \in first .. (n - 1) /\ c + row = min
    BY <1>1, <1>4, <2>2, <2>4
  <2> HIDE DEF c
  <2>9. Edge(gr, node, c)
    BY <1>9, <2>3, <2>8
  <2>10. ASSUME NEW e \in first .. (n - 1), Edge(gr, node, e) PROVE c <= e
    <3>1. min <= e + row
      BY <1>9, <2>3, <2>10
    <3> QED BY <1>1, <1>4, <2>8, <3>1
  <2> QED BY <1>2, <1>11, <2>7, <2>8, <2>9, <2>10 DEF IsFirst, c, n
<1>12. CASE ~ \E d \in first .. (n - 1) : Edge(gr, node, d)
  <2>1. offset = NoPos
    <3> SUFFICES ASSUME found # {}, Min(found) < row + n PROVE FALSE
      BY <1>7
    <3> DEFINE min == Min(found)
               d == min - row
    <3>1. min \in found
      BY <1>9, MinProperty
    <3>2. min < row + n
      OBVIOUS
    <3> HIDE DEF min
    <3>3. min \in Nat /\ row + first <= min
      BY <1>9, <1>10, <3>1
    <3>4. d \in first .. (n - 1) /\ d + row = min
      BY <1>1, <1>4, <3>2, <3>3
    <3> QED BY <1>9, <1>12, <3>1, <3>4
  <2>2. FirstSet(gr, node, first) = NoPos
    BY <1>8, <2>1
  <2> QED BY <1>2, <1>12, <2>2 DEF IsFirst, n
<1> QED BY <1>11, <1>12

-----------------------------------------------------------------------------
(* Graph::remove().                                                        *)

\* Whether f is what the loop of remove() has done at its first steps.
FirstSteps(f, gr, node, deg, k) ==
  f = [i \in 0 .. k |-> IF i = 0 THEN [gr |-> gr, deg |-> deg]
                        ELSE RemoveOne(f[i - 1], node, i - 1)]

\* The loop of remove() does one step after another: no first step is missing.
LEMMA RemovalSteps ==
  ASSUME NEW gr, gr.n \in Nat, NEW node, NEW deg
  PROVE  FirstSteps(Removal(gr, node, deg), gr, node, deg, gr.n)
<1> DEFINE Done(k) == \E f : FirstSteps(f, gr, node, deg, k)
           missing == {k \in Nat : ~Done(k)}
<1>1. missing = {}
  <2> SUFFICES ASSUME missing # {} PROVE FALSE
    OBVIOUS
  <2> DEFINE k == Min(missing)
  <2>1. missing \subseteq Nat
    OBVIOUS
  <2>2. k \in missing /\ \A j \in missing : k <= j
    <3> HIDE DEF missing
    <3> QED BY <2>1, MinProperty
  <2> HIDE DEF k
  <2>3. Done(0)
    <3> DEFINE f == [i \in 0 .. 0 |-> [gr |-> gr, deg |-> deg]]
    <3>1. FirstSteps(f, gr, node, deg, 0)
      BY DEF FirstSteps
    <3> QED BY <3>1
  <2>4. k \in Nat /\ k # 0 /\ ~Done(k)
    BY <2>2, <2>3
  <2>5. k - 1 \in Nat /\ Done(k - 1)
    <3>1. k - 1 \in Nat /\ ~(k <= k - 1)
      BY <2>4
    <3> QED BY <2>2, <3>1
  <2>6. PICK f : FirstSteps(f, gr, node, deg, k - 1)
    BY <2>5
  <2> DEFINE more == [i \in 0 .. k |-> IF i = 0 THEN [gr |-> gr, deg |-> deg]
                                       ELSE RemoveOne(f[i - 1], node, i - 1)]
             again == [i \in 0 .. k |-> IF i = 0 THEN [gr |-> gr, deg |-> deg]
                                        ELSE RemoveOne(more[i - 1], node, i - 1)]
  <2>7. \A i \in 0 .. (k - 1) : more[i] = f[i]
    <3>1. TAKE i \in 0 .. (k - 1)
    <3>2. f[i] = IF i = 0 THEN [gr |-> gr, deg |-> deg] ELSE RemoveOne(f[i - 1], node, i - 1)
      <4> DEFINE step(h) == [j \in 0 .. (k - 1) |-> IF j = 0 THEN [gr |-> gr, deg |-> deg]
                                                    ELSE RemoveOne(h[j - 1], node, j - 1)]
      <4>1. f = step(f)
        BY <2>6 DEF FirstSteps
      <4>2. step(f)[i] = IF i = 0 THEN [gr |-> gr, deg |-> deg] ELSE RemoveOne(f[i - 1], node, i - 1)
        OBVIOUS
      <4> HIDE DEF step
      <4> QED BY <4>1, <4>2
    <3>3. i \in 0 .. k
      BY <2>4
    <3> QED BY <3>2, <3>3
  <2>8. \A i \in 0 .. k : more[i] = again[i]
    <3>1. TAKE i \in 0 .. k
    <3>2. CASE i = 0
      BY <3>2
    <3>3. CASE i # 0
      <4>1. i - 1 \in 0 .. (k - 1)
        BY <2>4, <3>3
      <4>2. more[i - 1] = f[i - 1]
        BY <2>7, <4>1
      <4> QED BY <3>3, <4>2
    <3> QED BY <3>2, <3>3
  <2>9. more = again
    BY <2>8
  <2>10. FirstSteps(more, gr, node, deg, k)
    BY <2>9 DEF FirstSteps
  <2> QED BY <2>4, <2>10
<1>2. PICK f : FirstSteps(f, gr, node, deg, gr.n)
  BY <1>1
<1>3. Removal(gr, node, deg) = CHOOSE h : FirstSteps(h, gr, node, deg, gr.n)
  BY DEF Removal, FirstSteps
<1> QED BY <1>2, <1>3

\* What the loop of remove() has left before a node: the edges to the nodes it
\* has not passed.
Passed(gr, acc, node, i) ==
  /\ GraphOK(acc.gr) /\ Agree(acc.gr) /\ acc.gr.n = gr.n
  /\ acc.deg \in Int /\ acc.gr.degree[node] <= acc.deg
  /\ \A c, d \in 0 .. (gr.n - 1) :
       Edge(acc.gr, c, d) <=> /\ Edge(gr, c, d)
                              /\ ~(c = node /\ d < i) /\ ~(d = node /\ c < i)

\* A step of the loop removes the edge to the node that it passes.
LEMMA PassNode ==
  ASSUME NEW gr, GraphOK(gr), Agree(gr), NEW node \in 0 .. (gr.n - 1),
         NEW i \in 0 .. (gr.n - 1), NEW acc, Passed(gr, acc, node, i)
  PROVE  Passed(gr, RemoveOne(acc, node, i), node, i + 1)
<1> DEFINE n == gr.n
           old == acc.gr
           next == FirstSet(old, node, i)
<1>1. n \in Nat /\ node \in 0 .. (n - 1) /\ i \in 0 .. (n - 1)
  BY AdjacencyFacts
<1>2. /\ GraphOK(old) /\ Agree(old) /\ old.n = n
      /\ acc.deg \in Int /\ old.degree[node] <= acc.deg
      /\ \A c, d \in 0 .. (n - 1) :
           Edge(old, c, d) <=> Edge(gr, c, d) /\ ~(c = node /\ d < i) /\ ~(d = node /\ c < i)
  BY DEF Passed
<1> HIDE DEF old
<1>3. /\ IsFirst(old, node, i, next)
      /\ (\E d \in 0 .. (n - 1) : Edge(old, node, d)) => old.degree[node] > 0
  BY <1>1, <1>2, FirstSetFacts
<1>4. old.degree \in [0 .. n - 1 -> Int]
  BY <1>2 DEF GraphOK
<1>5. CASE Edge(old, node, i)
  <2>1. next = i
    <3>1. \E d \in i .. (n - 1) : Edge(old, node, d)
      BY <1>1, <1>5
    <3> HIDE DEF next
    <3>2. /\ next \in i .. (n - 1)
          /\ \A d \in i .. (n - 1) : Edge(old, node, d) => next <= d
      BY <1>2, <1>3, <3>1 DEF IsFirst
    <3> QED BY <1>1, <1>5, <3>2
  <2>2. acc.deg > 0
    BY <1>1, <1>2, <1>3, <1>4, <1>5
  <2> DEFINE new == Put(old, node, i, FALSE)
             res == RemoveOne(acc, node, i)
  <2>3. res = [gr |-> new, deg |-> acc.deg - 1]
    BY <2>1, <2>2 DEF RemoveOne, old
  <2>4. /\ GraphOK(new) /\ new.n = n
        /\ \A c, d \in 0 .. (n - 1) :
             Edge(new, c, d) <=> IF (c = node /\ d = i) \/ (c = i /\ d = node) THEN FALSE ELSE Edge(old, c, d)
        /\ \A c \in 0 .. (n - 1) :
             new.degree[c] = old.degree[c] + (IF c = node THEN Change(old, node, i, FALSE) ELSE 0)
                                           + (IF c = i THEN Change(old, node, i, FALSE) ELSE 0)
    <3> DEFINE value == FALSE
    <3>1. /\ Symmetric(old) /\ value \in BOOLEAN
          /\ node \in 0 .. (old.n - 1) /\ i \in 0 .. (old.n - 1)
      BY <1>1, <1>2 DEF Agree
    <3>2. new = Put(old, node, i, value)
      OBVIOUS
    <3>3. Change(old, node, i, FALSE) = Change(old, node, i, value)
      OBVIOUS
    <3> HIDE DEF value, new
    <3>4. /\ GraphOK(new) /\ new.n = n
          /\ \A c, d \in 0 .. (n - 1) :
               Edge(new, c, d) <=> IF (c = node /\ d = i) \/ (c = i /\ d = node) THEN value ELSE Edge(old, c, d)
      BY <1>2, <3>1, <3>2, PutFacts
    <3>5. \A c \in 0 .. (n - 1) :
            new.degree[c] = old.degree[c] + (IF c = node THEN Change(old, node, i, value) ELSE 0)
                                          + (IF c = i THEN Change(old, node, i, value) ELSE 0)
      BY <1>2, <3>1, <3>2, PutFacts
    <3> QED BY <3>3, <3>4, <3>5 DEF value
  <2>5. Agree(new)
    <3>1. FALSE \in BOOLEAN /\ node \in 0 .. (old.n - 1) /\ i \in 0 .. (old.n - 1)
      BY <1>1, <1>2
    <3> QED BY <1>2, <3>1, PutAgrees
  <2>6. Change(old, node, i, FALSE) = -1
    BY <1>5 DEF Change
  <2>7. new.degree[node] <= acc.deg - 1
    <3>1. new.degree[node] = old.degree[node] + -1 + (IF node = i THEN -1 ELSE 0)
      BY <1>1, <2>4, <2>6
    <3>2. old.degree[node] \in Int
      BY <1>1, <1>4
    <3> HIDE DEF new
    <3> QED BY <1>2, <3>1, <3>2
  <2> HIDE DEF new
  <2>8. ASSUME NEW c \in 0 .. (n - 1), NEW d \in 0 .. (n - 1)
        PROVE  Edge(new, c, d) <=>
                 Edge(gr, c, d) /\ ~(c = node /\ d < i + 1) /\ ~(d = node /\ c < i + 1)
    BY <1>1, <1>2, <2>4
  <2>9. res.gr = new /\ res.deg = acc.deg - 1
    BY <2>3
  <2> HIDE DEF res
  <2>10. Passed(gr, res, node, i + 1)
    BY <1>2, <2>4, <2>5, <2>7, <2>8, <2>9 DEF Passed
  <2> QED BY <2>10 DEF res
<1>6. CASE ~Edge(old, node, i)
  <2>1. next # i
    <3>1. CASE \E d \in i .. (n - 1) : Edge(old, node, d)
      <4>1. Edge(old, node, next)
        BY <1>2, <1>3, <3>1 DEF IsFirst
      <4> QED BY <1>6, <4>1
    <3>2. CASE ~ \E d \in i .. (n - 1) : Edge(old, node, d)
      <4>1. next = NoPos
        BY <1>2, <1>3, <3>2 DEF IsFirst
      <4> QED BY <1>1, <4>1 DEF NoPos
    <3> QED BY <3>1, <3>2
  <2>2. RemoveOne(acc, node, i) = acc
    BY <2>1 DEF RemoveOne, old
  <2>3. ~Edge(old, i, node)
    BY <1>1, <1>2, <1>6 DEF Agree, Symmetric
  <2>4. ASSUME NEW c \in 0 .. (n - 1), NEW d \in 0 .. (n - 1)
        PROVE  Edge(old, c, d) <=>
                 Edge(gr, c, d) /\ ~(c = node /\ d < i + 1) /\ ~(d = node /\ c < i + 1)
    BY <1>1, <1>2, <1>6, <2>3
  <2>5. Passed(gr, acc, node, i + 1)
    BY <1>2, <2>4 DEF Passed, old
  <2> QED BY <2>2, <2>5
<1> QED BY <1>5, <1>6

\* remove() takes all edges of a node away, and nothing else.
LEMMA RemovedAgrees ==
  ASSUME NEW gr, GraphOK(gr), Agree(gr), NEW node \in Nat
  PROVE  /\ GraphOK(Removed(gr, node)) /\ Agree(Removed(gr, node))
         /\ AdjacencyOf(Removed(gr, node)) = RemoveNode(AdjacencyOf(gr), node)
<1> DEFINE n == gr.n
           adj == AdjacencyOf(gr)
           G == RemoveNode(adj, node)
<1>1. /\ n \in Nat /\ DOMAIN adj = 0 .. (n - 1)
      /\ \A c \in 0 .. (n - 1) : adj[c] = {d \in 0 .. (n - 1) : Edge(gr, c, d)}
  BY AdjacencyFacts
<1> HIDE DEF adj
<1>2. /\ DOMAIN G = 0 .. (n - 1) /\ G = [r \in DOMAIN G |-> G[r]]
      /\ \A c \in 0 .. (n - 1) : G[c] = IF c = node THEN {} ELSE adj[c] \ {node}
  BY <1>1 DEF RemoveNode
<1> HIDE DEF G
<1>3. CASE node >= n
  <2>1. Removed(gr, node) = gr
    BY <1>3 DEF Removed
  <2>2. \A a \in 0 .. (n - 1) : G[a] \subseteq 0 .. (n - 1)
    BY <1>1, <1>2
  <2>3. ASSUME NEW a \in 0 .. (n - 1), NEW b \in 0 .. (n - 1) PROVE b \in G[a] <=> Edge(gr, a, b)
    <3>1. a # node /\ b # node
      BY <1>1, <1>3
    <3>2. G[a] = adj[a] \ {node}
      BY <1>2, <3>1
    <3>3. b \in adj[a] <=> Edge(gr, a, b)
      BY <1>1
    <3> QED BY <3>1, <3>2, <3>3
  <2>4. AdjacencyOf(gr) = G
    BY <1>2, <2>2, <2>3, SameAdjacency
  <2> QED BY <2>1, <2>4 DEF G, adj
<1>4. CASE ~(node >= n)
  <2>1. node \in 0 .. (n - 1)
    BY <1>1, <1>4
  <2> DEFINE after == Removal(gr, node, gr.degree[node])
             start == [gr |-> gr, deg |-> gr.degree[node]]
  <2>2. Removed(gr, node) = after[n].gr
    BY <1>4 DEF Removed
  <2>3. FirstSteps(after, gr, node, gr.degree[node], n)
    BY <1>1, RemovalSteps
  <2> HIDE DEF after
  <2>4. /\ after[0] = start
        /\ \A i \in 0 .. (n - 1) : after[i + 1] = RemoveOne(after[i], node, i)
    <3> DEFINE step(h) == [j \in 0 .. n |-> IF j = 0 THEN start ELSE RemoveOne(h[j - 1], node, j - 1)]
    <3>1. after = step(after)
      BY <2>3 DEF FirstSteps
    <3>2. step(after)[0] = start
      BY <1>1
    <3>3. ASSUME NEW i \in 0 .. (n - 1) PROVE step(after)[i + 1] = RemoveOne(after[i], node, i)
      <4>1. i + 1 \in 0 .. n /\ i + 1 # 0 /\ i + 1 - 1 = i
        BY <1>1
      <4> QED BY <4>1
    <3> HIDE DEF step
    <3> QED BY <3>1, <3>2, <3>3
  <2>5. Passed(gr, after[0], node, 0)
    <3>1. gr.degree[node] \in Int
      BY <2>1 DEF GraphOK
    <3>2. after[0].gr = gr /\ after[0].deg = gr.degree[node]
      BY <2>4
    <3> QED BY <1>1, <2>1, <3>1, <3>2 DEF Passed
  <2> DEFINE missed == {i \in 0 .. n : ~Passed(gr, after[i], node, i)}
  <2>6. missed = {}
    <3> SUFFICES ASSUME missed # {} PROVE FALSE
      OBVIOUS
    <3> DEFINE k == Min(missed)
    <3>1. missed \subseteq Nat
      BY <1>1
    <3>2. k \in missed /\ \A j \in missed : k <= j
      <4> HIDE DEF missed
      <4> QED BY <3>1, MinProperty
    <3> HIDE DEF k
    <3>3. k \in 0 .. n /\ k # 0
      BY <2>5, <3>2
    <3>4. k - 1 \in 0 .. (n - 1) /\ k - 1 \notin missed
      <4>1. k - 1 \in 0 .. (n - 1) /\ ~(k <= k - 1)
        BY <1>1, <3>3
      <4> QED BY <3>2, <4>1
    <3>5. Passed(gr, after[k - 1], node, k - 1)
      <4>1. k - 1 \in 0 .. n
        BY <1>1, <3>4
      <4> QED BY <3>4, <4>1
    <3>6. after[(k - 1) + 1] = RemoveOne(after[k - 1], node, k - 1)
      BY <2>4, <3>4
    <3>7. Passed(gr, after[(k - 1) + 1], node, (k - 1) + 1)
      BY <2>1, <3>4, <3>5, <3>6, PassNode
    <3>8. (k - 1) + 1 = k
      BY <1>1, <3>3
    <3> QED BY <3>2, <3>7, <3>8
  <2> DEFINE new == after[n].gr
  <2>7. Passed(gr, after[n], node, n)
    BY <1>1, <2>6
  <2> HIDE DEF missed
  <2>8. /\ GraphOK(new) /\ Agree(new) /\ new.n = n
        /\ \A c, d \in 0 .. (n - 1) :
             Edge(new, c, d) <=> Edge(gr, c, d) /\ ~(c = node /\ d < n) /\ ~(d = node /\ c < n)
    BY <2>7 DEF Passed
  <2> HIDE DEF new
  <2>9. \A c \in 0 .. (n - 1) : G[c] \subseteq 0 .. (n - 1)
    BY <1>1, <1>2
  <2>10. ASSUME NEW c \in 0 .. (n - 1), NEW d \in 0 .. (n - 1) PROVE d \in G[c] <=> Edge(new, c, d)
    <3>1. c < n /\ d < n
      BY <1>1
    <3> QED BY <1>1, <1>2, <2>8, <3>1
  <2>11. AdjacencyOf(new) = G
    <3>1. /\ DOMAIN G = 0 .. (new.n - 1) /\ G = [r \in DOMAIN G |-> G[r]]
          /\ \A c \in 0 .. (new.n - 1) : G[c] \subseteq 0 .. (new.n - 1)
      BY <1>2, <2>8, <2>9
    <3>2. \A c, d \in 0 .. (new.n - 1) : d \in G[c] <=> Edge(new, c, d)
      BY <2>8, <2>10
    <3> QED BY <2>8, <3>1, <3>2, SameAdjacency, Zenon
  <2> QED BY <2>2, <2>8, <2>11 DEF G, adj, new
<1> QED BY <1>3, <1>4

-----------------------------------------------------------------------------
(* New, reset and copied graphs.                                           *)

GraphSet == [n : 0 .. MaxNodes, bits : Bits, degree : UNION {[0 .. n - 1 -> Int] : n \in 0 .. MaxNodes}]

\* A graph with no bit set in its matrix and counters at 0 has no edges.
LEMMA NoEdges ==
  ASSUME NEW n \in 0 .. MaxNodes, NEW bits, BitsOK(bits), bits.size = n * n,
         \A i \in 0 .. (n * n - 1) : i \notin bits.data
  PROVE  LET gr == [n |-> n, bits |-> bits, degree |-> ZeroDegrees(n)]
         IN  GraphOK(gr) /\ Agree(gr) /\ AdjacencyOf(gr) = EmptyGraph(n)
<1> DEFINE gr == [n |-> n, bits |-> bits, degree |-> ZeroDegrees(n)]
           degree == ZeroDegrees(n)
           G == EmptyGraph(n)
<1>1. n \in Nat
  BY SizeAssumption
<1>2. degree \in [0 .. n - 1 -> Int] /\ \A a \in 0 .. (n - 1) : degree[a] = 0
  BY DEF ZeroDegrees
<1>3. gr.n = n /\ gr.bits = bits /\ gr.degree = degree /\ gr = [n |-> n, bits |-> bits, degree |-> degree]
  OBVIOUS
<1> HIDE DEF degree, gr
<1>4. GraphOK(gr)
  <2>1. degree \in UNION {[0 .. m - 1 -> Int] : m \in 0 .. MaxNodes}
    BY <1>2
  <2>2. gr \in GraphSet
    BY <1>3, <2>1 DEF BitsOK, GraphSet
  <2> QED BY <1>2, <1>3, <2>2 DEF GraphOK, GraphSet
<1>5. ASSUME NEW a \in 0 .. (n - 1), NEW b \in 0 .. (n - 1) PROVE ~Edge(gr, a, b)
  <2> DEFINE off == b + a * n
             nn == n * n
  <2>1. off \in Nat /\ nn \in Nat /\ off < nn
    BY <1>1, Offsets
  <2>2. \A i \in 0 .. (nn - 1) : i \notin bits.data
    OBVIOUS
  <2>3. Edge(gr, a, b) <=> off \in bits.data
    BY <1>3 DEF Edge
  <2> HIDE DEF off, nn
  <2> QED BY <2>1, <2>2, <2>3
<1>6. /\ DOMAIN G = 0 .. (n - 1) /\ G = [r \in DOMAIN G |-> G[r]]
      /\ \A a \in 0 .. (n - 1) : G[a] = {}
  BY DEF EmptyGraph
<1> HIDE DEF G
<1>7. AdjacencyOf(gr) = G
  <2>1. \A a \in 0 .. (gr.n - 1) : G[a] \subseteq 0 .. (gr.n - 1)
    BY <1>3, <1>6
  <2>2. \A a, b \in 0 .. (gr.n - 1) : b \in G[a] <=> Edge(gr, a, b)
    BY <1>3, <1>5, <1>6
  <2> QED BY <1>3, <1>4, <1>6, <2>1, <2>2, SameAdjacency
<1>8. Agree(gr)
  <2>1. Symmetric(gr)
    BY <1>3, <1>5 DEF Symmetric
  <2>2. ASSUME NEW a \in 0 .. (n - 1) PROVE gr.degree[a] = Degree(AdjacencyOf(gr), a)
    <3> DEFINE S == G[a]
    <3>1. S = {}
      BY <1>6
    <3>2. Degree(G, a) = 0
      <4>1. Degree(G, a) = Cardinality(S) + (IF a \in S THEN 1 ELSE 0)
        BY DEF Degree
      <4> HIDE DEF S
      <4>2. Cardinality(S) = 0
        BY <3>1, FS_EmptySet
      <4> QED BY <3>1, <4>1, <4>2
    <3> QED BY <1>2, <1>3, <1>7, <3>2
  <2> QED BY <1>3, <2>1, <2>2 DEF Agree
<1> QED BY <1>4, <1>7, <1>8 DEF gr, G

\* A new graph has no edges.
LEMMA NewGraphFacts ==
  ASSUME NEW n \in 0 .. MaxNodes
  PROVE  GraphOK(NewGraph(n)) /\ Agree(NewGraph(n)) /\ AdjacencyOf(NewGraph(n)) = EmptyGraph(n)
<1> DEFINE bits == NewBits(n * n)
<1>1. n \in Nat /\ n * n \in Nat
  BY SizeAssumption
<1>2. RoundUp(n * n) \in Nat /\ n * n <= RoundUp(n * n) /\ RoundUp(n * n) % W = 0
  BY <1>1, RoundUpFacts
<1>3. BitsOK(bits) /\ bits.size = n * n /\ bits.data = {}
  BY <1>1, <1>2 DEF NewBits, BitsOK, Bits
<1>4. NewGraph(n) = [n |-> n, bits |-> bits, degree |-> ZeroDegrees(n)]
  BY DEF NewGraph
<1> HIDE DEF bits
<1> QED BY <1>3, <1>4, NoEdges

\* reset() leaves no edge of the earlier graph, in old memory or in new.
LEMMA EmptiedFacts ==
  ASSUME NEW gr, GraphOK(gr), NEW n \in 0 .. MaxNodes
  PROVE  GraphOK(Emptied(gr, n)) /\ Agree(Emptied(gr, n)) /\ AdjacencyOf(Emptied(gr, n)) = EmptyGraph(n)
<1> DEFINE m == n * n
           bits == Clear(Resize(gr.bits, m), 0, m)
<1>1. m \in Nat /\ BitsOK(gr.bits)
  BY SizeAssumption DEF GraphOK
<1>2. Emptied(gr, n) = [n |-> n, bits |-> bits, degree |-> ZeroDegrees(n)]
  BY DEF Emptied, Clear
<1> HIDE DEF m
<1>3. BitsOK(bits) /\ bits.size = m /\ \A i \in 0 .. (m - 1) : i \notin bits.data
  BY <1>1, EmptiedBits
<1> HIDE DEF bits
<1> QED BY <1>2, <1>3, NoEdges DEF m

\* dup() leaves the edges of the other graph, though it copies whole words.
LEMMA CopiedFacts ==
  ASSUME NEW gr, GraphOK(gr), NEW other, GraphOK(other), Agree(other)
  PROVE  /\ GraphOK(Copied(gr, other)) /\ Agree(Copied(gr, other))
         /\ AdjacencyOf(Copied(gr, other)) = AdjacencyOf(other)
<1> DEFINE n == other.n
           m == n * n
           new == Emptied(gr, n)
           copy == Copied(gr, other)
           words == 0 .. RoundUp(m) - 1
           data == (new.bits.data \ words) \cup (other.bits.data \cap words)
           adj == AdjacencyOf(other)
<1>1. n \in 0 .. MaxNodes /\ n \in Nat /\ m \in Nat
  BY AdjacencyFacts
<1>2. GraphOK(new) /\ new.n = n
  BY <1>1, EmptiedFacts DEF Emptied
<1>3. BitsOK(new.bits) /\ new.bits.size = m
  BY <1>2 DEF GraphOK
<1>4. copy = [new EXCEPT !.bits.data = data, !.degree = other.degree]
  BY <1>3 DEF Copied
<1> HIDE DEF new, copy
<1>5. /\ new.bits.cap \in Nat /\ new.bits.data \subseteq 0 .. (new.bits.cap - 1)
      /\ new.bits.cap % W = 0 /\ m <= new.bits.cap
  BY <1>3 DEF BitsOK, Bits
<1>6. RoundUp(m) \in Nat /\ m <= RoundUp(m) /\ RoundUp(m) <= new.bits.cap
  BY <1>1, <1>5, RoundUpFacts
<1> HIDE DEF m
<1>7. data \subseteq 0 .. (new.bits.cap - 1) /\ data \in SUBSET Nat
  BY <1>5, <1>6
<1>8. \A i \in 0 .. (m - 1) : i \in data <=> i \in other.bits.data
  <2>1. \A i \in 0 .. (m - 1) : i \in words
    BY <1>1, <1>6
  <2> QED BY <2>1
<1> HIDE DEF data, words
<1>9. /\ other.degree \in [0 .. n - 1 -> Int]
      /\ other.degree \in UNION {[0 .. k - 1 -> Int] : k \in 0 .. MaxNodes}
  BY <1>1 DEF GraphOK
<1>10. /\ copy \in GraphSet /\ copy.n = n /\ copy.degree = other.degree
       /\ copy.bits = [new.bits EXCEPT !.data = data]
  <2>1. new \in GraphSet /\ new.bits \in Bits
    BY <1>2 DEF GraphOK, GraphSet, BitsOK
  <2>2. [new.bits EXCEPT !.data = data] \in Bits
    BY <1>7, <2>1 DEF Bits
  <2> QED BY <1>2, <1>4, <1>9, <2>1, <2>2 DEF GraphSet
<1>11. BitsOK(copy.bits) /\ copy.bits.size = m /\ copy.bits.data = data
  <2> DEFINE old == new.bits
             bits == copy.bits
  <2>1. bits = [old EXCEPT !.data = data] /\ old \in Bits
    BY <1>3, <1>10 DEF BitsOK
  <2> HIDE DEF old, bits
  <2>2. bits \in Bits /\ bits.data = data /\ bits.size = old.size /\ bits.cap = old.cap
    BY <1>7, <2>1 DEF Bits
  <2>3. BitsOK(bits)
    BY <1>3, <1>5, <1>7, <2>2 DEF BitsOK, old
  <2> QED BY <1>3, <2>2, <2>3 DEF bits, old
<1>12. GraphOK(copy)
  BY <1>9, <1>10, <1>11 DEF GraphOK, GraphSet, m
<1>13. ASSUME NEW a \in 0 .. (n - 1), NEW b \in 0 .. (n - 1)
       PROVE  Edge(copy, a, b) <=> Edge(other, a, b)
  <2> DEFINE off == b + a * n
  <2>1. off \in Nat /\ off < m
    BY <1>1, Offsets DEF m
  <2>2. /\ Edge(copy, a, b) <=> off \in data
        /\ Edge(other, a, b) <=> off \in other.bits.data
    BY <1>10, <1>11 DEF Edge
  <2> HIDE DEF off
  <2> QED BY <1>1, <1>8, <2>1, <2>2
<1>14. AdjacencyOf(copy) = adj
  <2>1. /\ DOMAIN adj = 0 .. (n - 1)
        /\ \A a \in 0 .. (n - 1) : adj[a] = {b \in 0 .. (n - 1) : Edge(other, a, b)}
    BY AdjacencyFacts
  <2>2. adj = [r \in DOMAIN adj |-> adj[r]]
    BY DEF AdjacencyOf
  <2> HIDE DEF adj
  <2>3. \A a \in 0 .. (copy.n - 1) : adj[a] \subseteq 0 .. (copy.n - 1)
    BY <1>10, <2>1
  <2>4. \A a, b \in 0 .. (copy.n - 1) : b \in adj[a] <=> Edge(copy, a, b)
    BY <1>10, <1>13, <2>1
  <2> QED BY <1>10, <1>12, <2>1, <2>2, <2>3, <2>4, SameAdjacency
<1>15. Agree(copy)
  BY <1>10, <1>13, <1>14 DEF Agree, Symmetric
<1> QED BY <1>12, <1>14, <1>15 DEF copy

-----------------------------------------------------------------------------
(* The specification.                                                      *)

\* The inductive invariant: every matrix is well formed and symmetric, and its
\* counters count its edges.
Sound ==
  /\ gs \in [Ids -> GraphSet]
  /\ \A id \in Ids : GraphOK(gs[id]) /\ Agree(gs[id])

\* Graphs are made sound.
LEMMA InitSound == Init => Sound
<1> SUFFICES ASSUME NEW n \in [Ids -> 0 .. MaxNodes], gs = [id \in Ids |-> NewGraph(n[id])]
             PROVE  Sound
  BY DEF Init
<1>1. ASSUME NEW id \in Ids PROVE gs[id] \in GraphSet /\ GraphOK(gs[id]) /\ Agree(gs[id])
  <2>1. n[id] \in 0 .. MaxNodes /\ gs[id] = NewGraph(n[id])
    OBVIOUS
  <2> QED BY <2>1, NewGraphFacts DEF GraphOK, GraphSet
<1> QED BY <1>1 DEF Sound

\* A step that makes one graph a sound one, or none, keeps all graphs sound.
LEMMA OneChanges ==
  ASSUME Sound, NEW id \in Ids, NEW new, GraphOK(new), Agree(new), gs' = [gs EXCEPT ![id] = new]
  PROVE  Sound' /\ Promise!Becomes(id, AdjacencyOf(new))
<1>1. new \in GraphSet
  BY DEF GraphOK, GraphSet
<1>2. gs' \in [Ids -> GraphSet] /\ \A i \in Ids : gs'[i] = IF i = id THEN new ELSE gs[i]
  BY <1>1 DEF Sound
<1>3. Sound'
  BY <1>2 DEF Sound
<1>4. [i \in Ids |-> AdjacencyOf(gs[i])]' = [[i \in Ids |-> AdjacencyOf(gs[i])] EXCEPT ![id] = AdjacencyOf(new)]
  <2>1. [i \in Ids |-> AdjacencyOf(gs[i])]' = [i \in Ids |-> AdjacencyOf(gs'[i])]
    BY DEF AdjacencyOf, Bit
  <2>2. \A i \in Ids : AdjacencyOf(gs'[i]) = IF i = id THEN AdjacencyOf(new) ELSE AdjacencyOf(gs[i])
    BY <1>2
  <2> QED BY <2>1, <2>2
<1> QED BY <1>3, <1>4 DEF Promise!Becomes

\* A call that changes nothing.
LEMMA NoneChanges ==
  ASSUME Sound, gs' = gs
  PROVE  Sound' /\ [i \in Ids |-> AdjacencyOf(gs[i])]' = [i \in Ids |-> AdjacencyOf(gs[i])]
<1>1. Sound'
  BY DEF Sound
<1>2. [i \in Ids |-> AdjacencyOf(gs[i])]' = [i \in Ids |-> AdjacencyOf(gs'[i])]
  BY DEF AdjacencyOf, Bit
<1> QED BY <1>1, <1>2

\* reset(), whether its allocation succeeds or not.
LEMMA ResetStep ==
  ASSUME Sound, NEW id \in Ids, NEW n \in 0 .. MaxNodes, Reset(id, n)
  PROVE  Sound' /\ Promise!Reset(id, n)
<1>1. PICK ok \in {TRUE, Enough(gs[id], n)} :
        /\ gs' = [gs EXCEPT ![id] = IF ok THEN Emptied(gs[id], n) ELSE gs[id]]
        /\ call' = <<"reset", id, n, ok>>
  BY DEF Reset
<1>2. ok \in BOOLEAN
  <2>1. Enough(gs[id], n) \in BOOLEAN
    <3> DEFINE m == n * n
               cap == gs[id].bits.cap
    <3>1. m \in Nat /\ cap \in Nat
      BY SizeAssumption DEF Sound, GraphOK, BitsOK, Bits
    <3> QED BY <3>1 DEF Enough
  <2> QED BY <1>1, <2>1
<1>3. CASE ok = TRUE
  <2> DEFINE new == Emptied(gs[id], n)
  <2>1. GraphOK(new) /\ Agree(new) /\ AdjacencyOf(new) = EmptyGraph(n)
    BY EmptiedFacts DEF Sound
  <2>2. gs' = [gs EXCEPT ![id] = new]
    BY <1>1, <1>3
  <2> HIDE DEF new
  <2>3. Sound' /\ Promise!Becomes(id, AdjacencyOf(new))
    BY <2>1, <2>2, OneChanges
  <2>4. EmptyGraph(n) = Promise!EmptyGraph(n)
    BY DEF EmptyGraph, Promise!EmptyGraph
  <2>5. call' = <<"reset", id, n, TRUE>>
    BY <1>1, <1>3
  <2> QED BY <2>1, <2>3, <2>4, <2>5 DEF Promise!Reset
<1>4. CASE ok = FALSE
  <2>1. gs' = gs /\ call' = <<"reset", id, n, FALSE>>
    BY <1>1, <1>4 DEF Sound
  <2> QED BY <2>1, NoneChanges DEF Promise!Reset
<1> QED BY <1>2, <1>3, <1>4

\* set(), in and out of bounds.
LEMMA SetStep ==
  ASSUME Sound, NEW id \in Ids, NEW a \in AnyNode, NEW b \in AnyNode, NEW value \in BOOLEAN,
         Set(id, a, b, value)
  PROVE  Sound' /\ Promise!Set(id, a, b, value)
<1> DEFINE gr == gs[id]
           new == Put(gr, a, b, value)
           graphs == [i \in Ids |-> AdjacencyOf(gs[i])]
<1>1. /\ GraphOK(gr) /\ Agree(gr) /\ gr.n \in Nat /\ DOMAIN AdjacencyOf(gr) = 0 .. (gr.n - 1)
      /\ a \in Nat /\ b \in Nat
  BY AdjacencyFacts, SizeAssumption DEF Sound, AnyNode
<1>2. gs' = [gs EXCEPT ![id] = new] /\ call' = <<"set", id, a, b, value>>
  BY DEF Set
<1>3. graphs[id] = AdjacencyOf(gr)
  OBVIOUS
<1>4. CASE {a, b} \subseteq 0 .. (gr.n - 1)
  <2>1. GraphOK(new) /\ Agree(new) /\ AdjacencyOf(new) = SetEdge(AdjacencyOf(gr), a, b, value)
    <3> HIDE DEF gr
    <3> QED BY <1>1, <1>4, PutFacts, PutAgrees DEF Agree
  <2> HIDE DEF new, gr
  <2>2. Sound' /\ Promise!Becomes(id, AdjacencyOf(new))
    BY <1>2, <2>1, OneChanges
  <2>3. SetEdge(AdjacencyOf(gr), a, b, value) = Promise!SetEdge(AdjacencyOf(gr), a, b, value)
    BY DEF SetEdge, Promise!SetEdge
  <2>4. {a, b} \subseteq DOMAIN graphs[id]
    BY <1>1, <1>3, <1>4
  <2>5. Promise!Becomes(id, Promise!SetEdge(graphs[id], a, b, value))
    BY <1>3, <2>1, <2>2, <2>3
  <2> QED BY <1>2, <2>2, <2>4, <2>5 DEF Promise!Set
<1>5. CASE ~({a, b} \subseteq 0 .. (gr.n - 1))
  <2>1. gr.n <= a \/ gr.n <= b
    <3> HIDE DEF gr
    <3> QED BY <1>1, <1>5
  <2>2. new = gr
    <3> HIDE DEF gr
    <3> QED BY <1>1, <2>1, PutOutside
  <2>3. gs' = gs
    <3> HIDE DEF new
    <3> QED BY <1>2, <2>2 DEF Sound
  <2>4. ~({a, b} \subseteq DOMAIN graphs[id])
    BY <1>1, <1>3, <1>5
  <2>5. Sound' /\ graphs' = graphs
    BY <2>3, NoneChanges
  <2> QED BY <1>2, <2>4, <2>5 DEF Promise!Set
<1> QED BY <1>4, <1>5

\* remove()
LEMMA RemoveStep ==
  ASSUME Sound, NEW id \in Ids, NEW node \in AnyNode, RemoveAll(id, node)
  PROVE  Sound' /\ Promise!RemoveAll(id, node)
<1> DEFINE gr == gs[id]
           new == Removed(gr, node)
<1>1. GraphOK(gr) /\ Agree(gr) /\ node \in Nat
  BY SizeAssumption DEF Sound, AnyNode
<1>2. gs' = [gs EXCEPT ![id] = new] /\ call' = <<"remove", id, node>>
  BY DEF RemoveAll
<1>3. [i \in Ids |-> AdjacencyOf(gs[i])][id] = AdjacencyOf(gr)
  OBVIOUS
<1>4. GraphOK(new) /\ Agree(new) /\ AdjacencyOf(new) = RemoveNode(AdjacencyOf(gr), node)
  <2> HIDE DEF gr
  <2> QED BY <1>1, RemovedAgrees
<1> HIDE DEF new
<1>5. Sound' /\ Promise!Becomes(id, AdjacencyOf(new))
  BY <1>2, <1>4, OneChanges
<1>6. RemoveNode(AdjacencyOf(gr), node) = Promise!RemoveNode(AdjacencyOf(gr), node)
  BY DEF RemoveNode, Promise!RemoveNode
<1> QED BY <1>2, <1>3, <1>4, <1>5, <1>6 DEF Promise!RemoveAll

\* dup(), whether its allocation succeeds or not.
LEMMA DupStep ==
  ASSUME Sound, NEW id \in Ids, NEW other \in Ids, Dup(id, other)
  PROVE  Sound' /\ Promise!Dup(id, other)
<1>1. PICK ok \in {TRUE, Enough(gs[id], gs[other].n)} :
        /\ gs' = [gs EXCEPT ![id] = IF ok THEN Copied(gs[id], gs[other]) ELSE gs[id]]
        /\ call' = <<"dup", id, other, ok>>
  BY DEF Dup
<1>2. ok \in BOOLEAN
  <2>1. Enough(gs[id], gs[other].n) \in BOOLEAN
    <3> DEFINE m == gs[other].n * gs[other].n
               cap == gs[id].bits.cap
    <3>1. m \in Nat /\ cap \in Nat
      BY SizeAssumption DEF Sound, GraphOK, BitsOK, Bits
    <3> QED BY <3>1 DEF Enough
  <2> QED BY <1>1, <2>1
<1>3. CASE ok = TRUE
  <2> DEFINE new == Copied(gs[id], gs[other])
  <2>1. GraphOK(new) /\ Agree(new) /\ AdjacencyOf(new) = AdjacencyOf(gs[other])
    BY CopiedFacts DEF Sound
  <2>2. gs' = [gs EXCEPT ![id] = new]
    BY <1>1, <1>3
  <2> HIDE DEF new
  <2>3. Sound' /\ Promise!Becomes(id, AdjacencyOf(new))
    BY <2>1, <2>2, OneChanges
  <2>4. call' = <<"dup", id, other, TRUE>>
    BY <1>1, <1>3
  <2>5. [i \in Ids |-> AdjacencyOf(gs[i])][other] = AdjacencyOf(gs[other])
    OBVIOUS
  <2> QED BY <2>1, <2>3, <2>4, <2>5 DEF Promise!Dup
<1>4. CASE ok = FALSE
  <2>1. gs' = gs /\ call' = <<"dup", id, other, FALSE>>
    BY <1>1, <1>4 DEF Sound
  <2> QED BY <2>1, NoneChanges DEF Promise!Dup
<1> QED BY <1>2, <1>3, <1>4

\* Every step keeps the graphs sound and is a step of the abstract graphs.
LEMMA NextSound ==
  ASSUME Sound, [Next]_vars
  PROVE  Sound' /\ [Promise!Next]_<<[i \in Ids |-> AdjacencyOf(gs[i])], call>>
<1> DEFINE graphs == [i \in Ids |-> AdjacencyOf(gs[i])]
<1>0. Edited \subseteq Ids /\ AnyNode \subseteq 0 .. MaxNodes
  BY SizeAssumption DEF AnyNode
<1>1. ASSUME NEW id \in Ids, NEW n \in 0 .. MaxNodes, Reset(id, n) PROVE Sound' /\ Promise!Next
  <2>1. Sound' /\ Promise!Reset(id, n)
    BY <1>1, ResetStep
  <2> QED BY <2>1 DEF Promise!Next
<1>2. ASSUME NEW id \in Ids, NEW other \in Edited, Dup(id, other) PROVE Sound' /\ Promise!Next
  <2>1. other \in Ids
    BY <1>0
  <2>2. Sound' /\ Promise!Dup(id, other)
    BY <1>2, <2>1, DupStep
  <2> QED BY <2>1, <2>2 DEF Promise!Next
<1>3. ASSUME NEW id \in Edited, NEW node \in AnyNode, RemoveAll(id, node) PROVE Sound' /\ Promise!Next
  <2>1. id \in Ids /\ node \in 0 .. MaxNodes
    BY <1>0
  <2>2. Sound' /\ Promise!RemoveAll(id, node)
    BY <1>3, <2>1, RemoveStep
  <2> QED BY <2>1, <2>2 DEF Promise!Next
<1>4. ASSUME NEW id \in Edited, NEW a \in AnyNode, NEW b \in AnyNode, NEW value \in BOOLEAN,
             Set(id, a, b, value)
      PROVE  Sound' /\ Promise!Next
  <2>1. id \in Ids /\ a \in 0 .. MaxNodes /\ b \in 0 .. MaxNodes
    BY <1>0
  <2>2. Sound' /\ Promise!Set(id, a, b, value)
    BY <1>4, <2>1, SetStep
  <2> QED BY <2>1, <2>2 DEF Promise!Next
<1>5. CASE UNCHANGED vars
  <2>1. gs' = gs /\ call' = call
    BY <1>5 DEF vars
  <2>2. Sound' /\ graphs' = graphs
    BY <2>1, NoneChanges
  <2> HIDE DEF graphs
  <2>3. UNCHANGED <<graphs, call>>
    BY <2>1, <2>2
  <2> QED BY <2>2, <2>3 DEF graphs
<1> QED BY <1>1, <1>2, <1>3, <1>4, <1>5 DEF Next

\* Theorem.  Whatever calls a client makes, also ones whose allocation fails, the
\* matrices stay well formed and symmetric and the counters count the edges.
THEOREM SoundInvariant == Spec => []Sound
<1>1. Sound /\ [Next]_vars => Sound'
  BY NextSound
<1> QED BY InitSound, <1>1, PTL DEF Spec

\* A sound graph is in the type that TypeOK gives it: a counter is at most one more
\* than the number of nodes.
LEMMA SoundTypes == Sound => TypeOK
<1> SUFFICES ASSUME Sound PROVE TypeOK
  OBVIOUS
<1>1. ASSUME NEW id \in Ids
      PROVE  /\ gs[id] \in [n : 0 .. MaxNodes, bits : Bits, degree : UNION {Degrees(n) : n \in 0 .. MaxNodes}]
             /\ gs[id].degree \in Degrees(gs[id].n)
             /\ gs[id].bits.size = gs[id].n * gs[id].n
             /\ gs[id].bits.cap % W = 0 /\ gs[id].bits.size <= gs[id].bits.cap
             /\ gs[id].bits.data \subseteq 0 .. gs[id].bits.cap - 1
  <2> DEFINE gr == gs[id]
             n == gr.n
  <2>1. GraphOK(gr) /\ Agree(gr) /\ gr \in GraphSet
    BY DEF Sound
  <2> HIDE DEF gr
  <2>2. n \in Nat /\ n \in 0 .. MaxNodes
    BY <2>1, AdjacencyFacts
  <2>3. ASSUME NEW a \in 0 .. (n - 1) PROVE gr.degree[a] \in 0 .. (n + 1)
    <3> DEFINE S == AdjacencyOf(gr)[a]
    <3>1. Cardinality(S) \in 0 .. n
      BY <2>1, NeighboursAreFinite
    <3>2. gr.degree[a] = Cardinality(S) + (IF a \in S THEN 1 ELSE 0)
      BY <2>1 DEF Agree, Degree
    <3> HIDE DEF S
    <3> QED BY <2>2, <3>1, <3>2
  <2>4. gr.degree \in Degrees(n)
    <3>1. gr.degree \in [0 .. n - 1 -> Int]
      BY <2>1 DEF GraphOK
    <3> QED BY <2>3, <3>1 DEF Degrees
  <2>5. gr.degree \in UNION {Degrees(m) : m \in 0 .. MaxNodes}
    BY <2>2, <2>4
  <2>6. gr \in [n : 0 .. MaxNodes, bits : Bits, degree : UNION {Degrees(m) : m \in 0 .. MaxNodes}]
    BY <2>1, <2>5 DEF GraphSet
  <2> QED BY <2>1, <2>4, <2>6 DEF GraphOK, BitsOK, gr
<1> HIDE DEF Sound
<1>2. gs \in [Ids -> GraphSet]
  BY DEF Sound
<1>3. gs \in [Ids -> [n : 0 .. MaxNodes, bits : Bits, degree : UNION {Degrees(n) : n \in 0 .. MaxNodes}]]
  BY <1>1, <1>2
<1> QED BY <1>1, <1>3 DEF TypeOK

\* Theorem.  The matrices, their capacities and the counters keep their types.
THEOREM TypeCorrect == Spec => []TypeOK
BY SoundInvariant, SoundTypes, PTL

\* A sound graph has its edges in both directions and counts them.
LEMMA SoundCounters == Sound => CountersAgree
<1> SUFFICES ASSUME Sound, NEW id \in Ids, NEW a \in DOMAIN AdjacencyOf(gs[id])
             PROVE  /\ \A b \in AdjacencyOf(gs[id])[a] : a \in AdjacencyOf(gs[id])[b]
                    /\ gs[id].degree[a] = Degree(AdjacencyOf(gs[id]), a)
  BY DEF CountersAgree
<1> DEFINE gr == gs[id]
<1>1. GraphOK(gr) /\ Agree(gr)
  BY DEF Sound
<1>2. /\ DOMAIN AdjacencyOf(gr) = 0 .. (gr.n - 1)
      /\ \A c \in 0 .. (gr.n - 1) : AdjacencyOf(gr)[c] = {d \in 0 .. (gr.n - 1) : Edge(gr, c, d)}
  BY <1>1, AdjacencyFacts
<1> QED BY <1>1, <1>2 DEF Agree, Symmetric

\* Theorem.  The counters by which reg::Allocator colours count the edges of the
\* matrix, a connection of a node to itself twice, and every edge is there in both
\* directions.
THEOREM CountersAlwaysAgree == Spec => []CountersAgree
BY SoundInvariant, SoundCounters, PTL

\* The least member of a set of naturals is the only one below the others.
LEMMA OneLeast ==
  ASSUME NEW S \in SUBSET Nat, NEW c \in S, \A d \in S : c <= d
  PROVE  Min(S) = c
<1> DEFINE min == Min(S)
<1>1. min \in S /\ \A d \in S : min <= d
  BY MinProperty
<1> HIDE DEF min
<1>2. min \in Nat /\ c \in Nat /\ min <= c /\ c <= min
  BY <1>1
<1>3. min = c
  BY <1>2
<1> QED BY <1>3 DEF min

\* operator() and first_set() of a sound graph answer what its edges are, if the
\* largest matrix has an offset for each of its bits.
LEMMA SoundLookups ==
  ASSUME MaxNodes * MaxNodes <= SizeMod, Sound
  PROVE  LookupsAgree
<1> SUFFICES ASSUME NEW id \in Ids, NEW a \in AnyNode, NEW b \in AnyNode
             PROVE  LET adj == AdjacencyOf(gs[id])
                        next == {c \in b .. MaxNodes : a \in DOMAIN adj /\ c \in adj[a]}
                    IN  /\ Connected(gs[id], a, b) <=> a \in DOMAIN adj /\ b \in adj[a]
                        /\ FirstSet(gs[id], a, b) = IF next = {} THEN NoPos ELSE Min(next)
  BY DEF LookupsAgree
<1> DEFINE gr == gs[id]
           n == gr.n
           adj == AdjacencyOf(gr)
           next == {c \in b .. MaxNodes : a \in DOMAIN adj /\ c \in adj[a]}
           found == FirstSet(gr, a, b)
<1>1. GraphOK(gr) /\ Agree(gr)
  BY DEF Sound
<1>2. /\ n \in 0 .. MaxNodes /\ n \in Nat /\ MaxNodes \in Nat /\ SizeMod \in Nat
      /\ a \in Nat /\ b \in Nat /\ DOMAIN adj = 0 .. (n - 1)
      /\ \A c \in 0 .. (n - 1) : adj[c] = {d \in 0 .. (n - 1) : Edge(gr, c, d)}
  BY <1>1, AdjacencyFacts, SizeAssumption DEF AnyNode
<1> HIDE DEF adj
<1>3. Connected(gr, a, b) <=> a \in DOMAIN adj /\ b \in adj[a]
  <2> DEFINE hi == IF a < b THEN b ELSE a
             lo == IF a < b THEN a ELSE b
             off == hi + lo * n
  <2>1. /\ hi \in Nat /\ lo \in Nat /\ lo <= hi
        /\ (hi = a /\ lo = b) \/ (hi = b /\ lo = a)
    BY <1>2
  <2>2. Connected(gr, a, b) <=> hi < n /\ Bit(gr.bits, off % SizeMod)
    BY DEF Connected
  <2> HIDE DEF hi, lo
  <2>3. CASE hi < n
    <3>1. hi \in 0 .. (n - 1) /\ lo \in 0 .. (n - 1) /\ a \in 0 .. (n - 1) /\ b \in 0 .. (n - 1)
      BY <1>2, <2>1, <2>3
    <3>2. off \in Nat /\ off < n * n /\ n * n \in Nat
      BY <1>2, <3>1, Offsets
    <3>3. n * n <= MaxNodes * MaxNodes /\ MaxNodes * MaxNodes \in Nat
      <4>0. n \in Nat /\ MaxNodes \in Nat /\ n <= MaxNodes
        BY <1>2
      <4>1. n * n <= MaxNodes * n /\ n * n \in Nat /\ MaxNodes * n \in Nat
        BY <4>0, Products
      <4>2. n * MaxNodes <= MaxNodes * MaxNodes /\ MaxNodes * MaxNodes \in Nat /\ n * MaxNodes = MaxNodes * n
        BY <4>0, Products
      <4> DEFINE nn == n * n
                 mn == MaxNodes * n
                 mm == MaxNodes * MaxNodes
      <4>3. nn <= mn /\ mn <= mm /\ nn \in Nat /\ mn \in Nat /\ mm \in Nat
        BY <4>1, <4>2, Zenon
      <4> HIDE DEF nn, mn, mm
      <4>4. nn <= mm /\ mm \in Nat
        BY <4>3
      <4> QED BY <4>4 DEF nn, mm
    <3>4. off % SizeMod = off
      <4> DEFINE o == off
                 nn == n * n
                 mm == MaxNodes * MaxNodes
      <4>1. o \in Nat /\ o < nn /\ nn \in Nat /\ nn <= mm /\ mm \in Nat /\ mm <= SizeMod
        BY <3>2, <3>3
      <4> HIDE DEF o, nn, mm
      <4>2. o % SizeMod = o
        BY <1>2, <4>1
      <4> QED BY <4>2 DEF o
    <3>5. Bit(gr.bits, off) <=> Edge(gr, lo, hi)
      <4>1. gr.bits.size = n * n
        BY <1>1 DEF GraphOK
      <4> QED BY <3>2, <4>1 DEF Bit, Edge
    <3>6. Edge(gr, lo, hi) <=> Edge(gr, a, b)
      <4>1. Edge(gr, lo, hi) <=> Edge(gr, hi, lo)
        BY <1>1, <3>1 DEF Agree, Symmetric
      <4> QED BY <2>1, <4>1
    <3>7. b \in adj[a] <=> Edge(gr, a, b)
      BY <1>2, <3>1
    <3> QED BY <1>2, <2>2, <2>3, <3>1, <3>4, <3>5, <3>6, <3>7
  <2>4. CASE ~(hi < n)
    <3>1. ~(a \in DOMAIN adj /\ b \in adj[a])
      <4> SUFFICES ASSUME a \in 0 .. (n - 1), b \in adj[a] PROVE FALSE
        BY <1>2
      <4>1. b \in 0 .. (n - 1)
        BY <1>2
      <4> QED BY <1>2, <2>1, <2>4, <4>1
    <3> QED BY <2>2, <2>4, <3>1
  <2> QED BY <2>3, <2>4
<1>4. found = IF next = {} THEN NoPos ELSE Min(next)
  <2>1. CASE a \in 0 .. (n - 1) /\ b \in 0 .. (n - 1)
    <3>1. IsFirst(gr, a, b, found)
      BY <1>1, <2>1, FirstSetFacts
    <3>2. \A c : c \in next <=> c \in b .. (n - 1) /\ Edge(gr, a, c)
      <4>1. \A c : c \in adj[a] <=> c \in 0 .. (n - 1) /\ Edge(gr, a, c)
        BY <1>2, <2>1
      <4> QED BY <1>2, <2>1, <4>1
    <3> HIDE DEF next, found
    <3>3. CASE next = {}
      <4>1. ~ \E d \in b .. (n - 1) : Edge(gr, a, d)
        BY <3>2, <3>3
      <4> QED BY <3>1, <3>3, <4>1 DEF IsFirst
    <3>4. CASE next # {}
      <4>1. \E d \in b .. (n - 1) : Edge(gr, a, d)
        BY <3>2, <3>4
      <4>2. found \in next /\ \A d \in next : found <= d
        BY <3>1, <3>2, <4>1 DEF IsFirst
      <4>3. next \in SUBSET Nat
        BY <1>2, <3>2
      <4>4. Min(next) = found
        BY <4>2, <4>3, OneLeast
      <4> QED BY <3>4, <4>4
    <3> QED BY <3>3, <3>4
  <2>2. CASE ~(a \in 0 .. (n - 1) /\ b \in 0 .. (n - 1))
    <3>1. a >= n \/ b >= n
      BY <1>2, <2>2
    <3>2. found = NoPos
      BY <3>1 DEF FirstSet
    <3>3. next = {}
      <4> SUFFICES ASSUME NEW c \in b .. MaxNodes, a \in 0 .. (n - 1), c \in adj[a] PROVE FALSE
        BY <1>2
      <4>1. c \in 0 .. (n - 1) /\ b <= c
        BY <1>2
      <4> QED BY <1>2, <3>1, <4>1
    <3> HIDE DEF next, found
    <3> QED BY <3>2, <3>3
  <2> QED BY <2>1, <2>2
<1> QED BY <1>3, <1>4 DEF adj

\* Theorem.  operator() and first_set() answer for every pair of nodes what the edges
\* are, over stale bits and the ends of words, as long as the offsets that operator()
\* computes in 32 bits do not wrap around: for graphs of at most 65536 nodes.
THEOREM LookupsAlwaysAgree ==
  ASSUME MaxNodes * MaxNodes <= SizeMod
  PROVE  Spec => []LookupsAgree
<1>1. Sound => LookupsAgree
  BY SoundLookups
<1> QED BY SoundInvariant, <1>1, PTL

\* Graphs are made without edges.
LEMMA InitImplements == Init => Promise!Init
<1> SUFFICES ASSUME NEW n \in [Ids -> 0 .. MaxNodes], gs = [id \in Ids |-> NewGraph(n[id])],
                    call = <<"none">>
             PROVE  Promise!Init
  BY DEF Init
<1>1. ASSUME NEW id \in Ids PROVE AdjacencyOf(gs[id]) = Promise!EmptyGraph(n[id])
  <2>1. n[id] \in 0 .. MaxNodes /\ gs[id] = NewGraph(n[id])
    OBVIOUS
  <2>2. AdjacencyOf(gs[id]) = EmptyGraph(n[id])
    BY <2>1, NewGraphFacts
  <2> QED BY <2>2 DEF EmptyGraph, Promise!EmptyGraph
<1> QED BY <1>1 DEF Promise!Init

\* Theorem.  Every call does to the abstract graph what graph.hpp says of it, and a
\* call whose allocation fails leaves it alone: the matrix, its resizing and its
\* counters implement GraphSpec.
THEOREM ImplementsPromise == Spec => ImplementsGraph
<1>1. Sound /\ [Next]_vars => [Promise!Next]_<<[id \in Ids |-> AdjacencyOf(gs[id])], call>>
  BY NextSound
<1> QED BY SoundInvariant, InitImplements, <1>1, PTL DEF Spec, ImplementsGraph, Promise!Spec
=============================================================================
