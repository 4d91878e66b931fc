------------------------------ MODULE X64Proofs ------------------------------
(***************************************************************************)
(* Proofs that the processor reads what the assembler was given, for any   *)
(* statements, one after the other: from the parts of an instruction, its  *)
(* prefixes, opcode, ModRM byte, address and number, which are read alone  *)
(* first, to whole instructions, to statements, to everything assembled.   *)
(***************************************************************************)
EXTENDS X64Stream, SequenceTheorems, WellFoundedInduction, TLAPS

(***************************************************************************)
(* Numbers.                                                                *)
(***************************************************************************)

\* What an int32 is.
LEMMA Int32Range ==
  ASSUME NEW val \in Int32
  PROVE  val \in Int /\ val >= -2147483648 /\ val <= 2147483647
BY SMT DEF Int32

\* A byte keeps a small number with its sign.
LEMMA SignedByte ==
  ASSUME NEW v \in Int, v >= -128, v < 128
  PROVE  v = Signed(v % 256)
BY SMT DEF Signed

\* A number is its low byte and the rest.
LEMMA LowByte ==
  ASSUME NEW v \in Int
  PROVE  v % 256 \in 0 .. 255 /\ v \div 256 \in Int /\ v = (v % 256) + 256 * (v \div 256)
BY SMT

\* Dividing by 256 again and again.
LEMMA Divisions ==
  ASSUME NEW v \in Int
  PROVE  /\ v \div 65536 = (v \div 256) \div 256
         /\ v \div 16777216 = (v \div 65536) \div 256
         /\ v \div 1 = v
BY SMT

\* Four bytes keep an int32.
LEMMA FourBytes ==
  ASSUME NEW val \in Int32
  PROVE  val = (val % 256) + 256 * ((val \div 256) % 256) + 65536 * ((val \div 65536) % 256)
               + 16777216 * Signed((val \div 16777216) % 256)
<1> DEFINE q1 == val \div 256
           q2 == val \div 65536
           q3 == val \div 16777216
           a == val % 256
           b == q1 % 256
           c == q2 % 256
           d == Signed(q3 % 256)
<1>1. val \in Int /\ val >= -2147483648 /\ val <= 2147483647
  BY Int32Range, SMT
<1>2. q1 \in Int /\ val = a + 256 * q1 /\ a \in Int
  BY <1>1, LowByte, SMT
<1>3. q2 \in Int /\ q1 = b + 256 * q2 /\ b \in Int
  <2> HIDE DEF q1, q2
  <2>1. q2 = q1 \div 256
    BY <1>1, Divisions, SMT DEF q1, q2
  <2> QED BY <1>2, <2>1, LowByte, SMT
<1>4. q3 \in Int /\ q2 = c + 256 * q3 /\ c \in Int
  <2> HIDE DEF q2, q3
  <2>1. q3 = q2 \div 256
    BY <1>1, Divisions, SMT DEF q2, q3
  <2> QED BY <1>3, <2>1, LowByte, SMT
<1>5. q3 >= -128 /\ q3 < 128
  BY <1>1, SMT
<1>6. q3 = d
  <2> HIDE DEF q3
  <2> QED BY <1>4, <1>5, SignedByte, SMT
<1> HIDE DEF q1, q2, q3, a, b, c, d
<1>7. val = a + 256 * b + 65536 * c + 16777216 * d
  BY <1>1, <1>2, <1>3, <1>4, <1>6, SMT
<1> QED BY <1>7, SMT DEF a, b, c, d, q1, q2, q3

\* A ModRM or SIB byte.
Byte3(m, d, l) == 64 * m + 8 * d + l

(***************************************************************************)
(* Places of bytes.                                                        *)
(***************************************************************************)

\* The bytes are in buf after place p.
At(buf, p, bytes) == \A i \in 1 .. Len(bytes) : buf[p + i] = bytes[i]

\* One after the other.
LEMMA AtConcat ==
  ASSUME NEW buf, NEW p \in Nat, NEW s \in Seq(Int), NEW t \in Seq(Int), At(buf, p, s \o t)
  PROVE  At(buf, p, s) /\ At(buf, p + Len(s), t) /\ s \o t \in Seq(Int) /\ Len(s \o t) = Len(s) + Len(t)
<1>1. /\ s \o t \in Seq(Int) /\ Len(s \o t) = Len(s) + Len(t) /\ Len(s) \in Nat /\ Len(t) \in Nat
      /\ \A i \in 1 .. Len(s) + Len(t) : (s \o t)[i] = IF i <= Len(s) THEN s[i] ELSE t[i - Len(s)]
  BY ConcatProperties
<1>2. ASSUME NEW i \in 1 .. Len(s) PROVE buf[p + i] = s[i]
  <2>1. i \in 1 .. Len(s) + Len(t) /\ i <= Len(s)
    BY <1>1
  <2> QED BY <1>1, <2>1 DEF At
<1>3. ASSUME NEW i \in 1 .. Len(t) PROVE buf[p + Len(s) + i] = t[i]
  <2>1. Len(s) + i \in 1 .. Len(s) + Len(t) /\ ~(Len(s) + i <= Len(s)) /\ Len(s) + i - Len(s) = i
        /\ p + (Len(s) + i) = p + Len(s) + i
    BY <1>1
  <2>2. buf[p + (Len(s) + i)] = (s \o t)[Len(s) + i]
    BY <1>1, <2>1 DEF At
  <2> QED BY <1>1, <2>1, <2>2
<1> QED BY <1>1, <1>2, <1>3 DEF At

\* One, two and three bytes.
LEMMA AtOne ==
  ASSUME NEW buf, NEW p, NEW a, At(buf, p, <<a>>)
  PROVE  buf[p + 1] = a
BY DEF At

\* See AtOne.
LEMMA AtTwo ==
  ASSUME NEW buf, NEW p, NEW a, NEW b, At(buf, p, <<a, b>>)
  PROVE  buf[p + 1] = a /\ buf[p + 2] = b
BY DEF At

\* See AtOne.
LEMMA AtThree ==
  ASSUME NEW buf, NEW p, NEW a, NEW b, NEW c, At(buf, p, <<a, b, c>>)
  PROVE  buf[p + 1] = a /\ buf[p + 2] = b /\ buf[p + 3] = c
BY DEF At

\* Short sequences.
LEMMA ShortSeqs ==
  ASSUME NEW a \in Int, NEW b \in Int, NEW c \in Int
  PROVE  /\ <<a>> \in Seq(Int) /\ Len(<<a>>) = 1
         /\ <<a, b>> \in Seq(Int) /\ Len(<<a, b>>) = 2
         /\ <<a, b, c>> \in Seq(Int) /\ Len(<<a, b, c>>) = 3
OBVIOUS

\* One byte after another.
LEMMA OneAndOne ==
  ASSUME NEW a \in Int, NEW b \in Int
  PROVE  <<a>> \o <<b>> = <<a, b>>
<1>1. <<a>> \in Seq(Int) /\ <<b>> \in Seq(Int) /\ <<a, b>> \in Seq(Int)
  BY ShortSeqs
<1> DEFINE s == <<a>>
           t == <<b>>
           u == <<a, b>>
<1>2. Len(s) = 1 /\ Len(t) = 1 /\ Len(u) = 2 /\ s[1] = a /\ t[1] = b /\ u[1] = a /\ u[2] = b
  OBVIOUS
<1> HIDE DEF s, t, u
<1>3. /\ s \o t \in Seq(Int) /\ Len(s \o t) = 2
      /\ \A i \in 1 .. 2 : (s \o t)[i] = IF i <= 1 THEN s[i] ELSE t[i - 1]
  <2>1. s \in Seq(Int) /\ t \in Seq(Int)
    BY <1>1 DEF s, t
  <2>2. /\ s \o t \in Seq(Int) /\ Len(s \o t) = Len(s) + Len(t)
        /\ \A i \in 1 .. Len(s) + Len(t) : (s \o t)[i] = IF i <= Len(s) THEN s[i] ELSE t[i - Len(s)]
    BY <2>1, ConcatProperties
  <2>3. Len(s) + Len(t) = 2
    BY <1>2
  <2> QED BY <1>2, <2>2, <2>3
<1>4. ASSUME NEW i \in 1 .. 2 PROVE (s \o t)[i] = u[i]
  <2>1. (s \o t)[1] = s[1]
    BY <1>3
  <2>2. (s \o t)[2] = t[1]
    <3>1. 2 \in 1 .. 2 /\ ~(2 <= 1) /\ 2 - 1 = 1
      OBVIOUS
    <3> QED BY <1>3, <3>1
  <2>3. i = 1 \/ i = 2
    OBVIOUS
  <2> QED BY <1>2, <2>1, <2>2, <2>3
<1>5. u \in Seq(Int)
  BY <1>1 DEF u
<1>6. s \o t = u
  BY <1>2, <1>3, <1>4, <1>5, SeqEqual
<1> QED BY <1>6 DEF s, t, u

\* The bytes of a number are a sequence.
LEMMA BytesAreSeq ==
  ASSUME NEW n \in 0 .. 4, NEW val \in Int
  PROVE  Bytes(n, val) \in Seq(Int) /\ Len(Bytes(n, val)) = n
<1>1. \A i \in 1 .. n : Weight[i] \in Nat \ {0}
  BY SMT DEF Weight
<1>2. \A i \in 1 .. n : (val \div Weight[i]) % 256 \in Int
  BY <1>1, SMT
<1>3. Bytes(n, val) \in [1 .. n -> Int]
  BY <1>2 DEF Bytes
<1> QED BY <1>3

\* A number is read back.
LEMMA NumberRead ==
  ASSUME NEW buf, NEW p \in Nat, NEW n \in {0, 1, 4}, NEW val \in Int32,
         n = 0 => val = 0, n = 1 => val \in -128 .. 127, At(buf, p, Bytes(n, val))
  PROVE  SignedAt(buf, p + 1, n) = val
<1>1. Weight[1] = 1 /\ Weight[2] = 256 /\ Weight[3] = 65536 /\ Weight[4] = 16777216
  BY SMT DEF Weight
<1>2. Len(Bytes(n, val)) = n /\ val \in Int
  <2>1. val \in Int /\ n \in 0 .. 4
    BY Int32Range, SMT
  <2>2. Len(Bytes(n, val)) = n
    BY <2>1, BytesAreSeq
  <2> QED BY <2>1, <2>2
<1>3. \A i \in 1 .. n : buf[p + i] = (val \div Weight[i]) % 256
  <2>1. \A i \in 1 .. n : Bytes(n, val)[i] = (val \div Weight[i]) % 256
    BY SMT DEF Bytes
  <2>2. \A i \in 1 .. n : buf[p + i] = Bytes(n, val)[i]
    BY <1>2, SMT DEF At
  <2> QED BY <2>1, <2>2, SMT
<1>4. val \div 1 = val
  BY <1>2, Divisions, SMT
<1>5. CASE n = 0
  BY <1>5, SMT DEF SignedAt
<1>6. CASE n = 1
  <2>1. buf[p + 1] = val % 256
    BY <1>1, <1>3, <1>4, <1>6, SMT
  <2>2. val >= -128 /\ val < 128
    BY <1>6, SMT
  <2> QED BY <1>2, <1>6, <2>1, <2>2, SignedByte, SMT DEF SignedAt
<1>7. CASE n = 4
  <2> DEFINE a == val % 256
             b == (val \div 256) % 256
             c == (val \div 65536) % 256
             d == (val \div 16777216) % 256
  <2>1. val = a + 256 * b + 65536 * c + 16777216 * Signed(d)
    BY FourBytes, SMT
  <2>2. 1 \in 1 .. n /\ 2 \in 1 .. n /\ 3 \in 1 .. n /\ 4 \in 1 .. n
    BY <1>7, SMT
  <2>3. buf[p + 1] = a /\ buf[p + 2] = b /\ buf[p + 3] = c /\ buf[p + 4] = d
    BY <1>1, <1>3, <1>4, <2>2, SMT
  <2>4. p + 1 + 1 = p + 2 /\ p + 1 + 2 = p + 3 /\ p + 1 + 3 = p + 4
    OBVIOUS
  <2> HIDE DEF a, b, c, d
  <2> QED BY <1>7, <2>1, <2>3, <2>4, SMT DEF SignedAt
<1> QED BY <1>5, <1>6, <1>7, SMT

(***************************************************************************)
(* Prefixes.                                                               *)
(***************************************************************************)

Short(bits) == IF bits = 16 THEN 16 ELSE 32
Wide(default, bits) == IF default < 64 /\ bits >= 64 THEN 1 ELSE 0
Byte8(base, index) == IsReg(base) /\ ~IsReg(index) /\ base.bits = 8 /\ base.id >= RSP

\* What follows a REX byte, or its absence.
RexIs(rex, default, bits, base, index) ==
  /\ rex \in 0 .. 15 \/ rex = None
  /\ RexW(rex) = Wide(default, bits)
  /\ RexX(rex) = Hi(index)
  /\ RexB(rex) = Hi(base)
  /\ rex = None => ~Byte8(base, index)

\* The low and the high part of a register.
LEMMA RegisterParts ==
  ASSUME NEW r \in Registers
  PROVE  /\ r.id \in Nat /\ r.bits \in Nat /\ Lo(r) \in 0 .. 7 /\ Hi(r) \in 0 .. 1
         /\ r.id <= 15 => r.id = Lo(r) + 8 * Hi(r)
<1>1. r.id \in Nat /\ r.bits \in Nat
  BY DEF Registers, NoReg
<1> QED BY <1>1 DEF Lo, Hi

\* The REX byte r, or none.
RexOk(r, default, bits, base, index) ==
  \/ \E rex \in 0 .. 15 : r = <<64 + rex>> /\ RexIs(rex, default, bits, base, index)
  \/ r = << >> /\ RexIs(None, default, bits, base, index)

\* REX bytes say what they should.
LEMMA RexRead ==
  ASSUME NEW default \in {32, 64}, NEW bits \in Nat, NEW base \in Registers, NEW index \in Registers
  PROVE  RexOk(RexByte(default, bits, base, index), default, bits, base, index)
<1> DEFINE x == Hi(index)
           b == Hi(base)
           w == Wide(default, bits)
           regs == b + 2 * x
           rex == 8 * w + regs
           byte8 == Byte8(base, index)
<1>1. x \in 0 .. 1 /\ b \in 0 .. 1
  BY RegisterParts
<1>2. w \in 0 .. 1
  BY DEF Wide
<1>3. /\ w = 1 => RexByte(default, bits, base, index) = <<72 + regs>>
      /\ w # 1 /\ (regs # 0 \/ byte8) => RexByte(default, bits, base, index) = <<64 + regs>>
      /\ w # 1 /\ regs = 0 /\ ~byte8 => RexByte(default, bits, base, index) = << >>
  <2>1. w = 1 <=> default < 64 /\ bits >= 64
    BY DEF Wide
  <2> HIDE DEF x, b, w
  <2> QED BY <2>1 DEF RexByte, Byte8, x, b
<1> HIDE DEF x, b, w, byte8
<1>4. rex \in 0 .. 15 /\ rex \div 8 = w /\ (rex \div 2) % 2 = x /\ rex % 2 = b
  BY <1>1, <1>2
<1>5. rex # None
  BY <1>4 DEF None
<1>6. RexIs(rex, default, bits, base, index)
  <2> HIDE DEF rex
  <2> QED BY <1>4, <1>5 DEF RexIs, RexW, RexX, RexB, w, x, b
<1>7. CASE w = 1
  <2>1. 72 + regs = 64 + rex
    BY <1>1, <1>7
  <2> QED BY <1>3, <1>4, <1>6, <1>7, <2>1 DEF RexOk
<1>8. CASE w # 1 /\ (regs # 0 \/ byte8)
  <2>1. 64 + regs = 64 + rex
    BY <1>1, <1>2, <1>8
  <2> QED BY <1>3, <1>4, <1>6, <1>8, <2>1, SMTT(30) DEF RexOk
<1>9. CASE w # 1 /\ regs = 0 /\ ~byte8
  <2>1. w = 0 /\ x = 0 /\ b = 0
    BY <1>1, <1>2, <1>9
  <2>2. RexIs(None, default, bits, base, index)
    BY <1>9, <2>1 DEF RexIs, RexW, RexX, RexB, w, x, b, byte8
  <2> QED BY <1>3, <1>9, <2>2 DEF RexOk
<1> QED BY <1>7, <1>8, <1>9

\* Prefixes are at most two bytes.
LEMMA PrefixesAreSeq ==
  ASSUME NEW default \in {32, 64}, NEW bits \in Nat, NEW base \in Registers, NEW index \in Registers
  PROVE  Prefixes(bits, default, base, index) \in Seq(Int) /\ Len(Prefixes(bits, default, base, index)) \in 0 .. 2
<1> DEFINE narrow == IF bits = 16 THEN <<102>> ELSE << >>
           r == RexByte(default, bits, base, index)
<1>1. r \in Seq(Int) /\ Len(r) \in 0 .. 1
  <2> HIDE DEF r
  <2>1. CASE \E rex \in 0 .. 15 : r = <<64 + rex>>
    BY <2>1
  <2>2. CASE r = << >>
    BY <2>2
  <2>3. RexOk(r, default, bits, base, index)
    BY RexRead DEF r
  <2> QED BY <2>1, <2>2, <2>3 DEF RexOk
<1>2. narrow \in Seq(Int) /\ Len(narrow) \in 0 .. 1
  OBVIOUS
<1>3. Prefixes(bits, default, base, index) = narrow \o r
  BY DEF Prefixes
<1> HIDE DEF narrow, r
<1>4. narrow \o r \in Seq(Int) /\ Len(narrow \o r) = Len(narrow) + Len(r)
  BY <1>1, <1>2, ConcatProperties
<1>5. Len(narrow) + Len(r) \in 0 .. 2
  <2> DEFINE a == Len(narrow)
             b == Len(r)
  <2>1. a \in 0 .. 1 /\ b \in 0 .. 1
    BY <1>1, <1>2
  <2> HIDE DEF a, b
  <2>2. a + b \in 0 .. 2
    BY <2>1
  <2> QED BY <2>2 DEF a, b
<1> QED BY <1>3, <1>4, <1>5

\* After the prefixes, at place q, is the opcode.
Prefixed(buf, p, q, default, bits, base, index) ==
  /\ p \in Nat /\ default \in {32, 64} /\ bits \in Nat /\ base \in Registers /\ index \in Registers
  /\ At(buf, p, Prefixes(bits, default, base, index)) /\ q = p + Len(Prefixes(bits, default, base, index))
  /\ buf[q + 1] # 102 /\ buf[q + 1] \notin 64 .. 79

\* The processor takes the prefixes for what they are, whatever opcode follows.
LEMMA PrefixRead ==
  ASSUME NEW buf, NEW p, NEW q, NEW default, NEW bits, NEW base, NEW index,
         Prefixed(buf, p, q, default, bits, base, index)
  PROVE  \E rex : /\ RexIs(rex, default, bits, base, index)
                  /\ InsAt(buf, p + 1) = AfterPrefixes(buf, q + 1, Short(bits), rex)
<1>0. /\ p \in Nat /\ default \in {32, 64} /\ bits \in Nat /\ base \in Registers /\ index \in Registers
      /\ At(buf, p, Prefixes(bits, default, base, index)) /\ q = p + Len(Prefixes(bits, default, base, index))
      /\ buf[q + 1] # 102 /\ buf[q + 1] \notin 64 .. 79
  BY DEF Prefixed
<1> USE <1>0
<1> DEFINE narrow == IF bits = 16 THEN <<102>> ELSE << >>
           r == RexByte(default, bits, base, index)
           j == IF bits = 16 THEN p + 1 ELSE p
<1>1. narrow \in Seq(Int) /\ Len(narrow) = (IF bits = 16 THEN 1 ELSE 0)
  OBVIOUS
<1>2. PICK rex : /\ RexIs(rex, default, bits, base, index)
                 /\ \/ rex \in 0 .. 15 /\ r = <<64 + rex>>
                    \/ rex = None /\ r = << >>
  <2>1. RexOk(r, default, bits, base, index)
    BY RexRead, SMTT(30)
  <2> HIDE DEF r
  <2> QED BY <2>1 DEF RexOk
<1> HIDE DEF r
<1>3. r \in Seq(Int) /\ (rex = None => Len(r) = 0) /\ (rex # None => Len(r) = 1 /\ rex \in 0 .. 15)
  <2>1. CASE rex \in 0 .. 15 /\ r = <<64 + rex>>
    <3>1. rex # None
      BY <2>1 DEF None
    <3> QED BY <2>1, <3>1
  <2>2. CASE rex = None /\ r = << >>
    BY <2>2
  <2> QED BY <1>2, <2>1, <2>2
<1>4. /\ At(buf, p, narrow) /\ At(buf, p + Len(narrow), r)
      /\ Len(Prefixes(bits, default, base, index)) = Len(narrow) + Len(r)
  <2>1. Prefixes(bits, default, base, index) = narrow \o r
    BY DEF Prefixes, r
  <2>2. narrow \in Seq(Int)
    BY <1>1
  <2>3. At(buf, p, narrow \o r)
    BY <2>1
  <2> HIDE DEF narrow
  <2>4. /\ At(buf, p, narrow) /\ At(buf, p + Len(narrow), r) /\ Len(narrow \o r) = Len(narrow) + Len(r)
    BY <1>3, <2>2, <2>3, AtConcat
  <2> QED BY <2>1, <2>4
<1>5. bits = 16 => buf[p + 1] = 102
  BY <1>4, AtOne, SMTT(30)
<1>6. p + Len(narrow) = j /\ j \in Nat /\ q = j + Len(r)
  BY <1>1, <1>3, <1>4
<1>7. CASE rex # None
  <2>1. r = <<64 + rex>> /\ q = j + 1 /\ rex \in 0 .. 15
    BY <1>2, <1>3, <1>6, <1>7
  <2>9. buf[j + 1] = 64 + rex
    <3>1. At(buf, j, <<64 + rex>>)
      BY <1>4, <1>6, <2>1
    <3> HIDE DEF j
    <3> QED BY <3>1, AtOne, SMTT(30)
  <2>2. buf[j + 1] \in 64 .. 79 /\ buf[j + 1] # 102 /\ buf[j + 1] - 64 = rex
    BY <2>9, <2>1
  <2>3. InsAt(buf, p + 1) = AfterPrefixes(buf, j + 1 + 1, Short(bits), buf[j + 1] - 64)
    BY <1>5, <2>2 DEF InsAt, Short
  <2> QED BY <1>2, <2>1, <2>2, <2>3
<1>8. CASE rex = None
  <2>1. q = j
    BY <1>3, <1>6, <1>8
  <2>2. InsAt(buf, p + 1) = AfterPrefixes(buf, j + 1, Short(bits), None)
    BY <1>5, <2>1 DEF InsAt, Short
  <2> QED BY <1>2, <1>8, <2>1, <2>2
<1> QED BY <1>7, <1>8

(***************************************************************************)
(* Operands that follow an opcode.                                         *)
(***************************************************************************)

\* A register in the ModRM byte.
LEMMA RegisterRead ==
  ASSUME NEW buf, NEW i \in Nat, NEW op, NEW size, NEW rex, NEW d \in 0 .. 7, NEW l \in 0 .. 7,
         buf[i] = Byte3(3, d, l)
  PROVE  /\ Middle(buf[i]) = d
         /\ OperandAt(buf, i, op, size, rex) =
              [ins |-> RegIns(op, size, IF size = 8 /\ rex = None /\ l \in 4 .. 7 THEN l + 96
                                        ELSE l + 8 * RexB(rex)),
               end |-> i]
<1>1. Byte3(3, d, l) \div 64 = 3 /\ Middle(Byte3(3, d, l)) = d /\ Byte3(3, d, l) % 8 = l
  BY DEF Byte3, Middle
<1>2. buf[i] \div 64 = 3 /\ Middle(buf[i]) = d /\ buf[i] % 8 = l
  BY <1>1
<1> QED BY <1>2 DEF OperandAt

\* The parts of an address as the bits of the ModRM and SIB bytes tell them.
OffsetLen(m, l) == IF m = 1 THEN 1 ELSE IF m = 2 \/ l = 5 THEN 4 ELSE 0
PlainBase(m, l, rex) == IF m = 0 /\ l = 5 THEN 21 ELSE l + 8 * RexB(rex)
SibBase(m, l, rex) == IF m = 0 /\ l = 5 THEN None ELSE l + 8 * RexB(rex)
SibIndex(x, rex) == IF x + 8 * RexX(rex) # 4 THEN x + 8 * RexX(rex) ELSE None
SibScale(index, s) == IF index = None THEN 1 ELSE <<1, 2, 4, 8>>[s + 1]

\* ModRM with another low part than 4, and with 4 and a SIB byte.
PlainAt(buf, i, m, d, l) == m \in 0 .. 2 /\ d \in 0 .. 7 /\ l \in 0 .. 7 /\ l # 4 /\ buf[i] = Byte3(m, d, l)
SibAt(buf, i, m, d, s, x, l) ==
  /\ m \in 0 .. 2 /\ d \in 0 .. 7 /\ s \in 0 .. 3 /\ x \in 0 .. 7 /\ l \in 0 .. 7
  /\ buf[i] = Byte3(m, d, 4) /\ buf[i + 1] = Byte3(s, x, l)

\* The operand whose ModRM byte is at i, and the middle part of that byte.
AddressIs(buf, i, rex, d, base, index, scale, offset, end) ==
  /\ Middle(buf[i]) = d
  /\ \A op, size : OperandAt(buf, i, op, size, rex) =
                     [ins |-> MemIns(op, size, base, index, scale, offset), end |-> end]

\* An address without a SIB byte.
LEMMA PlainAddressRead ==
  ASSUME NEW buf, NEW i \in Nat, NEW rex, NEW m, NEW d, NEW l, PlainAt(buf, i, m, d, l)
  PROVE  AddressIs(buf, i, rex, d, PlainBase(m, l, rex), None, 1, SignedAt(buf, i + 1, OffsetLen(m, l)),
                   i + OffsetLen(m, l))
<1> USE DEF OffsetLen, PlainBase
<1> DEFINE n == OffsetLen(m, l)
<1>1. buf[i] \div 64 = m /\ Middle(buf[i]) = d /\ buf[i] % 8 = l /\ m \in 0 .. 2 /\ l \in 0 .. 7 /\ l # 4
  <2>1. m \in 0 .. 3 /\ d \in 0 .. 7 /\ l \in 0 .. 7 /\ buf[i] = Byte3(m, d, l) /\ m \in 0 .. 2 /\ l # 4
    BY DEF PlainAt
  <2>2. Byte3(m, d, l) \div 64 = m /\ Middle(Byte3(m, d, l)) = d /\ Byte3(m, d, l) % 8 = l
    BY <2>1 DEF Byte3, Middle
  <2> QED BY <2>1, <2>2
<1>2. m # 3 /\ i + 1 + n - 1 = i + n
  BY <1>1
<1>5. ASSUME NEW op, NEW size
      PROVE  OperandAt(buf, i, op, size, rex) =
               [ins |-> MemIns(op, size, PlainBase(m, l, rex), None, 1, SignedAt(buf, i + 1, n)), end |-> i + n]
  <2>1. CASE m = 0 /\ l = 5
    BY <1>1, <1>2, <2>1 DEF OperandAt
  <2>2. CASE ~(m = 0 /\ l = 5)
    BY <1>1, <1>2, <2>2 DEF OperandAt
  <2> QED BY <2>1, <2>2
<1> QED BY <1>1, <1>5 DEF AddressIs

\* An address with a SIB byte.
LEMMA SibAddressRead ==
  ASSUME NEW buf, NEW i \in Nat, NEW rex, NEW m, NEW d, NEW s, NEW x, NEW l, SibAt(buf, i, m, d, s, x, l)
  PROVE  AddressIs(buf, i, rex, d, SibBase(m, l, rex), SibIndex(x, rex), SibScale(SibIndex(x, rex), s),
                   SignedAt(buf, i + 2, OffsetLen(m, l)), i + 1 + OffsetLen(m, l))
<1> USE DEF OffsetLen, SibBase, SibIndex, SibScale
<1> DEFINE n == OffsetLen(m, l)
<1>0. /\ m \in 0 .. 3 /\ m \in 0 .. 2 /\ d \in 0 .. 7 /\ s \in 0 .. 3 /\ x \in 0 .. 7 /\ l \in 0 .. 7 /\ 4 \in 0 .. 7
      /\ buf[i] = Byte3(m, d, 4) /\ buf[i + 1] = Byte3(s, x, l)
  BY DEF SibAt
<1>1. buf[i] \div 64 = m /\ Middle(buf[i]) = d /\ buf[i] % 8 = 4
  <2>1. Byte3(m, d, 4) \div 64 = m /\ Middle(Byte3(m, d, 4)) = d /\ Byte3(m, d, 4) % 8 = 4
    BY <1>0 DEF Byte3, Middle
  <2> QED BY <1>0, <2>1
<1>2. buf[i + 1] \div 64 = s /\ Middle(buf[i + 1]) = x /\ buf[i + 1] % 8 = l
  <2>1. Byte3(s, x, l) \div 64 = s /\ Middle(Byte3(s, x, l)) = x /\ Byte3(s, x, l) % 8 = l
    BY <1>0 DEF Byte3, Middle
  <2> QED BY <1>0, <2>1
<1>3. m # 3 /\ i + 2 + n - 1 = i + 1 + n
  BY <1>0
<1>6. ASSUME NEW op, NEW size
      PROVE  OperandAt(buf, i, op, size, rex) =
               [ins |-> MemIns(op, size, SibBase(m, l, rex), SibIndex(x, rex), SibScale(SibIndex(x, rex), s),
                               SignedAt(buf, i + 2, n)),
                end |-> i + 1 + n]
  <2>1. CASE m = 0 /\ l = 5
    BY <1>1, <1>2, <1>3, <2>1 DEF OperandAt
  <2>2. CASE ~(m = 0 /\ l = 5)
    BY <1>0, <1>1, <1>2, <1>3, <2>2 DEF OperandAt
  <2> QED BY <2>1, <2>2
<1> QED BY <1>1, <1>6 DEF AddressIs

\* The scale is in the highest bits of the SIB byte.
LEMMA ScaleRead ==
  ASSUME NEW scale \in {1, 2, 4, 8}
  PROVE  ScaleBits(scale) \in 0 .. 3 /\ <<1, 2, 4, 8>>[ScaleBits(scale) + 1] = scale
<1>1. CASE scale = 1
  BY <1>1 DEF ScaleBits
<1>2. CASE scale = 2
  BY <1>2 DEF ScaleBits
<1>3. CASE scale = 4
  BY <1>3 DEF ScaleBits
<1>4. CASE scale = 8
  BY <1>4 DEF ScaleBits
<1> QED BY <1>1, <1>2, <1>3, <1>4

\* The length of the offset has a place for its value, and is never zero where
\* the processor takes the lack of an offset for something else.
LEMMA OffsetLength ==
  ASSUME NEW mem \in Mems, NEW base \in Registers, NEW index \in Registers,
         NEW n, n = OffsetMinBytes(mem, base, index)
  PROVE  /\ n \in {0, 1, 4}
         /\ n = 0 => mem.offset = 0 /\ Lo(base) # 5
         /\ n = 1 => mem.offset \in -128 .. 127
         /\ base.id = RIP => n = 4
         /\ IsReg(index) /\ ~IsReg(base) => n = 4
<1>1. Lo(Reg(RBP, 64)) = 5
  BY DEF Lo, Reg, RBP
<1> QED BY <1>1 DEF OffsetMinBytes

\* Registers of an address.
AddressIndex(mem) == IF ~IsReg(mem.base) /\ ~IsReg(mem.index) THEN Reg(RSP, 64) ELSE mem.index
AddressScale(mem) == IF ~IsReg(mem.base) /\ ~IsReg(mem.index) THEN 1 ELSE mem.scale

\* An address that the assembler accepts and Encodable admits.
Addressable(mem) ==
  /\ mem \in Mems /\ (mem.scale = 0 <=> ~IsReg(mem.index)) /\ ValidMem(mem)
  /\ mem.base.bits \in {0, 64} /\ mem.index.bits \in {0, 64}

\* What an address is made of.
LEMMA AddressParts ==
  ASSUME NEW mem, Addressable(mem)
  PROVE  /\ mem.base \in Registers /\ mem.index \in Registers /\ mem.offset \in Int32 /\ mem.label \in Nat
         /\ mem.bits \in Nat /\ mem.offset \in Int
         /\ AddressIndex(mem) \in Registers
         /\ IsReg(mem.base) => mem.base.id \in 0 .. 15 \/ mem.base.id = 21
         /\ IsReg(mem.index) => mem.index.id \in 0 .. 15 /\ mem.index.id # 4 /\ mem.base.id # 21
                                /\ mem.scale \in {1, 2, 4, 8}
         /\ ~IsReg(mem.index) => mem.index = NoReg
         /\ ~IsReg(mem.base) => mem.base = NoReg
<1>1. /\ mem.base \in Registers /\ mem.index \in Registers /\ mem.offset \in Int32 /\ mem.label \in Nat
      /\ mem.bits \in Nat /\ mem.scale \in {0, 1, 2, 4, 8}
  BY DEF Addressable, Mems
<1>2. mem.offset \in Int
  BY <1>1, Int32Range
<1>3. Reg(RSP, 64) \in Registers
  BY DEF Reg, RSP, Registers
<1>4. AddressIndex(mem) \in Registers
  BY <1>1, <1>3 DEF AddressIndex
<1>5. IsReg(mem.base) => mem.base.id \in 0 .. 15 \/ mem.base.id = 21
  BY DEF Addressable, ValidMem, IsGeneral, RAX, R15, RIP, RBP
<1>6. IsReg(mem.index) => mem.index.id \in 0 .. 15 /\ mem.index.id # 4 /\ mem.base.id # 21
                          /\ mem.scale \in {1, 2, 4, 8}
  <2>1. IsReg(mem.index) => mem.scale # 0
    BY DEF Addressable
  <2> QED BY <1>1, <2>1 DEF Addressable, ValidMem, IsGeneral, RAX, R15, RIP, RBP, RSP
<1>7. ASSUME NEW r \in Registers, ~IsReg(r) PROVE r = NoReg
  BY <1>7 DEF Registers, IsReg
<1> QED BY <1>1, <1>2, <1>4, <1>5, <1>6, <1>7

\* The bytes of an address are in buf after place p.
AddressAt(buf, p, rex, d, mem, n, ms) ==
  /\ p \in Nat /\ d \in 0 .. 7 /\ Addressable(mem)
  /\ n = OffsetMinBytes(mem, mem.base, AddressIndex(mem))
  /\ ms = ModrmSib(8 * d, n, mem.base, AddressIndex(mem), AddressScale(mem))
  /\ At(buf, p, ms \o Bytes(n, mem.offset))
  /\ RexX(rex) = Hi(AddressIndex(mem)) /\ RexB(rex) = Hi(mem.base)

\* Bytes for an address are an address for the processor.
LEMMA AddressRead ==
  ASSUME NEW buf, NEW p, NEW rex, NEW d, NEW mem, NEW n, NEW ms, AddressAt(buf, p, rex, d, mem, n, ms)
  PROVE  /\ ms \in Seq(Int) /\ n \in {0, 1, 4}
         /\ AddressIs(buf, p + 1, rex, d, IdOf(mem.base), IdOf(mem.index),
                      IF mem.scale = 0 THEN 1 ELSE mem.scale, mem.offset, p + Len(ms) + n)
<1> DEFINE base == mem.base
           index == AddressIndex(mem)
           scale == AddressScale(mem)
           low == Lo(base)
           ss == ScaleBits(scale)
           m == IF ~IsReg(base) \/ base.id = 21 THEN 0 ELSE IF n = 1 THEN 1 ELSE IF n = 4 THEN 2 ELSE 0
           Result == AddressIs(buf, p + 1, rex, d, IdOf(mem.base), IdOf(mem.index),
                               IF mem.scale = 0 THEN 1 ELSE mem.scale, mem.offset, p + Len(ms) + n)
<1>0. /\ p \in Nat /\ d \in 0 .. 7 /\ Addressable(mem)
      /\ n = OffsetMinBytes(mem, mem.base, AddressIndex(mem))
      /\ ms = ModrmSib(8 * d, n, mem.base, AddressIndex(mem), AddressScale(mem))
      /\ At(buf, p, ms \o Bytes(n, mem.offset))
      /\ RexX(rex) = Hi(AddressIndex(mem)) /\ RexB(rex) = Hi(mem.base)
  BY DEF AddressAt
<1> USE <1>0
<1>1. /\ mem.base \in Registers /\ mem.index \in Registers /\ mem.offset \in Int32 /\ mem.offset \in Int
      /\ index \in Registers
      /\ IsReg(mem.base) => mem.base.id \in 0 .. 15 \/ mem.base.id = 21
      /\ IsReg(mem.index) => mem.index.id \in 0 .. 15 /\ mem.index.id # 4 /\ mem.base.id # 21
                             /\ mem.scale \in {1, 2, 4, 8}
      /\ ~IsReg(mem.index) => mem.index = NoReg
      /\ ~IsReg(mem.base) => mem.base = NoReg
  BY AddressParts
<1>2. /\ n \in {0, 1, 4}
      /\ n = 0 => mem.offset = 0 /\ Lo(base) # 5
      /\ n = 1 => mem.offset \in -128 .. 127
      /\ base.id = RIP => n = 4
      /\ IsReg(index) /\ ~IsReg(base) => n = 4
  <2>1. mem \in Mems
    BY DEF Addressable
  <2> HIDE DEF index
  <2> QED BY <1>1, <2>1, OffsetLength DEF index
<1>3. Bytes(n, mem.offset) \in Seq(Int) /\ Len(Bytes(n, mem.offset)) = n
  <2>1. n \in 0 .. 4
    BY <1>2
  <2> QED BY <1>1, <2>1, BytesAreSeq
<1>4. Lo(base) \in 0 .. 7 /\ Hi(base) \in 0 .. 1 /\ (base.id <= 15 => base.id = Lo(base) + 8 * Hi(base))
      /\ Lo(index) \in 0 .. 7 /\ Hi(index) \in 0 .. 1 /\ (index.id <= 15 => index.id = Lo(index) + 8 * Hi(index))
      /\ base.id \in Nat /\ index.id \in Nat
  <2> HIDE DEF index
  <2> QED BY <1>1, RegisterParts
<1>5. ASSUME NEW q \in Nat, At(buf, q, Bytes(n, mem.offset)) PROVE SignedAt(buf, q + 1, n) = mem.offset
  BY <1>1, <1>2, <1>5, NumberRead, SMTT(30)
<1>6. ASSUME ms \in Seq(Int) PROVE At(buf, p, ms) /\ At(buf, p + Len(ms), Bytes(n, mem.offset))
  BY <1>3, <1>6, AtConcat
<1>21. RexX(rex) = Hi(index) /\ RexB(rex) = Hi(base) /\ ms = ModrmSib(8 * d, n, base, index, scale)
  OBVIOUS
<1>7. CASE ~IsReg(base)
  <2>1. IsReg(index) /\ index.id \in 0 .. 15 /\ scale \in {1, 2, 4, 8}
    BY <1>1, <1>7 DEF AddressIndex, AddressScale, IsReg, Reg, RSP
  <2>2. n = 4
    BY <1>2, <1>7, <2>1
  <2>3. ss \in 0 .. 3 /\ <<1, 2, 4, 8>>[ss + 1] = scale
    <3> HIDE DEF scale
    <3> QED BY <2>1, ScaleRead
  <2> HIDE DEF index, scale, ss
  <2>4. ms = <<8 * d + 4, 5 + 8 * Lo(index) + 64 * ss>>
    BY <1>7, <1>21, <2>1 DEF ModrmSib, ss
  <2>5. ms \in Seq(Int) /\ Len(ms) = 2
    <3>1. 8 * d + 4 \in Int /\ 5 + 8 * Lo(index) + 64 * ss \in Int
      BY <1>4, <2>3
    <3> QED BY <2>4, <3>1, ShortSeqs
  <2>6. buf[p + 1] = 8 * d + 4 /\ buf[p + 2] = 5 + 8 * Lo(index) + 64 * ss
    BY <1>6, <2>4, <2>5, AtTwo
  <2>7. SignedAt(buf, p + 2 + 1, n) = mem.offset
    <3>1. At(buf, p + 2, Bytes(n, mem.offset)) /\ p + 2 \in Nat
      <4>1. At(buf, p + Len(ms), Bytes(n, mem.offset))
        BY <1>6, <2>5
      <4>2. p + Len(ms) = p + 2
        BY <2>5
      <4> QED BY <4>1, <4>2
    <3> QED BY <1>5, <3>1
  <2> DEFINE number == SibIndex(Lo(index), rex)
  <2>8. number = IdOf(mem.index) /\ IdOf(base) = None
    <3>1. Lo(index) + 8 * RexX(rex) = index.id
      BY <1>4, <1>21, <2>1
    <3>2. index = IF IsReg(mem.index) THEN mem.index ELSE Reg(RSP, 64)
      BY <1>7 DEF index, AddressIndex
    <3> QED BY <1>1, <1>7, <3>1, <3>2 DEF IdOf, Reg, RSP, SibIndex
  <2>9. SibScale(number, ss) = IF mem.scale = 0 THEN 1 ELSE mem.scale
    <3>1. CASE IsReg(mem.index)
      <4>1. number # None /\ scale = mem.scale /\ mem.scale # 0
        BY <1>1, <2>8, <3>1 DEF IdOf, scale, AddressScale, None
      <4> QED BY <2>3, <4>1 DEF SibScale
    <3>2. CASE ~IsReg(mem.index)
      <4>1. number = None /\ mem.scale = 0
        BY <2>8, <3>2 DEF IdOf, Addressable
      <4> QED BY <4>1 DEF SibScale
    <3> QED BY <3>1, <3>2
  <2> HIDE DEF number
  <2> DEFINE zero == 0
             five == 5
             i == p + 1
  <2>10. AddressIs(buf, p + 1, rex, d, SibBase(zero, five, rex), number, SibScale(number, ss), SignedAt(buf, p + 1 + 2, n), p + 1 + 1 + n)
    <3>1. i \in Nat /\ SibAt(buf, i, zero, d, ss, Lo(index), five)
      BY <1>4, <2>3, <2>6 DEF Byte3, SibAt
    <3>2. n = OffsetLen(zero, five)
      BY <2>2 DEF OffsetLen
    <3>3. number = SibIndex(Lo(index), rex)
      BY DEF number
    <3> HIDE DEF zero, five, i
    <3>4. AddressIs(buf, i, rex, d, SibBase(zero, five, rex), number, SibScale(number, ss), SignedAt(buf, i + 2, n), i + 1 + n)
      BY <3>1, <3>2, <3>3, SibAddressRead
    <3> QED BY <3>4 DEF i
  <2>11. p + 1 + 2 = p + 2 + 1 /\ p + 1 + 1 + n = p + Len(ms) + n
    <3>1. p + Len(ms) = p + 2
      BY <2>5
    <3>2. p + 1 + 1 + n = p + 2 + n /\ p + 1 + 2 = p + 2 + 1
      BY <1>2
    <3> QED BY <3>1, <3>2
  <2>13. SibBase(zero, five, rex) = None
    BY DEF SibBase
  <2>12. Result
    BY <2>7, <2>8, <2>9, <2>10, <2>11, <2>13
  <2> QED BY <1>2, <2>5, <2>10, <2>12
<1>8. ASSUME IsReg(base), base.id # 21
      PROVE  /\ m \in 0 .. 2 /\ base.id = low + 8 * RexB(rex) /\ IdOf(base) = base.id
             /\ n = OffsetLen(m, low)
             /\ m = 0 => low # 5
             /\ 64 * m = IF ~IsReg(base) THEN 0 ELSE IF n = 1 THEN 64
                         ELSE IF n = 4 /\ base.id # RIP THEN 128 ELSE 0
  <2>1. base.id = low + 8 * RexB(rex) /\ IdOf(base) = base.id
    BY <1>1, <1>4, <1>8 DEF IdOf
  <2>2. RIP = 21
    BY DEF RIP, RBP
  <2> HIDE DEF low
  <2> QED BY <1>2, <1>8, <2>1, <2>2 DEF low, OffsetLen
<1>9. CASE IsReg(base) /\ IsReg(mem.index)
  <2>1. base.id # 21 /\ index = mem.index /\ scale = mem.scale /\ IsReg(index) /\ index.id \in 0 .. 15
        /\ index.id # 4 /\ scale \in {1, 2, 4, 8}
    BY <1>1, <1>9 DEF AddressIndex, AddressScale
  <2>2. /\ m \in 0 .. 2 /\ base.id = low + 8 * RexB(rex) /\ IdOf(base) = base.id
        /\ n = OffsetLen(m, low) /\ (m = 0 => low # 5)
        /\ 64 * m = IF ~IsReg(base) THEN 0 ELSE IF n = 1 THEN 64
                    ELSE IF n = 4 /\ base.id # RIP THEN 128 ELSE 0
    BY <1>8, <1>9, <2>1
  <2>3. ss \in 0 .. 3 /\ <<1, 2, 4, 8>>[ss + 1] = scale
    <3> HIDE DEF scale
    <3> QED BY <2>1, ScaleRead
  <2> HIDE DEF index, scale, ss, m
  <2> DEFINE x == Lo(index)
             first == 8 * d + 64 * m + 4
             second == low + 8 * x + 64 * ss
  <2>4. ms = <<first, second>>
    BY <1>9, <1>21, <2>1, <2>2 DEF ModrmSib, ss
  <2>5. ms \in Seq(Int) /\ Len(ms) = 2 /\ first \in Int /\ second \in Int
    <3>1. first \in Int /\ second \in Int
      BY <1>4, <2>2, <2>3
    <3> HIDE DEF first, second
    <3> QED BY <2>4, <3>1, ShortSeqs
  <2>6. buf[p + 1] = first /\ buf[p + 2] = second
    <3> HIDE DEF first, second
    <3> QED BY <1>6, <2>4, <2>5, AtTwo
  <2>7. SignedAt(buf, p + 2 + 1, n) = mem.offset
    <3>1. At(buf, p + Len(ms), Bytes(n, mem.offset))
      BY <1>6, <2>5
    <3>2. p + Len(ms) = p + 2 /\ p + 2 \in Nat
      <4>1. p + Len(ms) = p + 2
        BY <2>5
      <4>2. p + 2 \in Nat
        OBVIOUS
      <4> QED BY <4>1, <4>2
    <3>3. At(buf, p + 2, Bytes(n, mem.offset))
      BY <3>1, <3>2
    <3> QED BY <1>5, <3>2, <3>3
  <2>8. SibIndex(x, rex) = IdOf(mem.index) /\ SibIndex(x, rex) # None
    <3>1. x + 8 * RexX(rex) = index.id
      BY <1>4, <1>21, <2>1
    <3> QED BY <2>1, <3>1 DEF IdOf, SibIndex, None
  <2>9. SibScale(SibIndex(x, rex), ss) = IF mem.scale = 0 THEN 1 ELSE mem.scale
    BY <2>1, <2>3, <2>8 DEF SibScale
  <2>10. SibBase(m, low, rex) = IdOf(base)
    BY <2>2 DEF SibBase
  <2> DEFINE i == p + 1
  <2>11. i \in Nat /\ SibAt(buf, i, m, d, ss, x, low)
    BY <1>4, <2>2, <2>3, <2>6 DEF Byte3, SibAt
  <2> HIDE DEF i, x, low
  <2>12. AddressIs(buf, i, rex, d, SibBase(m, low, rex), SibIndex(x, rex), SibScale(SibIndex(x, rex), ss), SignedAt(buf, i + 2, n), i + 1 + n)
    BY <2>2, <2>11, SibAddressRead
  <2>13. i + 2 = p + 2 + 1 /\ i + 1 + n = p + Len(ms) + n
    <3>1. p + Len(ms) = p + 2
      BY <2>5
    <3>2. i + 1 + n = p + 2 + n /\ i + 2 = p + 2 + 1
      BY <1>2 DEF i
    <3> QED BY <3>1, <3>2
  <2>14. Result
    BY <2>7, <2>8, <2>9, <2>10, <2>12, <2>13 DEF i
  <2> QED BY <1>2, <2>5, <2>12, <2>14 DEF i
<1>10. CASE IsReg(base) /\ ~IsReg(mem.index) /\ base.id = 21
  <2>1. index = NoReg /\ ~IsReg(index) /\ mem.scale = 0 /\ IdOf(mem.index) = None /\ IdOf(base) = 21 /\ n = 4
    BY <1>1, <1>2, <1>10 DEF AddressIndex, IdOf, Addressable, RIP, RBP
  <2>2. low = 5
    BY <1>10 DEF Lo
  <2> HIDE DEF index
  <2> DEFINE first == 8 * d + 5
  <2>3. ms = <<first>>
    <3>1. ModrmSib(8 * d, n, base, index, scale) = <<8 * d + 0 + 5>> \o << >>
      BY <1>10, <2>1, <2>2 DEF ModrmSib, RIP, RBP
    <3>2. 8 * d + 0 + 5 = first
      OBVIOUS
    <3> HIDE DEF first
    <3>3. <<first>> \o << >> = <<first>>
      OBVIOUS
    <3> QED BY <1>21, <3>1, <3>2, <3>3
  <2>4. ms \in Seq(Int) /\ Len(ms) = 1
    <3>1. first \in Int
      OBVIOUS
    <3> HIDE DEF first
    <3> QED BY <2>3, <3>1, ShortSeqs
  <2>5. buf[p + 1] = first
    <3> HIDE DEF first
    <3> QED BY <1>6, <2>3, <2>4, AtOne
  <2> DEFINE i == p + 1
             zero == 0
             five == 5
  <2>6. SignedAt(buf, i + 1, n) = mem.offset
    <3>1. At(buf, p + Len(ms), Bytes(n, mem.offset))
      BY <1>6, <2>4
    <3>2. p + Len(ms) = i /\ i \in Nat
      <4>1. p + Len(ms) = p + 1
        BY <2>4
      <4>2. p + 1 \in Nat
        OBVIOUS
      <4> QED BY <4>1, <4>2
    <3>3. At(buf, i, Bytes(n, mem.offset))
      BY <3>1, <3>2
    <3> HIDE DEF i
    <3> QED BY <1>5, <3>2, <3>3
  <2>7. i \in Nat /\ PlainAt(buf, i, zero, d, five)
    BY <2>5 DEF Byte3, PlainAt
  <2>8. n = OffsetLen(zero, five) /\ PlainBase(zero, five, rex) = 21
    BY <2>1 DEF OffsetLen, PlainBase
  <2> HIDE DEF i, zero, five
  <2>9. AddressIs(buf, i, rex, d, PlainBase(zero, five, rex), None, 1, SignedAt(buf, i + 1, n), i + n)
    BY <2>7, <2>8, PlainAddressRead
  <2>10. i + n = p + Len(ms) + n
    BY <2>4 DEF i
  <2>11. Result
    BY <2>1, <2>6, <2>8, <2>9, <2>10 DEF i
  <2> QED BY <1>2, <2>4, <2>9, <2>11 DEF i
<1>11. CASE IsReg(base) /\ ~IsReg(mem.index) /\ base.id # 21 /\ low # 4
  <2>1. index = NoReg /\ ~IsReg(index) /\ mem.scale = 0 /\ IdOf(mem.index) = None
    BY <1>1, <1>11 DEF AddressIndex, IdOf, Addressable
  <2>2. /\ m \in 0 .. 2 /\ base.id = low + 8 * RexB(rex) /\ IdOf(base) = base.id
        /\ n = OffsetLen(m, low) /\ (m = 0 => low # 5)
        /\ 64 * m = IF ~IsReg(base) THEN 0 ELSE IF n = 1 THEN 64
                    ELSE IF n = 4 /\ base.id # RIP THEN 128 ELSE 0
    BY <1>8, <1>11
  <2> HIDE DEF index, m
  <2> DEFINE first == 8 * d + 64 * m + low
  <2>3. ms = <<first>>
    <3>1. ModrmSib(8 * d, n, base, index, scale) = <<first>> \o << >>
      BY <1>11, <2>1, <2>2 DEF ModrmSib
    <3> HIDE DEF first
    <3>3. <<first>> \o << >> = <<first>>
      OBVIOUS
    <3> QED BY <1>21, <3>1, <3>3
  <2>4. ms \in Seq(Int) /\ Len(ms) = 1
    <3>1. first \in Int
      BY <1>4, <2>2
    <3> HIDE DEF first
    <3> QED BY <2>3, <3>1, ShortSeqs
  <2>5. buf[p + 1] = first
    <3> HIDE DEF first
    <3> QED BY <1>6, <2>3, <2>4, AtOne
  <2> DEFINE i == p + 1
  <2>6. SignedAt(buf, i + 1, n) = mem.offset
    <3>1. At(buf, p + Len(ms), Bytes(n, mem.offset))
      BY <1>6, <2>4
    <3>2. p + Len(ms) = i
      BY <2>4
    <3>3. At(buf, i, Bytes(n, mem.offset))
      BY <3>1, <3>2
    <3>4. i \in Nat
      OBVIOUS
    <3> HIDE DEF i
    <3> QED BY <1>5, <3>3, <3>4
  <2>7. i \in Nat /\ PlainAt(buf, i, m, d, low)
    BY <1>4, <1>11, <2>2, <2>5 DEF Byte3, PlainAt
  <2>8. PlainBase(m, low, rex) = IdOf(base)
    BY <2>2 DEF PlainBase
  <2> HIDE DEF i, low
  <2>9. AddressIs(buf, i, rex, d, PlainBase(m, low, rex), None, 1, SignedAt(buf, i + 1, n), i + n)
    <3>1. n = OffsetLen(m, low)
      BY <2>2
    <3>2. AddressIs(buf, i, rex, d, PlainBase(m, low, rex), None, 1, SignedAt(buf, i + 1, OffsetLen(m, low)), i + OffsetLen(m, low))
      BY <2>7, PlainAddressRead
    <3> QED BY <3>1, <3>2
  <2>10. i + n = p + Len(ms) + n
    BY <2>4 DEF i
  <2>11. Result
    BY <2>1, <2>6, <2>8, <2>9, <2>10 DEF i
  <2> QED BY <1>2, <2>4, <2>9, <2>11 DEF i
<1>12. CASE IsReg(base) /\ ~IsReg(mem.index) /\ base.id # 21 /\ low = 4
  <2>1. index = NoReg /\ ~IsReg(index) /\ mem.scale = 0 /\ IdOf(mem.index) = None /\ Hi(index) = 0
    BY <1>1, <1>12 DEF AddressIndex, IdOf, Addressable, Hi, NoReg
  <2>2. /\ m \in 0 .. 2 /\ base.id = low + 8 * RexB(rex) /\ IdOf(base) = base.id
        /\ n = OffsetLen(m, low) /\ (m = 0 => low # 5)
        /\ 64 * m = IF ~IsReg(base) THEN 0 ELSE IF n = 1 THEN 64
                    ELSE IF n = 4 /\ base.id # RIP THEN 128 ELSE 0
    BY <1>8, <1>12
  <2>3. RexX(rex) = 0
    BY <1>21, <2>1
  <2> HIDE DEF index, m
  <2> DEFINE first == 8 * d + 64 * m + low
  <2>4. ms = <<first, 36>>
    <3>1. ModrmSib(8 * d, n, base, index, scale) = <<first>> \o <<36>>
      BY <1>12, <2>1, <2>2 DEF ModrmSib
    <3> HIDE DEF first
    <3>3. <<first>> \o <<36>> = <<first, 36>>
      <4>1. first \in Int /\ 36 \in Int
        BY <1>4, <2>2 DEF first
      <4> QED BY <4>1, OneAndOne
    <3> QED BY <1>21, <3>1, <3>3
  <2>5. ms \in Seq(Int) /\ Len(ms) = 2
    <3>1. first \in Int /\ 36 \in Int
      BY <1>4, <2>2
    <3> HIDE DEF first
    <3> QED BY <2>4, <3>1, ShortSeqs
  <2>6. buf[p + 1] = first /\ buf[p + 2] = 36
    <3> HIDE DEF first
    <3> QED BY <1>6, <2>4, <2>5, AtTwo
  <2>7. SignedAt(buf, p + 2 + 1, n) = mem.offset
    <3>1. At(buf, p + Len(ms), Bytes(n, mem.offset))
      BY <1>6, <2>5
    <3>2. p + Len(ms) = p + 2
      BY <2>5
    <3>3. At(buf, p + 2, Bytes(n, mem.offset))
      BY <3>1, <3>2
    <3>4. p + 2 \in Nat
      OBVIOUS
    <3> QED BY <1>5, <3>3, <3>4
  <2> DEFINE i == p + 1
             zero == 0
             four == 4
  <2>8. SibIndex(four, rex) = None /\ SibScale(None, zero) = 1 /\ SibBase(m, low, rex) = IdOf(base)
    BY <1>12, <2>2, <2>3 DEF SibIndex, SibScale, SibBase
  <2>9. i \in Nat /\ SibAt(buf, i, m, d, zero, four, low)
    BY <1>12, <2>2, <2>6 DEF Byte3, SibAt
  <2> HIDE DEF i, zero, four, low
  <2>10. AddressIs(buf, i, rex, d, SibBase(m, low, rex), SibIndex(four, rex), SibScale(SibIndex(four, rex), zero), SignedAt(buf, i + 2, n), i + 1 + n)
    BY <2>2, <2>9, SibAddressRead
  <2>11. i + 2 = p + 2 + 1 /\ i + 1 + n = p + Len(ms) + n
    <3>1. p + Len(ms) = p + 2
      BY <2>5
    <3>2. i + 1 + n = p + 2 + n /\ i + 2 = p + 2 + 1
      BY <1>2 DEF i
    <3> QED BY <3>1, <3>2
  <2>12. Result
    BY <2>1, <2>7, <2>8, <2>10, <2>11 DEF i
  <2> QED BY <1>2, <2>5, <2>10, <2>12 DEF i
<1> QED BY <1>2, <1>7, <1>9, <1>10, <1>11, <1>12

(***************************************************************************)
(* Opcodes.                                                                *)
(***************************************************************************)

\* The size of an operand of a group of instructions.
GroupWidth(opcode, name, short, rex) ==
  IF opcode \in {246, 254} THEN 8
  ELSE IF name \in {"call", "jmp", "push", "pop"} THEN IF short = 16 THEN 16 ELSE 64
  ELSE IF RexW(rex) = 1 THEN 64 ELSE short

\* Opcodes with an operation in the ModRM byte.
LEMMA GroupAfter ==
  ASSUME NEW buf, NEW i, NEW short, NEW rex, NEW name, name = GroupName(buf[i], Middle(buf[i + 1])),
         buf[i] \in {143, 246, 247, 254, 255}
  PROVE  AfterPrefixes(buf, i, short, rex) =
           OperandAt(buf, i + 1, Op(name), GroupWidth(buf[i], name, short, rex), rex)
<1>1. buf[i] \notin DOMAIN PlainNames
  BY DEF PlainNames
<1> QED BY <1>1 DEF AfterPrefixes, GroupWidth

\* Registers in the opcode.
LEMMA StackAfter ==
  ASSUME NEW buf, NEW i, NEW short, NEW rex, NEW l \in 0 .. 7
  PROVE  /\ buf[i] = 80 + l => AfterPrefixes(buf, i, short, rex) =
              [ins |-> RegIns(Op("push"), IF short = 16 THEN 16 ELSE 64, l + 8 * RexB(rex)), end |-> i]
         /\ buf[i] = 88 + l => AfterPrefixes(buf, i, short, rex) =
              [ins |-> RegIns(Op("pop"), IF short = 16 THEN 16 ELSE 64, l + 8 * RexB(rex)), end |-> i]
<1>1. ASSUME buf[i] = 80 + l
      PROVE  AfterPrefixes(buf, i, short, rex) =
              [ins |-> RegIns(Op("push"), IF short = 16 THEN 16 ELSE 64, l + 8 * RexB(rex)), end |-> i]
  <2>1. buf[i] \in 80 .. 87 /\ buf[i] - 80 = l
    BY <1>1
  <2>2. buf[i] \notin DOMAIN PlainNames
    BY <2>1 DEF PlainNames
  <2> QED BY <2>1, <2>2 DEF AfterPrefixes
<1>2. ASSUME buf[i] = 88 + l
      PROVE  AfterPrefixes(buf, i, short, rex) =
              [ins |-> RegIns(Op("pop"), IF short = 16 THEN 16 ELSE 64, l + 8 * RexB(rex)), end |-> i]
  <2>1. buf[i] \in 88 .. 95 /\ buf[i] - 88 = l
    BY <1>2
  <2>2. buf[i] \notin DOMAIN PlainNames
    BY <2>1 DEF PlainNames
  <2> QED BY <2>1, <2>2 DEF AfterPrefixes
<1> QED BY <1>1, <1>2

\* Numbers after the opcode.
LEMMA NumberAfter ==
  ASSUME NEW buf, NEW i, NEW short, NEW rex
  PROVE  /\ buf[i] = 106 => AfterPrefixes(buf, i, short, rex) = Imm(buf, Op("push"), i + 1, 1)
         /\ buf[i] = 104 => AfterPrefixes(buf, i, short, rex) = Imm(buf, Op("push"), i + 1, 4)
         /\ buf[i] = 205 => AfterPrefixes(buf, i, short, rex) = Imm(buf, Op("int"), i + 1, 1)
         /\ buf[i] = 232 => AfterPrefixes(buf, i, short, rex) = Imm(buf, Op("call"), i + 1, 4)
         /\ buf[i] = 233 => AfterPrefixes(buf, i, short, rex) = Imm(buf, Op("jmp"), i + 1, 4)
         /\ buf[i] = 235 => AfterPrefixes(buf, i, short, rex) = Imm(buf, Op("jmp"), i + 1, 1)
<1>1. ASSUME buf[i] = 106 PROVE AfterPrefixes(buf, i, short, rex) = Imm(buf, Op("push"), i + 1, 1)
  BY <1>1 DEF AfterPrefixes, PlainNames
<1>2. ASSUME buf[i] = 104 PROVE AfterPrefixes(buf, i, short, rex) = Imm(buf, Op("push"), i + 1, 4)
  BY <1>2 DEF AfterPrefixes, PlainNames
<1>3. ASSUME buf[i] = 205 PROVE AfterPrefixes(buf, i, short, rex) = Imm(buf, Op("int"), i + 1, 1)
  BY <1>3 DEF AfterPrefixes, PlainNames
<1>4. ASSUME buf[i] = 232 PROVE AfterPrefixes(buf, i, short, rex) = Imm(buf, Op("call"), i + 1, 4)
  BY <1>4 DEF AfterPrefixes, PlainNames
<1>5. ASSUME buf[i] = 233 PROVE AfterPrefixes(buf, i, short, rex) = Imm(buf, Op("jmp"), i + 1, 4)
  BY <1>5 DEF AfterPrefixes, PlainNames
<1>6. ASSUME buf[i] = 235 PROVE AfterPrefixes(buf, i, short, rex) = Imm(buf, Op("jmp"), i + 1, 1)
  BY <1>6 DEF AfterPrefixes, PlainNames
<1> QED BY <1>1, <1>2, <1>3, <1>4, <1>5, <1>6

\* Conditions are part of the opcode.
LEMMA ConditionAfter ==
  ASSUME NEW buf, NEW i, NEW short, NEW rex, NEW c \in 0 .. 15
  PROVE  /\ buf[i] = 112 + c => AfterPrefixes(buf, i, short, rex) = Imm(buf, IfOp("j", c), i + 1, 1)
         /\ buf[i] = 15 /\ buf[i + 1] = 128 + c =>
              AfterPrefixes(buf, i, short, rex) = Imm(buf, IfOp("j", c), i + 2, 4)
         /\ buf[i] = 15 /\ buf[i + 1] = 144 + c =>
              AfterPrefixes(buf, i, short, rex) = OperandAt(buf, i + 2, IfOp("set", c), 8, rex)
<1>1. ASSUME buf[i] = 112 + c PROVE AfterPrefixes(buf, i, short, rex) = Imm(buf, IfOp("j", c), i + 1, 1)
  <2>1. buf[i] \in 112 .. 127 /\ buf[i] - 112 = c
    BY <1>1
  <2> QED BY <2>1, SMTT(30) DEF AfterPrefixes, PlainNames
<1>2. ASSUME buf[i] = 15, buf[i + 1] = 128 + c
      PROVE AfterPrefixes(buf, i, short, rex) = Imm(buf, IfOp("j", c), i + 2, 4)
  <2>1. buf[i + 1] \in 128 .. 143 /\ buf[i + 1] - 128 = c
    BY <1>2
  <2> QED BY <1>2, <2>1 DEF AfterPrefixes, PlainNames, PlainNames2
<1>3. ASSUME buf[i] = 15, buf[i + 1] = 144 + c
      PROVE AfterPrefixes(buf, i, short, rex) = OperandAt(buf, i + 2, IfOp("set", c), 8, rex)
  <2>1. buf[i + 1] \in 144 .. 159 /\ buf[i + 1] - 144 = c
    BY <1>3
  <2> QED BY <1>3, <2>1 DEF AfterPrefixes, PlainNames, PlainNames2
<1> QED BY <1>1, <1>2, <1>3

\* bswap
LEMMA BswapAfter ==
  ASSUME NEW buf, NEW i, NEW short, NEW rex, NEW l \in 0 .. 7, buf[i] = 15, buf[i + 1] = 200 + l
  PROVE  AfterPrefixes(buf, i, short, rex) =
           [ins |-> RegIns(Op("bswap"), IF RexW(rex) = 1 THEN 64 ELSE short, l + 8 * RexB(rex)), end |-> i + 1]
<1>1. buf[i + 1] \in 200 .. 207 /\ buf[i + 1] - 200 = l
  OBVIOUS
<1> QED BY <1>1 DEF AfterPrefixes, PlainNames, PlainNames2

\* Instructions without operands.
LEMMA PlainAfter ==
  ASSUME NEW buf, NEW i, NEW short, NEW rex
  PROVE  /\ buf[i] \in DOMAIN PlainNames => AfterPrefixes(buf, i, short, rex) = Plain(PlainNames[buf[i]], i)
         /\ buf[i] = 15 /\ buf[i + 1] \in DOMAIN PlainNames2 =>
              AfterPrefixes(buf, i, short, rex) = Plain(PlainNames2[buf[i + 1]], i + 1)
         /\ buf[i] = 15 /\ buf[i + 1] \in {1, 174} /\ buf[i + 2] \in DOMAIN PlainNames3 =>
              AfterPrefixes(buf, i, short, rex) = Plain(PlainNames3[buf[i + 2]], i + 2)
<1>1. DOMAIN PlainNames = {144, 156, 157, 195, 204, 240, 242, 243, 245, 248, 249, 252, 253}
  BY DEF PlainNames
<1>2. DOMAIN PlainNames2 = {5, 7, 11, 49, 52, 53}
  BY DEF PlainNames2
<1>3. ASSUME buf[i] \in DOMAIN PlainNames
      PROVE  AfterPrefixes(buf, i, short, rex) = Plain(PlainNames[buf[i]], i)
  BY <1>1, <1>3 DEF AfterPrefixes
<1>4. ASSUME buf[i] = 15, buf[i + 1] \in DOMAIN PlainNames2
      PROVE  AfterPrefixes(buf, i, short, rex) = Plain(PlainNames2[buf[i + 1]], i + 1)
  BY <1>1, <1>2, <1>4 DEF AfterPrefixes
<1>5. ASSUME buf[i] = 15, buf[i + 1] \in {1, 174}, buf[i + 2] \in DOMAIN PlainNames3
      PROVE  AfterPrefixes(buf, i, short, rex) = Plain(PlainNames3[buf[i + 2]], i + 2)
  BY <1>1, <1>2, <1>5 DEF AfterPrefixes
<1> QED BY <1>3, <1>4, <1>5

(***************************************************************************)
(* The table of instructions.                                              *)
(***************************************************************************)

\* Operations are those of the table, and those with a condition.
LEMMA OpsAre ==
  ASSUME NEW op \in Ops
  PROVE  /\ \/ op.name \in {"j", "set"} /\ op.cond \in Conditions
            \/ op = Op(op.name) /\ op.name \in DOMAIN Insts
            \/ op.name = "mir_jmp"
         /\ op = [name |-> op.name, cond |-> op.cond]
         /\ op.name \in {"j", "set", "mir_jmp", "bswap", "call", "cbw", "dec", "inc", "int", "jmp", "neg", "not",
                         "pop", "push", "rdtsc", "clflush", "clflushopt", "clwb", "xabort"}
BY DEF Ops, Op, Insts

\* Where an operation of the table is found.
LEMMA InstFound ==
  ASSUME NEW op \in Ops, op.name \notin {"j", "set", "mir_jmp"}
  PROVE  op = Op(op.name) /\ FindInst(op) = Insts[op.name]
<1>1. op = Op(op.name) /\ op.name \in DOMAIN Insts
  BY OpsAre
<1> QED BY <1>1 DEF FindInst

\* An operation of a group: its opcode, its number in the group and the size
\* of its operand.
GroupForm(op, bits, first, o, d) ==
  /\ FindInst(op).bytes = <<first, 8 * d>>
  /\ first \in Int /\ o = first + WideBit(FindInst(op), bits)
  /\ o \in {143, 246, 247, 254, 255} /\ d \in 0 .. 7
  /\ GroupName(o, d) = op.name /\ op = Op(op.name)
  /\ bits \in {8, 16, 32, 64}
  /\ o \in {246, 254} <=> bits = 8
  /\ op.name \in {"call", "jmp", "push", "pop"} => bits \in {16, 64}

Groups == {"call", "dec", "inc", "jmp", "neg", "not", "pop", "push"}

\* What the table says of the groups is what the processor knows.
LEMMA GroupInst ==
  ASSUME NEW op \in Ops, op.name \in Groups, NEW bits, bits \in FindInst(op).argSize
  PROVE  \E first, o, d : GroupForm(op, bits, first, o, d)
<1>1. op = Op(op.name) /\ FindInst(op) = Insts[op.name]
  BY InstFound DEF Groups
<1>2. CASE op.name = "call"
  <2>1. FindInst(op).bytes = <<255, 8 * 2>> /\ FindInst(op).argSize = {64}
    BY <1>1, <1>2 DEF Insts, Inst
  <2>2. WideBit(FindInst(op), bits) = 0 /\ bits = 64
    BY <2>1 DEF WideBit
  <2>3. GroupForm(op, bits, 255, 255, 2)
    BY <1>1, <1>2, <2>1, <2>2 DEF GroupForm, GroupName
  <2> QED BY <2>3
<1>3. CASE op.name = "dec"
  <2>1. FindInst(op).bytes = <<254, 8 * 1>> /\ FindInst(op).argSize = {8, 16, 32, 64}
    BY <1>1, <1>3 DEF Insts, Inst, RegMem
  <2>2. CASE bits = 8
    <3>1. GroupForm(op, bits, 254, 254, 1)
      BY <1>1, <1>3, <2>1, <2>2 DEF GroupForm, GroupName, WideBit
    <3> QED BY <3>1
  <2>3. CASE bits # 8
    <3>1. GroupForm(op, bits, 254, 255, 1)
      BY <1>1, <1>3, <2>1, <2>3 DEF GroupForm, GroupName, WideBit
    <3> QED BY <3>1
  <2> QED BY <2>2, <2>3
<1>4. CASE op.name = "inc"
  <2>1. FindInst(op).bytes = <<254, 8 * 0>> /\ FindInst(op).argSize = {8, 16, 32, 64}
    BY <1>1, <1>4 DEF Insts, Inst, RegMem
  <2>2. CASE bits = 8
    <3>1. GroupForm(op, bits, 254, 254, 0)
      BY <1>1, <1>4, <2>1, <2>2 DEF GroupForm, GroupName, WideBit
    <3> QED BY <3>1
  <2>3. CASE bits # 8
    <3>1. GroupForm(op, bits, 254, 255, 0)
      BY <1>1, <1>4, <2>1, <2>3 DEF GroupForm, GroupName, WideBit
    <3> QED BY <3>1
  <2> QED BY <2>2, <2>3
<1>5. CASE op.name = "jmp"
  <2>1. FindInst(op).bytes = <<255, 8 * 4>> /\ FindInst(op).argSize = {64}
    BY <1>1, <1>5 DEF Insts, Inst
  <2>2. WideBit(FindInst(op), bits) = 0 /\ bits = 64
    BY <2>1 DEF WideBit
  <2>3. GroupForm(op, bits, 255, 255, 4)
    BY <1>1, <1>5, <2>1, <2>2 DEF GroupForm, GroupName
  <2> QED BY <2>3
<1>6. CASE op.name = "neg"
  <2>1. FindInst(op).bytes = <<246, 8 * 3>> /\ FindInst(op).argSize = {8, 16, 32, 64}
    BY <1>1, <1>6 DEF Insts, Inst, RegMem
  <2>2. CASE bits = 8
    <3>1. GroupForm(op, bits, 246, 246, 3)
      BY <1>1, <1>6, <2>1, <2>2 DEF GroupForm, GroupName, WideBit
    <3> QED BY <3>1
  <2>3. CASE bits # 8
    <3>1. GroupForm(op, bits, 246, 247, 3)
      BY <1>1, <1>6, <2>1, <2>3 DEF GroupForm, GroupName, WideBit
    <3> QED BY <3>1
  <2> QED BY <2>2, <2>3
<1>7. CASE op.name = "not"
  <2>1. FindInst(op).bytes = <<246, 8 * 2>> /\ FindInst(op).argSize = {8, 16, 32, 64}
    BY <1>1, <1>7 DEF Insts, Inst, RegMem
  <2>2. CASE bits = 8
    <3>1. GroupForm(op, bits, 246, 246, 2)
      BY <1>1, <1>7, <2>1, <2>2 DEF GroupForm, GroupName, WideBit
    <3> QED BY <3>1
  <2>3. CASE bits # 8
    <3>1. GroupForm(op, bits, 246, 247, 2)
      BY <1>1, <1>7, <2>1, <2>3 DEF GroupForm, GroupName, WideBit
    <3> QED BY <3>1
  <2> QED BY <2>2, <2>3
<1>8. CASE op.name = "pop"
  <2>1. FindInst(op).bytes = <<143, 8 * 0>> /\ FindInst(op).argSize = {16, 64}
    BY <1>1, <1>8 DEF Insts, Inst, RegMem
  <2>2. WideBit(FindInst(op), bits) = 0 /\ bits \in {16, 64}
    BY <2>1 DEF WideBit
  <2>3. GroupForm(op, bits, 143, 143, 0)
    BY <1>1, <1>8, <2>1, <2>2 DEF GroupForm, GroupName
  <2> QED BY <2>3
<1>9. CASE op.name = "push"
  <2>1. FindInst(op).bytes = <<255, 8 * 6>> /\ FindInst(op).argSize = {16, 64}
    BY <1>1, <1>9 DEF Insts, Inst
  <2>2. WideBit(FindInst(op), bits) = 0 /\ bits \in {16, 64}
    BY <2>1 DEF WideBit
  <2>3. GroupForm(op, bits, 255, 255, 6)
    BY <1>1, <1>9, <2>1, <2>2 DEF GroupForm, GroupName
  <2> QED BY <2>3
<1> QED BY <1>2, <1>3, <1>4, <1>5, <1>6, <1>7, <1>8, <1>9 DEF Groups

\* The size that the processor takes is that of the operand.
LEMMA GroupSize ==
  ASSUME NEW op, NEW bits, NEW first, NEW o, NEW d, GroupForm(op, bits, first, o, d), NEW rex,
         RexW(rex) = Wide(DefaultSize(op), bits)
  PROVE  GroupWidth(o, op.name, Short(bits), rex) = bits
<1>1. CASE op.name \in {"call", "jmp", "push", "pop"}
  BY <1>1 DEF GroupForm, GroupWidth, Short, Wide, DefaultSize
<1>2. CASE op.name \notin {"call", "jmp", "push", "pop"}
  BY <1>2 DEF GroupForm, GroupWidth, Short, Wide, DefaultSize
<1> QED BY <1>1, <1>2

\* The numbers of conditions are the processor's.
LEMMA ConditionNumbers ==
  ASSUME NEW c \in Conditions
  PROVE  CondBits[c] \in 0 .. 15 /\ ConditionNames[CondBits[c] + 1] = c
<1>1. ASSUME NEW k \in 0 .. 15, CondBits[c] = k, ConditionNames[k + 1] = c
      PROVE  CondBits[c] \in 0 .. 15 /\ ConditionNames[CondBits[c] + 1] = c
  BY <1>1
<1> USE DEF Conditions, CondBits, ConditionNames
<1>2. CASE c \in {"a", "ae", "b", "be"}
  BY <1>2
<1>3. CASE c \in {"e", "g", "ge", "l"}
  BY <1>3
<1>4. CASE c \in {"le", "ne", "no", "np"}
  BY <1>4
<1>5. CASE c \in {"ns", "o", "p", "s"}
  BY <1>5
<1> QED BY <1>2, <1>3, <1>4, <1>5

\* All bytes of an opcode but the last.
LEMMA FrontOfTwo ==
  ASSUME NEW a \in Int, NEW b \in Int
  PROVE  Len(<<a, b>>) = 2 /\ SubSeq(<<a, b>>, 1, 1) = <<a>> /\ SubSeq(<<a, b>>, 1, Len(<<a, b>>) - 1) = <<a>>
<1> DEFINE s == <<a, b>>
           t == <<a>>
<1>1. Len(s) = 2 /\ s[1] = a /\ s[2] = b /\ t \in Seq(Int) /\ Len(t) = 1 /\ t[1] = a
  OBVIOUS
<1> HIDE DEF s, t
<1>2. \A i \in 1 .. 1 : s[i] \in Int
  BY <1>1
<1>3. /\ SubSeq(s, 1, 1) \in Seq(Int) /\ Len(SubSeq(s, 1, 1)) = 1
      /\ \A i \in 1 .. 1 - 1 + 1 : SubSeq(s, 1, 1)[i] = s[1 + i - 1]
  BY <1>2, SubSeqProperties
<1>4. SubSeq(s, 1, 1)[1] = a
  BY <1>1, <1>3
<1>5. SubSeq(s, 1, 1) = t
  BY <1>1, <1>3, <1>4, SeqEqual
<1>6. Len(s) - 1 = 1
  BY <1>1
<1> QED BY <1>1, <1>5, <1>6 DEF s, t

\* See FrontOfTwo.
LEMMA FrontOfThree ==
  ASSUME NEW a \in Int, NEW b \in Int, NEW c \in Int
  PROVE  Len(<<a, b, c>>) = 3 /\ SubSeq(<<a, b, c>>, 1, Len(<<a, b, c>>) - 1) = <<a, b>>
<1> DEFINE s == <<a, b, c>>
           t == <<a, b>>
<1>1. Len(s) = 3 /\ s[1] = a /\ s[2] = b /\ t \in Seq(Int) /\ Len(t) = 2 /\ t[1] = a /\ t[2] = b
  OBVIOUS
<1> HIDE DEF s, t
<1>2. \A i \in 1 .. 2 : s[i] \in Int
  BY <1>1
<1>3. /\ SubSeq(s, 1, 2) \in Seq(Int) /\ Len(SubSeq(s, 1, 2)) = 2
      /\ \A i \in 1 .. 2 - 1 + 1 : SubSeq(s, 1, 2)[i] = s[1 + i - 1]
  BY <1>2, SubSeqProperties
<1>4. SubSeq(s, 1, 2)[1] = a /\ SubSeq(s, 1, 2)[2] = b
  BY <1>1, <1>3
<1>5. ASSUME NEW i \in 1 .. 2 PROVE SubSeq(s, 1, 2)[i] = t[i]
  <2>1. i = 1 \/ i = 2
    OBVIOUS
  <2> QED BY <1>1, <1>4, <2>1
<1>6. SubSeq(s, 1, 2) = t
  BY <1>1, <1>3, <1>5, SeqEqual
<1>7. Len(s) - 1 = 2
  BY <1>1
<1> QED BY <1>1, <1>6, <1>7 DEF s, t

\* Opcodes with the bit for 8 bit operands.
LEMMA Widened ==
  ASSUME NEW a \in Int, NEW b \in Int, NEW inst, NEW bits
  PROVE  Widen(<<a, b>>, inst, bits) = <<a + WideBit(inst, bits), b>>
BY DEF Widen

\* Three pieces of an instruction.
LEMMA AtPieces ==
  ASSUME NEW buf, NEW p \in Nat, NEW s \in Seq(Int), NEW t \in Seq(Int), NEW u \in Seq(Int), At(buf, p, s \o t \o u)
  PROVE  /\ s \o t \o u \in Seq(Int) /\ Len(s \o t \o u) = Len(s) + Len(t) + Len(u)
         /\ At(buf, p, s) /\ At(buf, p + Len(s), t) /\ At(buf, p + Len(s) + Len(t), u)
<1> DEFINE v == s \o t
<1>1. v \in Seq(Int) /\ Len(v) = Len(s) + Len(t)
  BY ConcatProperties
<1>2. At(buf, p, v \o u)
  OBVIOUS
<1>3. /\ At(buf, p, v) /\ At(buf, p + Len(v), u) /\ v \o u \in Seq(Int) /\ Len(v \o u) = Len(v) + Len(u)
  <2>1. v \in Seq(Int)
    BY <1>1
  <2> HIDE DEF v
  <2> QED BY <1>2, <2>1, AtConcat
<1>4. At(buf, p, s) /\ At(buf, p + Len(s), t)
  BY <1>3, AtConcat
<1>5. p + Len(v) = p + Len(s) + Len(t) /\ Len(v) + Len(u) = Len(s) + Len(t) + Len(u)
  BY <1>1
<1> QED BY <1>3, <1>4, <1>5

(***************************************************************************)
(* Instructions with a register.                                           *)
(***************************************************************************)

\* What the processor reads after place p, and where it ends.
Reads(buf, p, bytes, ins) ==
  bytes \in Seq(Int) /\ Len(bytes) > 0 /\ InsAt(buf, p + 1) = [ins |-> ins, end |-> p + Len(bytes)]

\* The register of a ModRM byte or of an opcode, with REX.
LEMMA RegisterNumber ==
  ASSUME NEW reg \in Registers, reg.id \in 0 .. 15, NEW default, NEW bits, NEW rex,
         RexIs(rex, default, bits, reg, NoReg)
  PROVE  /\ Lo(reg) \in 0 .. 7 /\ Lo(reg) + 8 * RexB(rex) = reg.id
         /\ (IF reg.bits = 8 /\ rex = None /\ Lo(reg) \in 4 .. 7 THEN Lo(reg) + 96 ELSE Lo(reg) + 8 * RexB(rex)) = reg.id
<1>1. /\ Lo(reg) \in 0 .. 7 /\ Hi(reg) \in 0 .. 1 /\ reg.id = Lo(reg) + 8 * Hi(reg) /\ RexB(rex) = Hi(reg)
  BY RegisterParts DEF RexIs
<1>2. CASE reg.bits = 8 /\ rex = None /\ Lo(reg) \in 4 .. 7
  <2>1. ~Byte8(reg, NoReg)
    BY <1>2 DEF RexIs
  <2>2. IsReg(reg) /\ ~IsReg(NoReg)
    BY <1>2 DEF IsReg, NoReg
  <2>3. ~(reg.id >= 4)
    BY <1>2, <2>1, <2>2 DEF Byte8, RSP
  <2>4. reg.id >= Lo(reg)
    BY <1>1
  <2> QED BY <1>1, <1>2, <2>3, <2>4
<1>3. CASE ~(reg.bits = 8 /\ rex = None /\ Lo(reg) \in 4 .. 7)
  BY <1>1, <1>3
<1> QED BY <1>1, <1>2, <1>3

\* The opcode front and what follows it, rest, are read from place q on.
Opened(buf, p, q, bytes, front, rest, default, bits, base, index, rex) ==
  /\ q \in Nat /\ bytes \in Seq(Int) /\ p + Len(bytes) = q + Len(front) + Len(rest)
  /\ Len(bytes) >= Len(front)
  /\ At(buf, q, front) /\ At(buf, q + Len(front), rest)
  /\ RexIs(rex, default, bits, base, index)
  /\ InsAt(buf, p + 1) = AfterPrefixes(buf, q + 1, Short(bits), rex)

\* An instruction is prefixes, an opcode, and the rest.
Shaped(bytes, front, rest, default, bits, base, index) ==
  /\ default \in {32, 64} /\ bits \in Nat /\ base \in Registers /\ index \in Registers
  /\ front \in Seq(Int) /\ rest \in Seq(Int)
  /\ bytes = Prefixes(bits, default, base, index) \o front \o rest
  /\ Len(front) > 0 /\ front[1] # 102 /\ front[1] \notin 64 .. 79

\* The processor finds the opcode, and what REX says, after the prefixes.
LEMMA InstructionOpened ==
  ASSUME NEW default, NEW bits, NEW base, NEW index, NEW front, NEW rest, NEW bytes,
         Shaped(bytes, front, rest, default, bits, base, index),
         NEW buf, NEW p \in Nat, At(buf, p, bytes)
  PROVE  \E q, rex : Opened(buf, p, q, bytes, front, rest, default, bits, base, index, rex)
<1> DEFINE prefixes == Prefixes(bits, default, base, index)
           q == p + Len(prefixes)
<1>01. default \in {32, 64} /\ bits \in Nat /\ base \in Registers /\ index \in Registers
  BY DEF Shaped
<1>02. front \in Seq(Int) /\ rest \in Seq(Int) /\ bytes = prefixes \o front \o rest
  BY DEF Shaped
<1>03. Len(front) > 0 /\ front[1] # 102 /\ front[1] \notin 64 .. 79
  BY DEF Shaped
<1>1. prefixes \in Seq(Int) /\ Len(prefixes) \in 0 .. 2
  <2>1. CASE default = 32
    BY <1>01, <2>1, PrefixesAreSeq
  <2>2. CASE default = 64
    BY <1>01, <2>2, PrefixesAreSeq
  <2> QED BY <1>01, <2>1, <2>2
<1>2. q \in Nat /\ Len(front) \in Nat /\ Len(rest) \in Nat
  <2> HIDE DEF prefixes
  <2>1. Len(prefixes) \in Nat /\ Len(front) \in Nat /\ Len(rest) \in Nat
    BY <1>1, <1>02
  <2> QED BY <2>1
<1>3. /\ bytes \in Seq(Int) /\ Len(bytes) = Len(prefixes) + Len(front) + Len(rest)
      /\ At(buf, p, prefixes) /\ At(buf, q, front) /\ At(buf, q + Len(front), rest)
  <2>1. At(buf, p, prefixes \o front \o rest) /\ prefixes \in Seq(Int)
    BY <1>1, <1>02
  <2>2. bytes = prefixes \o front \o rest /\ front \in Seq(Int) /\ rest \in Seq(Int)
    BY <1>02
  <2> HIDE DEF prefixes
  <2> QED BY <2>1, <2>2, AtPieces
<1>4. buf[q + 1] = front[1]
  BY <1>03, <1>2, <1>3 DEF At
<1>5. Prefixed(buf, p, q, default, bits, base, index)
  BY <1>01, <1>03, <1>3, <1>4 DEF Prefixed
<1>6. PICK rex : /\ RexIs(rex, default, bits, base, index)
                 /\ InsAt(buf, p + 1) = AfterPrefixes(buf, q + 1, Short(bits), rex)
  <2> HIDE DEF q
  <2> QED BY <1>5, PrefixRead
<1>7. p + Len(bytes) = q + Len(front) + Len(rest) /\ Len(bytes) >= Len(front)
  <2> DEFINE a == Len(prefixes)
             f == Len(front)
             r == Len(rest)
  <2>1. Len(bytes) = a + f + r /\ a \in Nat /\ f \in Nat /\ r \in Nat /\ q = p + a
    BY <1>1, <1>2, <1>3
  <2> HIDE DEF a, f, r, q
  <2>2. p + Len(bytes) = q + f + r /\ Len(bytes) >= f
    BY <2>1
  <2> QED BY <2>2 DEF f, r
<1> HIDE DEF q
<1>8. Opened(buf, p, q, bytes, front, rest, default, bits, base, index, rex)
  BY <1>2, <1>3, <1>6, <1>7 DEF Opened
<1> QED BY <1>8

\* pop and push have the register in the opcode.
LEMMA StackRegister ==
  ASSUME NEW op \in Ops, op.name \in {"pop", "push"}, NEW reg \in Registers, reg.id \in 0 .. 15,
         reg.bits \in {16, 64}, NEW buf, NEW p \in Nat,
         NEW bytes, bytes = EmitReg(op, FindInst(op), reg).bytes, At(buf, p, bytes)
  PROVE  Reads(buf, p, bytes, RegIns(op, reg.bits, reg.id))
<1> DEFINE a == 80 + Lo(reg) + (IF op.name = "pop" THEN 8 ELSE 0)
           front == <<a>>
           rest == << >>
           default == DefaultSize(op)
           bits == reg.bits
<1>1. op = Op(op.name)
  BY OpsAre
<1>2. Lo(reg) \in 0 .. 7 /\ bits \in Nat /\ NoReg \in Registers
  BY RegisterParts DEF Registers
<1>3. a \in Int /\ a # 102 /\ a \notin 64 .. 79
  BY <1>2
<1>4. default = 64
  BY DEF DefaultSize
<1>5. bytes = Prefixes(bits, default, reg, NoReg) \o <<a>>
  BY DEF EmitReg, Emitted
<1> HIDE DEF a, default, bits
<1>6. front \in Seq(Int) /\ Len(front) = 1 /\ front[1] = a /\ rest \in Seq(Int) /\ Len(rest) = 0
  BY <1>3
<1>7. bytes = Prefixes(bits, default, reg, NoReg) \o front \o rest
  <2> DEFINE s == Prefixes(bits, default, reg, NoReg) \o front
  <2>1. Prefixes(bits, default, reg, NoReg) \in Seq(Int)
    <3>1. default \in {32, 64}
      BY <1>4
    <3> QED BY <1>2, <3>1, PrefixesAreSeq, ZenonT(30)
  <2>2. s \in Seq(Int)
    BY <1>6, <2>1, ConcatProperties
  <2>3. bytes = s
    BY <1>5
  <2> HIDE DEF s, front
  <2>4. s \o << >> = s
    BY <2>2
  <2> QED BY <2>3, <2>4 DEF s
<1>8. Shaped(bytes, front, rest, default, bits, reg, NoReg)
  <2>1. default \in {32, 64} /\ Len(front) > 0
    BY <1>4, <1>6
  <2> HIDE DEF front, rest
  <2> QED BY <1>2, <1>3, <1>6, <1>7, <2>1 DEF Shaped
<1>9. PICK q, rex : Opened(buf, p, q, bytes, front, rest, default, bits, reg, NoReg, rex)
  <2> HIDE DEF front, rest
  <2> QED BY <1>8, InstructionOpened
<1>10. /\ q \in Nat /\ bytes \in Seq(Int) /\ Len(bytes) > 0 /\ p + Len(bytes) = q + 1 + Len(rest)
       /\ buf[q + 1] = a
       /\ RexIs(rex, default, bits, reg, NoReg)
       /\ InsAt(buf, p + 1) = AfterPrefixes(buf, q + 1, Short(bits), rex)
  <2>1. Len(front) = 1 /\ front[1] = a
    BY <1>6
  <2> HIDE DEF front, rest
  <2>2. /\ q \in Nat /\ bytes \in Seq(Int) /\ p + Len(bytes) = q + Len(front) + Len(rest)
        /\ Len(bytes) >= Len(front) /\ At(buf, q, front)
        /\ RexIs(rex, default, bits, reg, NoReg)
        /\ InsAt(buf, p + 1) = AfterPrefixes(buf, q + 1, Short(bits), rex)
    BY <1>9 DEF Opened
  <2>3. buf[q + 1] = a
    BY <2>1, <2>2 DEF At
  <2> QED BY <2>1, <2>2, <2>3
<1>11. p + Len(bytes) = q + 1
  BY <1>6, <1>10
<1>12. Lo(reg) + 8 * RexB(rex) = reg.id
  BY <1>10, RegisterNumber
<1>13. (IF Short(bits) = 16 THEN 16 ELSE 64) = bits
  BY DEF Short, bits
<1>14. CASE op.name = "push"
  <2>1. buf[q + 1] = 80 + Lo(reg)
    BY <1>2, <1>10, <1>14 DEF a
  <2>2. AfterPrefixes(buf, q + 1, Short(bits), rex) =
          [ins |-> RegIns(Op("push"), IF Short(bits) = 16 THEN 16 ELSE 64, Lo(reg) + 8 * RexB(rex)), end |-> q + 1]
    BY <1>2, <2>1, StackAfter
  <2> QED BY <1>1, <1>10, <1>11, <1>12, <1>13, <1>14, <2>2 DEF Reads, bits
<1>15. CASE op.name = "pop"
  <2>1. buf[q + 1] = 88 + Lo(reg)
    BY <1>2, <1>10, <1>15 DEF a
  <2>2. AfterPrefixes(buf, q + 1, Short(bits), rex) =
          [ins |-> RegIns(Op("pop"), IF Short(bits) = 16 THEN 16 ELSE 64, Lo(reg) + 8 * RexB(rex)), end |-> q + 1]
    BY <1>2, <2>1, StackAfter
  <2> QED BY <1>1, <1>10, <1>11, <1>12, <1>13, <1>15, <2>2 DEF Reads, bits
<1> QED BY <1>14, <1>15

\* Other operations have the register in the last byte: front are the bytes
\* before it, tail is what the table has for it.
Coded(op, reg, front, tail) ==
  /\ op \in Ops /\ op.name \notin {"pop", "push", "rdtsc"} /\ reg \in Registers
  /\ FindInst(op).bytes # << >>
  /\ LET opcode == Widen(FindInst(op).bytes, FindInst(op), reg.bits)
     IN front = SubSeq(opcode, 1, Len(opcode) - 1) /\ tail = opcode[Len(opcode)]
  /\ front \in Seq(Int) /\ tail \in Int /\ Len(front) > 0 /\ front[1] # 102 /\ front[1] \notin 64 .. 79

\* The last byte of an instruction with a register.
RegisterByte(tail, reg) == (IF tail < 192 THEN tail + 192 ELSE tail) + Lo(reg)

\* The bytes are what InstructionOpened asks for.
LEMMA RegisterShaped ==
  ASSUME NEW op, NEW reg, NEW front, NEW tail, Coded(op, reg, front, tail)
  PROVE  Shaped(EmitReg(op, FindInst(op), reg).bytes, front, <<RegisterByte(tail, reg)>>,
                DefaultSize(op), reg.bits, reg, NoReg)
<1> DEFINE opcode == Widen(FindInst(op).bytes, FindInst(op), reg.bits)
           last == RegisterByte(tail, reg)
<1>1. /\ op.name \notin {"pop", "push", "rdtsc"} /\ reg \in Registers /\ FindInst(op).bytes # << >>
      /\ front = SubSeq(opcode, 1, Len(opcode) - 1) /\ tail = opcode[Len(opcode)]
      /\ front \in Seq(Int) /\ tail \in Int /\ Len(front) > 0 /\ front[1] # 102 /\ front[1] \notin 64 .. 79
  BY DEF Coded
<1>2. Lo(reg) \in 0 .. 7 /\ reg.bits \in Nat /\ NoReg \in Registers /\ DefaultSize(op) \in {32, 64}
  BY <1>1, RegisterParts DEF Registers, DefaultSize
<1>3. last \in Int
  <2>1. tail + 192 \in Int /\ tail \in Int
    BY <1>1
  <2>2. (IF tail < 192 THEN tail + 192 ELSE tail) \in Int
    BY <2>1
  <2> QED BY <1>2, <2>2 DEF RegisterByte
<1>4. <<last>> \in Seq(Int)
  <2> HIDE DEF last
  <2> QED BY <1>3
<1> HIDE DEF opcode
<1>5. EmitReg(op, FindInst(op), reg).bytes =
        Prefixes(reg.bits, DefaultSize(op), reg, NoReg) \o front \o <<last>>
  BY <1>1 DEF EmitReg, Emitted, opcode, RegisterByte
<1> HIDE DEF last
<1> QED BY <1>1, <1>2, <1>4, <1>5 DEF Shaped, last

\* A group with a register.
LEMMA GroupRegister ==
  ASSUME NEW op \in Ops, op.name \in Groups \ {"pop", "push"}, NEW reg \in Registers, reg.id \in 0 .. 15,
         reg.bits \in FindInst(op).argSize, NEW buf, NEW p \in Nat,
         NEW bytes, bytes = EmitReg(op, FindInst(op), reg).bytes, At(buf, p, bytes)
  PROVE  Reads(buf, p, bytes, RegIns(op, reg.bits, reg.id))
<1>1. PICK first, o, d : GroupForm(op, reg.bits, first, o, d)
  BY GroupInst
<1>2. /\ FindInst(op).bytes = <<first, 8 * d>>
      /\ first \in Int /\ o = first + WideBit(FindInst(op), reg.bits)
      /\ o \in {143, 246, 247, 254, 255} /\ d \in 0 .. 7
      /\ GroupName(o, d) = op.name /\ op = Op(op.name)
  BY <1>1 DEF GroupForm
<1> DEFINE front == <<o>>
           tail == 8 * d
           last == RegisterByte(tail, reg)
           rest == <<last>>
           default == DefaultSize(op)
           bits == reg.bits
<1>3. Lo(reg) \in 0 .. 7
  BY RegisterParts
<1>4. last = Byte3(3, d, Lo(reg))
  BY <1>2, <1>3 DEF RegisterByte, Byte3
<1>5. /\ front \in Seq(Int) /\ Len(front) = 1 /\ front[1] = o /\ o # 102 /\ o \notin 64 .. 79
      /\ rest \in Seq(Int) /\ Len(rest) = 1
  <2>1. o \in Int /\ last \in Int
    BY <1>2, <1>3, <1>4 DEF Byte3
  <2> HIDE DEF last
  <2> QED BY <1>2, <2>1
<1>6. Coded(op, reg, front, tail)
  <2>1. Widen(FindInst(op).bytes, FindInst(op), reg.bits) = <<o, 8 * d>>
    <3>1. 8 * d \in Int
      BY <1>2
    <3> QED BY <1>2, <3>1, Widened
  <2>2. FindInst(op).bytes # << >> /\ op.name \notin {"pop", "push", "rdtsc"}
    BY <1>2 DEF Groups
  <2>3. SubSeq(<<o, 8 * d>>, 1, Len(<<o, 8 * d>>) - 1) = <<o>> /\ Len(<<o, 8 * d>>) = 2 /\ 8 * d \in Int
    <3>1. o \in Int /\ 8 * d \in Int
      BY <1>2
    <3> QED BY <3>1, FrontOfTwo
  <2>4. tail = <<o, 8 * d>>[Len(<<o, 8 * d>>)] /\ tail \in Int
    BY <2>3
  <2> QED BY <1>5, <2>1, <2>2, <2>3, <2>4 DEF Coded
<1>7. Shaped(bytes, front, rest, default, bits, reg, NoReg)
  <2> HIDE DEF front, tail
  <2> QED BY <1>6, RegisterShaped
<1>8. PICK q, rex : Opened(buf, p, q, bytes, front, rest, default, bits, reg, NoReg, rex)
  <2> HIDE DEF front, rest, default, bits
  <2> QED BY <1>7, InstructionOpened
<1>9. /\ q \in Nat /\ bytes \in Seq(Int) /\ Len(bytes) > 0 /\ p + Len(bytes) = q + 2
      /\ buf[q + 1] = o /\ buf[q + 2] = last
      /\ RexIs(rex, default, bits, reg, NoReg)
      /\ InsAt(buf, p + 1) = AfterPrefixes(buf, q + 1, Short(bits), rex)
  <2>1. Len(front) = 1 /\ front[1] = o /\ Len(rest) = 1
    BY <1>5
  <2>4. At(buf, q + 1, rest) => buf[q + 1 + 1] = last
    <3> HIDE DEF last
    <3> QED BY AtOne
  <2> HIDE DEF front, rest, default, bits, last
  <2>2. /\ q \in Nat /\ bytes \in Seq(Int) /\ p + Len(bytes) = q + Len(front) + Len(rest)
        /\ Len(bytes) >= Len(front) /\ At(buf, q, front) /\ At(buf, q + Len(front), rest)
        /\ RexIs(rex, default, bits, reg, NoReg)
        /\ InsAt(buf, p + 1) = AfterPrefixes(buf, q + 1, Short(bits), rex)
    BY <1>8 DEF Opened
  <2>5. buf[q + 1] = o
    BY <2>1, <2>2 DEF At
  <2>3. q + 1 + 1 = q + 2
    BY <2>2
  <2> QED BY <2>1, <2>2, <2>3, <2>4, <2>5
<1> HIDE DEF front, tail, rest, last
<1> DEFINE i == q + 1
<1>10. i \in Nat /\ i + 1 = q + 2 /\ i + 1 \in Nat /\ buf[i] = o /\ buf[i + 1] = Byte3(3, d, Lo(reg))
  BY <1>4, <1>9
<1> HIDE DEF i
<1>11. /\ Middle(buf[i + 1]) = d
       /\ OperandAt(buf, i + 1, op, bits, rex) =
            [ins |-> RegIns(op, bits, IF bits = 8 /\ rex = None /\ Lo(reg) \in 4 .. 7 THEN Lo(reg) + 96
                                      ELSE Lo(reg) + 8 * RexB(rex)),
             end |-> i + 1]
  BY <1>2, <1>3, <1>10, RegisterRead
<1>12. AfterPrefixes(buf, i, Short(bits), rex) = OperandAt(buf, i + 1, op, bits, rex)
  <2>1. GroupWidth(o, op.name, Short(bits), rex) = bits
    BY <1>1, <1>9, GroupSize DEF RexIs
  <2>2. op.name = GroupName(buf[i], Middle(buf[i + 1])) /\ buf[i] \in {143, 246, 247, 254, 255}
    BY <1>2, <1>10, <1>11
  <2>3. AfterPrefixes(buf, i, Short(bits), rex) =
          OperandAt(buf, i + 1, Op(op.name), GroupWidth(buf[i], op.name, Short(bits), rex), rex)
    BY <2>2, GroupAfter
  <2> QED BY <1>2, <1>10, <2>1, <2>3
<1>13. InsAt(buf, p + 1) = AfterPrefixes(buf, i, Short(bits), rex) /\ i + 1 = p + Len(bytes)
  BY <1>9, <1>10 DEF i
<1>14. (IF bits = 8 /\ rex = None /\ Lo(reg) \in 4 .. 7 THEN Lo(reg) + 96 ELSE Lo(reg) + 8 * RexB(rex)) = reg.id
  BY <1>9, RegisterNumber
<1> QED BY <1>9, <1>11, <1>12, <1>13, <1>14 DEF Reads

\* The table's row of a condition.
ConditionOp(op, c) == op.cond \in Conditions /\ c = CondBits[op.cond] /\ c \in 0 .. 15 /\ op = IfOp(op.name, c)

\* Conditions have the processor's numbers.
LEMMA ConditionOpIs ==
  ASSUME NEW op \in Ops, op.name \in {"j", "set"}
  PROVE  ConditionOp(op, CondBits[op.cond])
<1>1. op.cond \in Conditions /\ op = [name |-> op.name, cond |-> op.cond]
  <2>1. op.name \notin DOMAIN Insts /\ op.name # "mir_jmp"
    BY DEF Insts
  <2> QED BY <2>1, OpsAre
<1>2. CondBits[op.cond] \in 0 .. 15 /\ ConditionNames[CondBits[op.cond] + 1] = op.cond
  BY <1>1, ConditionNumbers
<1> QED BY <1>1, <1>2 DEF ConditionOp, IfOp

\* What the table has for setcc.
LEMMA SetInst ==
  ASSUME NEW op \in Ops, op.name = "set", NEW c, ConditionOp(op, c)
  PROVE  /\ FindInst(op).bytes = <<15, 144 + c, 0>> /\ FindInst(op).argSize = {8}
         /\ Widen(FindInst(op).bytes, FindInst(op), 8) = <<15, 144 + c, 0>>
<1>1. FindInst(op) = RegMem(<<15, 144 + c, 0>>, {8})
  <2>1. op.name \notin DOMAIN Insts
    BY DEF Insts
  <2> QED BY <2>1 DEF FindInst, ConditionOp
<1>2. FindInst(op).bytes = <<15, 144 + c, 0>> /\ FindInst(op).argSize = {8}
  BY <1>1 DEF RegMem, Inst
<1>3. WideBit(FindInst(op), 8) = 0
  BY DEF WideBit
<1> DEFINE s == <<15, 144 + c, 0>>
<1>4. [s EXCEPT ![1] = s[1] + 0] = s
  OBVIOUS
<1> QED BY <1>2, <1>3, <1>4 DEF Widen

\* setcc with a register.
LEMMA SetRegister ==
  ASSUME NEW op \in Ops, op.name = "set", NEW reg \in Registers, reg.id \in 0 .. 15,
         reg.bits \in FindInst(op).argSize, NEW buf, NEW p \in Nat,
         NEW bytes, bytes = EmitReg(op, FindInst(op), reg).bytes, At(buf, p, bytes)
  PROVE  Reads(buf, p, bytes, RegIns(op, reg.bits, reg.id))
<1> DEFINE c == CondBits[op.cond]
<1>1. ConditionOp(op, c)
  BY ConditionOpIs
<1>2. c \in 0 .. 15 /\ op = IfOp("set", c)
  BY <1>1 DEF ConditionOp
<1> HIDE DEF c
<1>3. /\ FindInst(op).bytes = <<15, 144 + c, 0>> /\ reg.bits = 8
      /\ Widen(FindInst(op).bytes, FindInst(op), reg.bits) = <<15, 144 + c, 0>>
  <2>1. /\ FindInst(op).bytes = <<15, 144 + c, 0>> /\ FindInst(op).argSize = {8}
        /\ Widen(FindInst(op).bytes, FindInst(op), 8) = <<15, 144 + c, 0>>
    BY <1>1, SetInst
  <2>2. reg.bits = 8
    BY <2>1
  <2> QED BY <2>1, <2>2
<1> DEFINE b == 144 + c
           front == <<15, b>>
           tail == 0
           last == RegisterByte(tail, reg)
           rest == <<last>>
           default == DefaultSize(op)
           bits == reg.bits
<1>4. Lo(reg) \in 0 .. 7
  BY RegisterParts
<1>5. last = Byte3(3, 0, Lo(reg)) /\ last \in Int
  BY <1>4 DEF RegisterByte, Byte3
<1>6. b \in Int
  BY <1>2
<1>7. /\ front \in Seq(Int) /\ Len(front) = 2 /\ front[1] = 15 /\ front[2] = b
      /\ rest \in Seq(Int) /\ Len(rest) = 1
  <2> HIDE DEF last, b
  <2> QED BY <1>5, <1>6
<1>8. Coded(op, reg, front, tail)
  <2>1. SubSeq(<<15, b, 0>>, 1, Len(<<15, b, 0>>) - 1) = front /\ <<15, b, 0>>[Len(<<15, b, 0>>)] = tail
    <3> HIDE DEF b
    <3>1. 15 \in Int /\ b \in Int /\ 0 \in Int
      BY <1>6
    <3>2. SubSeq(<<15, b, 0>>, 1, Len(<<15, b, 0>>) - 1) = <<15, b>> /\ Len(<<15, b, 0>>) = 3
      BY <3>1, FrontOfThree
    <3> QED BY <3>2
  <2>2. FindInst(op).bytes # << >> /\ tail \in Int
    BY <1>3
  <2>3. Widen(FindInst(op).bytes, FindInst(op), reg.bits) = <<15, b, 0>>
    BY <1>3
  <2>4. Len(front) > 0 /\ front[1] # 102 /\ front[1] \notin 64 .. 79
    BY <1>7
  <2> HIDE DEF front, tail, b
  <2> QED BY <1>7, <2>1, <2>2, <2>3, <2>4 DEF Coded
<1>9. Shaped(bytes, front, rest, default, bits, reg, NoReg)
  <2> HIDE DEF front, tail
  <2> QED BY <1>8, RegisterShaped
<1>10. PICK q, rex : Opened(buf, p, q, bytes, front, rest, default, bits, reg, NoReg, rex)
  <2> HIDE DEF front, rest, default, bits
  <2> QED BY <1>9, InstructionOpened
<1>11. /\ q \in Nat /\ bytes \in Seq(Int) /\ Len(bytes) > 0 /\ p + Len(bytes) = q + 3
       /\ buf[q + 1] = 15 /\ buf[q + 2] = b /\ buf[q + 3] = last
       /\ RexIs(rex, default, bits, reg, NoReg)
       /\ InsAt(buf, p + 1) = AfterPrefixes(buf, q + 1, Short(bits), rex)
  <2>1. At(buf, q + 2, rest) => buf[q + 2 + 1] = last
    <3> HIDE DEF last
    <3> QED BY AtOne
  <2> HIDE DEF front, rest, default, bits, last, b
  <2>2. /\ q \in Nat /\ bytes \in Seq(Int) /\ p + Len(bytes) = q + Len(front) + Len(rest)
        /\ Len(bytes) >= Len(front) /\ At(buf, q, front) /\ At(buf, q + Len(front), rest)
        /\ RexIs(rex, default, bits, reg, NoReg)
        /\ InsAt(buf, p + 1) = AfterPrefixes(buf, q + 1, Short(bits), rex)
    BY <1>10 DEF Opened
  <2>3. buf[q + 1] = 15 /\ buf[q + 2] = b
    BY <1>7, <2>2 DEF At
  <2>4. q + 2 + 1 = q + 3
    BY <2>2
  <2> QED BY <1>7, <2>1, <2>2, <2>3, <2>4
<1> HIDE DEF front, tail, rest, last
<1> DEFINE i == q + 1
           j == q + 3
<1>12. i \in Nat /\ j \in Nat /\ i + 2 = j /\ buf[i] = 15 /\ buf[i + 1] = 144 + c
  <2>1. i + 1 = q + 2 /\ i + 2 = j /\ i \in Nat /\ j \in Nat
    BY <1>11
  <2> QED BY <1>11, <2>1
<1>13. AfterPrefixes(buf, i, Short(bits), rex) = OperandAt(buf, j, op, bits, rex)
  <2>1. AfterPrefixes(buf, i, Short(bits), rex) = OperandAt(buf, i + 2, IfOp("set", c), 8, rex)
    <3> HIDE DEF i
    <3> QED BY <1>2, <1>12, ConditionAfter
  <2> QED BY <1>2, <1>3, <1>12, <2>1
<1> HIDE DEF j
<1>14. OperandAt(buf, j, op, bits, rex) =
         [ins |-> RegIns(op, bits, IF bits = 8 /\ rex = None /\ Lo(reg) \in 4 .. 7 THEN Lo(reg) + 96
                                   ELSE Lo(reg) + 8 * RexB(rex)),
          end |-> j]
  <2>1. buf[j] = Byte3(3, 0, Lo(reg)) /\ 0 \in 0 .. 7
    BY <1>5, <1>11 DEF j
  <2> DEFINE zero == 0
  <2>2. buf[j] = Byte3(3, zero, Lo(reg)) /\ zero \in 0 .. 7
    BY <2>1
  <2> HIDE DEF zero
  <2> QED BY <1>4, <1>12, <2>2, RegisterRead
<1>15. InsAt(buf, p + 1) = AfterPrefixes(buf, i, Short(bits), rex) /\ j = p + Len(bytes)
  BY <1>11 DEF j
<1>16. (IF bits = 8 /\ rex = None /\ Lo(reg) \in 4 .. 7 THEN Lo(reg) + 96 ELSE Lo(reg) + 8 * RexB(rex)) = reg.id
  BY <1>11, RegisterNumber
<1> QED BY <1>11, <1>13, <1>14, <1>15, <1>16 DEF Reads

\* bswap
LEMMA BswapRegister ==
  ASSUME NEW op \in Ops, op.name = "bswap", NEW reg \in Registers, reg.id \in 0 .. 15,
         reg.bits \in FindInst(op).argSize, NEW buf, NEW p \in Nat,
         NEW bytes, bytes = EmitReg(op, FindInst(op), reg).bytes, At(buf, p, bytes)
  PROVE  Reads(buf, p, bytes, RegIns(op, reg.bits, reg.id))
<1>1. op = Op("bswap") /\ FindInst(op) = Insts[op.name]
  BY InstFound
<1>2. FindInst(op).bytes = <<15, 200>> /\ FindInst(op).argSize = {32, 64}
  BY <1>1 DEF Insts, Inst
<1>3. reg.bits \in {32, 64} /\ WideBit(FindInst(op), reg.bits) = 0
  BY <1>2 DEF WideBit
<1> DEFINE front == <<15>>
           tail == 200
           last == RegisterByte(tail, reg)
           rest == <<last>>
           default == DefaultSize(op)
           bits == reg.bits
<1>4. Lo(reg) \in 0 .. 7
  BY RegisterParts
<1>5. last = 200 + Lo(reg) /\ last \in Int
  BY <1>4 DEF RegisterByte
<1>6. front \in Seq(Int) /\ Len(front) = 1 /\ front[1] = 15 /\ rest \in Seq(Int) /\ Len(rest) = 1
  <2> HIDE DEF last
  <2> QED BY <1>5
<1>7. Coded(op, reg, front, tail)
  <2>1. Widen(FindInst(op).bytes, FindInst(op), reg.bits) = <<15, 200>>
    BY <1>2, <1>3 DEF Widen
  <2>2. SubSeq(<<15, 200>>, 1, Len(<<15, 200>>) - 1) = front /\ <<15, 200>>[Len(<<15, 200>>)] = tail
    <3>1. 15 \in Int /\ 200 \in Int
      OBVIOUS
    <3>2. SubSeq(<<15, 200>>, 1, Len(<<15, 200>>) - 1) = <<15>> /\ Len(<<15, 200>>) = 2
      BY <3>1, FrontOfTwo
    <3> QED BY <3>2
  <2>3. FindInst(op).bytes # << >> /\ tail \in Int
    BY <1>2
  <2>4. Len(front) > 0 /\ front[1] # 102 /\ front[1] \notin 64 .. 79
    BY <1>6
  <2> HIDE DEF front, tail
  <2> QED BY <1>6, <2>1, <2>2, <2>3, <2>4 DEF Coded
<1>8. Shaped(bytes, front, rest, default, bits, reg, NoReg)
  <2> HIDE DEF front, tail
  <2> QED BY <1>7, RegisterShaped
<1>9. PICK q, rex : Opened(buf, p, q, bytes, front, rest, default, bits, reg, NoReg, rex)
  <2> HIDE DEF front, rest, default, bits
  <2> QED BY <1>8, InstructionOpened
<1>10. /\ q \in Nat /\ bytes \in Seq(Int) /\ Len(bytes) > 0 /\ p + Len(bytes) = q + 2
       /\ buf[q + 1] = 15 /\ buf[q + 2] = last
       /\ RexIs(rex, default, bits, reg, NoReg)
       /\ InsAt(buf, p + 1) = AfterPrefixes(buf, q + 1, Short(bits), rex)
  <2>1. At(buf, q + 1, rest) => buf[q + 1 + 1] = last
    <3> HIDE DEF last
    <3> QED BY AtOne
  <2> HIDE DEF front, rest, default, bits, last
  <2>2. /\ q \in Nat /\ bytes \in Seq(Int) /\ p + Len(bytes) = q + Len(front) + Len(rest)
        /\ Len(bytes) >= Len(front) /\ At(buf, q, front) /\ At(buf, q + Len(front), rest)
        /\ RexIs(rex, default, bits, reg, NoReg)
        /\ InsAt(buf, p + 1) = AfterPrefixes(buf, q + 1, Short(bits), rex)
    BY <1>9 DEF Opened
  <2>3. buf[q + 1] = 15
    BY <1>6, <2>2 DEF At
  <2>4. q + 1 + 1 = q + 2
    BY <2>2
  <2> QED BY <1>6, <2>1, <2>2, <2>3, <2>4
<1> HIDE DEF front, tail, rest, last
<1> DEFINE i == q + 1
<1>11. i \in Nat /\ i + 1 = q + 2 /\ buf[i] = 15 /\ buf[i + 1] = 200 + Lo(reg)
  BY <1>5, <1>10
<1> HIDE DEF i
<1>12. AfterPrefixes(buf, i, Short(bits), rex) =
         [ins |-> RegIns(Op("bswap"), IF RexW(rex) = 1 THEN 64 ELSE Short(bits), Lo(reg) + 8 * RexB(rex)), end |-> i + 1]
  BY <1>4, <1>11, BswapAfter
<1>13. (IF RexW(rex) = 1 THEN 64 ELSE Short(bits)) = bits
  BY <1>3, <1>10 DEF RexIs, Wide, Short, DefaultSize
<1>14. InsAt(buf, p + 1) = AfterPrefixes(buf, i, Short(bits), rex) /\ i + 1 = p + Len(bytes)
  BY <1>10, <1>11 DEF i
<1>15. Lo(reg) + 8 * RexB(rex) = reg.id
  BY <1>10, RegisterNumber
<1> QED BY <1>1, <1>10, <1>12, <1>13, <1>14, <1>15 DEF Reads

\* The operands that the table admits.
LEMMA RowOperands ==
  ASSUME NEW op \in Ops
  PROVE  /\ op.name \in {"j", "int", "xabort"} => FindInst(op).arg = ArgVal
         /\ op.name = "mir_jmp" => FindInst(op).arg = {}
         /\ op.name \in {"clflush", "clflushopt", "clwb"} => FindInst(op).arg = ArgMem /\ FindInst(op).bytes = << >>
         /\ op.name \in {"cbw", "rdtsc"} => FindInst(op).arg = ArgRax
         /\ op.name = "bswap" => FindInst(op).arg = ArgReg
         /\ op.name \in {"dec", "inc", "neg", "not", "pop", "set"} => FindInst(op).arg = ArgReg \cup ArgMem
         /\ op.name \in {"call", "jmp", "push"} => FindInst(op).arg = ArgReg \cup ArgMem \cup ArgVal
<1>1. "j" \notin DOMAIN Insts /\ "set" \notin DOMAIN Insts /\ "mir_jmp" \notin DOMAIN Insts
  BY DEF Insts
<1>2. CASE op.name \in {"j", "set", "mir_jmp"}
  BY <1>1, <1>2 DEF FindInst, Inst, RegMem
<1>3. CASE op.name \notin {"j", "set", "mir_jmp"}
  <2>1. FindInst(op) = Insts[op.name]
    BY <1>3, InstFound
  <2>2. CASE op.name \in {"int", "xabort"}
    BY <2>1, <2>2 DEF Insts, Inst
  <2>3. CASE op.name \in {"clflush", "clflushopt", "clwb"}
    BY <2>1, <2>3 DEF Insts, Inst
  <2>4. CASE op.name \in {"cbw", "rdtsc"}
    BY <2>1, <2>4 DEF Insts, Inst
  <2>5. CASE op.name = "bswap"
    BY <2>1, <2>5 DEF Insts, Inst
  <2>6. CASE op.name \in {"dec", "inc"}
    BY <2>1, <2>6, SMTT(30) DEF Insts, Inst, RegMem
  <2>7. CASE op.name \in {"neg", "not", "pop"}
    BY <2>1, <2>7, SMTT(30) DEF Insts, Inst, RegMem
  <2>8. CASE op.name \in {"call", "jmp", "push"}
    BY <2>1, <2>8 DEF Insts, Inst
  <2> QED BY <1>3, <2>2, <2>3, <2>4, <2>5, <2>6, <2>7, <2>8
<1> QED BY <1>2, <1>3

\* A width that is compatible is one of those the instruction has.
LEMMA CompatibleWidth ==
  ASSUME NEW bits, NEW sizes, IsCompatible(bits, sizes)
  PROVE  bits \in {8, 16, 32, 64} /\ bits \in sizes
BY DEF IsCompatible, BitSize

\* No operand of rdtsc is.
LEMMA RdtscRefused ==
  ASSUME NEW op \in Ops, op.name = "rdtsc", NEW bits
  PROVE  ~IsCompatible(bits, FindInst(op).argSize)
<1>1. FindInst(op).argSize = {128}
  <2>1. FindInst(op) = Insts["rdtsc"]
    BY InstFound
  <2> QED BY <2>1 DEF Insts, Inst
<1>2. 128 \notin {8, 16, 32, 64}
  OBVIOUS
<1> QED BY <1>1, <1>2, CompatibleWidth

\* Registers.
LEMMA VarRead ==
  ASSUME NEW op \in Ops, NEW arg \in [type : {"VAR"}, reg : Registers], arg.reg.id # RIP, op.name # "cbw",
         ~EmitStmt1(op, arg).error, NEW buf, NEW p \in Nat, At(buf, p, EmitStmt1(op, arg).bytes)
  PROVE  /\ EmitStmt1(op, arg).label = NoLabel
         /\ Reads(buf, p, EmitStmt1(op, arg).bytes,
                  RegIns(op, arg.reg.bits, arg.reg.id))
<1> DEFINE reg == arg.reg
           out == EmitStmt1(op, arg)
<1>1. arg.type = "VAR" /\ reg \in Registers
  OBVIOUS
<1>2. /\ ToArg(arg) \in FindInst(op).arg /\ reg.bits \in FindInst(op).argSize /\ op.name # "rdtsc"
      /\ out = EmitReg(op, FindInst(op), reg)
  <2>1. ToArg(arg) \in FindInst(op).arg
    BY DEF EmitStmt1, Refused
  <2>2. IsCompatible(reg.bits, FindInst(op).argSize)
    BY <1>1, <2>1 DEF EmitStmt1, Refused
  <2>3. reg.bits \in FindInst(op).argSize /\ op.name # "rdtsc"
    BY <2>2, CompatibleWidth, RdtscRefused
  <2> QED BY <1>1, <2>1, <2>2, <2>3 DEF EmitStmt1
<1>3. ToArg(arg) \in {"Rax", "Rcx", "Reg"} => reg.id \in 0 .. 15
  BY <1>1 DEF ToArg, RAX, RCX, RDX, R15, RIP, RBP, XMM0, XMM31
<1>4. ToArg(arg) \notin {"Mem", "Val"}
  BY <1>1 DEF ToArg
<1> USE DEF ArgRax, ArgReg, ArgMem, ArgVal
<1>5. out.label = NoLabel
  <2>1. \A bytes : Emitted(bytes).label = NoLabel
    BY DEF Emitted
  <2>2. EmitReg(op, FindInst(op), reg).label = NoLabel
    BY <2>1, ZenonT(30) DEF EmitReg
  <2> QED BY <1>2, <2>2
<1>6. op.name \in Groups \cup {"set", "bswap"} /\ reg.id \in 0 .. 15
  <2>1. op.name \notin {"j", "int", "xabort", "mir_jmp", "clflush", "clflushopt", "clwb"}
    BY <1>2, <1>4, RowOperands
  <2>2. op.name \in Groups \cup {"set", "bswap"}
    BY <1>2, <2>1, OpsAre DEF Groups
  <2>3. ToArg(arg) \in {"Rax", "Rcx", "Reg"}
    BY <1>2, <1>4, <2>2, RowOperands DEF Groups
  <2> QED BY <1>3, <2>2, <2>3
<1> HIDE DEF out, reg
<1>7. out.bytes = EmitReg(op, FindInst(op), reg).bytes /\ At(buf, p, out.bytes) /\ reg \in Registers
  BY <1>1, <1>2 DEF out
<1>8. CASE op.name \in Groups \ {"pop", "push"}
  <2>1. Reads(buf, p, out.bytes, RegIns(op, reg.bits, reg.id))
    BY <1>2, <1>6, <1>7, <1>8, GroupRegister
  <2> QED BY <1>5, <1>8, <2>1 DEF out, reg, Groups
<1>9. CASE op.name \in {"pop", "push"}
  <2>1. reg.bits \in {16, 64}
    <3>1. FindInst(op) = Insts[op.name]
      BY <1>9, InstFound
    <3> QED BY <1>2, <1>9, <3>1 DEF Insts, Inst, RegMem
  <2>2. Reads(buf, p, out.bytes, RegIns(op, reg.bits, reg.id))
    BY <1>6, <1>7, <1>9, <2>1, StackRegister
  <2> QED BY <1>5, <1>9, <2>2 DEF out, reg
<1>10. CASE op.name = "set"
  <2>1. Reads(buf, p, out.bytes, RegIns(op, reg.bits, reg.id))
    BY <1>2, <1>6, <1>7, <1>10, SetRegister
  <2> QED BY <1>5, <1>10, <2>1 DEF out, reg
<1>11. CASE op.name = "bswap"
  <2>1. Reads(buf, p, out.bytes, RegIns(op, reg.bits, reg.id))
    BY <1>2, <1>6, <1>7, <1>11, BswapRegister
  <2> QED BY <1>5, <1>11, <2>1 DEF out, reg
<1> QED BY <1>6, <1>8, <1>9, <1>10, <1>11

(***************************************************************************)
(* Instructions with an address.                                           *)
(***************************************************************************)

\* The ModRM and SIB bytes and the offset.
AddressBytes(d, mem) ==
  LET n == OffsetMinBytes(mem, mem.base, AddressIndex(mem))
  IN ModrmSib(8 * d, n, mem.base, AddressIndex(mem), AddressScale(mem)) \o Bytes(n, mem.offset)

\* The parts of an address are sequences.
LEMMA AddressSeqs ==
  ASSUME NEW d \in 0 .. 7, NEW mem, Addressable(mem),
         NEW n, n = OffsetMinBytes(mem, mem.base, AddressIndex(mem))
  PROVE  /\ ModrmSib(8 * d, n, mem.base, AddressIndex(mem), AddressScale(mem)) \in Seq(Int)
         /\ n \in {0, 1, 4} /\ Bytes(n, mem.offset) \in Seq(Int) /\ Len(Bytes(n, mem.offset)) = n
<1> DEFINE base == mem.base
           index == AddressIndex(mem)
           scale == AddressScale(mem)
           ms == ModrmSib(8 * d, n, base, index, scale)
           mod == IF ~IsReg(base) THEN 0 ELSE IF n = 1 THEN 64
                  ELSE IF n = 4 /\ base.id # RIP THEN 128 ELSE 0
           low == IF IsReg(base) THEN Lo(base) ELSE 5
<1>1. base \in Registers /\ index \in Registers /\ mem.offset \in Int /\ mem \in Mems
  BY AddressParts DEF Addressable
<1>2. n \in {0, 1, 4}
  <2> HIDE DEF base, index
  <2> QED BY <1>1, OffsetLength DEF base, index
<1>3. Bytes(n, mem.offset) \in Seq(Int) /\ Len(Bytes(n, mem.offset)) = n
  <2>1. n \in 0 .. 4
    BY <1>2
  <2> QED BY <1>1, <2>1, BytesAreSeq
<1>4. Lo(base) \in 0 .. 7 /\ Lo(index) \in 0 .. 7
  <2> HIDE DEF base, index
  <2> QED BY <1>1, RegisterParts
<1>5. mod \in Int /\ low \in Int /\ ScaleBits(scale) \in Int
  BY <1>4 DEF ScaleBits
<1> HIDE DEF base, index, scale
<1>6. CASE IsReg(index)
  <2> DEFINE a == 8 * d + mod + 4
             b == low + 8 * Lo(index) + 64 * ScaleBits(scale)
  <2>1. a \in Int /\ b \in Int
    BY <1>4, <1>5
  <2>2. ms = <<a, b>>
    BY <1>6 DEF ModrmSib
  <2> HIDE DEF a, b, ms
  <2>3. ms \in Seq(Int)
    BY <2>1, <2>2
  <2> QED BY <1>2, <1>3, <2>3 DEF ms, base, index, scale
<1>7. CASE ~IsReg(index)
  <2> DEFINE a == 8 * d + mod + low
             t == IF Lo(base) = 4 THEN <<36>> ELSE << >>
  <2>1. a \in Int /\ t \in Seq(Int)
    BY <1>5
  <2>2. ms = <<a>> \o t
    BY <1>7 DEF ModrmSib
  <2> HIDE DEF a, t, ms
  <2>3. <<a>> \in Seq(Int)
    BY <2>1
  <2>4. ms \in Seq(Int)
    BY <2>1, <2>2, <2>3, ConcatProperties
  <2> QED BY <1>2, <1>3, <2>4 DEF ms, base, index, scale
<1> QED BY <1>6, <1>7

\* An address is a sequence of bytes.
LEMMA AddressBytesSeq ==
  ASSUME NEW d \in 0 .. 7, NEW mem, Addressable(mem)
  PROVE  AddressBytes(d, mem) \in Seq(Int)
<1> DEFINE n == OffsetMinBytes(mem, mem.base, AddressIndex(mem))
           ms == ModrmSib(8 * d, n, mem.base, AddressIndex(mem), AddressScale(mem))
           number == Bytes(n, mem.offset)
<1>1. ms \in Seq(Int) /\ number \in Seq(Int)
  BY AddressSeqs
<1>2. AddressBytes(d, mem) = ms \o number
  BY DEF AddressBytes
<1> HIDE DEF ms, number
<1> QED BY <1>1, <1>2, ConcatProperties

\* An address is read, and no byte more.
THEOREM AddressBytesRead ==
  ASSUME NEW buf, NEW p \in Nat, NEW default, NEW bits, NEW rex, NEW d \in 0 .. 7,
         NEW mem, Addressable(mem), At(buf, p, AddressBytes(d, mem)),
         RexIs(rex, default, bits, mem.base, AddressIndex(mem))
  PROVE  AddressIs(buf, p + 1, rex, d, IdOf(mem.base), IdOf(mem.index),
                   IF mem.scale = 0 THEN 1 ELSE mem.scale, mem.offset, p + Len(AddressBytes(d, mem)))
<1> DEFINE n == OffsetMinBytes(mem, mem.base, AddressIndex(mem))
           ms == ModrmSib(8 * d, n, mem.base, AddressIndex(mem), AddressScale(mem))
           number == Bytes(n, mem.offset)
<1>1. ms \in Seq(Int) /\ number \in Seq(Int) /\ Len(number) = n /\ n \in {0, 1, 4}
  BY AddressSeqs
<1>2. AddressBytes(d, mem) = ms \o number
  BY DEF AddressBytes
<1>3. RexX(rex) = Hi(AddressIndex(mem)) /\ RexB(rex) = Hi(mem.base)
  BY DEF RexIs
<1>4. AddressIs(buf, p + 1, rex, d, IdOf(mem.base), IdOf(mem.index),
                IF mem.scale = 0 THEN 1 ELSE mem.scale, mem.offset, p + Len(ms) + n)
  <2>1. At(buf, p, ms \o number)
    BY <1>2
  <2>2. AddressAt(buf, p, rex, d, mem, n, ms)
    BY <1>3, <2>1 DEF AddressAt
  <2> HIDE DEF n, ms
  <2> QED BY <2>2, AddressRead
<1>5. p + Len(ms) + n = p + Len(AddressBytes(d, mem))
  <2> HIDE DEF n, ms, number
  <2>1. Len(AddressBytes(d, mem)) = Len(ms) + Len(number)
    BY <1>1, <1>2, ConcatProperties
  <2>2. Len(ms) \in Nat
    BY <1>1
  <2> QED BY <1>1, <2>1, <2>2
<1> QED BY <1>4, <1>5

\* front are the bytes of the opcode before the last, which is 8 * d.
MemCoded(op, mem, front, d) ==
  /\ op \in Ops /\ Addressable(mem)
  /\ LET opcode == Widen(FindInst(op).bytes, FindInst(op), mem.bits)
     IN front = SubSeq(opcode, 1, Len(opcode) - 1) /\ opcode[Len(opcode)] = 8 * d
  /\ front \in Seq(Int) /\ d \in 0 .. 7 /\ Len(front) > 0 /\ front[1] # 102 /\ front[1] \notin 64 .. 79

\* The bytes are what InstructionOpened asks for.
LEMMA MemShaped ==
  ASSUME NEW op, NEW mem, NEW front, NEW d, MemCoded(op, mem, front, d)
  PROVE  /\ Shaped(EmitMem(op, FindInst(op), mem).bytes, front, AddressBytes(d, mem),
                   DefaultSize(op), mem.bits, mem.base, AddressIndex(mem))
         /\ EmitMem(op, FindInst(op), mem).label = mem.label
<1> DEFINE opcode == Widen(FindInst(op).bytes, FindInst(op), mem.bits)
           base == mem.base
           index == AddressIndex(mem)
           default == DefaultSize(op)
           n == OffsetMinBytes(mem, base, index)
           ms == ModrmSib(8 * d, n, base, index, AddressScale(mem))
           number == Bytes(n, mem.offset)
           prefixes == Prefixes(mem.bits, default, base, index)
<1>1. /\ Addressable(mem) /\ front = SubSeq(opcode, 1, Len(opcode) - 1) /\ opcode[Len(opcode)] = 8 * d
      /\ front \in Seq(Int) /\ d \in 0 .. 7 /\ Len(front) > 0 /\ front[1] # 102 /\ front[1] \notin 64 .. 79
  BY DEF MemCoded
<1>2. base \in Registers /\ index \in Registers /\ mem.bits \in Nat
  BY <1>1, AddressParts
<1>3. default \in {32, 64}
  BY DEF DefaultSize
<1>4. ms \in Seq(Int) /\ number \in Seq(Int)
  BY <1>1, AddressSeqs
<1>5. prefixes \in Seq(Int)
  <2> HIDE DEF base, index, default
  <2> QED BY <1>2, <1>3, PrefixesAreSeq, ZenonT(30)
<1>6. AddressBytes(d, mem) = ms \o number /\ AddressBytes(d, mem) \in Seq(Int)
  <2>1. AddressBytes(d, mem) \in Seq(Int)
    BY <1>1, AddressBytesSeq
  <2> QED BY <2>1 DEF AddressBytes
<1>7. ValidMem(mem)
  BY <1>1 DEF Addressable
<1> HIDE DEF opcode
<1>8. EmitMem(op, FindInst(op), mem).bytes = prefixes \o front \o ms \o number
      /\ EmitMem(op, FindInst(op), mem).label = mem.label
  BY <1>1, <1>7 DEF EmitMem, opcode, AddressIndex, AddressScale
<1> HIDE DEF prefixes, ms, number
<1>9. prefixes \o front \o ms \o number = prefixes \o front \o (ms \o number)
  <2> DEFINE opening == prefixes \o front
  <2>1. opening \in Seq(Int)
    BY <1>1, <1>5, ConcatProperties
  <2> HIDE DEF opening
  <2>2. opening \o ms \o number = opening \o (ms \o number)
    BY <1>4, <2>1, ConcatAssociative, SMTT(30)
  <2> QED BY <2>2 DEF opening
<1> QED BY <1>1, <1>2, <1>3, <1>6, <1>8, <1>9 DEF Shaped, prefixes

\* What the processor should find for an address.
MemIs(op, mem) ==
  MemIns(op, mem.bits, IdOf(mem.base), IdOf(mem.index), IF mem.scale = 0 THEN 1 ELSE mem.scale, mem.offset)

\* A group with an address.
LEMMA GroupMemory ==
  ASSUME NEW op \in Ops, op.name \in Groups, NEW mem, Addressable(mem), mem.bits \in FindInst(op).argSize,
         NEW buf, NEW p \in Nat, NEW bytes, bytes = EmitMem(op, FindInst(op), mem).bytes, At(buf, p, bytes)
  PROVE  Reads(buf, p, bytes, MemIs(op, mem)) /\ EmitMem(op, FindInst(op), mem).label = mem.label
<1>1. PICK first, o, d : GroupForm(op, mem.bits, first, o, d)
  BY GroupInst
<1>2. /\ FindInst(op).bytes = <<first, 8 * d>>
      /\ first \in Int /\ o = first + WideBit(FindInst(op), mem.bits)
      /\ o \in {143, 246, 247, 254, 255} /\ d \in 0 .. 7
      /\ GroupName(o, d) = op.name /\ op = Op(op.name)
  BY <1>1 DEF GroupForm
<1> DEFINE front == <<o>>
           rest == AddressBytes(d, mem)
           default == DefaultSize(op)
           bits == mem.bits
           base == mem.base
           index == AddressIndex(mem)
<1>3. front \in Seq(Int) /\ Len(front) = 1 /\ front[1] = o /\ o # 102 /\ o \notin 64 .. 79 /\ o \in Int
  BY <1>2
<1>4. rest \in Seq(Int)
  BY <1>2, AddressBytesSeq
<1>5. MemCoded(op, mem, front, d)
  <2>1. Widen(FindInst(op).bytes, FindInst(op), mem.bits) = <<o, 8 * d>>
    <3>1. 8 * d \in Int
      BY <1>2
    <3> QED BY <1>2, <3>1, Widened
  <2>2. SubSeq(<<o, 8 * d>>, 1, Len(<<o, 8 * d>>) - 1) = front /\ <<o, 8 * d>>[Len(<<o, 8 * d>>)] = 8 * d
    <3>1. o \in Int /\ 8 * d \in Int
      BY <1>2
    <3>2. SubSeq(<<o, 8 * d>>, 1, Len(<<o, 8 * d>>) - 1) = <<o>> /\ Len(<<o, 8 * d>>) = 2
      BY <3>1, FrontOfTwo
    <3> QED BY <3>2
  <2>3. Len(front) > 0 /\ front[1] # 102 /\ front[1] \notin 64 .. 79
    BY <1>3
  <2> HIDE DEF front
  <2> QED BY <1>2, <1>3, <2>1, <2>2, <2>3, ZenonT(30) DEF MemCoded
<1>6. Shaped(bytes, front, rest, default, bits, base, index) /\ EmitMem(op, FindInst(op), mem).label = mem.label
  <2> HIDE DEF front
  <2> QED BY <1>5, MemShaped
<1>7. PICK q, rex : Opened(buf, p, q, bytes, front, rest, default, bits, base, index, rex)
  <2> HIDE DEF front, rest, default, bits, base, index
  <2> QED BY <1>6, InstructionOpened
<1>8. /\ q \in Nat /\ bytes \in Seq(Int) /\ Len(bytes) > 0 /\ p + Len(bytes) = q + 1 + Len(rest)
      /\ buf[q + 1] = o /\ At(buf, q + 1, rest)
      /\ RexIs(rex, default, bits, base, index)
      /\ InsAt(buf, p + 1) = AfterPrefixes(buf, q + 1, Short(bits), rex)
  <2> HIDE DEF front, rest, default, bits, base, index
  <2>1. /\ q \in Nat /\ bytes \in Seq(Int) /\ p + Len(bytes) = q + Len(front) + Len(rest)
        /\ Len(bytes) >= Len(front) /\ At(buf, q, front) /\ At(buf, q + Len(front), rest)
        /\ RexIs(rex, default, bits, base, index)
        /\ InsAt(buf, p + 1) = AfterPrefixes(buf, q + 1, Short(bits), rex)
    BY <1>7 DEF Opened
  <2>2. buf[q + 1] = o
    BY <1>3, <2>1 DEF At
  <2> QED BY <1>3, <2>1, <2>2
<1> DEFINE i == q + 1
<1>9. i \in Nat /\ buf[i] = o
  BY <1>8
<1>10. AddressIs(buf, i + 1, rex, d, IdOf(mem.base), IdOf(mem.index),
                 IF mem.scale = 0 THEN 1 ELSE mem.scale, mem.offset, i + Len(rest))
  <2>1. At(buf, i, AddressBytes(d, mem)) /\ RexIs(rex, default, bits, mem.base, AddressIndex(mem))
    BY <1>8
  <2> HIDE DEF i, default, bits
  <2> QED BY <1>2, <1>9, <2>1, AddressBytesRead
<1> HIDE DEF i, rest
<1>11. Middle(buf[i + 1]) = d
       /\ OperandAt(buf, i + 1, op, bits, rex) = [ins |-> MemIs(op, mem), end |-> i + Len(rest)]
  BY <1>10 DEF AddressIs, MemIs
<1>12. AfterPrefixes(buf, i, Short(bits), rex) = OperandAt(buf, i + 1, op, bits, rex)
  <2>1. GroupWidth(o, op.name, Short(bits), rex) = bits
    BY <1>1, <1>8, GroupSize DEF RexIs
  <2>2. op.name = GroupName(buf[i], Middle(buf[i + 1])) /\ buf[i] \in {143, 246, 247, 254, 255}
    BY <1>2, <1>9, <1>11
  <2>3. AfterPrefixes(buf, i, Short(bits), rex) =
          OperandAt(buf, i + 1, Op(op.name), GroupWidth(buf[i], op.name, Short(bits), rex), rex)
    BY <2>2, GroupAfter
  <2> QED BY <1>2, <1>9, <2>1, <2>3
<1>13. InsAt(buf, p + 1) = AfterPrefixes(buf, i, Short(bits), rex) /\ i + Len(rest) = p + Len(bytes)
  BY <1>8 DEF i
<1> QED BY <1>6, <1>8, <1>11, <1>12, <1>13 DEF Reads

\* setcc with an address.
LEMMA SetMemory ==
  ASSUME NEW op \in Ops, op.name = "set", NEW mem, Addressable(mem), mem.bits \in FindInst(op).argSize,
         NEW buf, NEW p \in Nat, NEW bytes, bytes = EmitMem(op, FindInst(op), mem).bytes, At(buf, p, bytes)
  PROVE  Reads(buf, p, bytes, MemIs(op, mem)) /\ EmitMem(op, FindInst(op), mem).label = mem.label
<1> DEFINE c == CondBits[op.cond]
<1>1. ConditionOp(op, c)
  BY ConditionOpIs
<1>2. c \in 0 .. 15 /\ op = IfOp("set", c)
  BY <1>1 DEF ConditionOp
<1> HIDE DEF c
<1>3. /\ mem.bits = 8 /\ Widen(FindInst(op).bytes, FindInst(op), mem.bits) = <<15, 144 + c, 0>>
  <2>1. /\ FindInst(op).argSize = {8}
        /\ Widen(FindInst(op).bytes, FindInst(op), 8) = <<15, 144 + c, 0>>
    BY <1>1, SetInst
  <2>2. mem.bits = 8
    BY <2>1
  <2> QED BY <2>1, <2>2
<1> DEFINE b == 144 + c
           front == <<15, b>>
           d == 0
           rest == AddressBytes(d, mem)
           default == DefaultSize(op)
           bits == mem.bits
           base == mem.base
           index == AddressIndex(mem)
<1>4. b \in Int /\ d \in 0 .. 7 /\ 8 * d = 0
  BY <1>2
<1>5. front \in Seq(Int) /\ Len(front) = 2 /\ front[1] = 15 /\ front[2] = b
  <2> HIDE DEF b
  <2> QED BY <1>4
<1>6. rest \in Seq(Int)
  <2> HIDE DEF d
  <2> QED BY <1>4, AddressBytesSeq
<1>7. MemCoded(op, mem, front, d)
  <2>1. SubSeq(<<15, b, 0>>, 1, Len(<<15, b, 0>>) - 1) = front /\ <<15, b, 0>>[Len(<<15, b, 0>>)] = 8 * d
    <3> HIDE DEF b
    <3>1. 15 \in Int /\ b \in Int /\ 0 \in Int
      BY <1>4
    <3>2. SubSeq(<<15, b, 0>>, 1, Len(<<15, b, 0>>) - 1) = <<15, b>> /\ Len(<<15, b, 0>>) = 3
      BY <3>1, FrontOfThree
    <3> QED BY <3>2
  <2>2. Widen(FindInst(op).bytes, FindInst(op), mem.bits) = <<15, b, 0>>
    BY <1>3
  <2>3. Len(front) > 0 /\ front[1] # 102 /\ front[1] \notin 64 .. 79
    BY <1>5
  <2> HIDE DEF front, d, b
  <2> QED BY <1>4, <1>5, <2>1, <2>2, <2>3 DEF MemCoded
<1> HIDE DEF d
<1>8. Shaped(bytes, front, rest, default, bits, base, index) /\ EmitMem(op, FindInst(op), mem).label = mem.label
  <2> HIDE DEF front
  <2> QED BY <1>7, MemShaped
<1>9. PICK q, rex : Opened(buf, p, q, bytes, front, rest, default, bits, base, index, rex)
  <2> HIDE DEF front, rest, default, bits, base, index
  <2> QED BY <1>8, InstructionOpened
<1>10. /\ q \in Nat /\ bytes \in Seq(Int) /\ Len(bytes) > 0 /\ p + Len(bytes) = q + 2 + Len(rest)
       /\ buf[q + 1] = 15 /\ buf[q + 2] = b /\ At(buf, q + 2, rest)
       /\ RexIs(rex, default, bits, base, index)
       /\ InsAt(buf, p + 1) = AfterPrefixes(buf, q + 1, Short(bits), rex)
  <2> HIDE DEF front, rest, default, bits, base, index, b
  <2>1. /\ q \in Nat /\ bytes \in Seq(Int) /\ p + Len(bytes) = q + Len(front) + Len(rest)
        /\ Len(bytes) >= Len(front) /\ At(buf, q, front) /\ At(buf, q + Len(front), rest)
        /\ RexIs(rex, default, bits, base, index)
        /\ InsAt(buf, p + 1) = AfterPrefixes(buf, q + 1, Short(bits), rex)
    BY <1>9 DEF Opened
  <2>2. buf[q + 1] = 15 /\ buf[q + 2] = b
    BY <1>5, <2>1 DEF At
  <2> QED BY <1>5, <2>1, <2>2
<1> DEFINE i == q + 1
           j == q + 2
<1>11. i \in Nat /\ j \in Nat /\ i + 2 = j + 1 /\ buf[i] = 15 /\ buf[i + 1] = 144 + c
  <2>1. i + 1 = j /\ i + 2 = j + 1 /\ i \in Nat /\ j \in Nat
    BY <1>10
  <2> QED BY <1>10, <2>1
<1>12. AddressIs(buf, j + 1, rex, d, IdOf(mem.base), IdOf(mem.index),
                 IF mem.scale = 0 THEN 1 ELSE mem.scale, mem.offset, j + Len(rest))
  <2>1. At(buf, j, AddressBytes(d, mem)) /\ RexIs(rex, default, bits, mem.base, AddressIndex(mem))
    BY <1>10
  <2> HIDE DEF j, default, bits
  <2> QED BY <1>4, <1>11, <2>1, AddressBytesRead
<1> HIDE DEF rest
<1>13. OperandAt(buf, j + 1, op, bits, rex) = [ins |-> MemIs(op, mem), end |-> j + Len(rest)]
  <2> HIDE DEF j
  <2> QED BY <1>12 DEF AddressIs, MemIs
<1>14. AfterPrefixes(buf, i, Short(bits), rex) = OperandAt(buf, j + 1, op, bits, rex)
  <2>1. AfterPrefixes(buf, i, Short(bits), rex) = OperandAt(buf, i + 2, IfOp("set", c), 8, rex)
    <3> HIDE DEF i
    <3> QED BY <1>2, <1>11, ConditionAfter
  <2> QED BY <1>2, <1>3, <1>11, <2>1
<1>15. InsAt(buf, p + 1) = AfterPrefixes(buf, i, Short(bits), rex) /\ j + Len(rest) = p + Len(bytes)
  BY <1>10
<1> QED BY <1>8, <1>10, <1>13, <1>14, <1>15 DEF Reads

\* Addresses.
LEMMA MemRead ==
  ASSUME NEW op \in Ops, NEW arg \in Mems, arg.scale = 0 <=> ~IsReg(arg.index),
         arg.base.bits \in {0, 64}, arg.index.bits \in {0, 64},
         ~EmitStmt1(op, arg).error, NEW buf, NEW p \in Nat, At(buf, p, EmitStmt1(op, arg).bytes)
  PROVE  EmitStmt1(op, arg).label = arg.label /\ Reads(buf, p, EmitStmt1(op, arg).bytes, MemIs(op, arg))
<1> DEFINE out == EmitStmt1(op, arg)
<1>1. arg.type = "MEM" /\ ToArg(arg) = "Mem"
  BY DEF Mems, ToArg
<1>2. /\ ToArg(arg) \in FindInst(op).arg /\ arg.bits \in FindInst(op).argSize /\ FindInst(op).bytes # << >>
      /\ out = EmitMem(op, FindInst(op), arg)
  <2>1. ToArg(arg) \in FindInst(op).arg
    BY DEF EmitStmt1, Refused
  <2>2. IsCompatible(arg.bits, FindInst(op).argSize) /\ FindInst(op).bytes # << >>
    BY <1>1, <2>1 DEF EmitStmt1, Refused
  <2>3. arg.bits \in FindInst(op).argSize
    BY <2>2, CompatibleWidth
  <2> QED BY <1>1, <2>1, <2>2, <2>3 DEF EmitStmt1
<1>3. Addressable(arg)
  <2>1. ValidMem(arg)
    BY <1>2 DEF EmitMem, Refused
  <2> QED BY <2>1 DEF Addressable
<1>4. op.name \in Groups \cup {"set"}
  <2>1. op.name \notin {"j", "int", "xabort", "mir_jmp", "clflush", "clflushopt", "clwb", "cbw", "rdtsc", "bswap"}
    BY <1>1, <1>2, RowOperands DEF ArgVal, ArgRax, ArgReg
  <2> QED BY <2>1, OpsAre DEF Groups
<1> HIDE DEF out
<1> DEFINE bytes == out.bytes
<1>5. bytes = EmitMem(op, FindInst(op), arg).bytes /\ At(buf, p, bytes)
  BY <1>2 DEF out
<1>6. arg.bits \in FindInst(op).argSize
  BY <1>2
<1> HIDE DEF bytes
<1>7. CASE op.name \in Groups
  <2>1. Reads(buf, p, bytes, MemIs(op, arg)) /\ EmitMem(op, FindInst(op), arg).label = arg.label
    BY <1>3, <1>5, <1>6, <1>7, GroupMemory
  <2> QED BY <1>2, <2>1 DEF out, bytes
<1>8. CASE op.name = "set"
  <2>1. Reads(buf, p, bytes, MemIs(op, arg)) /\ EmitMem(op, FindInst(op), arg).label = arg.label
    BY <1>3, <1>5, <1>6, <1>8, SetMemory
  <2> QED BY <1>2, <2>1 DEF out, bytes
<1> QED BY <1>4, <1>7, <1>8

(***************************************************************************)
(* Instructions with a number.                                             *)
(***************************************************************************)

\* After the opcode front the processor reads a number of n bytes.
ImmForm(op, front, n) ==
  /\ front \in Seq(Int) /\ Len(front) > 0 /\ front[1] # 102 /\ front[1] \notin 64 .. 79 /\ n \in {1, 4}
  /\ \A buf : \A p \in Nat :
       At(buf, p, front) => AfterPrefixes(buf, p + 1, 32, None) = Imm(buf, op, p + Len(front) + 1, n)

\* The number is read.
LEMMA ImmRead ==
  ASSUME NEW op, NEW front, NEW n, ImmForm(op, front, n), NEW val \in Int32, n = 1 => val \in -128 .. 127,
         NEW buf, NEW p \in Nat, At(buf, p, front \o Bytes(n, val))
  PROVE  Reads(buf, p, front \o Bytes(n, val), ImmIns(op, val))
<1> DEFINE number == Bytes(n, val)
           k == Len(front)
<1>1. /\ front \in Seq(Int) /\ k > 0 /\ front[1] # 102 /\ front[1] \notin 64 .. 79 /\ n \in {1, 4} /\ k \in Nat
      /\ At(buf, p, front) => AfterPrefixes(buf, p + 1, 32, None) = Imm(buf, op, p + k + 1, n)
  BY SMTT(30) DEF ImmForm
<1>2. number \in Seq(Int) /\ Len(number) = n
  <2>1. n \in 0 .. 4 /\ val \in Int
    BY <1>1, Int32Range
  <2> QED BY <2>1, BytesAreSeq
<1>3. /\ At(buf, p, front) /\ At(buf, p + k, number)
      /\ front \o number \in Seq(Int) /\ Len(front \o number) = k + n
  <2>1. At(buf, p, front \o number)
    OBVIOUS
  <2> HIDE DEF number
  <2> QED BY <1>1, <1>2, <2>1, AtConcat
<1>4. buf[p + 1] = front[1]
  BY <1>1, <1>3 DEF At
<1>5. InsAt(buf, p + 1) = Imm(buf, op, p + k + 1, n)
  <2> HIDE DEF k
  <2> QED BY <1>1, <1>3, <1>4 DEF InsAt
<1> DEFINE q == p + k
<1>6. q \in Nat
  <2> HIDE DEF k
  <2> QED BY <1>1
<1>7. SignedAt(buf, q + 1, n) = val
  <2>1. n \in {0, 1, 4} /\ n # 0 /\ At(buf, q, Bytes(n, val))
    BY <1>1, <1>3
  <2> HIDE DEF q
  <2> QED BY <1>6, <2>1, NumberRead
<1>8. q + 1 + n - 1 = p + (k + n) /\ k + n > 0
  <2> HIDE DEF k
  <2> QED BY <1>1
<1>9. InsAt(buf, p + 1) = [ins |-> ImmIns(op, val), end |-> p + Len(front \o number)]
  <2>1. InsAt(buf, p + 1) = [ins |-> ImmIns(op, val), end |-> q + 1 + n - 1]
    <3> HIDE DEF k
    <3> QED BY <1>5, <1>7 DEF Imm
  <2>2. q + 1 + n - 1 = p + Len(front \o number)
    BY <1>3, <1>8
  <2> QED BY <2>1, <2>2
<1>10. Len(front \o number) > 0
  BY <1>3, <1>8
<1> HIDE DEF q, k
<1> QED BY <1>3, <1>9, <1>10 DEF Reads

\* An opcode of one byte, and one of two.
LEMMA ImmOne ==
  ASSUME NEW op, NEW a \in Int, a # 102, a \notin 64 .. 79, NEW n \in {1, 4},
         \A buf, i : buf[i] = a => AfterPrefixes(buf, i, 32, None) = Imm(buf, op, i + 1, n)
  PROVE  ImmForm(op, <<a>>, n)
<1> DEFINE front == <<a>>
<1>1. front \in Seq(Int) /\ Len(front) = 1 /\ front[1] = a
  OBVIOUS
<1>2. ASSUME NEW buf, NEW p \in Nat, At(buf, p, front)
      PROVE  AfterPrefixes(buf, p + 1, 32, None) = Imm(buf, op, p + Len(front) + 1, n)
  <2>1. buf[p + 1] = a
    BY <1>2, AtOne
  <2> HIDE DEF front
  <2> QED BY <1>1, <2>1
<1>3. Len(front) > 0 /\ front[1] # 102 /\ front[1] \notin 64 .. 79
  BY <1>1
<1> HIDE DEF front
<1>4. ImmForm(op, front, n)
  BY <1>1, <1>2, <1>3 DEF ImmForm
<1> QED BY <1>4 DEF front

\* See ImmOne.
LEMMA ImmTwo ==
  ASSUME NEW op, NEW b \in Int, NEW n \in {1, 4},
         \A buf, i : buf[i] = 15 /\ buf[i + 1] = b => AfterPrefixes(buf, i, 32, None) = Imm(buf, op, i + 2, n)
  PROVE  ImmForm(op, <<15, b>>, n)
<1> DEFINE front == <<15, b>>
<1>1. front \in Seq(Int) /\ Len(front) = 2 /\ front[1] = 15 /\ front[2] = b
  OBVIOUS
<1>2. ASSUME NEW buf, NEW p \in Nat, At(buf, p, front)
      PROVE  AfterPrefixes(buf, p + 1, 32, None) = Imm(buf, op, p + Len(front) + 1, n)
  <2> HIDE DEF front
  <2>1. buf[p + 1] = 15 /\ buf[p + 2] = b
    BY <1>1, <1>2 DEF At
  <2> DEFINE i == p + 1
  <2>2. i + 1 = p + 2 /\ i + 2 = p + Len(front) + 1
    BY <1>1
  <2>3. buf[i] = 15 /\ buf[i + 1] = b
    BY <2>1, <2>2
  <2> HIDE DEF i
  <2>4. AfterPrefixes(buf, i, 32, None) = Imm(buf, op, i + 2, n)
    BY <2>3
  <2> QED BY <2>2, <2>4 DEF i
<1>3. Len(front) > 0 /\ front[1] # 102 /\ front[1] \notin 64 .. 79
  BY <1>1
<1> HIDE DEF front
<1>4. ImmForm(op, front, n)
  BY <1>1, <1>2, <1>3 DEF ImmForm
<1> QED BY <1>4 DEF front

\* The table's opcodes are those of the processor.
LEMMA ImmForms ==
  ASSUME NEW op \in Ops, op.name \in {"call", "int", "jmp", "push", "j"}
  PROVE  /\ 16 \notin FindInst(op).immSize
         /\ 8 \in FindInst(op).immSize => ImmForm(op, FindInst(op).imm8, 1)
         /\ 32 \in FindInst(op).immSize => ImmForm(op, FindInst(op).imm32, 4)
         /\ op.name # "int" => 32 \in FindInst(op).immSize
         /\ op.name = "int" => 8 \in FindInst(op).immSize
<1> DEFINE short == 32
<1>1. ASSUME NEW a \in {106, 104, 205, 232, 233, 235}, NEW name, NEW n \in {1, 4},
             \A buf, i : buf[i] = a => AfterPrefixes(buf, i, short, None) = Imm(buf, Op(name), i + 1, n)
      PROVE  ImmForm(Op(name), <<a>>, n)
  <2>1. a \in Int /\ a # 102 /\ a \notin 64 .. 79
    OBVIOUS
  <2> QED BY <1>1, <2>1, ImmOne
<1>2. /\ \A buf, i : buf[i] = 106 => AfterPrefixes(buf, i, short, None) = Imm(buf, Op("push"), i + 1, 1)
      /\ \A buf, i : buf[i] = 104 => AfterPrefixes(buf, i, short, None) = Imm(buf, Op("push"), i + 1, 4)
      /\ \A buf, i : buf[i] = 205 => AfterPrefixes(buf, i, short, None) = Imm(buf, Op("int"), i + 1, 1)
      /\ \A buf, i : buf[i] = 232 => AfterPrefixes(buf, i, short, None) = Imm(buf, Op("call"), i + 1, 4)
      /\ \A buf, i : buf[i] = 233 => AfterPrefixes(buf, i, short, None) = Imm(buf, Op("jmp"), i + 1, 4)
      /\ \A buf, i : buf[i] = 235 => AfterPrefixes(buf, i, short, None) = Imm(buf, Op("jmp"), i + 1, 1)
  <2> HIDE DEF short
  <2> QED BY NumberAfter
<1>3. ImmForm(Op("push"), <<106>>, 1)
  BY <1>1, <1>2
<1>4. ImmForm(Op("push"), <<104>>, 4)
  BY <1>1, <1>2
<1>5. ImmForm(Op("int"), <<205>>, 1)
  BY <1>1, <1>2
<1>6. ImmForm(Op("call"), <<232>>, 4)
  BY <1>1, <1>2
<1>7. ImmForm(Op("jmp"), <<233>>, 4)
  BY <1>1, <1>2
<1>8. ImmForm(Op("jmp"), <<235>>, 1)
  BY <1>1, <1>2
<1>9. CASE op.name = "j"
  <2> DEFINE c == CondBits[op.cond]
  <2>1. ConditionOp(op, c)
    BY <1>9, ConditionOpIs
  <2>2. c \in 0 .. 15 /\ op = IfOp("j", c)
    BY <1>9, <2>1 DEF ConditionOp
  <2>3. "j" \notin DOMAIN Insts
    BY DEF Insts
  <2>4. FindInst(op).imm8 = <<112 + c>> /\ FindInst(op).imm32 = <<15, 128 + c>> /\ FindInst(op).immSize = {8, 32}
    BY <1>9, <2>3 DEF FindInst, Inst
  <2> HIDE DEF c
  <2>5. /\ \A buf, i : buf[i] = 112 + c => AfterPrefixes(buf, i, short, None) = Imm(buf, op, i + 1, 1)
        /\ \A buf, i : buf[i] = 15 /\ buf[i + 1] = 128 + c =>
             AfterPrefixes(buf, i, short, None) = Imm(buf, op, i + 2, 4)
    <3> HIDE DEF short
    <3> QED BY <2>2, ConditionAfter
  <2>6. ImmForm(op, <<112 + c>>, 1)
    <3> DEFINE a == 112 + c
    <3>1. a \in Int /\ a # 102 /\ a \notin 64 .. 79
      BY <2>2
    <3>2. \A buf, i : buf[i] = a => AfterPrefixes(buf, i, 32, None) = Imm(buf, op, i + 1, 1)
      BY <2>5
    <3> HIDE DEF a
    <3>3. ImmForm(op, <<a>>, 1)
      BY <3>1, <3>2, ImmOne
    <3> QED BY <3>3 DEF a
  <2>7. ImmForm(op, <<15, 128 + c>>, 4)
    <3> DEFINE b == 128 + c
    <3>1. b \in Int
      BY <2>2
    <3>2. \A buf, i : buf[i] = 15 /\ buf[i + 1] = b => AfterPrefixes(buf, i, 32, None) = Imm(buf, op, i + 2, 4)
      BY <2>5
    <3> HIDE DEF b
    <3>3. ImmForm(op, <<15, b>>, 4)
      BY <3>1, <3>2, ImmTwo
    <3> QED BY <3>3 DEF b
  <2> QED BY <1>9, <2>4, <2>6, <2>7
<1>10. CASE op.name # "j"
  <2>1. op = Op(op.name) /\ FindInst(op) = Insts[op.name]
    BY <1>10, InstFound
  <2>2. CASE op.name = "call"
    BY <1>6, <2>1, <2>2 DEF Insts, Inst
  <2>3. CASE op.name = "int"
    BY <1>5, <2>1, <2>3 DEF Insts, Inst
  <2>4. CASE op.name = "jmp"
    BY <1>7, <1>8, <2>1, <2>4 DEF Insts, Inst
  <2>5. CASE op.name = "push"
    BY <1>3, <1>4, <2>1, <2>5 DEF Insts, Inst
  <2> QED BY <1>10, <2>2, <2>3, <2>4, <2>5
<1> QED BY <1>9, <1>10

\* A number is emitted in one byte or in four.
LEMMA ConstEmitted ==
  ASSUME NEW op \in Ops, op.name \in {"call", "int", "jmp", "push", "j"}, NEW val \in Int32,
         op.name = "int" => val \in -128 .. 127
  PROVE  \E front, n : /\ ImmForm(op, front, n) /\ (n = 1 => val \in -128 .. 127)
                       /\ EmitConst(FindInst(op), val) = Emitted(front \o Bytes(n, val))
<1> DEFINE inst == FindInst(op)
<1>1. /\ 16 \notin inst.immSize
      /\ 8 \in inst.immSize => ImmForm(op, inst.imm8, 1)
      /\ 32 \in inst.immSize => ImmForm(op, inst.imm32, 4)
      /\ op.name # "int" => 32 \in inst.immSize
      /\ op.name = "int" => 8 \in inst.immSize
  BY ImmForms
<1> HIDE DEF inst
<1>2. ASSUME NEW front \in Seq(Int), NEW number \in Seq(Int) PROVE << >> \o front \o number = front \o number
  <2>1. << >> \o front = front
    OBVIOUS
  <2> QED BY <2>1
<1>3. val \in Int
  BY Int32Range
<1> DEFINE length == IF val \in -128 .. 127 /\ 8 \in inst.immSize THEN 1
                     ELSE IF val \in -32768 .. 32767 /\ 16 \in inst.immSize THEN 2 ELSE 4
<1>6. EmitConst(inst, val) = Emitted((IF length = 2 THEN <<102>> ELSE << >>)
        \o (IF length = 1 THEN inst.imm8 ELSE inst.imm32) \o Bytes(length, val))
  BY DEF EmitConst
<1>4. CASE val \in -128 .. 127 /\ 8 \in inst.immSize
  <2> DEFINE n == 1
  <2>1. ImmForm(op, inst.imm8, n)
    BY <1>1, <1>4
  <2>2. inst.imm8 \in Seq(Int) /\ Bytes(n, val) \in Seq(Int)
    <3>1. n \in 0 .. 4
      OBVIOUS
    <3>2. Bytes(n, val) \in Seq(Int)
      <4> HIDE DEF n
      <4> QED BY <1>3, <3>1, BytesAreSeq
    <3> QED BY <2>1, <3>2 DEF ImmForm
  <2>3. EmitConst(inst, val) = Emitted(<< >> \o inst.imm8 \o Bytes(n, val))
    <3>1. length = n /\ n # 2 /\ (n = 1 <=> TRUE)
      BY <1>4
    <3> HIDE DEF length, n
    <3> QED BY <1>6, <3>1
  <2>4. EmitConst(inst, val) = Emitted(inst.imm8 \o Bytes(n, val))
    <3> HIDE DEF n
    <3> QED BY <1>2, <2>2, <2>3
  <2> HIDE DEF n
  <2> QED BY <1>4, <2>1, <2>4 DEF inst
<1>5. CASE ~(val \in -128 .. 127 /\ 8 \in inst.immSize)
  <2> DEFINE n == 4
  <2>1. ImmForm(op, inst.imm32, n)
    BY <1>1, <1>5
  <2>2. inst.imm32 \in Seq(Int) /\ Bytes(n, val) \in Seq(Int)
    <3>1. n \in 0 .. 4
      OBVIOUS
    <3>2. Bytes(n, val) \in Seq(Int)
      <4> HIDE DEF n
      <4> QED BY <1>3, <3>1, BytesAreSeq
    <3> QED BY <2>1, <3>2 DEF ImmForm
  <2>3. EmitConst(inst, val) = Emitted(<< >> \o inst.imm32 \o Bytes(n, val))
    <3>1. length = n /\ n # 2 /\ (n = 1 <=> FALSE)
      BY <1>1, <1>5
    <3> HIDE DEF length, n
    <3> QED BY <1>6, <3>1
  <2>4. EmitConst(inst, val) = Emitted(inst.imm32 \o Bytes(n, val)) /\ n # 1
    <3>1. n # 1
      OBVIOUS
    <3> HIDE DEF n
    <3> QED BY <1>2, <2>2, <2>3, <3>1
  <2> HIDE DEF n
  <2> QED BY <2>1, <2>4 DEF inst
<1> QED BY <1>4, <1>5

\* Operations that take numbers.
LEMMA NumberOps ==
  ASSUME NEW op \in Ops, "Val" \in FindInst(op).arg, op.name # "xabort"
  PROVE  op.name \in {"call", "int", "jmp", "push", "j"}
<1>1. op.name \notin {"mir_jmp", "clflush", "clflushopt", "clwb", "cbw", "rdtsc", "bswap",
                      "dec", "inc", "neg", "not", "pop", "set"}
  BY RowOperands DEF ArgVal, ArgRax, ArgReg, ArgMem
<1> QED BY <1>1, OpsAre

\* Numbers.
LEMMA ConstRead ==
  ASSUME NEW op \in Ops, NEW arg \in [type : {"CONST"}, bits : Nat, val : Int32], op.name # "xabort",
         op.name = "int" => arg.val \in -128 .. 127,
         ~EmitStmt1(op, arg).error, NEW buf, NEW p \in Nat, At(buf, p, EmitStmt1(op, arg).bytes)
  PROVE  EmitStmt1(op, arg).label = NoLabel /\ Reads(buf, p, EmitStmt1(op, arg).bytes, ImmIns(op, arg.val))
<1> DEFINE out == EmitStmt1(op, arg)
           val == arg.val
<1>1. arg.type = "CONST" /\ ToArg(arg) = "Val" /\ val \in Int32
  BY DEF ToArg
<1>2. "Val" \in FindInst(op).arg
  BY <1>1 DEF EmitStmt1, Refused
<1>3. out = EmitConst(FindInst(op), val)
  BY <1>1, <1>2 DEF EmitStmt1, Refused
<1>4. op.name \in {"call", "int", "jmp", "push", "j"}
  BY <1>2, NumberOps
<1>5. PICK front, n : /\ ImmForm(op, front, n) /\ (n = 1 => val \in -128 .. 127)
                      /\ EmitConst(FindInst(op), val) = Emitted(front \o Bytes(n, val))
  <2> HIDE DEF val
  <2>1. op.name = "int" => val \in -128 .. 127
    BY DEF val
  <2> QED BY <1>1, <1>4, <2>1, ConstEmitted
<1>6. out.bytes = front \o Bytes(n, val) /\ out.label = NoLabel
  BY <1>3, <1>5 DEF Emitted
<1>7. At(buf, p, front \o Bytes(n, val))
  BY <1>6
<1> HIDE DEF out, val
<1>8. Reads(buf, p, front \o Bytes(n, val), ImmIns(op, val))
  BY <1>1, <1>5, <1>7, ImmRead
<1> QED BY <1>6, <1>8 DEF out, val

\* Labels.
LEMMA LabelRead ==
  ASSUME NEW op \in Ops, NEW arg \in [type : {"LABEL"}, label : Nat],
         ~EmitStmt1(op, arg).error, NEW buf, NEW p \in Nat, At(buf, p, EmitStmt1(op, arg).bytes)
  PROVE  EmitStmt1(op, arg).label = arg.label /\ Reads(buf, p, EmitStmt1(op, arg).bytes, ImmIns(op, 0))
<1> DEFINE out == EmitStmt1(op, arg)
           inst == FindInst(op)
           zero == 0
           n == 4
<1>1. arg.type = "LABEL" /\ ToArg(arg) = "Val"
  BY DEF ToArg
<1>2. "Val" \in inst.arg
  BY <1>1 DEF EmitStmt1, Refused
<1>3. 32 \in inst.immSize /\ out = EmitLabel(inst, arg.label)
  <2>1. IsCompatible(32, inst.immSize)
    BY <1>1, <1>2 DEF EmitStmt1, Refused
  <2>2. 32 \in inst.immSize
    BY <2>1, CompatibleWidth
  <2> QED BY <1>1, <1>2, <2>1, <2>2 DEF EmitStmt1
<1>4. out.bytes = inst.imm32 \o Bytes(n, zero) /\ out.label = arg.label
  BY <1>3 DEF EmitLabel
<1>5. op.name # "xabort"
  <2>1. ASSUME op.name = "xabort" PROVE FALSE
    <3>1. inst = Insts[op.name]
      BY <2>1, InstFound
    <3> QED BY <1>3, <2>1, <3>1 DEF Insts, Inst
  <2> QED BY <2>1
<1>6. op.name \in {"call", "int", "jmp", "push", "j"}
  BY <1>2, <1>5, NumberOps
<1>7. ImmForm(op, inst.imm32, n) /\ n # 1
  BY <1>3, <1>6, ImmForms
<1>8. zero \in Int32
  BY SMT DEF Int32
<1>9. At(buf, p, inst.imm32 \o Bytes(n, zero))
  BY <1>4
<1> HIDE DEF out, n, zero, inst
<1>10. Reads(buf, p, inst.imm32 \o Bytes(n, zero), ImmIns(op, zero))
  BY <1>7, <1>8, <1>9, ImmRead
<1> QED BY <1>4, <1>10 DEF out, zero

(***************************************************************************)
(* Instructions without operands.                                          *)
(***************************************************************************)

\* One byte.
LEMMA PlainOne ==
  ASSUME NEW a \in DOMAIN PlainNames, NEW buf, NEW p \in Nat, At(buf, p, <<a>>)
  PROVE  Reads(buf, p, <<a>>, PlainIns(Op(PlainNames[a])))
<1> DEFINE i == p + 1
           short == 32
<1>1. a \in Int /\ a # 102 /\ a \notin 64 .. 79
  BY DEF PlainNames
<1>2. buf[i] = a
  BY AtOne
<1>3. InsAt(buf, i) = AfterPrefixes(buf, i, short, None)
  BY <1>1, <1>2 DEF InsAt
<1>4. AfterPrefixes(buf, i, short, None) = Plain(PlainNames[buf[i]], i)
  <2> HIDE DEF i, short
  <2> QED BY <1>2, PlainAfter
<1>5. <<a>> \in Seq(Int) /\ Len(<<a>>) = 1
  BY <1>1, ShortSeqs
<1> QED BY <1>2, <1>3, <1>4, <1>5 DEF Reads, Plain

\* Two bytes.
LEMMA PlainTwo ==
  ASSUME NEW b \in DOMAIN PlainNames2, NEW buf, NEW p \in Nat, At(buf, p, <<15, b>>)
  PROVE  Reads(buf, p, <<15, b>>, PlainIns(Op(PlainNames2[b])))
<1> DEFINE i == p + 1
           short == 32
<1>1. b \in Int /\ 15 \in Int
  BY DEF PlainNames2
<1>2. buf[p + 1] = 15 /\ buf[p + 2] = b
  BY AtTwo
<1>3. i + 1 = p + 2
  OBVIOUS
<1>4. buf[i] = 15 /\ buf[i + 1] = b
  BY <1>2, <1>3
<1>5. InsAt(buf, i) = AfterPrefixes(buf, i, short, None)
  BY <1>4 DEF InsAt
<1>6. AfterPrefixes(buf, i, short, None) = Plain(PlainNames2[buf[i + 1]], i + 1)
  <2> HIDE DEF i, short
  <2> QED BY <1>4, PlainAfter
<1>7. <<15, b>> \in Seq(Int) /\ Len(<<15, b>>) = 2
  BY <1>1, ShortSeqs
<1>8. InsAt(buf, p + 1) = [ins |-> PlainIns(Op(PlainNames2[b])), end |-> p + 2]
  BY <1>3, <1>4, <1>5, <1>6 DEF Plain
<1> QED BY <1>7, <1>8 DEF Reads

\* Three bytes.
LEMMA PlainThree ==
  ASSUME NEW b \in {1, 174}, NEW c \in DOMAIN PlainNames3, NEW buf, NEW p \in Nat, At(buf, p, <<15, b, c>>)
  PROVE  Reads(buf, p, <<15, b, c>>, PlainIns(Op(PlainNames3[c])))
<1> DEFINE i == p + 1
           short == 32
<1>1. b \in Int /\ c \in Int /\ 15 \in Int
  BY DEF PlainNames3
<1>2. buf[p + 1] = 15 /\ buf[p + 2] = b /\ buf[p + 3] = c
  BY AtThree
<1>3. i + 1 = p + 2 /\ i + 2 = p + 3
  OBVIOUS
<1>4. buf[i] = 15 /\ buf[i + 1] = b /\ buf[i + 2] = c
  BY <1>2, <1>3
<1>5. InsAt(buf, i) = AfterPrefixes(buf, i, short, None)
  BY <1>4 DEF InsAt
<1>6. AfterPrefixes(buf, i, short, None) = Plain(PlainNames3[buf[i + 2]], i + 2)
  <2> HIDE DEF i, short
  <2> QED BY <1>4, PlainAfter
<1>7. <<15, b, c>> \in Seq(Int) /\ Len(<<15, b, c>>) = 3
  BY <1>1, ShortSeqs
<1>8. InsAt(buf, p + 1) = [ins |-> PlainIns(Op(PlainNames3[c])), end |-> p + 3]
  BY <1>3, <1>4, <1>5, <1>6 DEF Plain
<1> QED BY <1>7, <1>8 DEF Reads

\* What the processor calls an instruction.
Called(name) == IF name = "xacquire" THEN "repne" ELSE IF name = "xrelease" THEN "rep" ELSE name

\* The table of instructions without operands agrees with the processor's.
LEMMA Bytes0Are ==
  ASSUME NEW name \in DOMAIN Bytes0, name # "pause"
  PROVE  \/ \E a \in DOMAIN PlainNames : Bytes0[name] = <<a>> /\ PlainNames[a] = Called(name)
         \/ \E b \in DOMAIN PlainNames2 : Bytes0[name] = <<15, b>> /\ PlainNames2[b] = Called(name)
         \/ \E b \in {1, 174}, c \in DOMAIN PlainNames3 :
              Bytes0[name] = <<15, b, c>> /\ PlainNames3[c] = Called(name)
<1> USE DEF Called
<1>1. CASE name \in {"clc", "cld", "cmc", "int3", "lock", "nop", "popf", "pushf", "rep", "repne", "stc", "std", "xacquire", "xrelease"}
  <2>1. CASE name = "clc"
    <3>1. 248 \in DOMAIN PlainNames /\ Bytes0[name] = <<248>> /\ PlainNames[248] = Called(name)
      BY <2>1 DEF Bytes0, PlainNames
    <3> QED BY <3>1
  <2>2. CASE name = "cld"
    <3>1. 252 \in DOMAIN PlainNames /\ Bytes0[name] = <<252>> /\ PlainNames[252] = Called(name)
      BY <2>2 DEF Bytes0, PlainNames
    <3> QED BY <3>1
  <2>3. CASE name = "cmc"
    <3>1. 245 \in DOMAIN PlainNames /\ Bytes0[name] = <<245>> /\ PlainNames[245] = Called(name)
      BY <2>3 DEF Bytes0, PlainNames
    <3> QED BY <3>1
  <2>4. CASE name = "int3"
    <3>1. 204 \in DOMAIN PlainNames /\ Bytes0[name] = <<204>> /\ PlainNames[204] = Called(name)
      BY <2>4 DEF Bytes0, PlainNames
    <3> QED BY <3>1
  <2>5. CASE name = "lock"
    <3>1. 240 \in DOMAIN PlainNames /\ Bytes0[name] = <<240>> /\ PlainNames[240] = Called(name)
      BY <2>5 DEF Bytes0, PlainNames
    <3> QED BY <3>1
  <2>6. CASE name = "nop"
    <3>1. 144 \in DOMAIN PlainNames /\ Bytes0[name] = <<144>> /\ PlainNames[144] = Called(name)
      BY <2>6 DEF Bytes0, PlainNames
    <3> QED BY <3>1
  <2>7. CASE name = "popf"
    <3>1. 157 \in DOMAIN PlainNames /\ Bytes0[name] = <<157>> /\ PlainNames[157] = Called(name)
      BY <2>7 DEF Bytes0, PlainNames
    <3> QED BY <3>1
  <2>8. CASE name = "pushf"
    <3>1. 156 \in DOMAIN PlainNames /\ Bytes0[name] = <<156>> /\ PlainNames[156] = Called(name)
      BY <2>8 DEF Bytes0, PlainNames
    <3> QED BY <3>1
  <2>9. CASE name = "rep"
    <3>1. 243 \in DOMAIN PlainNames /\ Bytes0[name] = <<243>> /\ PlainNames[243] = Called(name)
      BY <2>9 DEF Bytes0, PlainNames
    <3> QED BY <3>1
  <2>10. CASE name = "repne"
    <3>1. 242 \in DOMAIN PlainNames /\ Bytes0[name] = <<242>> /\ PlainNames[242] = Called(name)
      BY <2>10 DEF Bytes0, PlainNames
    <3> QED BY <3>1
  <2>11. CASE name = "stc"
    <3>1. 249 \in DOMAIN PlainNames /\ Bytes0[name] = <<249>> /\ PlainNames[249] = Called(name)
      BY <2>11 DEF Bytes0, PlainNames
    <3> QED BY <3>1
  <2>12. CASE name = "std"
    <3>1. 253 \in DOMAIN PlainNames /\ Bytes0[name] = <<253>> /\ PlainNames[253] = Called(name)
      BY <2>12 DEF Bytes0, PlainNames
    <3> QED BY <3>1
  <2>13. CASE name = "xacquire"
    <3>1. 242 \in DOMAIN PlainNames /\ Bytes0[name] = <<242>> /\ PlainNames[242] = Called(name)
      BY <2>13 DEF Bytes0, PlainNames
    <3> QED BY <3>1
  <2>14. CASE name = "xrelease"
    <3>1. 243 \in DOMAIN PlainNames /\ Bytes0[name] = <<243>> /\ PlainNames[243] = Called(name)
      BY <2>14 DEF Bytes0, PlainNames
    <3> QED BY <3>1
  <2> QED BY <1>1, <2>1, <2>2, <2>3, <2>4, <2>5, <2>6, <2>7, <2>8, <2>9, <2>10, <2>11, <2>12, <2>13, <2>14
<1>2. CASE name \in {"syscall", "sysenter", "sysexit", "sysret", "ud2"}
  <2>1. CASE name = "syscall"
    <3>1. 5 \in DOMAIN PlainNames2 /\ Bytes0[name] = <<15, 5>> /\ PlainNames2[5] = Called(name)
      BY <2>1 DEF Bytes0, PlainNames2
    <3> QED BY <3>1
  <2>2. CASE name = "sysenter"
    <3>1. 52 \in DOMAIN PlainNames2 /\ Bytes0[name] = <<15, 52>> /\ PlainNames2[52] = Called(name)
      BY <2>2 DEF Bytes0, PlainNames2
    <3> QED BY <3>1
  <2>3. CASE name = "sysexit"
    <3>1. 53 \in DOMAIN PlainNames2 /\ Bytes0[name] = <<15, 53>> /\ PlainNames2[53] = Called(name)
      BY <2>3 DEF Bytes0, PlainNames2
    <3> QED BY <3>1
  <2>4. CASE name = "sysret"
    <3>1. 7 \in DOMAIN PlainNames2 /\ Bytes0[name] = <<15, 7>> /\ PlainNames2[7] = Called(name)
      BY <2>4 DEF Bytes0, PlainNames2
    <3> QED BY <3>1
  <2>5. CASE name = "ud2"
    <3>1. 11 \in DOMAIN PlainNames2 /\ Bytes0[name] = <<15, 11>> /\ PlainNames2[11] = Called(name)
      BY <2>5 DEF Bytes0, PlainNames2
    <3> QED BY <3>1
  <2> QED BY <1>2, <2>1, <2>2, <2>3, <2>4, <2>5
<1>3. CASE name \in {"lfence", "mfence", "sfence", "xend", "xtest"}
  <2>1. CASE name = "lfence"
    <3>1. 232 \in DOMAIN PlainNames3 /\ Bytes0[name] = <<15, 174, 232>> /\ PlainNames3[232] = Called(name)
      BY <2>1 DEF Bytes0, PlainNames3
    <3> QED BY <3>1
  <2>2. CASE name = "mfence"
    <3>1. 240 \in DOMAIN PlainNames3 /\ Bytes0[name] = <<15, 174, 240>> /\ PlainNames3[240] = Called(name)
      BY <2>2 DEF Bytes0, PlainNames3
    <3> QED BY <3>1
  <2>3. CASE name = "sfence"
    <3>1. 248 \in DOMAIN PlainNames3 /\ Bytes0[name] = <<15, 174, 248>> /\ PlainNames3[248] = Called(name)
      BY <2>3 DEF Bytes0, PlainNames3
    <3> QED BY <3>1
  <2>4. CASE name = "xend"
    <3>1. 213 \in DOMAIN PlainNames3 /\ Bytes0[name] = <<15, 1, 213>> /\ PlainNames3[213] = Called(name)
      BY <2>4 DEF Bytes0, PlainNames3
    <3> QED BY <3>1
  <2>5. CASE name = "xtest"
    <3>1. 214 \in DOMAIN PlainNames3 /\ Bytes0[name] = <<15, 1, 214>> /\ PlainNames3[214] = Called(name)
      BY <2>5 DEF Bytes0, PlainNames3
    <3> QED BY <3>1
  <2> QED BY <1>3, <2>1, <2>2, <2>3, <2>4, <2>5
<1> QED BY <1>1, <1>2, <1>3 DEF Bytes0

(***************************************************************************)
(* Statements.                                                             *)
(***************************************************************************)

\* The processor finds the instructions of a statement: one, or a prefix and
\* what follows it.
Pause == <<PlainIns(Op("rep")), PlainIns(Op("nop"))>>
Found(buf, p, st) ==
  LET bytes == EmitStmt(st).bytes IN
  \/ \E x : Intended(st) = <<x>> /\ Reads(buf, p, bytes, x)
  \/ Intended(st) = Pause /\ bytes = <<243, 144>>

\* Statements of one operand.
LEMMA OperandFound ==
  ASSUME NEW st, st.kind = "STMT_1", IsStatement(st), Encodable(st), ~EmitStmt(st).error,
         NEW buf, NEW p \in Nat, At(buf, p, EmitStmt(st).bytes)
  PROVE  Found(buf, p, st) /\ EmitStmt(st).label = LabelOf(st)
<1> DEFINE op == st.op
           arg == st.arg
<1>1. op \in Ops /\ IsOperand(arg)
  BY DEF IsStatement
<1>10. op.name \notin {"pause", "xacquire", "xrelease", "call_"}
  BY <1>1, OpsAre
<1>2. EmitStmt(st) = EmitStmt1(op, arg)
  BY DEF EmitStmt
<1>3. ~EmitStmt1(op, arg).error /\ At(buf, p, EmitStmt1(op, arg).bytes)
  BY <1>2
<1>4. /\ arg.type = "VAR" => arg.reg.id # RIP /\ op.name # "cbw"
      /\ arg.type = "MEM" => arg.base.bits \in {0, 64} /\ arg.index.bits \in {0, 64}
      /\ arg.type = "CONST" => (op.name = "int" => arg.val \in -128 .. 127) /\ op.name # "xabort"
  BY DEF Encodable
<1>5. ASSUME NEW x, Intended(st) = <<x>>, Reads(buf, p, EmitStmt1(op, arg).bytes, x)
      PROVE  Found(buf, p, st)
  BY <1>2, <1>5 DEF Found
<1>6. CASE arg \in [type : {"VAR"}, reg : Registers]
  <2> DEFINE x == RegIns(op, arg.reg.bits, arg.reg.id)
  <2>1. arg.type = "VAR"
    BY <1>6
  <2>2. EmitStmt1(op, arg).label = NoLabel /\ Reads(buf, p, EmitStmt1(op, arg).bytes, x)
    <3> HIDE DEF op, arg
    <3> QED BY <1>1, <1>3, <1>4, <1>6, <2>1, VarRead
  <2>3. Intended(st) = <<x>> /\ LabelOf(st) = NoLabel
    BY <1>10, <2>1 DEF Intended, LabelOf
  <2> HIDE DEF x
  <2> QED BY <1>2, <1>5, <2>2, <2>3
<1>7. CASE arg \in Mems /\ (arg.scale = 0 <=> ~IsReg(arg.index))
  <2> DEFINE x == MemIs(op, arg)
  <2>1. arg.type = "MEM"
    BY <1>7 DEF Mems
  <2>2. EmitStmt1(op, arg).label = arg.label /\ Reads(buf, p, EmitStmt1(op, arg).bytes, x)
    <3> HIDE DEF op, arg
    <3> QED BY <1>1, <1>3, <1>4, <1>7, <2>1, MemRead
  <2>3. Intended(st) = <<x>> /\ LabelOf(st) = arg.label
    BY <1>10, <2>1 DEF Intended, LabelOf, MemIs
  <2> HIDE DEF x
  <2> QED BY <1>2, <1>5, <2>2, <2>3
<1>8. CASE arg \in [type : {"CONST"}, bits : Nat, val : Int32]
  <2> DEFINE x == ImmIns(op, arg.val)
  <2>1. arg.type = "CONST"
    BY <1>8
  <2>2. EmitStmt1(op, arg).label = NoLabel /\ Reads(buf, p, EmitStmt1(op, arg).bytes, x)
    <3> HIDE DEF op, arg
    <3> QED BY <1>1, <1>3, <1>4, <1>8, <2>1, ConstRead
  <2>3. Intended(st) = <<x>> /\ LabelOf(st) = NoLabel
    BY <1>10, <2>1 DEF Intended, LabelOf
  <2> HIDE DEF x
  <2> QED BY <1>2, <1>5, <2>2, <2>3
<1>9. CASE arg \in [type : {"LABEL"}, label : Nat]
  <2> DEFINE x == ImmIns(op, 0)
  <2>1. arg.type = "LABEL"
    BY <1>9
  <2>2. EmitStmt1(op, arg).label = arg.label /\ Reads(buf, p, EmitStmt1(op, arg).bytes, x)
    <3> HIDE DEF op, arg
    <3> QED BY <1>1, <1>3, <1>9, LabelRead
  <2>3. Intended(st) = <<x>> /\ LabelOf(st) = arg.label
    BY <1>10, <2>1 DEF Intended, LabelOf
  <2> HIDE DEF x
  <2> QED BY <1>2, <1>5, <2>2, <2>3
<1> QED BY <1>1, <1>6, <1>7, <1>8, <1>9 DEF IsOperand

\* Statements without operands.
LEMMA PlainFound ==
  ASSUME NEW st, st.kind = "STMT_0", IsStatement(st),
         NEW buf, NEW p \in Nat, At(buf, p, EmitStmt(st).bytes)
  PROVE  Found(buf, p, st) /\ EmitStmt(st).label = LabelOf(st)
<1> DEFINE name == st.op.name
           bytes == EmitStmt(st).bytes
<1>1. st.op = Op(name) /\ name \in DOMAIN Bytes0
  BY DEF IsStatement, Op
<1>2. bytes = Bytes0[name] /\ EmitStmt(st).label = LabelOf(st)
  BY DEF EmitStmt, Emitted, LabelOf
<1>3. CASE name = "pause"
  <2>1. Intended(st) = Pause /\ bytes = <<243, 144>>
    BY <1>2, <1>3 DEF Intended, Bytes0, Pause
  <2>2. Found(buf, p, st)
    BY <2>1 DEF Found
  <2> QED BY <1>2, <2>2
<1>4. CASE name # "pause"
  <2> DEFINE x == PlainIns(Op(Called(name)))
  <2>1. Reads(buf, p, bytes, x)
    <3>1. CASE \E a \in DOMAIN PlainNames : Bytes0[name] = <<a>> /\ PlainNames[a] = Called(name)
      BY <1>2, <3>1, PlainOne
    <3>2. CASE \E b \in DOMAIN PlainNames2 : Bytes0[name] = <<15, b>> /\ PlainNames2[b] = Called(name)
      BY <1>2, <3>2, PlainTwo
    <3>3. CASE \E b \in {1, 174}, c \in DOMAIN PlainNames3 :
                 Bytes0[name] = <<15, b, c>> /\ PlainNames3[c] = Called(name)
      BY <1>2, <3>3, PlainThree
    <3> QED BY <1>1, <1>4, <3>1, <3>2, <3>3, Bytes0Are
  <2>2. name # "call_"
    BY <1>1 DEF Bytes0
  <2>3. Intended(st) = <<x>>
    BY <1>1, <1>4, <2>2 DEF Intended, Called
  <2> HIDE DEF x
  <2> QED BY <1>2, <2>1, <2>3 DEF Found
<1> QED BY <1>3, <1>4

\* Statements of any number of operands.
LEMMA ListFound ==
  ASSUME NEW st, st.kind = "STMT_N", IsStatement(st),
         NEW buf, NEW p \in Nat, At(buf, p, EmitStmt(st).bytes)
  PROVE  Found(buf, p, st) /\ EmitStmt(st).label = LabelOf(st)
<1>1. st.op = Op(st.op.name) /\ st.op.name \in {"call_", "ret"}
  BY DEF IsStatement, Op, BytesN
<1>2. EmitStmt(st).bytes = BytesN[st.op.name] /\ EmitStmt(st).label = LabelOf(st)
  BY DEF EmitStmt, Emitted, LabelOf
<1>3. CASE st.op.name = "call_"
  <2> DEFINE x == PlainIns(Op("ud2"))
  <2>1. EmitStmt(st).bytes = <<15, 11>> /\ Intended(st) = <<x>>
    BY <1>2, <1>3 DEF BytesN, Intended
  <2>2. 11 \in DOMAIN PlainNames2 /\ PlainNames2[11] = "ud2"
    BY DEF PlainNames2
  <2>3. Reads(buf, p, <<15, 11>>, x)
    BY <2>1, <2>2, PlainTwo
  <2> HIDE DEF x
  <2> QED BY <1>2, <2>1, <2>3 DEF Found
<1>4. CASE st.op.name = "ret"
  <2> DEFINE x == PlainIns(Op("ret"))
  <2>1. EmitStmt(st).bytes = <<195>> /\ Intended(st) = <<x>>
    BY <1>1, <1>2, <1>4 DEF BytesN, Intended
  <2>2. 195 \in DOMAIN PlainNames /\ PlainNames[195] = "ret"
    BY DEF PlainNames
  <2>3. Reads(buf, p, <<195>>, x)
    BY <2>1, <2>2, PlainOne
  <2> HIDE DEF x
  <2> QED BY <1>2, <2>1, <2>3 DEF Found
<1> QED BY <1>1, <1>3, <1>4

\* Every statement that is assembled is found, with its label.
THEOREM StatementFound ==
  ASSUME NEW st, IsStatement(st), Encodable(st), ~EmitStmt(st).error,
         NEW buf, NEW p \in Nat, At(buf, p, EmitStmt(st).bytes)
  PROVE  Found(buf, p, st) /\ EmitStmt(st).label = LabelOf(st)
<1>1. st.kind \in {"STMT_0", "STMT_1", "STMT_N"}
  <2>1. ASSUME st.kind \in {"STMT_2", "STMT_3"} PROVE FALSE
    BY <2>1 DEF EmitStmt, Refused
  <2> QED BY <2>1 DEF IsStatement
<1> QED BY <1>1, OperandFound, PlainFound, ListFound

\* A set of naturals with 0 and the successor of each member has them all.
LEMMA AllNaturals ==
  ASSUME NEW S, 0 \in S, \A i \in Nat : i \in S => i + 1 \in S
  PROVE  Nat \subseteq S
<1> DEFINE R == OpToRel(<, Nat)
           T == Nat \ S
<1>1. \A x, y \in Nat : x < y => <<x, y>> \in R
  BY DEF OpToRel
<1>2. IsWellFoundedOn(R, Nat)
  BY NatLessThanWellFounded
<1> HIDE DEF R
<1>3. SUFFICES ASSUME T # {} PROVE FALSE
  OBVIOUS
<1>4. T \subseteq Nat
  OBVIOUS
<1> HIDE DEF T
<1>5. PICK x \in T : \A y \in T : ~(<<y, x>> \in R)
  BY <1>2, <1>3, <1>4, WFMin, Zenon
<1>6. x \in Nat /\ x \notin S
  BY DEF T
<1>7. x - 1 \in Nat /\ x - 1 < x
  BY <1>6
<1>8. x - 1 \in S
  BY <1>1, <1>5, <1>6, <1>7 DEF T
<1>9. (x - 1) + 1 = x
  BY <1>6
<1> QED BY <1>6, <1>7, <1>8, <1>9

(***************************************************************************)
(* Sequences of sequences.                                                 *)
(***************************************************************************)

\* f is what the recursion of FlattenSeq builds.
Flattens(f, seqs, n) ==
  f = [i \in 1 .. n |-> IF i = 1 THEN seqs[i] ELSE f[i - 1] \o seqs[i]]

\* It has a solution.
LEMMA FlattenExists ==
  ASSUME NEW seqs, NEW n \in Nat
  PROVE  \E f : Flattens(f, seqs, n)
<1> DEFINE done == {k \in Nat : \E f : Flattens(f, seqs, k)}
<1>1. 0 \in done
  <2> DEFINE f == [i \in 1 .. 0 |-> seqs[i]]
  <2>1. f = [i \in 1 .. 0 |-> IF i = 1 THEN seqs[i] ELSE f[i - 1] \o seqs[i]]
    OBVIOUS
  <2> QED BY <2>1 DEF Flattens
<1>2. ASSUME NEW k \in Nat, k \in done PROVE k + 1 \in done
  <2>1. PICK f : Flattens(f, seqs, k)
    BY <1>2
  <2> DEFINE g == [i \in 1 .. (k + 1) |-> IF i = 1 THEN seqs[i] ELSE f[i - 1] \o seqs[i]]
  <2>2. \A i \in 1 .. k : g[i] = f[i]
    <3> DEFINE h == [i \in 1 .. k |-> IF i = 1 THEN seqs[i] ELSE f[i - 1] \o seqs[i]]
    <3>1. f = h
      BY <2>1 DEF Flattens
    <3>2. \A i \in 1 .. k : g[i] = h[i]
      OBVIOUS
    <3> HIDE DEF g, h
    <3> QED BY <3>1, <3>2
  <2>3. ASSUME NEW i \in 1 .. (k + 1), i # 1 PROVE g[i - 1] = f[i - 1]
    <3>1. i - 1 \in 1 .. k
      BY <2>3
    <3> HIDE DEF g
    <3> QED BY <2>2, <3>1
  <2>4. g = [i \in 1 .. (k + 1) |-> g[i]]
    OBVIOUS
  <2>5. \A i \in 1 .. (k + 1) : g[i] = IF i = 1 THEN seqs[i] ELSE f[i - 1] \o seqs[i]
    OBVIOUS
  <2> HIDE DEF g
  <2>6. g = [i \in 1 .. (k + 1) |-> IF i = 1 THEN seqs[i] ELSE g[i - 1] \o seqs[i]]
    <3>1. \A i \in 1 .. (k + 1) : g[i] = IF i = 1 THEN seqs[i] ELSE g[i - 1] \o seqs[i]
      BY <2>3, <2>5
    <3> QED BY <2>4, <3>1
  <2>7. Flattens(g, seqs, k + 1)
    BY <2>6 DEF Flattens
  <2> QED BY <2>7
<1> HIDE DEF done
<1>3. n \in done
  BY <1>1, <1>2, AllNaturals
<1> QED BY <1>3 DEF done

\* The steps of the recursion.
LEMMA FlattenSteps ==
  ASSUME NEW seqs, NEW n \in Nat, n > 0, Len(seqs) = n
  PROVE  \E f : /\ Seqs!FlattenSeq(seqs) = f[n] /\ f[1] = seqs[1]
                /\ \A i \in 1 .. (n - 1) : f[i + 1] = f[i] \o seqs[i + 1]
<1> DEFINE f == CHOOSE f : f = [i \in 1 .. n |-> IF i = 1 THEN seqs[i] ELSE f[i - 1] \o seqs[i]]
           h == [i \in 1 .. n |-> IF i = 1 THEN seqs[i] ELSE f[i - 1] \o seqs[i]]
<1>1. f = h
  <2>1. \E x : x = [i \in 1 .. n |-> IF i = 1 THEN seqs[i] ELSE x[i - 1] \o seqs[i]]
    BY FlattenExists DEF Flattens
  <2> QED BY <2>1
<1>2. Seqs!FlattenSeq(seqs) = f[n]
  BY DEF Seqs!FlattenSeq
<1> HIDE DEF f
<1>3. h[1] = seqs[1]
  OBVIOUS
<1>4. ASSUME NEW i \in 1 .. (n - 1) PROVE h[i + 1] = f[i] \o seqs[i + 1]
  <2>1. i + 1 \in 1 .. n /\ i + 1 # 1 /\ (i + 1) - 1 = i
    OBVIOUS
  <2> QED BY <2>1
<1> HIDE DEF h
<1> QED BY <1>1, <1>2, <1>3, <1>4

\* Flattening one more sequence adds it at the end.
LEMMA FlattenAppend ==
  ASSUME NEW X, NEW seqs \in Seq(Seq(X)), NEW s \in Seq(X)
  PROVE  Seqs!FlattenSeq(Append(seqs, s)) = Seqs!FlattenSeq(seqs) \o s
<1> DEFINE n == Len(seqs)
           more == Append(seqs, s)
<1>1. n \in Nat /\ Len(more) = n + 1 /\ more[n + 1] = s /\ \A i \in 1 .. n : more[i] = seqs[i]
  OBVIOUS
<1> HIDE DEF more
<1>2. PICK g : /\ Seqs!FlattenSeq(more) = g[n + 1] /\ g[1] = more[1]
               /\ \A i \in 1 .. n : g[i + 1] = g[i] \o more[i + 1]
  <2> DEFINE m == n + 1
  <2>1. m \in Nat /\ m > 0 /\ m - 1 = n /\ Len(more) = m
    BY <1>1
  <2> HIDE DEF n, m
  <2>2. \E f : /\ Seqs!FlattenSeq(more) = f[m] /\ f[1] = more[1]
               /\ \A i \in 1 .. (m - 1) : f[i + 1] = f[i] \o more[i + 1]
    BY <2>1, FlattenSteps
  <2> QED BY <2>1, <2>2 DEF m
<1>3. CASE n = 0
  <2>1. seqs = << >>
    BY <1>3
  <2>2. Seqs!FlattenSeq(seqs) = << >>
    BY <1>3, <2>1 DEF Seqs!FlattenSeq
  <2>3. << >> \o s = s
    OBVIOUS
  <2>4. Seqs!FlattenSeq(more) = s
    BY <1>1, <1>2, <1>3
  <2> QED BY <2>2, <2>3, <2>4 DEF more
<1>4. CASE n > 0
  <2>1. PICK f : /\ Seqs!FlattenSeq(seqs) = f[n] /\ f[1] = seqs[1]
                 /\ \A i \in 1 .. (n - 1) : f[i + 1] = f[i] \o seqs[i + 1]
    <3>1. Len(seqs) = n
      OBVIOUS
    <3> HIDE DEF n
    <3> QED BY <1>1, <1>4, <3>1, FlattenSteps
  <2> HIDE DEF n
  <2> DEFINE same == {k \in Nat : k + 1 <= n => g[k + 1] = f[k + 1]}
  <2>2. 0 \in same
    <3>1. 1 \in 1 .. n /\ 0 + 1 = 1
      BY <1>1, <1>4
    <3>2. g[1] = f[1]
      BY <1>1, <1>2, <2>1, <3>1
    <3> QED BY <3>1, <3>2
  <2>3. ASSUME NEW k \in Nat, k \in same PROVE k + 1 \in same
    <3> DEFINE i == k + 1
    <3>1. SUFFICES ASSUME i + 1 <= n PROVE g[i + 1] = f[i + 1]
      OBVIOUS
    <3>2. i \in 1 .. (n - 1) /\ i \in 1 .. n /\ i + 1 \in 1 .. n
      BY <1>1, <3>1
    <3>3. g[i] = f[i]
      BY <2>3, <3>2, <1>1
    <3> HIDE DEF i
    <3> QED BY <1>1, <1>2, <2>1, <3>2, <3>3
  <2>4. g[n] = f[n]
    <3>1. n - 1 \in Nat /\ (n - 1) + 1 = n
      BY <1>1, <1>4
    <3>2. Nat \subseteq same
      <4> HIDE DEF same
      <4> QED BY <2>2, <2>3, AllNaturals
    <3> QED BY <3>1, <3>2
  <2>5. g[n + 1] = g[n] \o more[n + 1]
    <3>1. n \in 1 .. n
      BY <1>1, <1>4
    <3> QED BY <1>2, <3>1
  <2> QED BY <1>1, <1>2, <2>1, <2>4, <2>5 DEF more
<1> QED BY <1>1, <1>3, <1>4

(***************************************************************************)
(* One instruction after the other.                                        *)
(***************************************************************************)

\* Where the instruction after the first i - 1 ones starts.
Start(ends, i) == IF i = 1 THEN 0 ELSE ends[i - 1]

\* The processor finds the wanted instructions from the first byte on, and
\* each ends where ends tells; the last one at byte "to".
Chain(buf, to, wanted, ends) ==
  /\ Len(ends) = Len(wanted)
  /\ \A i \in 1 .. Len(wanted) :
       /\ i <= ends[i] /\ Start(ends, i) < ends[i] /\ ends[i] <= to
       /\ InsAt(buf, Start(ends, i) + 1) = [ins |-> wanted[i].ins, end |-> ends[i]]
  /\ Start(ends, Len(wanted) + 1) = to

\* One more instruction.
LEMMA ChainAppend ==
  ASSUME NEW T, NEW wanted \in Seq(T), NEW x \in T, NEW ends \in Seq(Nat), NEW b \in Nat, NEW c \in Nat, b < c,
         NEW buf, Chain(buf, b, wanted, ends), InsAt(buf, b + 1) = [ins |-> x.ins, end |-> c]
  PROVE  Chain(buf, c, Append(wanted, x), Append(ends, c))
<1> DEFINE n == Len(wanted)
           w == Append(wanted, x)
           e == Append(ends, c)
<1>1. /\ n \in Nat /\ Len(ends) = n /\ Len(w) = n + 1 /\ Len(e) = n + 1 /\ w[n + 1] = x /\ e[n + 1] = c
      /\ \A i \in 1 .. n : w[i] = wanted[i] /\ e[i] = ends[i] /\ ends[i] \in Nat
  BY DEF Chain
<1>2. /\ \A i \in 1 .. n :
           /\ i <= ends[i] /\ Start(ends, i) < ends[i] /\ ends[i] <= b
           /\ InsAt(buf, Start(ends, i) + 1) = [ins |-> wanted[i].ins, end |-> ends[i]]
      /\ Start(ends, n + 1) = b
  BY DEF Chain
<1> HIDE DEF n, w, e
<1>3. \A i \in 1 .. (n + 1) : Start(e, i) = Start(ends, i)
  <2> SUFFICES ASSUME NEW i \in 1 .. (n + 1), i # 1 PROVE e[i - 1] = ends[i - 1]
    BY DEF Start
  <2>1. i - 1 \in 1 .. n
    BY <1>1
  <2> QED BY <1>1, <2>1
<1>4. Start(e, n + 2) = c
  <2>1. n + 2 # 1 /\ (n + 2) - 1 = n + 1
    BY <1>1
  <2> QED BY <1>1, <2>1 DEF Start
<1>5. n <= b
  <2>1. CASE n = 0
    BY <2>1
  <2>2. CASE n > 0
    <3>1. n \in 1 .. n /\ n + 1 # 1 /\ (n + 1) - 1 = n
      BY <1>1, <2>2
    <3>2. ends[n] = b
      BY <1>2, <3>1 DEF Start
    <3> QED BY <1>2, <3>1, <3>2
  <2> QED BY <1>1, <2>1, <2>2
<1>6. ASSUME NEW i \in 1 .. (n + 1)
      PROVE  /\ i <= e[i] /\ Start(e, i) < e[i] /\ e[i] <= c
             /\ InsAt(buf, Start(e, i) + 1) = [ins |-> w[i].ins, end |-> e[i]]
  <2>1. CASE i \in 1 .. n
    <3>1. e[i] = ends[i] /\ w[i] = wanted[i] /\ Start(e, i) = Start(ends, i) /\ ends[i] \in Nat
      BY <1>1, <1>3, <2>1
    <3> QED BY <1>2, <2>1, <3>1
  <2>2. CASE i = n + 1
    <3>1. Start(e, i) = b /\ e[i] = c /\ w[i] = x
      BY <1>1, <1>2, <1>3, <2>2
    <3>2. i <= c
      BY <1>1, <1>5, <2>2
    <3> QED BY <3>1, <3>2
  <2> QED BY <1>1, <2>1, <2>2
<1>7. (n + 1) + 1 = n + 2
  BY <1>1
<1> QED BY <1>1, <1>4, <1>6, <1>7 DEF Chain, w, e

\* The relocation of an instruction that ends at c.
RelocationOf(x, c) == IF x.label = NoLabel THEN << >> ELSE <<[at |-> c, label |-> x.label]>>

\* What relocations are.
RelocationsOf(T) == [at : Nat, label : {t.label : t \in T}]

\* It is a sequence of relocations.
LEMMA RelocationTyped ==
  ASSUME NEW T, NEW x \in T, NEW c \in Nat
  PROVE  RelocationOf(x, c) \in Seq(RelocationsOf(T))
<1> DEFINE r == [at |-> c, label |-> x.label]
           X == RelocationsOf(T)
<1>1. r \in X
  BY DEF RelocationsOf
<1> HIDE DEF r, X
<1>2. <<r>> \in Seq(X) /\ << >> \in Seq(X)
  BY <1>1
<1> QED BY <1>2 DEF RelocationOf, r, X

\* One more instruction with its relocation.
LEMMA RelocationsAppend ==
  ASSUME NEW T, NEW wanted \in Seq(T), NEW x \in T, NEW ends \in Seq(Nat), NEW c \in Nat, Len(ends) = Len(wanted)
  PROVE  Relocations(Append(wanted, x), Append(ends, c)) = Relocations(wanted, ends) \o RelocationOf(x, c)
<1> DEFINE n == Len(wanted)
           w == Append(wanted, x)
           e == Append(ends, c)
           X == RelocationsOf(T)
           old == [i \in DOMAIN wanted |-> RelocationOf(wanted[i], ends[i])]
           new == [i \in DOMAIN w |-> RelocationOf(w[i], e[i])]
<1>1. /\ n \in Nat /\ DOMAIN wanted = 1 .. n /\ DOMAIN w = 1 .. (n + 1) /\ w[n + 1] = x /\ e[n + 1] = c
      /\ \A i \in 1 .. n : w[i] = wanted[i] /\ e[i] = ends[i] /\ ends[i] \in Nat /\ wanted[i] \in T
  OBVIOUS
<1>2. ASSUME NEW t \in T, NEW a \in Nat PROVE RelocationOf(t, a) \in Seq(X)
  BY RelocationTyped
<1> HIDE DEF n, w, e, X
<1>3. old \in Seq(Seq(X)) /\ Len(old) = n
  <2>1. \A i \in 1 .. n : RelocationOf(wanted[i], ends[i]) \in Seq(X)
    BY <1>1, <1>2
  <2>2. old \in [1 .. n -> Seq(X)]
    BY <1>1, <2>1
  <2> HIDE DEF old
  <2> QED BY <1>1, <2>2
<1>4. new = Append(old, RelocationOf(x, c))
  <2> DEFINE s == RelocationOf(x, c)
             more == Append(old, s)
  <2>1. /\ more \in Seq(Seq(X)) /\ Len(more) = n + 1 /\ more[n + 1] = s
        /\ \A i \in 1 .. n : more[i] = old[i]
    <3>1. s \in Seq(X)
      BY <1>2
    <3> HIDE DEF old, s
    <3> QED BY <1>1, <1>3, <3>1, AppendProperties
  <2>2. \A i \in 1 .. n : old[i] = RelocationOf(wanted[i], ends[i])
    BY <1>1
  <2>3. new \in Seq(Seq(X)) /\ Len(new) = n + 1
    <3>1. \A i \in 1 .. (n + 1) : w[i] \in T /\ e[i] \in Nat
      BY <1>1
    <3>2. \A i \in 1 .. (n + 1) : RelocationOf(w[i], e[i]) \in Seq(X)
      BY <1>2, <3>1
    <3>3. new \in [1 .. (n + 1) -> Seq(X)]
      BY <1>1, <3>2
    <3> HIDE DEF new
    <3> QED BY <1>1, <3>3
  <2>4. \A i \in 1 .. (n + 1) : new[i] = RelocationOf(w[i], e[i])
    BY <1>1
  <2> HIDE DEF s, old, new, more
  <2>5. ASSUME NEW i \in 1 .. (n + 1) PROVE new[i] = more[i]
    <3>1. CASE i = n + 1
      BY <1>1, <2>1, <2>4, <3>1 DEF s
    <3>2. CASE i # n + 1
      <4>1. i \in 1 .. n
        BY <1>1, <3>2
      <4> QED BY <1>1, <2>1, <2>2, <2>4, <4>1
    <3> QED BY <3>1, <3>2
  <2>6. new = more
    BY <2>1, <2>3, <2>5, SeqEqual
  <2> QED BY <2>6 DEF more, s
<1>5. RelocationOf(x, c) \in Seq(X)
  BY <1>2
<1>6. Relocations(wanted, ends) = Seqs!FlattenSeq(old) /\ Relocations(w, e) = Seqs!FlattenSeq(new)
  BY DEF Relocations, RelocationOf
<1> HIDE DEF old, new
<1> QED BY <1>3, <1>4, <1>5, <1>6, FlattenAppend DEF w, e

(***************************************************************************)
(* One statement after the other.                                          *)
(***************************************************************************)

\* The instructions of the statements.
Labels(st) == {Labelled(st)[k] : k \in DOMAIN Labelled(st)}
Things == UNION {Labels(st) : st \in Statements \cup Followers}

\* From these bytes, whatever follows them, the wanted instructions are read.
Built(bytes, wanted, ends, rel) ==
  /\ bytes \in Seq(Int) /\ wanted \in Seq(Things) /\ ends \in Seq(Nat) /\ Len(ends) = Len(wanted)
  /\ rel \in Seq(RelocationsOf(Things)) /\ rel = Relocations(wanted, ends)
  /\ \A buf : At(buf, 0, bytes) => Chain(buf, Len(bytes), wanted, ends)

\* One more instruction.
LEMMA BuiltAppend ==
  ASSUME NEW bytes, NEW wanted, NEW ends, NEW rel, Built(bytes, wanted, ends, rel),
         NEW t \in Seq(Int), Len(t) > 0, NEW x \in Things,
         \A buf : At(buf, Len(bytes), t) => InsAt(buf, Len(bytes) + 1) = [ins |-> x.ins, end |-> Len(bytes) + Len(t)]
  PROVE  Built(bytes \o t, Append(wanted, x), Append(ends, Len(bytes \o t)),
               rel \o RelocationOf(x, Len(bytes \o t)))
<1> DEFINE all == bytes \o t
           c == Len(all)
           r == RelocationOf(x, c)
<1>1. /\ bytes \in Seq(Int) /\ wanted \in Seq(Things) /\ ends \in Seq(Nat) /\ Len(ends) = Len(wanted)
      /\ rel \in Seq(RelocationsOf(Things)) /\ rel = Relocations(wanted, ends)
  BY DEF Built
<1>2. all \in Seq(Int) /\ c = Len(bytes) + Len(t) /\ Len(bytes) \in Nat /\ Len(t) \in Nat /\ c \in Nat /\ Len(bytes) < c
  BY <1>1, ConcatProperties
<1>3. r \in Seq(RelocationsOf(Things))
  <2> HIDE DEF c
  <2> QED BY <1>2, RelocationTyped
<1>4. rel \o r \in Seq(RelocationsOf(Things))
  <2> HIDE DEF r
  <2> QED BY <1>1, <1>3, ConcatProperties
<1>5. rel \o r = Relocations(Append(wanted, x), Append(ends, c))
  <2> HIDE DEF c
  <2> QED BY <1>1, <1>2, RelocationsAppend
<1>6. ASSUME NEW buf, At(buf, 0, all) PROVE Chain(buf, c, Append(wanted, x), Append(ends, c))
  <2>1. At(buf, 0, bytes) /\ At(buf, Len(bytes), t)
    <3>1. At(buf, 0, bytes) /\ At(buf, 0 + Len(bytes), t)
      <4> DEFINE zero == 0
      <4>1. zero \in Nat /\ At(buf, zero, bytes \o t)
        BY <1>6
      <4> HIDE DEF zero
      <4>2. At(buf, zero, bytes) /\ At(buf, zero + Len(bytes), t)
        BY <1>1, <4>1, AtConcat
      <4> QED BY <4>2 DEF zero
    <3>2. 0 + Len(bytes) = Len(bytes)
      BY <1>2
    <3> QED BY <3>1, <3>2
  <2>2. Chain(buf, Len(bytes), wanted, ends)
    BY <2>1 DEF Built
  <2>3. InsAt(buf, Len(bytes) + 1) = [ins |-> x.ins, end |-> c]
    BY <1>2, <2>1
  <2> HIDE DEF c
  <2> QED BY <1>1, <1>2, <2>2, <2>3, ChainAppend
<1>7. Append(wanted, x) \in Seq(Things) /\ Len(Append(wanted, x)) = Len(wanted) + 1
  BY <1>1, AppendProperties
<1>8. Append(ends, c) \in Seq(Nat) /\ Len(Append(ends, c)) = Len(ends) + 1
  <2> HIDE DEF c
  <2> QED BY <1>1, <1>2, AppendProperties
<1>9. Len(Append(ends, c)) = Len(Append(wanted, x))
  BY <1>1, <1>7, <1>8
<1> HIDE DEF all, c, r
<1>10. Built(all, Append(wanted, x), Append(ends, c), rel \o r)
  BY <1>2, <1>4, <1>5, <1>6, <1>7, <1>8, <1>9 DEF Built, c
<1> QED BY <1>10 DEF all, c, r

\* Bytes are at their own place.
LEMMA AtItself ==
  ASSUME NEW bytes
  PROVE  At(bytes, 0, bytes)
<1>1. \A i \in 1 .. Len(bytes) : 0 + i = i
  OBVIOUS
<1> QED BY <1>1 DEF At

\* A pause is read as two instructions.
LEMMA PauseRead ==
  ASSUME NEW buf, NEW p \in Nat
  PROVE  /\ At(buf, p, <<243>>) => Reads(buf, p, <<243>>, Pause[1])
         /\ At(buf, p, <<144>>) => Reads(buf, p, <<144>>, Pause[2])
<1>1. 243 \in DOMAIN PlainNames /\ PlainNames[243] = "rep" /\ 144 \in DOMAIN PlainNames /\ PlainNames[144] = "nop"
  BY DEF PlainNames
<1>2. Pause[1] = PlainIns(Op("rep")) /\ Pause[2] = PlainIns(Op("nop"))
  BY DEF Pause
<1>3. ASSUME At(buf, p, << 243 >>) PROVE Reads(buf, p, << 243 >>, PlainIns(Op("rep")))
  BY <1>1, <1>3, PlainOne
<1>4. ASSUME At(buf, p, << 144 >>) PROVE Reads(buf, p, << 144 >>, PlainIns(Op("nop")))
  BY <1>1, <1>4, PlainOne
<1> QED BY <1>2, <1>3, <1>4

\* The instruction x is read from the bytes, whatever is around them.
ReadsAnywhere(bytes, x) == \A buf : \A p \in Nat : At(buf, p, bytes) => Reads(buf, p, bytes, x)

\* The instructions of a statement, for any bytes around it.
LEMMA StatementShape ==
  ASSUME NEW st \in Statements \cup Followers, Encodable(st), ~EmitStmt(st).error
  PROVE  /\ EmitStmt(st).label = LabelOf(st)
         /\ \/ \E x : Intended(st) = <<x>> /\ ReadsAnywhere(EmitStmt(st).bytes, x)
            \/ Intended(st) = Pause /\ EmitStmt(st).bytes = <<243, 144>>
<1> DEFINE bytes == EmitStmt(st).bytes
<1>1. IsStatement(st)
  BY StatementsAssumption
<1>2. ASSUME NEW buf, NEW p \in Nat, At(buf, p, bytes) PROVE Found(buf, p, st) /\ EmitStmt(st).label = LabelOf(st)
  BY <1>1, <1>2, StatementFound
<1>3. Found(bytes, 0, st) /\ EmitStmt(st).label = LabelOf(st)
  <2>1. At(bytes, 0, bytes) /\ 0 \in Nat
    BY AtItself
  <2> HIDE DEF bytes
  <2> QED BY <1>2, <2>1
<1>4. ASSUME NEW x, Intended(st) = <<x>>, NEW buf, NEW p \in Nat, At(buf, p, bytes) PROVE Reads(buf, p, bytes, x)
  <2>1. Found(buf, p, st)
    BY <1>2, <1>4
  <2>2. Intended(st) # Pause
    <3>1. Len(Pause) = 2 /\ Len(<<x>>) = 1
      BY DEF Pause
    <3> QED BY <1>4, <3>1
  <2>3. PICK z : Intended(st) = <<z>> /\ Reads(buf, p, bytes, z)
    BY <2>1, <2>2 DEF Found
  <2>4. z = x
    <3>1. <<z>>[1] = z /\ <<x>>[1] = x
      OBVIOUS
    <3> QED BY <1>4, <2>3, <3>1
  <2> QED BY <2>3, <2>4
<1>5. CASE \E x : Intended(st) = <<x>>
  <2>1. PICK x : Intended(st) = <<x>>
    BY <1>5
  <2>2. ReadsAnywhere(bytes, x)
    BY <1>4, <2>1 DEF ReadsAnywhere
  <2> QED BY <1>3, <2>1, <2>2
<1> QED BY <1>3, <1>5 DEF Found

\* A pause has no label.
LEMMA PauseLabel ==
  ASSUME NEW st, IsStatement(st), Intended(st) = Pause
  PROVE  LabelOf(st) = NoLabel
<1> DEFINE arg == st.arg
           x == CASE arg.type = "VAR" -> RegIns(st.op, arg.reg.bits, arg.reg.id)
                  [] arg.type = "MEM" ->
                       MemIns(st.op, arg.bits, IdOf(arg.base), IdOf(arg.index),
                              IF arg.scale = 0 THEN 1 ELSE arg.scale, arg.offset)
                  [] arg.type = "CONST" -> ImmIns(st.op, arg.val)
                  [] OTHER -> ImmIns(st.op, 0)
<1>1. ASSUME st.kind = "STMT_1" PROVE FALSE
  <2>1. st.op \in Ops /\ IsOperand(arg)
    BY <1>1 DEF IsStatement
  <2>2. st.op.name \notin {"pause", "xacquire", "xrelease", "call_"}
    BY <2>1, OpsAre
  <2>3. arg.type \in {"VAR", "MEM", "CONST", "LABEL"}
    BY <2>1 DEF IsOperand, Mems
  <2>4. Intended(st) = <<x>>
    <3>1. CASE arg.type = "VAR"
      BY <1>1, <2>2, <3>1 DEF Intended
    <3>2. CASE arg.type = "MEM"
      BY <1>1, <2>2, <3>2 DEF Intended
    <3>3. CASE arg.type = "CONST"
      BY <1>1, <2>2, <3>3 DEF Intended
    <3>4. CASE arg.type = "LABEL"
      BY <1>1, <2>2, <3>4 DEF Intended
    <3> QED BY <2>3, <3>1, <3>2, <3>3, <3>4
  <2> HIDE DEF x
  <2>5. Len(Pause) = 2 /\ Len(<<x>>) = 1
    BY DEF Pause
  <2> QED BY <2>4, <2>5
<1> QED BY <1>1 DEF LabelOf

\* Appending to a sequence what a label adds.
RelocationsWith(rel, label, c) == IF label = NoLabel THEN rel ELSE Append(rel, [at |-> c, label |-> label])

\* See RelocationsWith.
LEMMA RelocationsWithOne ==
  ASSUME NEW X, NEW rel \in Seq(X), NEW x, NEW c
  PROVE  rel \o RelocationOf(x, c) = RelocationsWith(rel, x.label, c)
<1>1. CASE x.label = NoLabel
  <2>1. rel \o << >> = rel
    OBVIOUS
  <2> QED BY <1>1, <2>1 DEF RelocationOf, RelocationsWith
<1>2. CASE x.label # NoLabel
  <2> DEFINE r == [at |-> c, label |-> x.label]
  <2> HIDE DEF r
  <2>1. rel \o <<r>> = Append(rel, r)
    OBVIOUS
  <2> QED BY <1>2, <2>1 DEF RelocationOf, RelocationsWith, r
<1> QED BY <1>1, <1>2

\* One more statement.
LEMMA StatementAdds ==
  ASSUME NEW st \in Statements \cup Followers, Encodable(st), ~EmitStmt(st).error,
         NEW bytes, NEW wanted, NEW ends, NEW rel, Built(bytes, wanted, ends, rel)
  PROVE  \E e : Built(bytes \o EmitStmt(st).bytes, wanted \o Labelled(st), e,
                      RelocationsWith(rel, EmitStmt(st).label, Len(bytes \o EmitStmt(st).bytes)))
<1> DEFINE out == EmitStmt(st).bytes
           p == Len(bytes)
           label == LabelOf(st)
<1>1. EmitStmt(st).label = label
  BY StatementShape
<1>2. /\ bytes \in Seq(Int) /\ p \in Nat /\ wanted \in Seq(Things)
      /\ rel \in Seq(RelocationsOf(Things)) /\ At(bytes \o out, 0, bytes \o out)
  BY AtItself DEF Built
<1>3. CASE \E x : Intended(st) = <<x>> /\ ReadsAnywhere(out, x)
  <2>1. PICK x : Intended(st) = <<x>> /\ ReadsAnywhere(out, x)
    BY <1>3
  <2> DEFINE a == [ins |-> x, label |-> label]
             c == Len(bytes \o out)
  <2>2. Labelled(st) = <<a>>
    <3>1. DOMAIN <<x>> = 1 .. 1 /\ <<x>>[1] = x
      OBVIOUS
    <3>2. Labelled(st) = [k \in 1 .. 1 |-> [ins |-> <<x>>[k], label |-> label]]
      BY <2>1, <3>1 DEF Labelled
    <3> HIDE DEF label
    <3>3. [k \in 1 .. 1 |-> [ins |-> <<x>>[k], label |-> label]] = <<a>>
      OBVIOUS
    <3> QED BY <3>2, <3>3
  <2>3. a \in Things
    <3>1. a \in Labels(st)
      <4> HIDE DEF a
      <4>1. 1 \in DOMAIN <<a>> /\ <<a>>[1] = a
        OBVIOUS
      <4> QED BY <2>2, <4>1 DEF Labels
    <3> QED BY <3>1 DEF Things
  <2> HIDE DEF out
  <2>4. out \in Seq(Int) /\ Len(out) > 0
    <3>1. At(out, 0, out) /\ 0 \in Nat
      BY AtItself
    <3> QED BY <2>1, <3>1 DEF Reads, ReadsAnywhere
  <2>5. ASSUME NEW buf, At(buf, p, out) PROVE InsAt(buf, p + 1) = [ins |-> a.ins, end |-> p + Len(out)]
    <3>1. Reads(buf, p, out, x)
      BY <1>2, <2>1, <2>5 DEF ReadsAnywhere
    <3> QED BY <3>1 DEF Reads
  <2>6. Built(bytes \o out, Append(wanted, a), Append(ends, c), rel \o RelocationOf(a, c))
    <3> HIDE DEF a
    <3> QED BY <2>3, <2>4, <2>5, BuiltAppend
  <2>7. Append(wanted, a) = wanted \o Labelled(st)
    <3> HIDE DEF a
    <3>1. Append(wanted, a) = wanted \o <<a>>
      BY <1>2
    <3> QED BY <2>2, <3>1
  <2>8. rel \o RelocationOf(a, c) = RelocationsWith(rel, label, c)
    <3>1. a.label = label
      OBVIOUS
    <3> HIDE DEF a, c, label
    <3> QED BY <1>2, <3>1, RelocationsWithOne
  <2> HIDE DEF a, c, label
  <2> QED BY <1>1, <2>6, <2>7, <2>8 DEF out, c
<1>4. CASE Intended(st) = Pause /\ out = <<243, 144>>
  <2>1. label = NoLabel
    BY <1>4, StatementsAssumption, PauseLabel
  <2> DEFINE a == [ins |-> Pause[1], label |-> label]
             b == [ins |-> Pause[2], label |-> label]
             s == <<243>>
             t == <<144>>
  <2>2. Labelled(st) = <<a, b>>
    <3>1. DOMAIN Pause = 1 .. 2
      BY DEF Pause
    <3>2. Labelled(st) = [k \in 1 .. 2 |-> [ins |-> Pause[k], label |-> label]]
      BY <1>4, <3>1 DEF Labelled
    <3> HIDE DEF label
    <3>3. [k \in 1 .. 2 |-> [ins |-> Pause[k], label |-> label]] = <<a, b>>
      OBVIOUS
    <3> QED BY <3>2, <3>3
  <2>3. a \in Things /\ b \in Things
    <3>1. a \in Labels(st) /\ b \in Labels(st)
      <4> HIDE DEF a, b
      <4>1. 1 \in DOMAIN <<a, b>> /\ <<a, b>>[1] = a /\ 2 \in DOMAIN <<a, b>> /\ <<a, b>>[2] = b
        OBVIOUS
      <4> QED BY <2>2, <4>1 DEF Labels
    <3> QED BY <3>1 DEF Things
  <2>4. s \in Seq(Int) /\ Len(s) = 1 /\ t \in Seq(Int) /\ Len(t) = 1
    OBVIOUS
  <2>5. s \o t = out
    <3> HIDE DEF out
    <3>1. s \o t = <<243, 144>>
      BY OneAndOne
    <3> QED BY <1>4, <3>1
  <2> DEFINE u == bytes \o s
             c == Len(u)
             d == Len(u \o t)
  <2>6. u \in Seq(Int) /\ c = p + 1 /\ c \in Nat
    <3> HIDE DEF s
    <3>1. u \in Seq(Int) /\ Len(u) = Len(bytes) + Len(s)
      BY <1>2, <2>4, ConcatProperties, ZenonT(30)
    <3> QED BY <1>2, <2>4, <3>1
  <2>7. u \o t = bytes \o out
    <3> HIDE DEF s, t, out
    <3>1. bytes \in Seq(Int) /\ s \in Seq(Int) /\ t \in Seq(Int)
      BY <1>2, <2>4
    <3>2. ASSUME NEW left \in Seq(Int) PROVE (left \o s) \o t = left \o (s \o t)
      BY <3>1, ConcatAssociative, SMTT(30)
    <3> QED BY <2>5, <3>1, <3>2
  <2>8. ASSUME NEW buf, At(buf, p, s) PROVE InsAt(buf, p + 1) = [ins |-> a.ins, end |-> p + Len(s)]
    <3>1. Reads(buf, p, s, Pause[1])
      BY <1>2, <2>8, PauseRead
    <3> HIDE DEF s
    <3> QED BY <3>1 DEF Reads
  <2>9. ASSUME NEW buf, At(buf, c, t) PROVE InsAt(buf, c + 1) = [ins |-> b.ins, end |-> c + Len(t)]
    <3> HIDE DEF c
    <3>1. Reads(buf, c, t, Pause[2])
      BY <2>6, <2>9, PauseRead
    <3> HIDE DEF t
    <3> QED BY <3>1 DEF Reads
  <2> DEFINE w == Append(wanted, a)
             e == Append(ends, c)
             r == rel \o RelocationOf(a, c)
  <2>10. Built(u, w, e, r)
    <3> HIDE DEF s, a, b, out, label
    <3>1. s \in Seq(Int) /\ Len(s) > 0
      BY <2>4
    <3> QED BY <2>3, <2>8, <3>1, BuiltAppend
  <2>11. Built(u \o t, Append(w, b), Append(e, d), r \o RelocationOf(b, d))
    <3> HIDE DEF u, t, a, b, w, e, r, out, label
    <3>1. t \in Seq(Int) /\ Len(t) > 0
      BY <2>4
    <3> QED BY <2>3, <2>9, <2>10, <3>1, BuiltAppend
  <2>12. Append(w, b) = wanted \o Labelled(st)
    <3> HIDE DEF a, b
    <3>1. Append(Append(wanted, a), b) = wanted \o <<a, b>>
      BY <1>2
    <3> QED BY <2>2, <3>1
  <2>13. r \o RelocationOf(b, d) = RelocationsWith(rel, label, d)
    <3>1. RelocationOf(a, c) = << >> /\ RelocationOf(b, d) = << >>
      BY <2>1 DEF RelocationOf
    <3>2. rel \o << >> = rel
      BY <1>2, ConcatEmptySeq
    <3>3. r \o RelocationOf(b, d) = rel
      BY <3>1, <3>2
    <3> HIDE DEF label
    <3> QED BY <2>1, <3>3 DEF RelocationsWith
  <2>14. d = Len(bytes \o out)
    BY <2>7
  <2> HIDE DEF u, t, w, e, d, r, a, b, label
  <2> QED BY <1>1, <2>7, <2>11, <2>12, <2>13, <2>14
<1> QED BY <1>3, <1>4, StatementShape

(***************************************************************************)
(* The processor.                                                          *)
(***************************************************************************)

\* f is what the recursion of Decoded builds.
Decodes(f, bytes, n) ==
  f = [k \in 0 .. n |-> IF k = 0 THEN [next |-> 1, list |-> << >>] ELSE ReadOne(bytes, f[k - 1])]

\* It has a solution.
LEMMA DecodedExists ==
  ASSUME NEW bytes, NEW n \in Nat
  PROVE  \E f : Decodes(f, bytes, n)
<1> DEFINE first == [next |-> 1, list |-> << >>]
           done == {k \in Nat : \E f : Decodes(f, bytes, k)}
<1> HIDE DEF first
<1>1. 0 \in done
  <2> DEFINE f == [k \in 0 .. 0 |-> first]
  <2>1. f = [k \in 0 .. 0 |-> IF k = 0 THEN first ELSE ReadOne(bytes, f[k - 1])]
    OBVIOUS
  <2>2. Decodes(f, bytes, 0)
    BY <2>1 DEF Decodes, first
  <2> QED BY <2>2
<1>2. ASSUME NEW k \in Nat, k \in done PROVE k + 1 \in done
  <2>1. PICK f : Decodes(f, bytes, k)
    BY <1>2
  <2> DEFINE g == [i \in 0 .. (k + 1) |-> IF i = 0 THEN first ELSE ReadOne(bytes, f[i - 1])]
  <2>2. \A i \in 0 .. k : g[i] = f[i]
    <3> DEFINE h == [i \in 0 .. k |-> IF i = 0 THEN first ELSE ReadOne(bytes, f[i - 1])]
    <3>1. f = h
      BY <2>1 DEF Decodes, first
    <3>2. \A i \in 0 .. k : g[i] = h[i]
      OBVIOUS
    <3> HIDE DEF g, h
    <3> QED BY <3>1, <3>2
  <2>3. ASSUME NEW i \in 0 .. (k + 1), i # 0 PROVE g[i - 1] = f[i - 1]
    <3>1. i - 1 \in 0 .. k
      BY <2>3
    <3> HIDE DEF g
    <3> QED BY <2>2, <3>1
  <2>4. g = [i \in 0 .. (k + 1) |-> g[i]]
    OBVIOUS
  <2>5. \A i \in 0 .. (k + 1) : g[i] = IF i = 0 THEN first ELSE ReadOne(bytes, f[i - 1])
    OBVIOUS
  <2> HIDE DEF g
  <2>6. g = [i \in 0 .. (k + 1) |-> IF i = 0 THEN first ELSE ReadOne(bytes, g[i - 1])]
    <3>1. \A i \in 0 .. (k + 1) : g[i] = IF i = 0 THEN first ELSE ReadOne(bytes, g[i - 1])
      BY <2>3, <2>5
    <3> QED BY <2>4, <3>1
  <2>7. Decodes(g, bytes, k + 1)
    BY <2>6 DEF Decodes, first
  <2> QED BY <2>7
<1> HIDE DEF done
<1>3. n \in done
  BY <1>1, <1>2, AllNaturals
<1> QED BY <1>3 DEF done

\* The steps of the recursion.
LEMMA DecodedSteps ==
  ASSUME NEW bytes, NEW n \in Nat, Len(bytes) = n
  PROVE  \E f : /\ Decoded(bytes) = f[n].list /\ f[0] = [next |-> 1, list |-> << >>]
                /\ \A k \in 0 .. (n - 1) : f[k + 1] = ReadOne(bytes, f[k])
<1> DEFINE f == CHOOSE f : f = [k \in 0 .. n |-> IF k = 0 THEN [next |-> 1, list |-> << >>] ELSE ReadOne(bytes, f[k - 1])]
           first == [next |-> 1, list |-> << >>]
           h == [k \in 0 .. n |-> IF k = 0 THEN first ELSE ReadOne(bytes, f[k - 1])]
<1>1. f = h
  <2>1. \E x : x = [k \in 0 .. n |-> IF k = 0 THEN [next |-> 1, list |-> << >>] ELSE ReadOne(bytes, x[k - 1])]
    BY DecodedExists, ZenonT(30) DEF Decodes
  <2> QED BY <2>1
<1>2. Decoded(bytes) = f[n].list
  BY DEF Decoded
<1> HIDE DEF f, first
<1>3. h[0] = first
  OBVIOUS
<1>4. ASSUME NEW k \in 0 .. (n - 1) PROVE h[k + 1] = ReadOne(bytes, f[k])
  <2>1. k + 1 \in 0 .. n /\ k + 1 # 0 /\ (k + 1) - 1 = k
    OBVIOUS
  <2> QED BY <2>1
<1> HIDE DEF h
<1> QED BY <1>1, <1>2, <1>3, <1>4 DEF first

\* The instructions of a chain, as the processor finds them.
FoundOf(wanted, ends, j) == [i \in 1 .. j |-> [ins |-> wanted[i].ins, end |-> ends[i]]]

\* One more of them.
LEMMA FoundOfNext ==
  ASSUME NEW wanted, NEW ends, NEW j \in Nat
  PROVE  FoundOf(wanted, ends, j + 1) =
         Append(FoundOf(wanted, ends, j), [ins |-> wanted[j + 1].ins, end |-> ends[j + 1]])
<1> DEFINE F(i) == [ins |-> wanted[i].ins, end |-> ends[i]]
           X == {F(i) : i \in 1 .. (j + 1)}
           s == [i \in 1 .. j |-> F(i)]
           t == [i \in 1 .. (j + 1) |-> F(i)]
           x == F(j + 1)
<1>1. \A i \in 1 .. (j + 1) : F(i) \in X
  OBVIOUS
<1>2. s = FoundOf(wanted, ends, j) /\ t = FoundOf(wanted, ends, j + 1)
  BY DEF FoundOf
<1>9. x = [ins |-> wanted[j + 1].ins, end |-> ends[j + 1]]
  OBVIOUS
<1> HIDE DEF F, X
<1>3. s \in Seq(X) /\ Len(s) = j /\ t \in Seq(X) /\ Len(t) = j + 1 /\ x \in X
  <2>1. s \in [1 .. j -> X] /\ t \in [1 .. (j + 1) -> X]
    <3>1. \A i \in 1 .. j : i \in 1 .. (j + 1)
      OBVIOUS
    <3> QED BY <1>1, <3>1
  <2>2. x \in X
    <3>1. j + 1 \in 1 .. (j + 1)
      OBVIOUS
    <3> QED BY <1>1, <3>1
  <2>3. Len(s) = j /\ Len(t) = j + 1
    OBVIOUS
  <2> QED BY <2>1, <2>2, <2>3
<1>4. (\A i \in 1 .. j : s[i] = F(i)) /\ \A i \in 1 .. (j + 1) : t[i] = F(i)
  <2>1. \A i \in 1 .. j : s[i] = F(i)
    OBVIOUS
  <2>2. \A i \in 1 .. (j + 1) : t[i] = F(i)
    OBVIOUS
  <2> QED BY <2>1, <2>2
<1> HIDE DEF s, t
<1>5. /\ Append(s, x) \in Seq(X) /\ Len(Append(s, x)) = j + 1 /\ Append(s, x)[j + 1] = x
      /\ \A i \in 1 .. j : Append(s, x)[i] = s[i]
  <2> HIDE DEF x
  <2> QED BY <1>3, AppendProperties
<1>6. ASSUME NEW i \in 1 .. (j + 1) PROVE t[i] = Append(s, x)[i]
  <2>1. CASE i = j + 1
    BY <1>4, <1>5, <2>1
  <2>2. CASE i # j + 1
    <3>1. i \in 1 .. j
      BY <2>2
    <3> QED BY <1>4, <1>5, <3>1
  <2> QED BY <2>1, <2>2
<1>7. t = Append(s, x)
  <2> HIDE DEF x
  <2> QED BY <1>3, <1>5, <1>6, SeqEqual
<1> HIDE DEF x
<1> QED BY <1>2, <1>7, <1>9

\* The processor that reads bytes with a chain of instructions finds them and
\* nothing else.
LEMMA ChainDecoded ==
  ASSUME NEW T, NEW bytes, Len(bytes) \in Nat, NEW wanted \in Seq(T), NEW ends \in Seq(Nat),
         Chain(Padded(bytes), Len(bytes), wanted, ends)
  PROVE  Decoded(bytes) = FoundOf(wanted, ends, Len(wanted))
<1> DEFINE n == Len(bytes)
           m == Len(wanted)
           buf == Padded(bytes)
           State(j) == [next |-> Start(ends, j + 1) + 1, list |-> FoundOf(wanted, ends, j)]
<1>1. /\ n \in Nat /\ m \in Nat /\ Start(ends, m + 1) = n
      /\ \A i \in 1 .. m : /\ i <= ends[i] /\ Start(ends, i) < ends[i] /\ ends[i] <= n /\ ends[i] \in Nat
                           /\ InsAt(buf, Start(ends, i) + 1) = [ins |-> wanted[i].ins, end |-> ends[i]]
  BY DEF Chain
<1>2. PICK f : /\ Decoded(bytes) = f[n].list /\ f[0] = [next |-> 1, list |-> << >>]
               /\ \A k \in 0 .. (n - 1) : f[k + 1] = ReadOne(bytes, f[k])
  <2>1. Len(bytes) = n
    OBVIOUS
  <2> HIDE DEF n
  <2> QED BY <1>1, <2>1, DecodedSteps
<1> HIDE DEF n, m, buf
<1>3. \A k \in 0 .. m : Start(ends, k + 1) \in Nat
  <2> SUFFICES ASSUME NEW k \in 0 .. m, k # 0 PROVE ends[k] \in Nat
    <3>1. \A k \in 0 .. m : (k + 1) - 1 = k /\ (k + 1 = 1 <=> k = 0)
      BY <1>1
    <3> QED BY <3>1 DEF Start
  <2>1. k \in 1 .. m
    BY <1>1
  <2> QED BY <1>1, <2>1
<1>4. m <= n
  <2>1. CASE m = 0
    BY <1>1, <2>1
  <2>2. CASE m # 0
    <3>1. m \in 1 .. m
      BY <1>1, <2>2
    <3>2. m <= ends[m] /\ ends[m] <= n /\ ends[m] \in Nat
      BY <1>1, <3>1
    <3> QED BY <1>1, <3>2
  <2> QED BY <2>1, <2>2
<1>5. f[0] = State(0)
  <2>1. FoundOf(wanted, ends, 0) = << >>
    BY DEF FoundOf
  <2>2. Start(ends, 0 + 1) + 1 = 1
    BY DEF Start
  <2> QED BY <1>2, <2>1, <2>2
<1>6. ASSUME NEW k \in Nat, k < m PROVE ReadOne(bytes, State(k)) = State(k + 1)
  <2> DEFINE j == k + 1
             from == Start(ends, j)
             x == [ins |-> wanted[j].ins, end |-> ends[j]]
  <2>1. j \in 1 .. m /\ from \in Nat
    BY <1>1, <1>3, <1>6
  <2>2. from < ends[j] /\ ends[j] <= n /\ ends[j] \in Nat /\ InsAt(buf, from + 1) = x
    BY <1>1, <2>1
  <2>3. Start(ends, j + 1) = ends[j]
    <3>1. j + 1 # 1 /\ (j + 1) - 1 = j
      BY <2>1
    <3> QED BY <3>1 DEF Start
  <2>4. State(k).next = from + 1 /\ State(k).list = FoundOf(wanted, ends, k)
    OBVIOUS
  <2>5. State(k + 1) = [next |-> ends[j] + 1, list |-> Append(FoundOf(wanted, ends, k), x)]
    BY <1>1, <2>3, FoundOfNext
  <2>6. x.end = ends[j]
    OBVIOUS
  <2> DEFINE s == State(k)
  <2> HIDE DEF x, j, from, s, State
  <2>7. ~(from + 1 > n)
    BY <1>1, <2>1, <2>2
  <2>8. ReadOne(bytes, s) = [next |-> x.end + 1, list |-> Append(s.list, x)]
    BY <2>2, <2>4, <2>7 DEF ReadOne, n, buf, s
  <2> QED BY <2>4, <2>5, <2>6, <2>8 DEF s
<1>7. ReadOne(bytes, State(m)) = State(m)
  <2>1. State(m).next = n + 1
    BY <1>1
  <2>2. n + 1 > n
    BY <1>1
  <2> HIDE DEF State
  <2> QED BY <2>1, <2>2 DEF ReadOne, n
<1> DEFINE done == {k \in Nat : k <= n => f[k] = State(IF k <= m THEN k ELSE m)}
<1> HIDE DEF State
<1>8. 0 \in done
  <2>1. 0 <= m
    BY <1>1
  <2> QED BY <1>5, <2>1
<1>9. ASSUME NEW k \in Nat, k \in done PROVE k + 1 \in done
  <2>1. SUFFICES ASSUME k + 1 <= n PROVE f[k + 1] = State(IF k + 1 <= m THEN k + 1 ELSE m)
    OBVIOUS
  <2>2. k \in 0 .. (n - 1) /\ k <= n
    BY <1>1, <2>1
  <2>3. f[k + 1] = ReadOne(bytes, f[k])
    BY <1>2, <2>2
  <2>4. CASE k < m
    <3>1. f[k] = State(k)
      BY <1>1, <1>9, <2>2, <2>4
    <3>2. k + 1 <= m
      BY <1>1, <2>4
    <3> QED BY <1>6, <2>3, <2>4, <3>1, <3>2
  <2>5. CASE k >= m
    <3>1. f[k] = State(m)
      <4>1. CASE k = m
        BY <1>1, <1>9, <2>2, <4>1
      <4>2. CASE k # m
        <5>1. ~(k <= m)
          BY <1>1, <2>5, <4>2
        <5> QED BY <1>9, <2>2, <5>1
      <4> QED BY <4>1, <4>2
    <3>2. ~(k + 1 <= m)
      BY <1>1, <2>5
    <3> QED BY <1>7, <2>3, <3>1, <3>2
  <2> QED BY <1>1, <2>4, <2>5
<1>10. f[n] = State(m)
  <2>1. Nat \subseteq done
    <3> HIDE DEF done
    <3> QED BY <1>8, <1>9, AllNaturals
  <2>2. n \in done /\ n <= n
    BY <1>1, <2>1
  <2>3. (IF n <= m THEN n ELSE m) = m
    BY <1>1, <1>4
  <2> QED BY <2>2, <2>3
<1> QED BY <1>2, <1>10 DEF State, m

\* What is built is read back.
THEOREM BuiltDecoded ==
  ASSUME NEW bytes, NEW wanted, NEW ends, NEW rel, Built(bytes, wanted, ends, rel)
  PROVE  /\ Len(Decoded(bytes)) = Len(wanted)
         /\ \A i \in DOMAIN Decoded(bytes) : Decoded(bytes)[i].ins = wanted[i].ins
         /\ rel = Relocations(wanted, [i \in DOMAIN Decoded(bytes) |-> Decoded(bytes)[i].end])
<1> DEFINE m == Len(wanted)
           found == FoundOf(wanted, ends, m)
<1>1. /\ bytes \in Seq(Int) /\ wanted \in Seq(Things) /\ ends \in Seq(Nat) /\ Len(ends) = m /\ m \in Nat
      /\ rel = Relocations(wanted, ends) /\ Len(bytes) \in Nat
  BY DEF Built
<1>2. At(Padded(bytes), 0, bytes)
  <2>1. ASSUME NEW i \in 1 .. Len(bytes) PROVE Padded(bytes)[0 + i] = bytes[i]
    <3>1. i \in 1 .. (Len(bytes) + 16) /\ 0 + i = i /\ i <= Len(bytes)
      BY <1>1
    <3> QED BY <3>1 DEF Padded
  <2> QED BY <2>1 DEF At
<1>3. Chain(Padded(bytes), Len(bytes), wanted, ends)
  BY <1>2 DEF Built
<1>4. Decoded(bytes) = found
  BY <1>1, <1>3, ChainDecoded
<1>5. DOMAIN found = 1 .. m /\ Len(found) = m
  <2> HIDE DEF m
  <2> QED BY <1>1 DEF FoundOf
<1>6. \A i \in 1 .. m : found[i].ins = wanted[i].ins /\ found[i].end = ends[i]
  BY DEF FoundOf
<1>7. [i \in 1 .. m |-> found[i].end] = ends
  <2>1. DOMAIN ends = 1 .. m /\ ends = [i \in 1 .. m |-> ends[i]]
    BY <1>1
  <2> HIDE DEF found, m
  <2> QED BY <1>6, <2>1
<1> HIDE DEF found, m
<1> QED BY <1>1, <1>4, <1>5, <1>6, <1>7 DEF m

(***************************************************************************)
(* The assembler.                                                          *)
(***************************************************************************)

\* The instructions of a statement with their labels.
LEMMA LabelledTyped ==
  ASSUME NEW st \in Statements \cup Followers, Encodable(st), ~EmitStmt(st).error
  PROVE  Labelled(st) \in Seq(Things)
<1>1. \E n \in Nat : DOMAIN Intended(st) = 1 .. n
  <2>1. CASE \E x : Intended(st) = <<x>>
    <3>1. PICK x : Intended(st) = <<x>>
      BY <2>1
    <3>2. DOMAIN <<x>> = 1 .. 1
      OBVIOUS
    <3> QED BY <3>1, <3>2
  <2>2. CASE Intended(st) = Pause
    <3>1. DOMAIN Pause = 1 .. 2
      BY DEF Pause
    <3> QED BY <2>2, <3>1
  <2> QED BY <2>1, <2>2, StatementShape
<1>2. PICK n \in Nat : DOMAIN Intended(st) = 1 .. n
  BY <1>1
<1> DEFINE s == Labelled(st)
<1>3. DOMAIN s = 1 .. n /\ s = [k \in 1 .. n |-> s[k]]
  BY <1>2 DEF Labelled
<1> HIDE DEF s
<1>4. \A k \in 1 .. n : s[k] \in Things
  <2> SUFFICES ASSUME NEW k \in 1 .. n PROVE s[k] \in Labels(st)
    BY DEF Things
  <2> QED BY <1>3 DEF Labels, s
<1>5. s \in [1 .. n -> Things]
  BY <1>3, <1>4
<1> QED BY <1>5 DEF s

\* The statements so far are encoded, and were not refused.
AllEncodable == \A i \in DOMAIN given : Encodable(given[i])
Encoded ==
  /\ given \in Seq(Statements \cup Followers)
  /\ \A i \in DOMAIN given : ~EmitStmt(given[i]).error

\* The instructions of one more statement come after all others.
LEMMA AllIntendedAppend ==
  ASSUME Encoded, AllEncodable, NEW st \in Statements \cup Followers, Encodable(st), ~EmitStmt(st).error,
         given' = Append(given, st)
  PROVE  AllIntended' = AllIntended \o Labelled(st)
<1> DEFINE n == Len(given)
           old == [i \in DOMAIN given |-> Labelled(given[i])]
           new == [i \in DOMAIN given' |-> Labelled(given'[i])]
           s == Labelled(st)
           more == Append(old, s)
<1>1. /\ n \in Nat /\ DOMAIN given = 1 .. n /\ DOMAIN given' = 1 .. (n + 1) /\ given'[n + 1] = st
      /\ \A i \in 1 .. n : given'[i] = given[i] /\ given[i] \in Statements \cup Followers
  BY DEF Encoded
<1>2. s \in Seq(Things)
  BY LabelledTyped
<1>3. \A i \in 1 .. n : Labelled(given[i]) \in Seq(Things)
  <2> SUFFICES ASSUME NEW i \in 1 .. n PROVE Labelled(given[i]) \in Seq(Things)
    OBVIOUS
  <2>1. given[i] \in Statements \cup Followers /\ Encodable(given[i]) /\ ~EmitStmt(given[i]).error
    BY <1>1 DEF Encoded, AllEncodable
  <2> QED BY <2>1, LabelledTyped
<1> HIDE DEF n, s
<1>4. old \in Seq(Seq(Things)) /\ Len(old) = n /\ \A i \in 1 .. n : old[i] = Labelled(given[i])
  <2>1. old \in [1 .. n -> Seq(Things)]
    BY <1>1, <1>3
  <2>2. \A i \in 1 .. n : old[i] = Labelled(given[i])
    BY <1>1
  <2> HIDE DEF old
  <2> QED BY <1>1, <2>1, <2>2
<1>5. new \in Seq(Seq(Things)) /\ Len(new) = n + 1 /\ \A i \in 1 .. (n + 1) : new[i] = Labelled(given'[i])
  <2>1. \A i \in 1 .. (n + 1) : Labelled(given'[i]) \in Seq(Things)
    <3> SUFFICES ASSUME NEW i \in 1 .. (n + 1) PROVE Labelled(given'[i]) \in Seq(Things)
      OBVIOUS
    <3>1. CASE i = n + 1
      BY <1>1, <1>2, <3>1 DEF s
    <3>2. CASE i # n + 1
      <4>1. i \in 1 .. n
        BY <1>1, <3>2
      <4> QED BY <1>1, <1>3, <4>1
    <3> QED BY <3>1, <3>2
  <2>2. new \in [1 .. (n + 1) -> Seq(Things)]
    BY <1>1, <2>1
  <2>3. \A i \in 1 .. (n + 1) : new[i] = Labelled(given'[i])
    BY <1>1
  <2> HIDE DEF new
  <2> QED BY <1>1, <2>2, <2>3
<1>6. AllIntended = Seqs!FlattenSeq(old) /\ AllIntended' = Seqs!FlattenSeq(new)
  BY DEF AllIntended
<1> HIDE DEF old, new
<1>7. /\ more \in Seq(Seq(Things)) /\ Len(more) = n + 1 /\ more[n + 1] = s
      /\ \A i \in 1 .. n : more[i] = old[i]
  BY <1>2, <1>4, AppendProperties
<1>8. ASSUME NEW i \in 1 .. (n + 1) PROVE new[i] = more[i]
  <2>1. CASE i = n + 1
    BY <1>1, <1>5, <1>7, <2>1 DEF s
  <2>2. CASE i # n + 1
    <3>1. i \in 1 .. n
      BY <1>1, <2>2
    <3> QED BY <1>1, <1>4, <1>5, <1>7, <3>1
  <2> QED BY <2>1, <2>2
<1>9. new = more
  <2> HIDE DEF more
  <2> QED BY <1>5, <1>7, <1>8, SeqEqual
<1>10. Seqs!FlattenSeq(more) = Seqs!FlattenSeq(old) \o s
  BY <1>2, <1>4, FlattenAppend
<1> QED BY <1>6, <1>9, <1>10 DEF s

\* What was added is read as it was meant.
Assembled ==
  /\ Encoded
  /\ AllEncodable => \E ends : Built(buffer, AllIntended, ends, relocations)

\* Nothing is read from nothing.
LEMMA NothingBuilt == Built(<< >>, << >>, << >>, << >>)
<1>1. /\ << >> \in Seq(Int) /\ << >> \in Seq(Things) /\ << >> \in Seq(Nat) /\ << >> \in Seq(RelocationsOf(Things))
      /\ Len(<< >>) = 0
  OBVIOUS
<1>2. Relocations(<< >>, << >>) = << >>
  <2> DEFINE empty == << >>
             s == [i \in DOMAIN empty |-> RelocationOf(empty[i], empty[i])]
  <2>1. Relocations(empty, empty) = Seqs!FlattenSeq(s)
    BY DEF Relocations, RelocationOf
  <2>2. s = << >>
    <3>1. DOMAIN empty = {}
      OBVIOUS
    <3> QED BY <3>1
  <2>3. Seqs!FlattenSeq(<< >>) = << >>
    BY DEF Seqs!FlattenSeq
  <2> QED BY <2>1, <2>2, <2>3
<1>3. \A buf : Chain(buf, 0, << >>, << >>)
  <2>1. 1 .. 0 = {} /\ 0 + 1 = 1
    OBVIOUS
  <2> QED BY <1>1, <2>1 DEF Chain, Start
<1> QED BY <1>1, <1>2, <1>3 DEF Built

\* The assembler keeps it.
THEOREM AssembledInvariant == Spec => []Assembled
<1>1. Init => Assembled
  <2> SUFFICES ASSUME Init PROVE Assembled
    OBVIOUS
  <2>1. buffer = << >> /\ relocations = << >> /\ given = << >>
    BY DEF Init
  <2>2. AllIntended = << >>
    <3> DEFINE s == [i \in DOMAIN given |-> Labelled(given[i])]
    <3>1. s = << >>
      <4>1. DOMAIN given = {}
        BY <2>1
      <4> QED BY <4>1
    <3>2. Seqs!FlattenSeq(<< >>) = << >>
      BY DEF Seqs!FlattenSeq
    <3> QED BY <3>1, <3>2 DEF AllIntended
  <2>3. Encoded
    <3>1. << >> \in Seq(Statements \cup Followers) /\ DOMAIN << >> = {}
      OBVIOUS
    <3> QED BY <2>1, <3>1 DEF Encoded
  <2> QED BY <2>1, <2>2, <2>3, NothingBuilt DEF Assembled
<1>2. Assembled /\ [Next]_vars => Assembled'
  <2> SUFFICES ASSUME Assembled, [Next]_vars PROVE Assembled'
    OBVIOUS
  <2>1. ASSUME NEW st \in Offered, Assemble(st) PROVE Assembled'
    <3> DEFINE out == EmitStmt(st)
    <3>1. st \in Statements \cup Followers
      BY DEF Offered
    <3>2. ~out.error /\ buffer' = buffer \o out.bytes /\ given' = Append(given, st)
      BY <2>1 DEF Assemble
    <3>3. relocations' = RelocationsWith(relocations, out.label, Len(buffer'))
      BY <2>1 DEF Assemble, RelocationsWith
    <3> DEFINE n == Len(given)
    <3>4. /\ given' \in Seq(Statements \cup Followers) /\ n \in Nat
          /\ DOMAIN given = 1 .. n /\ DOMAIN given' = 1 .. (n + 1) /\ given'[n + 1] = st
          /\ \A i \in 1 .. n : given'[i] = given[i]
      BY <3>1, <3>2 DEF Assembled, Encoded
    <3> HIDE DEF n, out
    <3>5. Encoded'
      <4> SUFFICES ASSUME NEW i \in 1 .. (n + 1) PROVE ~EmitStmt(given'[i]).error
        BY <3>4 DEF Encoded
      <4>1. CASE i = n + 1
        BY <3>2, <3>4, <4>1 DEF out
      <4>2. CASE i # n + 1
        <5>1. i \in 1 .. n
          BY <3>4, <4>2
        <5> QED BY <3>4, <5>1 DEF Assembled, Encoded
      <4> QED BY <4>1, <4>2
    <3>6. ASSUME AllEncodable' PROVE \E ends : Built(buffer', AllIntended', ends, relocations')
      <4>1. AllEncodable /\ Encodable(st)
        <5>1. Encodable(given'[n + 1])
          <6>1. n + 1 \in 1 .. (n + 1)
            BY <3>4
          <6> QED BY <3>4, <3>6, <6>1 DEF AllEncodable
        <5>2. ASSUME NEW i \in 1 .. n PROVE Encodable(given[i])
          <6>1. i \in 1 .. (n + 1)
            BY <3>4
          <6> QED BY <3>4, <3>6, <6>1 DEF AllEncodable
        <5> QED BY <3>4, <5>1, <5>2 DEF AllEncodable
      <4>2. PICK ends : Built(buffer, AllIntended, ends, relocations)
        BY <4>1 DEF Assembled
      <4>3. AllIntended' = AllIntended \o Labelled(st)
        BY <3>1, <3>2, <4>1, AllIntendedAppend DEF Assembled, out
      <4>4. \E e : Built(buffer \o out.bytes, AllIntended \o Labelled(st), e,
                         RelocationsWith(relocations, out.label, Len(buffer \o out.bytes)))
        BY <3>1, <3>2, <4>1, <4>2, StatementAdds DEF out
      <4> QED BY <3>2, <3>3, <4>3, <4>4
    <3> QED BY <3>5, <3>6 DEF Assembled
  <2>2. ASSUME UNCHANGED <<buffer, relocations, given>> PROVE Assembled'
    BY <2>2 DEF Assembled, Encoded, AllEncodable, AllIntended
  <2>3. ASSUME NEW st \in Offered, Refuse(st) PROVE Assembled'
    BY <2>2, <2>3 DEF Refuse
  <2>4. CASE UNCHANGED vars
    BY <2>2, <2>4 DEF vars
  <2> QED BY <2>1, <2>3, <2>4 DEF Next
<1> QED BY <1>1, <1>2, PTL DEF Spec

\* The processor that reads the bytes finds the instructions the assembler was
\* given, with their operands, and every label at the end of its instruction
\* (Assembler::x64(), asm1.cpp, util.cpp).
THEOREM DecodesBack == Spec => []BytesDecodeBack
<1>1. Assembled => BytesDecodeBack
  <2> SUFFICES ASSUME Assembled, AllEncodable PROVE BytesDecodeBack
    BY DEF BytesDecodeBack, AllEncodable
  <2>1. PICK ends : Built(buffer, AllIntended, ends, relocations)
    BY DEF Assembled
  <2> QED BY <2>1, BuiltDecoded DEF BytesDecodeBack
<1> QED BY <1>1, AssembledInvariant, PTL

=============================================================================
