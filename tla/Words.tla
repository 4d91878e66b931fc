------------------------------- MODULE Words -------------------------------
(***************************************************************************)
(* Values: a kind and a machine word, the operations that fold constants,  *)
(* and how a constant is stored in an item.  A byte has Byte bits, so that *)
(* every width, mask and rotation of the code keeps its proportion.        *)
(*                                                                         *)
(* The bits of a floating point value are abstracted to the number itself; *)
(* numbers that are not whole are left open.                               *)
(***************************************************************************)
EXTENDS IrEnums, Bitwise

CONSTANT Byte      \* bits of a byte: 8 in the program

ASSUME ByteAssumption == Byte \in Nat \ {0}

WordBits == 8 * Byte
WordSize == 2 ^ WordBits

\* Kind::bitsize(), is_float(), is(gInt), is_signed() and is_unsigned()
BitSize(kind) == IF LaneBits(kind) < 8 THEN LaneBits(kind) ELSE (LaneBits(kind) \div 8) * Byte
IsFloat(kind) == kind \in {eFloat32, eFloat64}
IsInt(kind) == kind \in eInt8 .. eInt64
IsSigned(kind) == IsInt(kind) \/ kind \in eFloat16 .. eFloat128
IsUnsigned(kind) == ~IsSigned(kind)

Val(kind, bits) == [kind |-> kind, bits |-> bits]
BadVal == Val(eBad, 0)

\* The process is gone: a division of machine integers faulted.
Crashed == Val(-1, 0)

IsValid(v) == v.kind # eBad

\* Not numbers of this size: infinity and not-a-number.
Infinity == 2 ^ 20
NotANumber == 2 ^ 20 + 1

\* int64(): the word as a signed number.
AsSigned(bits) == IF 2 * bits >= WordSize THEN bits - WordSize ELSE bits

\* extend_or_truncate(), of any whole number for the word it is modulo.
ExtendOrTruncate(kind, bits) ==
  LET size == 2 ^ BitSize(kind)
      low == bits % size
  IN Val(kind, IF IsInt(kind) /\ 2 * low >= size THEN low + WordSize - size ELSE low)

\* The number a value stands for.
NumberOf(v) == IF IsInt(v.kind) THEN AsSigned(v.bits) ELSE v.bits

\* cast(): to and from floating point by the number, else by the bits.
CastTo(v, to) ==
  CASE v.kind = to -> v
    [] IsFloat(to) /\ v.kind \in {eBad, eFloat16} -> BadVal
    [] IsFloat(to) -> Val(to, IF v.kind = eVoid THEN 0 ELSE NumberOf(v))
    [] IsFloat(v.kind) /\ to \in {eBad, eFloat16} -> BadVal
    [] IsFloat(v.kind) /\ to = eVoid -> Val(eVoid, 0)
    [] IsFloat(v.kind) /\ to = eBool -> Val(eBool, IF v.bits # 0 THEN 1 ELSE 0)
    [] IsFloat(v.kind) /\ to = eFloat128 -> Val(to, v.bits)
    [] OTHER -> ExtendOrTruncate(to, v.bits)

\* bitcopy()
BitCopy(v, to) == ExtendOrTruncate(to, v.bits)

Zero(kind) == Val(kind, 0)
One(kind) == CastTo(Val(eInt32, 1), kind)
MinusOne(kind) == CastTo(Val(eInt32, WordSize - 1), kind)

\* Value::max() and Value::min(): the lowest signed number is not extended
\* to the word.
MaxVal(kind) ==
  IF IsFloat(kind) THEN Val(kind, Infinity)
  ELSE Val(kind, (2 ^ BitSize(kind) - 1) \div (IF IsSigned(kind) THEN 2 ELSE 1))
MinVal(kind) ==
  CASE IsUnsigned(kind) -> Zero(kind)
    [] IsFloat(kind) -> Val(kind, -Infinity)
    [] OTHER -> Val(kind, 2 ^ (BitSize(kind) - 1))

AllOnes == Val(eUint64, WordSize - 1)
Word(n) == Val(eUint64, n)

\* Value::identity(Kind, Op2)
Identity2(kind, op) ==
  CASE op \in {SUB, SHL, SHR} -> CastTo(Word(0), kind)
    [] op = QUO -> CastTo(Word(1), kind)
    [] OTHER -> BadVal

\* Value::identity(Kind, OpN)
IdentityN(kind, op) ==
  CASE op \in AND .. XOR /\ IsFloat(kind) -> BadVal
    [] op \in {ADD, OR, XOR, COMMA} -> CastTo(Word(0), kind)
    [] op = MUL -> CastTo(Word(1), kind)
    [] op = AND -> CastTo(AllOnes, kind)
    [] op = MAX -> MinVal(kind)
    [] op = MIN -> MaxVal(kind)
    [] OTHER -> BadVal

\* Value::absorbing(Kind, OpN)
Absorbing(kind, op) ==
  CASE op \in AND .. XOR /\ IsFloat(kind) -> BadVal
    [] op = OR -> CastTo(AllOnes, kind)
    [] op \in {MUL, AND} -> CastTo(Word(0), kind)
    [] op = MAX -> MaxVal(kind)
    [] op = MIN -> MinVal(kind)
    [] OTHER -> BadVal

(***************************************************************************)
(* The operators on values.  Values of different kinds give no value.      *)
(***************************************************************************)

Bit(b) == Val(eBool, IF b THEN 1 ELSE 0)

\* C++ truncates a quotient towards zero; n % d has the sign of n.
Quotient(n, d) ==
  LET q == (IF n < 0 THEN -n ELSE n) \div (IF d < 0 THEN -d ELSE d)
  IN IF (n < 0) = (d < 0) THEN q ELSE -q
Remainder(n, d) == n - d * Quotient(n, d)

\* The product modulo the word, in halves.
Product(a, b) ==
  LET half == 2 ^ (4 * Byte)
  IN ((((a \div half) * b) % half) * half + (a % half) * b) % WordSize

Invert(v) == IF IsFloat(v.kind) THEN BadVal ELSE ExtendOrTruncate(v.kind, WordSize - 1 - v.bits)
Negate(v) == IF IsFloat(v.kind) THEN Val(v.kind, -v.bits) ELSE ExtendOrTruncate(v.kind, -v.bits)

Plus(a, b) ==
  CASE a.kind # b.kind -> BadVal
    [] IsFloat(a.kind) -> Val(a.kind, a.bits + b.bits)
    [] OTHER -> ExtendOrTruncate(a.kind, a.bits + b.bits)
Minus(a, b) ==
  CASE a.kind # b.kind -> BadVal
    [] IsFloat(a.kind) -> Val(a.kind, a.bits - b.bits)
    [] OTHER -> ExtendOrTruncate(a.kind, a.bits - b.bits)
Times(a, b) ==
  CASE a.kind # b.kind -> BadVal
    [] IsFloat(a.kind) -> Val(a.kind, a.bits * b.bits)
    [] OTHER -> ExtendOrTruncate(a.kind, Product(a.bits, b.bits))

\* What the processor divides.
Divides(kind, a, b) ==
  b # 0 /\ ~(IsInt(kind) /\ AsSigned(b) = -1 /\ 2 * a = WordSize)

Over(a, b) ==
  CASE a.kind # b.kind -> BadVal
    [] IsFloat(a.kind) ->
         Val(a.kind, IF b.bits # 0 THEN Quotient(a.bits, b.bits)
                     ELSE IF a.bits = 0 THEN NotANumber
                     ELSE IF a.bits > 0 THEN Infinity ELSE -Infinity)
    [] ~Divides(a.kind, a.bits, b.bits) -> Crashed
    [] OTHER -> ExtendOrTruncate(a.kind, Quotient(NumberOf(a), NumberOf(b)))
Modulo(a, b) ==
  CASE a.kind # b.kind \/ IsFloat(a.kind) -> BadVal
    [] ~Divides(a.kind, a.bits, b.bits) -> Crashed
    [] OTHER -> ExtendOrTruncate(a.kind, Remainder(NumberOf(a), NumberOf(b)))

BitOp(f(_, _), a, b) ==
  IF a.kind # b.kind \/ IsFloat(a.kind) THEN BadVal ELSE Val(a.kind, f(a.bits, b.bits))
BitAnd(a, b) == LET f(m, n) == m & n IN BitOp(f, a, b)
BitOr(a, b) == LET f(m, n) == m | n IN BitOp(f, a, b)
BitXor(a, b) == LET f(m, n) == m ^^ n IN BitOp(f, a, b)

\* A count past the word is undefined; the processor takes it modulo the word.
ShiftLeft(a, b) ==
  IF a.kind # b.kind \/ IsFloat(a.kind) THEN BadVal
  ELSE ExtendOrTruncate(a.kind, Product(a.bits, 2 ^ (b.bits % WordBits)))
ShiftRight(a, b) ==
  IF a.kind # b.kind \/ IsFloat(a.kind) THEN BadVal
  ELSE ExtendOrTruncate(a.kind, NumberOf(a) \div 2 ^ (b.bits % WordBits))

Comparison(holds(_, _), a, b) ==
  IF a.kind # b.kind THEN BadVal ELSE Bit(holds(NumberOf(a), NumberOf(b)))
AreNumbers(m, n) == NotANumber \notin {m, n}
IsEqual(a, b) == LET r(m, n) == AreNumbers(m, n) /\ m = n IN Comparison(r, a, b)
Differs(a, b) == LET r(m, n) == ~AreNumbers(m, n) \/ m # n IN Comparison(r, a, b)
IsLess(a, b) == LET r(m, n) == AreNumbers(m, n) /\ m < n IN Comparison(r, a, b)
IsLessOrEqual(a, b) == LET r(m, n) == AreNumbers(m, n) /\ m <= n IN Comparison(r, a, b)

\* and_(), or_(), operator! and operator bool
BothTrue(a, b) ==
  IF a.kind = eBool /\ b.kind = eBool THEN Bit(a.bits # 0 /\ b.bits # 0) ELSE BadVal
EitherTrue(a, b) ==
  IF a.kind = eBool /\ b.kind = eBool THEN Bit(a.bits # 0 \/ b.bits # 0) ELSE BadVal
IsZero(v) == IsEqual(v, Zero(v.kind))
IsTrue(v) == v.bits # 0

(***************************************************************************)
(* Immediates: a constant that is a few bits, maybe inverted, rotated by   *)
(* whole bytes fits an item; any other is written as one or two words.     *)
(* The numbers whose floating point format has few digits fit an item.     *)
(***************************************************************************)

DirectBits == 3 * Byte - 1

RotateLeft(w, bytes) ==
  LET n == Byte * bytes IN ((w * 2 ^ n) % WordSize) + (w \div 2 ^ (WordBits - n))
RotateRight(w, bytes) ==
  LET n == Byte * bytes IN (w \div 2 ^ n) + (w % 2 ^ n) * 2 ^ (WordBits - n)

Inverted(w, neg) == IF neg THEN WordSize - 1 - w ELSE w

\* Direct::recurse() and can_direct(): the ways tried, in their order.
DirectWays(v) ==
  {w \in (0 .. 7) \X BOOLEAN :
     v.kind <= eVoid \/ RotateRight(Inverted(v.bits, w[2]), w[1]) < 2 ^ DirectBits}
FirstWay(ways) ==
  CHOOSE w \in ways : \A u \in ways : w[1] < u[1] \/ (w[1] = u[1] /\ (w[2] => u[2]))

IsDirect(v) == IsFloat(v.kind) \/ DirectWays(v) # {}

\* Mutant: only a positive immediate is rotated back.
MakeDirect_NoSign(v) ==
  LET w == FirstWay(DirectWays(v))
  IN 1 + 2 * v.kind
     + (IF v.kind <= eVoid THEN 0
        ELSE 32 * w[1] + 256 * RotateRight(Inverted(v.bits, w[2]), w[1]))

\* Direct::make_direct(): one tag bit, the kind, the rotation, the bits, the sign.
MakeDirect(v) ==
  LET w == FirstWay(DirectWays(v))
  IN 1 + 2 * v.kind
     + (IF v.kind <= eVoid THEN 0
        ELSE IF IsFloat(v.kind) THEN 256 * v.bits
        ELSE 32 * w[1] + 256 * RotateRight(Inverted(v.bits, w[2]), w[1])
             + (IF w[2] THEN 2 ^ (8 + DirectBits) ELSE 0))

\* Direct::to_const(), Imm::parse_direct()
ParseDirect(item) ==
  LET kind == (item \div 2) % 16
  IN Val(kind,
      IF IsFloat(kind) THEN item \div 256
      ELSE Inverted(RotateLeft((item \div 256) % 2 ^ DirectBits, (item \div 32) % 8),
               item >= 2 ^ (8 + DirectBits)))

\* Imm::write_indirect() and Imm::parse_indirect(): less than 64 bits are
\* written as 32 and read without their sign.
WriteIndirect(v) == IF BitSize(v.kind) = WordBits THEN v.bits ELSE v.bits % 2 ^ (4 * Byte)
ParseIndirect(kind, words) == Val(kind, words)
=============================================================================
