----------------------------- MODULE X64Decode -----------------------------
(***************************************************************************)
(* How an x86_64 processor reads bytes: the instructions that onejit's     *)
(* assembler knows, as the processor's manual defines them.  An instruction*)
(* is a record made by one of PlainIns, RegIns, MemIns and ImmIns;         *)
(* Decoded(bytes) lists the instructions found with the place where each   *)
(* ends.                                                                   *)
(***************************************************************************)
LOCAL INSTANCE Integers
LOCAL INSTANCE Sequences

None == -1

\* An operation: cond is the condition of j and set.
Op(name) == [name |-> name, cond |-> ""]

PlainIns(op) == [op |-> op]
RegIns(op, size, id) == [op |-> op, size |-> size, reg |-> id]
MemIns(op, size, base, index, scale, offset) ==
  [op |-> op, size |-> size, base |-> base, index |-> index, scale |-> scale, offset |-> offset]
ImmIns(op, val) == [op |-> op, imm |-> val]

\* The condition codes, in the order of their numbers.
ConditionNames == <<"o", "no", "b", "ae", "e", "ne", "be", "a",
                    "s", "ns", "p", "np", "l", "ge", "le", "g">>
IfOp(name, number) == [name |-> name, cond |-> ConditionNames[number + 1]]

\* A number of n bytes at i, the lowest byte first, the highest with a sign.
Signed(byte) == IF byte >= 128 THEN byte - 256 ELSE byte
SignedAt(buf, i, n) ==
  IF n = 0 THEN 0 ELSE IF n = 1 THEN Signed(buf[i])
  ELSE buf[i] + 256 * buf[i + 1] + 65536 * buf[i + 2] + 16777216 * Signed(buf[i + 3])

\* The parts of a REX byte: rex is its low half, None if there is no such byte.
RexW(rex) == IF rex = None THEN 0 ELSE rex \div 8
RexX(rex) == IF rex = None THEN 0 ELSE (rex \div 2) % 2
RexB(rex) == IF rex = None THEN 0 ELSE rex % 2

Middle(byte) == (byte \div 8) % 8

\* The operand that starts with the ModRM byte at i.
OperandAt(buf, i, op, size, rex) ==
  LET mod == buf[i] \div 64   rm == buf[i] % 8
      sib == rm = 4
      sb == IF sib THEN buf[i + 1] ELSE 0
      noBase == mod = 0 /\ (IF sib THEN sb % 8 = 5 ELSE rm = 5)
      n == CASE mod = 1 -> 1 [] mod = 2 \/ noBase -> 4 [] OTHER -> 0
      at == i + (IF sib THEN 2 ELSE 1)
      base == CASE noBase /\ ~sib -> 21 [] noBase /\ sib -> None
                [] sib /\ ~noBase -> (sb % 8) + 8 * RexB(rex) [] OTHER -> rm + 8 * RexB(rex)
      number == Middle(sb) + 8 * RexX(rex)
      index == IF sib /\ number # 4 THEN number ELSE None
  IN IF mod = 3
     THEN [ins |-> RegIns(op, size, IF size = 8 /\ rex = None /\ rm \in 4 .. 7 THEN rm + 96 ELSE rm + 8 * RexB(rex)),
           end |-> i]
     ELSE [ins |-> MemIns(op, size, base, index, IF index = None THEN 1 ELSE <<1, 2, 4, 8>>[sb \div 64 + 1],
                          SignedAt(buf, at, n)),
           end |-> at + n - 1]

\* Groups of instructions told apart by the middle bits of the ModRM byte.
GroupName(opcode, digit) ==
  CASE opcode \in {254, 255} /\ digit = 0 -> "inc"
    [] opcode \in {254, 255} /\ digit = 1 -> "dec"
    [] opcode = 255 /\ digit = 2 -> "call"
    [] opcode = 255 /\ digit = 4 -> "jmp"
    [] opcode = 255 /\ digit = 6 -> "push"
    [] opcode \in {246, 247} /\ digit = 2 -> "not"
    [] opcode \in {246, 247} /\ digit = 3 -> "neg"
    [] opcode = 143 /\ digit = 0 -> "pop"
    [] OTHER -> "?"

PlainNames == [
  b \in {144, 156, 157, 195, 204, 240, 242, 243, 245, 248, 249, 252, 253} |->
    CASE b = 144 -> "nop" [] b = 156 -> "pushf" [] b = 157 -> "popf" [] b = 195 -> "ret"
      [] b = 204 -> "int3" [] b = 240 -> "lock" [] b = 242 -> "repne" [] b = 243 -> "rep"
      [] b = 245 -> "cmc" [] b = 248 -> "clc" [] b = 249 -> "stc" [] b = 252 -> "cld"
      [] OTHER -> "std"]

\* After a byte 15.
PlainNames2 == [b \in {5, 7, 11, 49, 52, 53} |->
  CASE b = 5 -> "syscall" [] b = 7 -> "sysret" [] b = 11 -> "ud2" [] b = 49 -> "rdtsc"
    [] b = 52 -> "sysenter" [] OTHER -> "sysexit"]
\* After 15 and 174, or 15 and 1.
PlainNames3 == [b \in {213, 214, 232, 240, 248} |->
  CASE b = 213 -> "xend" [] b = 214 -> "xtest" [] b = 232 -> "lfence"
    [] b = 240 -> "mfence" [] OTHER -> "sfence"]

Unknown(i) == [ins |-> PlainIns(Op("?")), end |-> i]
Plain(name, i) == [ins |-> PlainIns(Op(name)), end |-> i]
Imm(buf, op, i, n) == [ins |-> ImmIns(op, SignedAt(buf, i, n)), end |-> i + n - 1]

\* The instruction whose opcode is at i, after its prefixes: short is the size
\* of operands if REX does not make them wide.
AfterPrefixes(buf, i, short, rex) ==
  LET op == buf[i]
      second == buf[i + 1]
      size == IF RexW(rex) = 1 THEN 64 ELSE short
      stack == IF short = 16 THEN 16 ELSE 64
      reg(number) == number + 8 * RexB(rex)
      name == GroupName(op, Middle(second))
      width == IF op \in {246, 254} THEN 8
               ELSE IF name \in {"call", "jmp", "push", "pop"} THEN stack ELSE size
  IN CASE op \in 80 .. 87 -> [ins |-> RegIns(Op("push"), stack, reg(op - 80)), end |-> i]
       [] op \in 88 .. 95 -> [ins |-> RegIns(Op("pop"), stack, reg(op - 88)), end |-> i]
       [] op = 106 -> Imm(buf, Op("push"), i + 1, 1)
       [] op = 104 -> Imm(buf, Op("push"), i + 1, 4)
       [] op = 205 -> Imm(buf, Op("int"), i + 1, 1)
       [] op = 232 -> Imm(buf, Op("call"), i + 1, 4)
       [] op = 233 -> Imm(buf, Op("jmp"), i + 1, 4)
       [] op = 235 -> Imm(buf, Op("jmp"), i + 1, 1)
       [] op \in 112 .. 127 -> Imm(buf, IfOp("j", op - 112), i + 1, 1)
       [] op \in DOMAIN PlainNames -> Plain(PlainNames[op], i)
       [] op \in {143, 246, 247, 254, 255} -> OperandAt(buf, i + 1, Op(name), width, rex)
       [] op = 15 /\ second \in DOMAIN PlainNames2 -> Plain(PlainNames2[second], i + 1)
       [] op = 15 /\ second \in {1, 174} ->
            IF buf[i + 2] \in DOMAIN PlainNames3 THEN Plain(PlainNames3[buf[i + 2]], i + 2) ELSE Unknown(i + 2)
       [] op = 15 /\ second \in 128 .. 143 -> Imm(buf, IfOp("j", second - 128), i + 2, 4)
       [] op = 15 /\ second \in 144 .. 159 -> OperandAt(buf, i + 2, IfOp("set", second - 144), 8, rex)
       [] op = 15 /\ second \in 200 .. 207 ->
            [ins |-> RegIns(Op("bswap"), size, reg(second - 200)), end |-> i + 1]
       [] OTHER -> Unknown(i)

\* The instruction that starts at i: 102 makes it short, 64 .. 79 are REX bytes.
InsAt(buf, i) ==
  LET short == IF buf[i] = 102 THEN 16 ELSE 32
      j == IF buf[i] = 102 THEN i + 1 ELSE i
  IN IF buf[j] \in 64 .. 79 THEN AfterPrefixes(buf, j + 1, short, buf[j] - 64)
     ELSE AfterPrefixes(buf, j, short, None)

\* Bytes that are missing at the end read as zeros.  Every instruction has a
\* byte: in as many steps as there are bytes, all are read.
Padded(bytes) ==
  [i \in 1 .. Len(bytes) + 16 |-> IF i <= Len(bytes) THEN bytes[i] ELSE 0]
ReadOne(bytes, done) ==
  LET found == InsAt(Padded(bytes), done.next)
  IN IF done.next > Len(bytes) THEN done
     ELSE [next |-> found.end + 1, list |-> Append(done.list, found)]
Decoded(bytes) ==
  LET f[k \in 0 .. Len(bytes)] ==
        IF k = 0 THEN [next |-> 1, list |-> << >>] ELSE ReadOne(bytes, f[k - 1])
  IN f[Len(bytes)].list

=============================================================================
