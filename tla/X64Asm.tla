------------------------------- MODULE X64Asm -------------------------------
(***************************************************************************)
(* The assembler of x86_64 instructions with one operand (onejit/x64/      *)
(* asm1.cpp and what it uses): the bytes it emits, the relocations it      *)
(* records for labels, and which statements it refuses.                    *)
(*                                                                         *)
(* An operation is [name, cond], cond being the condition of jcc and setcc.*)
(* An operand is one of                                                    *)
(*   [type |-> "VAR", reg]              a register                         *)
(*   [type |-> "MEM", bits, label, offset, base, index, scale]             *)
(*   [type |-> "CONST", bits, val]      val is int32()                     *)
(*   [type |-> "LABEL", label]                                             *)
(* and a register [id, bits]; NoReg and NoLabel stand for those left out.  *)
(***************************************************************************)
EXTENDS Integers, Sequences

RAX == 0   RCX == 1   RDX == 2   RBX == 3
RSP == 4   RBP == 5   RSI == 6   RDI == 7
R12 == 12  R13 == 13  R15 == 15
RIP == RBP + 16
XMM0 == 32   XMM31 == XMM0 + 31

NoReg == [id |-> 0, bits |-> 0]
NoLabel == 0
Reg(id, bits) == [id |-> id, bits |-> bits]
IsReg(r) == r.bits # 0

\* rlo() and rhi(): what goes to ModRM or SIB, and what to REX.
Lo(r) == r.id % 8
Hi(r) == (r.id \div 8) % 2

IsGeneral(r) == r.id \in RAX .. R15

\* Scale::bits()
ScaleBits(scale) == CASE scale <= 1 -> 0 [] scale = 2 -> 1 [] scale = 4 -> 2 [] OTHER -> 3

\* Mem::create(Address): an index without a scale is left out.
MemOf(bits, label, offset, base, index, scale) ==
  [type |-> "MEM", bits |-> bits, label |-> label, offset |-> offset, base |-> base,
   index |-> IF scale = 0 THEN NoReg ELSE index,
   scale |-> IF IsReg(index) THEN scale ELSE 0]

\* to_arg(): which of the operands an instruction may have this is.
ToArg(arg) ==
  CASE arg.type = "VAR" /\ arg.reg.id = RAX -> "Rax"
    [] arg.type = "VAR" /\ arg.reg.id = RCX -> "Rcx"
    [] arg.type = "VAR" /\ arg.reg.id \in (RDX .. R15) \cup {RIP} -> "Reg"
    [] arg.type = "VAR" /\ arg.reg.id \in XMM0 .. XMM31 -> "Xmm"
    [] arg.type = "MEM" -> "Mem"
    [] arg.type \in {"LABEL", "CONST"} -> "Val"
    [] OTHER -> "None"

ArgRax == {"Rax"}
ArgReg == {"Rax", "Rcx", "Reg"}
ArgMem == {"Mem"}
ArgVal == {"Val"}

(***************************************************************************)
(* inst1_vec                                                               *)
(***************************************************************************)

Inst(bytes, imm8, imm32, arg, argSize, immSize) ==
  [bytes |-> bytes, imm8 |-> imm8, imm32 |-> imm32,
   arg |-> arg, argSize |-> argSize, immSize |-> immSize]
RegMem(bytes, sizes) == Inst(bytes, << >>, << >>, ArgReg \cup ArgMem, sizes, {})

Conditions == {"a", "ae", "b", "be", "e", "g", "ge", "l", "le", "ne", "no", "np", "ns", "o", "p", "s"}
CondBits ==
  [a |-> 7, ae |-> 3, b |-> 2, be |-> 6, e |-> 4, g |-> 15, ge |-> 13, l |-> 12,
   le |-> 14, ne |-> 5, no |-> 1, np |-> 11, ns |-> 9, o |-> 0, p |-> 10, s |-> 8]

Insts == [
  bswap |-> Inst(<<15, 200>>, << >>, << >>, ArgReg, {32, 64}, {}),
  call  |-> Inst(<<255, 16>>, << >>, <<232>>, ArgReg \cup ArgMem \cup ArgVal, {64}, {32}),
  cbw   |-> Inst(<< >>, << >>, << >>, ArgRax, {16, 32, 64}, {}),
  dec   |-> RegMem(<<254, 8>>, {8, 16, 32, 64}),
  inc   |-> RegMem(<<254, 0>>, {8, 16, 32, 64}),
  int   |-> Inst(<< >>, <<205>>, << >>, ArgVal, {}, {8}),
  jmp   |-> Inst(<<255, 32>>, <<235>>, <<233>>, ArgReg \cup ArgMem \cup ArgVal, {64}, {8, 32}),
  neg   |-> RegMem(<<246, 24>>, {8, 16, 32, 64}),
  not   |-> RegMem(<<246, 16>>, {8, 16, 32, 64}),
  pop   |-> RegMem(<<143, 0>>, {16, 64}),
  push  |-> Inst(<<255, 48>>, <<106>>, <<104>>, ArgReg \cup ArgMem \cup ArgVal, {16, 64}, {8, 32}),
  rdtsc |-> Inst(<<15, 49>>, << >>, << >>, ArgRax, {128}, {}),
  clflush    |-> Inst(<< >>, << >>, << >>, ArgMem, {8}, {}),
  clflushopt |-> Inst(<< >>, << >>, << >>, ArgMem, {8}, {}),
  clwb       |-> Inst(<< >>, << >>, << >>, ArgMem, {8}, {}),
  xabort     |-> Inst(<< >>, << >>, << >>, ArgVal, {}, {8})]

\* Asm1::find()
FindInst(op) ==
  CASE op.name = "j" -> Inst(<< >>, <<112 + CondBits[op.cond]>>, <<15, 128 + CondBits[op.cond]>>,
                             ArgVal, {}, {8, 32})
    [] op.name = "set" -> RegMem(<<15, 144 + CondBits[op.cond], 0>>, {8})
    [] op.name \in DOMAIN Insts -> Insts[op.name]
    [] OTHER -> Inst(<<15, 11>>, <<15, 11>>, <<15, 11>>, {}, {}, {})

\* Those of x86, and mir_jmp that is none.
Ops ==
  [name : DOMAIN Insts \cup {"mir_jmp"}, cond : {""}] \cup [name : {"j", "set"}, cond : Conditions]

(***************************************************************************)
(* Pieces of an instruction.                                               *)
(***************************************************************************)

DefaultSize(op) == IF op.name \in {"call", "jmp", "pop", "push"} THEN 64 ELSE 32

\* rex_byte(): none if it is zero.
RexByte(default, bits, base, index) ==
  LET regs == Hi(base) + 2 * Hi(index)
      byte8 == IsReg(base) /\ ~IsReg(index) /\ base.bits = 8 /\ base.id >= RSP
  IN IF default < 64 /\ bits >= 64 THEN <<72 + regs>>
     ELSE IF regs # 0 \/ byte8 THEN <<64 + regs>> ELSE << >>

\* asm1_insert_prefixes()
Prefixes(bits, default, base, index) ==
  (IF bits = 16 THEN <<102>> ELSE << >>) \o RexByte(default, bits, base, index)

\* insert_offset_or_imm(): the low bytes of a number, the lowest first.
Weight == <<1, 256, 65536, 16777216>>
Bytes(n, val) == [i \in 1 .. n |-> (val \div Weight[i]) % 256]

\* Mutant: %rbp and %r13 are like other base registers.
OffsetMinBytes_AnyBase(mem, base, index) ==
  IF mem.offset \notin -128 .. 127 \/ mem.label # NoLabel \/ base.id = RIP
     \/ (IsReg(index) /\ ~IsReg(base)) THEN 4
  ELSE IF mem.offset # 0 THEN 1 ELSE 0

\* get_offset_minbytes()
OffsetMinBytes(mem, base, index) ==
  IF mem.offset \notin -128 .. 127 \/ mem.label # NoLabel \/ base.id = RIP
     \/ (IsReg(index) /\ ~IsReg(base)) THEN 4
  ELSE IF mem.offset # 0 \/ Lo(base) = Lo(Reg(RBP, 64)) THEN 1 ELSE 0

\* insert_modrm_sib(): digit is the operation's part of the ModRM byte.
ModrmSib(digit, n, base, index, scale) ==
  LET mod == IF ~IsReg(base) THEN 0 ELSE IF n = 1 THEN 64
             ELSE IF n = 4 /\ base.id # RIP THEN 128 ELSE 0
      low == IF IsReg(base) THEN Lo(base) ELSE 5
  IN IF IsReg(index) THEN <<digit + mod + 4, low + 8 * Lo(index) + 64 * ScaleBits(scale)>>
     ELSE <<digit + mod + low>> \o (IF Lo(base) = 4 THEN <<36>> ELSE << >>)

\* validate_mem()
ValidMem(mem) ==
  /\ IsReg(mem.base) => IsGeneral(mem.base) \/ mem.base.id = RIP
  /\ IsReg(mem.index) /\ mem.scale # 0 =>
       IsGeneral(mem.index) /\ mem.index.id # RSP /\ mem.base.id # RIP

\* The lowest bit of an opcode that has an 8 bit form.
WideBit(inst, bits) == IF 8 \in inst.argSize /\ bits # 8 THEN 1 ELSE 0

(***************************************************************************)
(* Asm1::emit()                                                            *)
(***************************************************************************)

\* to_bitsize(): B0, that is none, for a width that is not one of these.
BitSize(bits) == {bits} \cap {8, 16, 32, 64}

\* is_compatible(): whether a width is among those of an instruction. No width is
\* among rdtsc's {128}: all its operands are refused.
IsCompatible(bits, sizes) == BitSize(bits) \cap sizes # {}

Emitted(bytes) == [bytes |-> bytes, label |-> NoLabel, error |-> FALSE]
Refused == [bytes |-> << >>, label |-> NoLabel, error |-> TRUE]

Widen(bytes, inst, bits) == [bytes EXCEPT ![1] = @ + WideBit(inst, bits)]

\* asm1_emit_mem(), asm1_emit_addr(): no base and no index is %rsp as index.
EmitMem(op, inst, mem) ==
  LET none == ~IsReg(mem.base) /\ ~IsReg(mem.index)
      index == IF none THEN Reg(RSP, 64) ELSE mem.index
      scale == IF none THEN 1 ELSE mem.scale
      opcode == Widen(inst.bytes, inst, mem.bits)
      n == OffsetMinBytes(mem, mem.base, index)
  IN IF ~ValidMem(mem) THEN Refused
     ELSE [bytes |-> Prefixes(mem.bits, DefaultSize(op), mem.base, index)
                     \o SubSeq(opcode, 1, Len(opcode) - 1)
                     \o ModrmSib(opcode[Len(opcode)], n, mem.base, index, scale)
                     \o Bytes(n, mem.offset),
           label |-> mem.label, error |-> FALSE]

\* asm1_emit_const()
EmitConst(inst, val) ==
  LET n == IF val \in -128 .. 127 /\ 8 \in inst.immSize THEN 1
           ELSE IF val \in -32768 .. 32767 /\ 16 \in inst.immSize THEN 2 ELSE 4
  IN Emitted((IF n = 2 THEN <<102>> ELSE << >>)
             \o (IF n = 1 THEN inst.imm8 ELSE inst.imm32) \o Bytes(n, val))

\* asm1_emit_label()
EmitLabel(inst, label) ==
  [bytes |-> inst.imm32 \o Bytes(4, 0), label |-> label, error |-> FALSE]

\* asm1_emit_reg(): without bytes in the table, a zero stands for them.
EmitReg(op, inst, reg) ==
  LET prefixes == Prefixes(reg.bits, DefaultSize(op), reg, NoReg)
      opcode == Widen(IF inst.bytes = << >> THEN <<0>> ELSE inst.bytes, inst, reg.bits)
  IN CASE op.name \in {"pop", "push"} ->
            Emitted(prefixes \o <<80 + Lo(reg) + (IF op.name = "pop" THEN 8 ELSE 0)>>)
       [] op.name = "rdtsc" -> Emitted(inst.bytes)
       [] OTHER ->
            LET last == opcode[Len(opcode)]
            IN Emitted(prefixes \o SubSeq(opcode, 1, Len(opcode) - 1)
                       \o <<(IF last < 192 THEN last + 192 ELSE last) + Lo(reg)>>)

\* Asm1::emit()
EmitStmt1(op, arg) ==
  LET inst == FindInst(op) IN
  CASE ToArg(arg) \notin inst.arg -> Refused
    [] ToArg(arg) \in inst.arg /\ arg.type = "VAR" ->
         IF IsCompatible(arg.reg.bits, inst.argSize) THEN EmitReg(op, inst, arg.reg) ELSE Refused
    [] ToArg(arg) \in inst.arg /\ arg.type = "MEM" ->
         IF IsCompatible(arg.bits, inst.argSize) /\ inst.bytes # << >>
         THEN EmitMem(op, inst, arg) ELSE Refused
    [] ToArg(arg) \in inst.arg /\ arg.type = "LABEL" ->
         IF IsCompatible(32, inst.immSize) THEN EmitLabel(inst, arg.label) ELSE Refused
    [] OTHER -> IF IsCompatible(arg.bits, inst.immSize) THEN EmitConst(inst, arg.val) ELSE Refused

=============================================================================
