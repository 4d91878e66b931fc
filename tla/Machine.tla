------------------------------- MODULE Machine -------------------------------
(***************************************************************************)
(* What runs the code of the back ends: MIR, as the comments of OpStmt2    *)
(* and OpStmt3 describe its instructions, and x86_64 with a register for   *)
(* each variable.  junk is what the bits above the 32 of a MIR instruction *)
(* on 32 bits become, which MIR leaves undefined.                          *)
(***************************************************************************)
EXTENDS Mir, X64Select

\* What an instruction of MIR reads: a register whole, a number, memory extended to 64 bits.
MirWord(e, s) ==
  CASE e.type = "VAR" -> s.vars[e.id]
    [] e.type = "CONST" -> Word(e.kind, e.val)
    [] e.type = "LABEL" -> AddressOfLabel
    [] OTHER -> Word(e.kind, Eval(e, s))

Extended(word, bits, signed) == IF word = Open THEN Open ELSE Wrap(bits, signed, word) % 2 ^ Width64
Width8 == 2
WithJunk(word, on, junk) ==
  IF word # Open /\ ~IsFloat(on) /\ ~Is64(on) THEN (word % 2 ^ Width32) + junk * 2 ^ Width32 ELSE word

MirOps3 == {"ADD", "SUB", "MUL", "QUO", "REM", "AND", "OR", "XOR", "SHL", "SHR"}
\* MIR has no instruction that mixes registers of floats and of integers.
Mixed(i) ==
  /\ i.mir \notin {"FLOAT2I", "I2FLOAT"}
  /\ \E e \in Range(i.args) : IsFloat(e.kind) # IsFloat(i.on)

\* Of one operand, a word.
MirMoved(mir, word) ==
  CASE mir \in {"MOV", "FLOAT2FLOAT"} -> word
    [] mir = "FLOAT2I" -> IF Number("Int64", word) = word THEN Word("Int64", word) ELSE Open
    [] mir = "I2FLOAT" -> Number("Int64", word)
    [] mir \in {"EXT8", "UEXT8"} -> Extended(word, Width8, mir = "EXT8")
    [] mir \in {"EXT32", "UEXT32"} -> Extended(word, Width32, mir = "EXT32")
    [] OTHER -> Open
MirNumber(i, n, s) == Number(i.on, MirWord(i.args[n], s))
MirResult(i, s, junk) ==
  CASE Mixed(i) -> Open
    [] ~Mixed(i) /\ i.mir = "NEG" -> WithJunk(Word(i.on, Compute1(i.on, "NEG1", i.on, MirNumber(i, 1, s))), i.on, junk)
    [] ~Mixed(i) /\ i.mir \in Comparisons -> Compute(i.on, i.mir, MirNumber(i, 1, s), MirNumber(i, 2, s))
    [] ~Mixed(i) /\ i.mir \in MirOps3 ->
         WithJunk(Word(i.on, Compute(i.on, i.mir, MirNumber(i, 1, s), MirNumber(i, 2, s))), i.on, junk)
    [] OTHER -> MirMoved(i.mir, MirWord(i.args[1], s))

RunMir(i, s, junk) ==
  CASE i.mir = "JMP" -> [s EXCEPT !.skip = i.to]
    [] i.mir = "JUMP" -> TestJump(i.on, i.op, MirNumber(i, 1, s), MirNumber(i, 2, s), i.to, s)
    [] i.mir = "CALL" -> SetAll(i.rets, AfterCall(i.args, s))
    [] i.mir = "RET" -> Exec(Return(i.args), s)
    [] OTHER -> Store(i.dst, MirResult(i, s, junk), s)

(***************************************************************************)
(* x86_64: DIV and SHR take numbers without a sign, and so do the jumps    *)
(* "above" and "below".  None of these computes or compares floats.        *)
(***************************************************************************)

UnsignedOf(kind) == IF IsFloat(kind) THEN kind ELSE IF Is64(kind) THEN "Uint64" ELSE "Uint32"
JumpsSigned(op) == op \in {"ASM_JG", "ASM_JGE", "ASM_JL", "ASM_JLE"}
Compared(flags, op) ==
  LET number(n) == Wrap(Bits(flags.kind), JumpsSigned(op), n)
  IN Calculated(flags.kind, CondJumps[op], number(flags.x), number(flags.y))
Flags(kind, x, y, s) == IF Open \in {x, y} THEN [s EXCEPT !.open = TRUE] ELSE [s EXCEPT !.flags = [kind |-> kind, x |-> x, y |-> y]]
NumberIn(kind, e, s) == Number(kind, Word(kind, Eval(e, s)))
ComputeUnsigned(dst, op, src, kind, s) ==
  Assigned(dst, Compute(kind, op, NumberIn(kind, dst, s), NumberIn(kind, src, s)), s)

X86Ints == {"ADD", "SUB", "MUL", "DIV", "AND", "OR", "XOR", "SHL", "SHR", "INC", "DEC", "CMP"}
RunX86(i, s) ==
  IF i.x86 \in X86Ints /\ IsFloat(i.dst.kind) THEN [s EXCEPT !.open = TRUE] ELSE
  CASE i.x86 = "MOV" -> Assigned(i.dst, Eval(i.src, s), s)
    [] i.x86 = "LEA" -> Store(i.dst, Word("Ptr", Address(i.src, s)), s)
    [] i.x86 \in {"INC", "DEC"} -> Exec(Step(i.x86, i.dst), s)
    [] i.x86 \in {"DIV", "SHR"} ->
         ComputeUnsigned(i.dst, IF i.x86 = "DIV" THEN "QUO" ELSE "SHR", i.src, UnsignedOf(i.dst.kind), s)
    [] i.x86 = "CMP" -> Flags(i.dst.kind, Eval(i.dst, s), Eval(i.src, s), s)
    [] i.x86 = "J" -> Jumps(Compared(s.flags, i.op), i.to, s)
    [] i.x86 = "JMP" -> [s EXCEPT !.skip = i.to]
    [] i.x86 = "CALL" -> SetAll(<<i.dst>>, AfterCall(i.args, s))
    [] i.x86 = "RET" -> Exec(Return(i.args), s)
    [] OTHER -> Assigned(i.dst, Compute(i.dst.kind, i.x86, Eval(i.dst, s), Eval(i.src, s)), s)

(***************************************************************************)
(* Code, and the IR itself, forwards: a jump skips what is before its      *)
(* label.                                                                  *)
(***************************************************************************)

IsStatement(i) == "ir" \in DOMAIN i
IsLabel(i) == IsStatement(i) /\ i.ir = "expr" /\ i.x.type = "LABEL"

RunOne(s, i, junk) ==
  CASE s.open -> s
    [] ~s.open /\ s.skip # 0 -> IF IsLabel(i) /\ i.x.id = s.skip THEN [s EXCEPT !.skip = 0] ELSE s
    [] ~s.open /\ s.skip = 0 /\ IsStatement(i) -> Exec(i, s)
    [] OTHER -> IF "mir" \in DOMAIN i THEN RunMir(i, s, junk) ELSE RunX86(i, s)
RunCode(code, s, junk) ==
  LET next(t, i) == RunOne(t, i, junk) IN FoldLeft(next, s, code)
=============================================================================
