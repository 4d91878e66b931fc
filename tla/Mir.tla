--------------------------------- MODULE Mir ---------------------------------
(***************************************************************************)
(* onejit::mir::Compiler: instructions of MIR, a portable assembler, for   *)
(* the code of a function.  An instruction is                              *)
(*   [mir, on, dst, args]  a move, a conversion or arithmetic, where "on"  *)
(*                         is the column of its table (mKind, as a kind)   *)
(*   [mir |-> "JUMP", on, op, to, args]    [mir |-> "JMP", to]             *)
(*   [mir |-> "CALL", rets, args]          [mir |-> "RET", args]           *)
(* or the statement of a label.  The lowering has put what an address or a *)
(* tuple is made of into variables, memory and constants, so the branches  *)
(* of Address::insert() for tuples and of failure are never taken.         *)
(***************************************************************************)
EXTENDS Exprs

mir_kind(kind) ==
  CASE kind = "Int32" -> "Int32" [] kind = "Int64" -> "Int64"
    [] kind \in {"Uint64", "Ptr"} -> "Uint64" [] IsFloat(kind) -> kind [] OTHER -> "Uint32"

Ins(mir, on, dst, args) == [mir |-> mir, on |-> on, dst |-> dst, args |-> args]

\* The moves and negations: of floats, or of integers of 32 or 64 bits.
MirMov(dst, kind, src) == Ins("MOV", IF IsFloat(kind) THEN kind ELSE "Int64", dst, <<src>>)
MirNeg(dst, kind, x) ==
  Ins("NEG", IF IsFloat(kind) THEN kind ELSE IF Is64(kind) THEN "Int64" ELSE "Int32", dst, <<x>>)

MirCast(to, from) ==
  CASE IsFloat(from) /\ IsFloat(to) -> "FLOAT2FLOAT"
    [] IsFloat(from) /\ ~IsFloat(to) -> "FLOAT2I"
    [] ~IsFloat(from) /\ IsFloat(to) -> "I2FLOAT"
    [] "Bool" \in {from, to} -> IF IsSigned(to) THEN "EXT8" ELSE "UEXT8"
    [] Is64(from) /\ Is64(to) -> "MOV"
    [] OTHER -> IF IsSigned(to) THEN "EXT32" ELSE "UEXT32"

\* The rows of integers only have no instruction for floats: BAD_ST3.
MirArith(op, kind, dst, x, y) ==
  Ins(IF IsFloat(kind) /\ op \notin {"ADD", "SUB", "MUL", "QUO"} THEN "BAD" ELSE op, mir_kind(kind), dst, <<x, y>>)
\* st2_ops has no element for REM: each operation that follows takes the next one.
RowOfOp2 == [SUB |-> "SUB", QUO |-> "QUO", REM |-> "SHL", SHL |-> "SHR", SHR |-> "UNDEFINED"]

JumpKind(op, kind) ==
  IF IsFloat(kind) THEN kind
  ELSE LET signed == op \in {"ASM_JG", "ASM_JGE", "ASM_JL", "ASM_JLE"} IN
       IF Is64(kind) THEN IF signed THEN "Int64" ELSE "Uint64"
       ELSE IF signed THEN "Int32" ELSE "Uint32"
MirJump(on, op, to, x, y) == [mir |-> "JUMP", on |-> on, op |-> op, to |-> to, args |-> <<x, y>>]

\* What a simplified expression may be besides a variable.
toVar == {}
toVarOrConst == {"CONST"}
toVarOrMem == {"MEM"}
toAny == {"CONST", "MEM"}
\* No second memory operand once there is one.
MaskAfter_Same(mask, x) == mask
MaskAfter(mask, x) == IF IsMem(x) THEN mask \cap toVarOrConst ELSE mask

\* The expression c.e put into dst if that is a variable, else into a new one
\* unless it is one.
MoveTo(v, kind, src) == Add(v, MirMov(v.e, kind, src))
ToVar(c, dst) ==
  CASE c.e = NoExpr -> Error(c)
    [] c.e # NoExpr /\ dst.type = "VAR" -> MoveTo(With(c, dst), dst.kind, c.e)
    [] c.e # NoExpr /\ dst.type # "VAR" /\ c.e.type = "VAR" -> c
    [] OTHER -> MoveTo(NewVar(c, c.e.kind), c.e.kind, c.e)
DstOrVar(c, dst, kind) == IF dst # NoExpr THEN With(c, dst) ELSE NewVar(c, kind)

\* Address::insert(): a constant is the offset and, like all others, also the
\* base or the index; what comes after the index is dropped.  c.e is the address.
OffsetOf(a, e) ==
  IF e.type = "CONST" /\ a.offset = 0 /\ ~IsFloat(e.kind) THEN [a EXCEPT !.offset = Int64Of(e.val)] ELSE a
SetBase(a, v) == With(v, [a EXCEPT !.base = v.e])
SetIndex(a, v) == With(v, [a EXCEPT !.index = v.e, !.scale = 1])
MirInsert(c, e) ==
  CASE c.e.base = NoExpr -> SetBase(OffsetOf(c.e, e), ToVar(With(c, e), NoExpr))
    [] c.e.base # NoExpr /\ c.e.index = NoExpr -> SetIndex(OffsetOf(c.e, e), ToVar(With(c, e), NoExpr))
    [] OTHER -> With(c, OffsetOf(c.e, e))
Address0(kind) == At(kind, NoExpr, 0, NoExpr, NoExpr, 1)
MirAddress(kind, c) == FoldLeft(MirInsert, With(c, Address0(kind)), c.e)

(***************************************************************************)
(* Expressions: Simplify(c, e, mask, dst), where dst (or NoExpr) is where  *)
(* the caller wants the result.  Each step takes the code with its last    *)
(* operand as c.e.                                                         *)
(***************************************************************************)

RECURSIVE Simplify(_, _, _, _)

MirLoad(kind, mask, dst, c) ==
  IF "MEM" \in mask THEN c
  ELSE MoveTo(DstOrVar(c, IF dst.type = "VAR" THEN dst ELSE NoExpr, kind), kind, c.e)
MirMem(c, e, mask, dst) ==
  LET child(d, x) == Simplify(d, x, toVarOrConst, NoExpr)
  IN MirLoad(e.kind, mask, dst, MirAddress(e.kind, Each(child, c, e.args)))

MaskFor(dst) == IF IsMem(dst) THEN toVarOrConst ELSE toAny

UnaryTo(e, x, c) ==
  LET int == IF Is64(x.kind) \/ x.kind = "Float64" THEN "Int64" ELSE "Int32" IN
  CASE e.op = "XOR1" -> Add(c, Ins("XOR", int, c.e, <<x, Const(x.kind, -1)>>))
    [] e.op = "NOT1" -> Add(c, Ins("EQL", int, c.e, <<x, Const(x.kind, 0)>>))
    [] e.op = "NEG1" -> Add(c, MirNeg(c.e, x.kind, x))
    [] e.op = "CAST" -> Add(c, Ins(MirCast(e.kind, x.kind), e.kind, c.e, <<x>>))
    [] OTHER -> With(Error(c), c.e)   \* BITCOPY
UnaryOf(e, dst, c) == UnaryTo(e, c.e, DstOrVar(c, dst, e.kind))
MirUnary(c, e, dst) == UnaryOf(e, dst, Simplify(c, e.x, MaskFor(dst), NoExpr))

Arith(op, kind, x, y, c) == Add(c, MirArith(op, kind, c.e, x, y))
\* Comparisons take the column of their own kind, Bool, not of their operands.
Compare(op, kind, x, y, c) == Add(c, Ins(op, mir_kind(kind), c.e, <<x, y>>))
BinaryTo(e, dst, x, c) ==
  CASE e.op \in DOMAIN RowOfOp2 -> Arith(RowOfOp2[e.op], e.kind, x, c.e, DstOrVar(c, dst, e.kind))
    [] e.op \in Comparisons -> Compare(e.op, e.kind, x, c.e, DstOrVar(c, dst, e.kind))
    [] OTHER -> Error(c)   \* LAND, LOR
BinaryOf(e, dst, c) == BinaryTo(e, dst, c.e, Simplify(c, e.y, MaskAfter(MaskFor(dst), c.e), NoExpr))
MirBinary(c, e, dst) == BinaryOf(e, dst, Simplify(c, e.x, MaskFor(dst), NoExpr))

AfterFirst(args) == [i \in 1 .. Len(args) - 1 |-> i + 1]
\* x OP y into a variable, or into dst when y is the last.
ChainStep(e, dst, i, x, c) ==
  Arith(e.op, e.kind, x, c.e, DstOrVar(c, IF i = Len(e.args) THEN dst ELSE NoExpr, e.kind))
MirChain(c, e, dst) ==
  LET next(done, i) ==
        LET mask == MaskAfter(done.mask, done.c.e)
        IN [mask |-> mask, c |-> ChainStep(e, dst, i, done.c.e, Simplify(done.c, e.args[i], mask, NoExpr))]
  IN FoldLeft(next, [mask |-> MaskFor(dst), c |-> Simplify(c, e.args[1], MaskFor(dst), NoExpr)],
              AfterFirst(e.args)).c

\* The greatest or least so far is in a variable; y replaces it unless a jump
\* says that it is no better.  For the last y it is in dst.
ReplaceUnless(test, kind, d, y, c) ==
  With([Add(Add(Add(c, MirJump(mir_kind(kind), test, c.label, d, y)), MirMov(d, kind, y)),
            ExprStmt(LabelExpr(c.label))) EXCEPT !.label = @ + 1], d)
MostStep(e, dst, i, most, c) ==
  LET test == IF e.op = "MAX" THEN "GEQ" ELSE "LEQ" IN
  IF i = Len(e.args) /\ dst # NoExpr
  THEN ReplaceUnless(test, e.kind, dst, c.e, Add(c, MirMov(dst, e.kind, most)))
  ELSE ReplaceUnless(test, e.kind, most, c.e, c)
MostFrom(e, dst, c) ==
  LET next(done, i) ==
        MostStep(e, dst, i, done.e, Simplify(done, e.args[i], MaskAfter(MaskFor(dst), c.e), NoExpr))
  IN FoldLeft(next, MoveTo(NewVar(c, e.kind), e.kind, c.e), AfterFirst(e.args))
MirMost(c, e, dst) == MostFrom(e, dst, Simplify(c, e.args[1], MaskFor(dst), NoExpr))

Rets(places) == [type |-> "TUPLE", kind |-> "Void", op |-> "MIR_RETS", args |-> places]

\* prepare_call_results(): the places for the results.
NewRets(c) == With(c, Rets(c.e))
CallResults(c, e, dst) ==
  CASE dst.type = "TUPLE" -> IF Len(dst.args) = Len(e.results) THEN With(c, dst) ELSE Error(c)
    [] dst.type = "VAR" \/ IsMem(dst) -> IF Len(e.results) = 1 THEN With(c, Rets(<<dst>>)) ELSE Error(c)
    [] OTHER -> NewRets(Each(NewVar, c, e.results))
CallWith(rets, dst, c) ==
  With(Add(c, [mir |-> "CALL", rets |-> rets.args, args |-> c.e]),
       IF dst # NoExpr /\ dst.type # "TUPLE" THEN dst ELSE rets)
CallTo(e, dst, c) ==
  LET arg(d, x) == Simplify(d, x, toVar, NoExpr)
  IN IF c.e = NoExpr THEN c ELSE CallWith(c.e, dst, Each(arg, c, e.args))
MirCall(c, e, dst) == CallTo(e, dst, CallResults(c, e, dst))

Simplify(c, e, mask, dst) ==
  CASE e.type \in {"VAR", "LABEL"} -> With(c, e)
    [] e.type = "CONST" -> IF "CONST" \in mask THEN With(c, e) ELSE ToVar(With(c, e), dst)
    [] e.type = "MEM" -> MirMem(c, e, mask, dst)
    [] e.type = "UNARY" -> MirUnary(c, e, dst)
    [] e.type = "BINARY" -> MirBinary(c, e, dst)
    [] e.type = "TUPLE" /\ e.op = "CALL" -> MirCall(c, e, dst)
    [] e.type = "TUPLE" /\ e.op \in {"MAX", "MIN"} /\ Len(e.args) > 1 -> MirMost(c, e, dst)
    [] e.type = "TUPLE" /\ e.op \in {"ADD", "MUL", "AND", "OR", "XOR"} /\ Len(e.args) > 1 -> MirChain(c, e, dst)
    [] OTHER -> Error(c)

(***************************************************************************)
(* Statements.                                                             *)
(***************************************************************************)

\* Of a place in memory, what it holds is moved to a variable first.
StepBy(op, place, c) == Add(c, Ins(op, "Int64", place, <<c.e, Const(place.kind, 1)>>))
StepPlace(op, c) == StepBy(op, c.e, IF IsMem(c.e) THEN ToVar(c, NoExpr) ELSE c)
MirStep(c, st) ==
  StepPlace(IF st.op = "INC" THEN "ADD" ELSE "SUB", Simplify(c, st.dst, toAny, NoExpr))

\* dst OP= src is tmp = dst; dst = tmp OP src.
OpTo(op, dst, tmp, c) == Add(c, MirArith(op, dst.kind, dst, tmp, c.e))
OpFrom(st, dst, c) ==
  OpTo(Op2OfAssign[st.op], dst, c.e, Simplify(c, st.src, IF dst.type = "VAR" THEN toAny ELSE toVarOrConst, NoExpr))
MirAssignOp(st, c) ==
  OpFrom(st, c.e, IF c.e.type = "VAR" THEN c ELSE MoveTo(NewVar(c, c.e.kind), c.e.kind, c.e))

Moved(dst, c) == IF c.e = dst THEN c ELSE Add(c, MirMov(dst, dst.kind, c.e))
MirAssignTo(st, c) ==
  CASE st.op \in DOMAIN Op2OfAssign -> MirAssignOp(st, c)
    [] st.op = "ASSIGN" -> Moved(c.e, Simplify(c, st.src, MaskFor(c.e), c.e))
    [] OTHER -> Error(c)
MirAssign(c, st) == MirAssignTo(st, Simplify(c, st.dst, toAny, NoExpr))

\* The operands of a conditional jump are not kept from being both in memory.
AddJump(st, x, c) == Add(c, MirJump(JumpKind(st.op, x.kind), CondJumps[st.op], st.to, x, c.e))
JumpFrom(st, c) == AddJump(st, c.e, Simplify(c, st.y, toAny, NoExpr))
MirCondJump(c, st) == JumpFrom(st, Simplify(c, st.x, toAny, NoExpr))

\* The call is the last of the children, which are all simplified before it
\* is compiled once more, for its results.
CallAgain(call, places, c) == MirCall(c, call, Rets(places))
CallOnce(call, c) == CallAgain(call, c.e, Simplify(c, call, toVarOrMem, NoExpr))
MirAssignCall(c, st) ==
  LET place(d, x) == Simplify(d, x, toVarOrMem, NoExpr)
  IN CallOnce(st.call, Each(place, c, st.dsts))

AddRet(c) == Add(c, [mir |-> "RET", args |-> c.e])
MirReturn(c, st) ==
  LET arg(d, x) == Simplify(d, x, toVar, NoExpr)
  IN AddRet(Each(arg, c, st.args))

LabelOnly(c) == IF c.e.type = "LABEL" THEN Add(c, ExprStmt(c.e)) ELSE c
MirCompile(c, st) ==
  CASE st.ir = "assign" -> MirAssign(c, st)
    [] st.ir = "step" -> MirStep(c, st)
    [] st.ir = "goto" -> Add(c, [mir |-> "JMP", to |-> st.to])
    [] st.ir = "jump" /\ st.op \in DOMAIN CondJumps -> MirCondJump(c, st)
    [] st.ir = "expr" -> LabelOnly(Simplify(c, st.x, toAny, NoExpr))
    [] st.ir = "assign_call" -> MirAssignCall(c, st)
    [] st.ir = "return" -> MirReturn(c, st)
    [] st.ir = "set" -> c
    [] OTHER -> Error(c)
=============================================================================
