------------------------------ MODULE X64Select ------------------------------
(***************************************************************************)
(* onejit::x64::Compiler: the x86_64 instructions for the code of a        *)
(* function, before it has registers.  An instruction is                   *)
(*   [x86, dst, src]   a move, LEA, CMP or arithmetic                      *)
(*   [x86, dst]        INC, DEC       [x86 |-> "J" or "JMP", op, to]       *)
(*   [x86 |-> "CALL", dst, args]      [x86 |-> "RET", args]                *)
(* or a statement of the IR: where the compiler says TODO it keeps the     *)
(* statement as it was.  The lowering has put what an address is made of   *)
(* into variables, memory and constants: no tuple reaches an address.      *)
(***************************************************************************)
EXTENDS Exprs

X86(op, dst, src) == [x86 |-> op, dst |-> dst, src |-> src]

\* What to_var_const() and to_var_mem_const() leave as it is.
ConstTypes == {"VAR", "CONST", "LABEL"}
MemConstTypes == ConstTypes \cup {"MEM", "AT"}

\* The expression c.e put into a variable, or left as it is if it is of one of the types.
X64ToVar(c) ==
  LET v == NewVar(c, c.e.kind)
  IN IF c.e.type \in {"VAR", "NONE"} THEN c ELSE Add(v, Assign("ASSIGN", v.e, c.e))
VarUnless(types, c) == IF c.e.type \in types THEN c ELSE X64ToVar(c)
ToVarConst(c) == VarUnless(ConstTypes, c)
ToVarMemConst(c) == VarUnless(MemConstTypes, c)

(***************************************************************************)
(* Address::insert(): c.e is the address, or NoExpr once it did not fit.   *)
(***************************************************************************)

EmptyAddress(kind) == At(kind, NoExpr, 0, NoExpr, NoExpr, 1)
\* The offset of an instruction has 32 bits.
FitsOffset_Always(n) == TRUE
FitsOffset(n) == Wrap(Width32, TRUE, n) = n

InsertVar(a, v) ==
  CASE a.base = NoExpr -> With(v, [a EXCEPT !.base = v.e])
    [] a.base # NoExpr /\ a.index = NoExpr -> With(v, [a EXCEPT !.index = v.e, !.scale = 1])
Insert(c, e) ==
  LET a == c.e IN
  CASE a = NoExpr -> c
    [] a # NoExpr /\ e.type = "LABEL" /\ a.label = NoExpr -> With(c, [a EXCEPT !.label = e])
    [] a # NoExpr /\ e.type = "CONST" /\ a.offset = 0 /\ ~IsFloat(e.kind) /\ FitsOffset(Int64Of(e.val)) ->
         With(c, [a EXCEPT !.offset = Wrap(Width32, TRUE, Int64Of(e.val))])
    [] OTHER -> IF NoExpr \in {a.base, a.index} THEN InsertVar(a, X64ToVar(With(c, e))) ELSE With(c, NoExpr)
InsertAll(c, kind, es) == FoldLeft(Insert, With(c, EmptyAddress(kind)), es)

(***************************************************************************)
(* simplify(Mem): an argument that does not fit is tried again as a        *)
(* variable, and else the sum of all of them becomes the address.  done is *)
(* [c, kind, args, full].                                                  *)
(***************************************************************************)

SumInstead(done, sum) == [done EXCEPT !.c = InsertAll(sum, done.kind, <<sum.e>>), !.full = TRUE]
InsertAgain(done, i, arg, c) ==
  IF c.e # NoExpr THEN [done EXCEPT !.c = c]
  ELSE SumInstead(done, X64ToVar(With(c, Tuple("Ptr", "ADD", [done.args EXCEPT ![i] = arg]))))
InsertAsVar(done, i, arg) == InsertAgain(done, i, arg.e, Insert(With(arg, done.c.e), arg.e))
InsertArg(done, i, c) ==
  IF c.e # NoExpr THEN [done EXCEPT !.c = c] ELSE InsertAsVar(done, i, ToVarConst(With(c, done.args[i])))
AddressOf(c, kind, args) ==
  LET insert(done, i) == IF done.full THEN done ELSE InsertArg(done, i, Insert(done.c, done.args[i]))
  IN FoldLeft(insert, [c |-> With(c, EmptyAddress(kind)), kind |-> kind, args |-> args, full |-> FALSE],
              [i \in DOMAIN args |-> i]).c

(***************************************************************************)
(* Expressions.                                                            *)
(***************************************************************************)

RECURSIVE Select(_, _)

Operand(c, e) == ToVarMemConst(Select(c, e))
\* Of two operands in memory, the second, c.e, becomes a variable.
NotBothMem(x, c) == IF IsMem(x) /\ IsMem(c.e) THEN X64ToVar(c) ELSE c
\* simplify_binary(): c.e is the pair of operands.
WithSecond(x, c) == With(c, <<x, c.e>>)
OperandsAfter(c, y) == WithSecond(c.e, NotBothMem(c.e, Operand(c, y)))
TwoOperands(c, x, y) == OperandsAfter(Operand(c, x), y)

MemSelected(c, kind) == AddressOf(c, kind, c.e)
Select(c, e) ==
  CASE e.type = "MEM" -> MemSelected(Each(Select, c, e.args), e.kind)
    [] e.type = "UNARY" -> LET x == Operand(c, e.x) IN With(x, Unary(e.kind, e.op, x.e))
    [] e.type = "BINARY" ->
         LET xy == TwoOperands(c, e.x, e.y) IN With(xy, Binary(e.op, xy.e[1], xy.e[2]))
    [] e.type \in {"VAR", "LABEL", "CONST", "TUPLE"} -> With(c, e)
    [] OTHER -> Error(c)

(***************************************************************************)
(* Statements.                                                             *)
(***************************************************************************)

OpOfAssign(op) == IF op = "QUO_ASSIGN" THEN "DIV" ELSE Op2OfAssign[op]
AssignOp(op, dst, c) ==
  Add(c, IF op = "REM_ASSIGN" THEN Assign(op, dst, c.e) ELSE X86(OpOfAssign(op), dst, c.e))

\* A sum fits LEA when it is the address of some memory.
AssignSum(st, dst, c) == Add(c, IF c.e = NoExpr THEN st ELSE X86("LEA", dst, c.e))
AssignTuple(st, dst, c) ==
  CASE c.e.op = "ADD" /\ dst.type = "VAR" /\ Is64(dst.kind) -> AssignSum(st, dst, InsertAll(c, "Ptr", c.e.args))
    [] c.e.op = "CALL" -> Add(c, [x86 |-> "CALL", dst |-> dst, args |-> c.e.args])
    [] OTHER -> Add(c, st)

\* simplify_assign(), of c.e to dst: unary and binary expressions stay IR.
AssignSelected(st, dst, c) ==
  CASE st.op \in DOMAIN Op2OfAssign -> AssignOp(st.op, dst, ToVarMemConst(c))
    [] st.op = "ASSIGN" /\ c.e.type \in MemConstTypes -> Add(c, X86("MOV", dst, c.e))
    [] st.op = "ASSIGN" /\ c.e.type \in {"UNARY", "BINARY"} -> Add(c, st)
    [] st.op = "ASSIGN" /\ c.e.type = "TUPLE" -> AssignTuple(st, dst, c)
    [] OTHER -> Error(c)
AssignTo(st, src, c) == AssignSelected(st, c.e, NotBothMem(c.e, With(c, src)))
AssignFrom(st, c) == AssignTo(st, c.e, Operand(c, st.dst))
SelectAssign(c, st) == AssignFrom(st, Select(c, st.src))

SelectJump(st, c) ==
  Add(Add(c, X86("CMP", c.e[1], c.e[2])), [x86 |-> "J", op |-> st.op, to |-> st.to])

X64Compile(c, st) ==
  CASE st.ir = "assign" -> SelectAssign(c, st)
    [] st.ir = "step" -> LET x == Select(c, st.dst) IN Add(x, [x86 |-> st.op, dst |-> x.e])
    [] st.ir = "goto" -> Add(c, [x86 |-> "JMP", to |-> st.to])
    [] st.ir = "jump" /\ st.op \in DOMAIN CondJumps -> SelectJump(st, TwoOperands(c, st.x, st.y))
    [] st.ir = "expr" -> LET x == Select(c, st.x) IN Add(x, ExprStmt(x.e))
    [] st.ir \in {"assign_call", "set"} -> Add(c, st)
    [] st.ir = "return" -> Add(c, [x86 |-> "RET", args |-> st.args])
    [] OTHER -> Error(c)
=============================================================================
