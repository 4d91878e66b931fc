------------------------------- MODULE Flatten -------------------------------
(***************************************************************************)
(* onejit::Compiler on expressions: what it leaves of them in the code for *)
(* NOARCH, which the back ends start from.  Calls, tuples in tuples, the   *)
(* addresses of places and the operands that && and || may skip are put    *)
(* into variables first.  Loops, Cond and Switch are in Lowering.  The     *)
(* body of a function is a block; a tuple has arguments.                   *)
(***************************************************************************)
EXTENDS Exprs

NewLabel(c) == [c EXCEPT !.label = @ + 1, !.e = LabelExpr(c.label)]

\* What to_var_const() and to_var_mem_const() leave as it is.
SimpleTypes == {"VAR", "CONST", "LABEL"}
OperandTypes == SimpleTypes \cup {"MEM"}

(***************************************************************************)
(* Expressions: c.e is what the last one became.                           *)
(***************************************************************************)

RECURSIVE Flat(_, _)

\* Into the variable v, with the code of Flat.
PutInto(v, c) == With(Add(c, Assign("ASSIGN", v, c.e)), v)
FlatInto(e, c) == PutInto(c.e, Flat(c, e))
FlatToVar(c, e) == IF e.type = "VAR" THEN With(c, e) ELSE FlatInto(e, NewVar(c, e.kind))
FlatUnless(types, c) == IF c.e.type \in types THEN c ELSE FlatToVar(c, c.e)

\* to_place(): memory at one address, in a variable or constant.
PlaceAt(kind, c) == With(c, Mem(kind, <<c.e>>))
ToPlace(c) ==
  IF c.e.type = "MEM" THEN PlaceAt(c.e.kind, FlatUnless(SimpleTypes, Flat(c, Tuple("Ptr", "ADD", c.e.args)))) ELSE c

\* An operand that changed makes a new Unary of its own kind.
UnaryKind(op, x) == IF op = "NOT1" THEN "Bool" ELSE x.kind
FlatUnary(e, c) == With(c, IF c.e = e.x THEN e ELSE Unary(UnaryKind(e.op, c.e), e.op, c.e))

NegateCondJump(op) ==
  LET negated == [ASM_JA |-> "ASM_JBE", ASM_JAE |-> "ASM_JB", ASM_JB |-> "ASM_JAE", ASM_JBE |-> "ASM_JA",
                  ASM_JE |-> "ASM_JNE", ASM_JG |-> "ASM_JLE", ASM_JGE |-> "ASM_JL", ASM_JNE |-> "ASM_JE"]
  IN IF op \in DOMAIN negated THEN negated[op] ELSE op
CondJumpOf(op, signed) ==
  CASE op = "LSS" -> IF signed THEN "ASM_JL" ELSE "ASM_JB"
    [] op = "LEQ" -> IF signed THEN "ASM_JLE" ELSE "ASM_JBE"
    [] op = "GTR" -> IF signed THEN "ASM_JG" ELSE "ASM_JA"
    [] op = "GEQ" -> IF signed THEN "ASM_JGE" ELSE "ASM_JAE"
    [] op = "EQL" -> "ASM_JE" [] op = "NEQ" -> "ASM_JNE" [] OTHER -> "BAD_ST3"

JumpOn(test, negate, to, c) ==
  LET jop == CondJumpOf(test.op, IsSigned(test.x.kind)) IN
  CASE {test.x.type, test.y.type} = {"CONST"} ->
         IF (Compute(test.x.kind, test.op, test.x.val, test.y.val) = 0) = negate THEN Add(c, Goto(to)) ELSE c
    [] OTHER -> Add(c, CondJump(IF negate THEN NegateCondJump(jop) ELSE jop, to, test.x, test.y))
RECURSIVE JumpUnder(_, _, _)
JumpUnder(negate, to, c) ==
  CASE c.e.type = "UNARY" /\ c.e.op = "NOT1" -> JumpUnder(~negate, to, With(c, c.e.x))
    [] c.e.type = "BINARY" -> JumpOn(c.e, negate, to, c)
    [] OTHER -> JumpOn(Binary("NEQ", c.e, Const(c.e.kind, 0)), negate, to, c)
FlatJumpIf(c, to, test) == JumpUnder(FALSE, to, Flat(c, test))

\* simplify_land(), simplify_lor(): decides is what && or || is when x is.
NotOf(x) == Unary("Bool", "NOT1", x)
Decides(op, x) == (x.val # 0) = (op = "LOR")
IsComparison(x) == x.type = "BINARY" /\ x.op \in Comparisons
\* Over y, unless x leaves it open what the result is.
JumpOver(op, x, label, c) == FlatJumpIf(c, label.id, IF op = "LAND" THEN NotOf(x) ELSE x)
AndThen(y, dst, label, c) == With(Add(PutInto(dst, Flat(c, y)), ExprStmt(label)), dst)
LazilyTo(op, x, y, dst, c) ==
  AndThen(y, dst, c.e,
    IF IsComparison(x) THEN JumpOver(op, x, c.e, Add(c, Assign("ASSIGN", dst, Const("Bool", Truth(op = "LOR")))))
    ELSE JumpOver(op, dst, c.e, Add(c, Assign("ASSIGN", dst, x))))
Lazily(op, x, y, c) == LazilyTo(op, x, y, c.e, NewLabel(c))
LogicalFrom(op, x, y, c) ==
  CASE x.type = "CONST" -> With(c, IF Decides(op, x) THEN x ELSE y)
    [] x.type # "CONST" /\ y.type = "CONST" ->
         IF Decides(op, y) THEN With(Add(c, ExprStmt(x)), y) ELSE With(c, x)
    [] x.type # "CONST" /\ y.type = "VAR" -> With(c, Binary(op, x, y))
    [] OTHER -> Lazily(op, x, y, NewVar(c, "Bool"))
BinaryFrom(op, x, c) ==
  IF op \in {"LAND", "LOR"} THEN LogicalFrom(op, x, c.e, c) ELSE With(c, Binary(op, x, c.e))
FlatBinary(e, c) == BinaryFrom(e.op, c.e, Flat(c, e.y))

\* Memory whose address has changed becomes a tuple with the op of memory.
FlatTuple(e, c) ==
  CASE c.e = e.args /\ (e.type = "MEM" \/ Len(e.args) > 1) -> With(c, e)
    [] e.type = "TUPLE" /\ e.op # "MEM_OP" /\ Len(e.args) = 1 -> With(c, c.e[1])
    [] OTHER -> With(c, Tuple(e.kind, IF e.type = "MEM" THEN "MEM_OP" ELSE e.op, c.e))

\* compile(Call) without SimplifyCall: the call, with variables as arguments.
CallFrom(call, c) == With(c, [call EXCEPT !.args = c.e])
FlatCall(c, call) == CallFrom(call, Each(FlatToVar, c, call.args))
CallInto(call, c) == PutInto(c.e, With(c, call))
CallToVar(c) == CallInto(c.e, NewVar(c, c.e.kind))

Flat(c, e) ==
  LET child(d, x) == FlatUnless(OperandTypes, Flat(d, x)) IN
  CASE e.type = "UNARY" -> FlatUnary(e, Flat(c, e.x))
    [] e.type = "BINARY" -> FlatBinary(e, Flat(c, e.x))
    [] e.type = "MEM" \/ (e.type = "TUPLE" /\ ~IsCall(e)) -> FlatTuple(e, Each(child, c, e.args))
    [] IsCall(e) -> CallToVar(FlatCall(c, e))
    [] OTHER -> With(c, e)

(***************************************************************************)
(* Statements.                                                             *)
(***************************************************************************)

\* The place first: its side effects come before those of the source.
AssignFlat(op, dst, c) == Add(c, Assign(op, dst, c.e))
FlatAssignTo(st, c) == AssignFlat(st.op, c.e, Flat(c, st.src))
FlatAssign(c, st) == FlatAssignTo(st, ToPlace(Flat(c, st.dst)))

StepFlat(op, c) == Add(c, Step(op, c.e))

AddAssignCall(call, c) == Add(c, AssignCall(c.e, call))
AssignCallTo(dsts, c) ==
  LET place(d, x) == ToPlace(With(d, x)) IN AddAssignCall(c.e, Each(place, c, dsts))

\* Result by result, unless they are what is returned.
FlatReturn(c, args, results) ==
  LET store(d, i) ==
        IF args[i] = results[i] THEN d
        ELSE PutInto(results[i], Flat(IF args[i].kind = results[i].kind THEN d ELSE Error(d), args[i]))
  IN IF Len(args) # Len(results) THEN Add(Error(c), Return(args))
     ELSE Add(FoldLeft(store, c, [i \in DOMAIN args |-> i]), Return(results))

RECURSIVE FlatCompile(_, _, _)

\* compile_add(): an expression is kept too, as in a block it is not.
AddFlat(c) == Add(c, ExprStmt(c.e))
CompileAdd(c, st, results) == IF st.ir = "expr" THEN AddFlat(Flat(c, st.x)) ELSE FlatCompile(c, st, results)

\* Then, and else over a jump, after the jump on c.e over the first.
ElseAfter(else, first, last, results, c) ==
  Add(IF else = NoStmt THEN c ELSE CompileAdd(Add(Add(c, Goto(last.id)), ExprStmt(first)), else, results),
      ExprStmt(last))
IfJump(st, test, first, results, c) ==
  ElseAfter(st.else, first, c.e, results,
            CompileAdd(FlatJumpIf(c, first.id, NotOf(test)), st.then, results))
IfLabels(st, test, results, c) ==
  IfJump(st, test, c.e, results, IF st.else = NoStmt THEN c ELSE NewLabel(c))
FlatIf(st, results, c) ==
  IF c.e.type = "CONST" THEN CompileAdd(c, IF c.e.val # 0 THEN st.then ELSE st.else, results)
  ELSE IfLabels(st, c.e, results, NewLabel(c))

FlatCompile(c, st, results) ==
  CASE st.ir = "assign" -> FlatAssign(c, st)
    [] st.ir = "step" -> StepFlat(st.op, Flat(c, st.dst))
    [] st.ir = "jump_if" -> FlatJumpIf(c, st.to, st.test)
    [] st.ir = "if" -> FlatIf(st, results, Flat(c, st.test))
    [] st.ir = "expr" -> Flat(c, st.x)   \* what it is is dropped
    [] st.ir = "assign_call" -> AssignCallTo(st.dsts, FlatCall(c, st.call))
    [] st.ir = "return" -> FlatReturn(c, st.args, results)
    [] st.ir \in {"break", "continue", "fallthrough", "case", "default"} -> Error(c)   \* misplaced
    [] st = NoStmt -> c
    [] OTHER -> Add(c, st)

Prologue(variables, params) ==
  LET entry == Add(NoCode(variables), ExprStmt(LabelExpr(0)))
  IN IF params = 0 THEN entry ELSE Add(entry, SetVars([i \in 1 .. params |-> i]))
Epilogue(c, results) ==
  IF Last(c.code).ir # "return" THEN Add(c, Return(results)) ELSE c
FlatBody(body, variables, params, results) ==
  LET next(c, st) == FlatCompile(c, st, results)
  IN Epilogue(FoldLeft(next, Prologue(variables, params), body), results)
=============================================================================
