------------------------------ MODULE Lowering ------------------------------
(***************************************************************************)
(* onejit::Compiler, the pass of onejit/compiler.cpp that lowers the       *)
(* structured IR (If, For, Cond, Switch, break, continue, fallthrough, &&, *)
(* ||) of a function to a flat list of labels, jumps and simple nodes.     *)
(*                                                                         *)
(* Statements are records with a field op, expressions records with a      *)
(* field e.  Only what control flow depends on is kept of an expression:   *)
(*   const v | void     a constant; VoidExpr, VoidConst                    *)
(*   var id             a Bool variable of the program                     *)
(*   temp id            a Var created by the compiler                      *)
(*   cmp op signed id   a comparison of two variables, named id            *)
(*   call id            a call, which has side effects                     *)
(*   not x | and x y | or x y                                              *)
(* A simple statement, e.g. an assignment of variables, is [op "do", id].  *)
(* compile(Node) is a function from the compiler's state to its next one:  *)
(* each Compile* operator takes and returns a record with node_ (code),    *)
(* the labels and Vars created so far, and error_.                         *)
(***************************************************************************)
EXTENDS Integers, Sequences

CONSTANT ResultN   \* how many values the function returns

None == 0   \* an invalid Label, e.g. label_break() outside loops

Void == [op |-> "void"]
VoidExpr == [e |-> "void"]
False == [e |-> "const", v |-> FALSE]
True == [e |-> "const", v |-> TRUE]
Not(x) == [e |-> "not", x |-> x]
Temp(id) == [e |-> "temp", id |-> id]
Result(i) == [e |-> "res", id |-> i]

IsConst(e) == e.e \in {"const", "void"}
Val(e) == e.e = "const" /\ e.v
IsVar(e) == e.e \in {"var", "temp", "res"}

-----------------------------------------------------------------------------
(* The compiler's state.  Labels are numbered by Func::new_label() in the  *)
(* order of their creation; label 0 is the function itself.                *)

Empty == [code |-> << >>, labels |-> 0, temps |-> 0, errors |-> 0]

Add(st, instr) == [st EXCEPT !.code = Append(@, instr)]
Error(st) == [st EXCEPT !.errors = @ + 1]
NewLabels(st, n) == [st EXCEPT !.labels = @ + n]
NewLabel(st) == NewLabels(st, 1)
NewTemp(st) == [st EXCEPT !.temps = @ + 1]

Label(l) == [op |-> "label", l |-> l]
Goto(l) == [op |-> "goto", l |-> l]
AddIf(cond, st, instr) == IF cond THEN Add(st, instr) ELSE st
AddLabel(st, l) == AddIf(l # None, st, Label(l))   \* unless it is invalid
Set(dst, src) == [op |-> "set", dst |-> dst, src |-> src]
CondJump(jop, x, l) == [op |-> "jump_if", jop |-> jop, x |-> x, l |-> l]
ReturnOp(vals) == [op |-> "return", vals |-> vals]

Results == [i \in 1 .. ResultN |-> Result(i)]

\* The tops of the stacks break_, continue_ and fallthrough_: each construct
\* pushes its labels before it compiles its body and pops them after it.
NoTargets == [brk |-> None, cont |-> None, fall |-> None]

-----------------------------------------------------------------------------
(* Conditional jumps: signed comparisons have JL JLE JG JGE, unsigned ones *)
(* JB JBE JA JAE.                                                          *)

ComparisonToCondJump(op, signed) ==
  CASE op = "EQL" -> "JE"
    [] op = "NEQ" -> "JNE"
    [] op = "LSS" -> IF signed THEN "JL" ELSE "JB"
    [] op = "LEQ" -> IF signed THEN "JLE" ELSE "JBE"
    [] op = "GTR" -> IF signed THEN "JG" ELSE "JA"
    [] op = "GEQ" -> IF signed THEN "JGE" ELSE "JAE"
    [] OTHER -> "BAD"

\* negate_condjump() has no case for JL and JLE: it returns them unchanged.
NegateCondJump(jop) ==
  LET neg == [JA |-> "JBE", JAE |-> "JB", JB |-> "JAE", JBE |-> "JA",
              JE |-> "JNE", JG |-> "JLE", JGE |-> "JL", JNE |-> "JE"]
  IN  IF jop \in DOMAIN neg THEN neg[jop] ELSE jop

-----------------------------------------------------------------------------
(* Expressions.  CompileExpr returns the state and the expression whose    *)
(* value the code emitted so far leaves behind.                            *)

RECURSIVE CompileExpr(_, _)
RECURSIVE StripNot(_)

\* JumpIf looks through boolean negations.
StripNot(e) ==
  IF e.e = "not"
  THEN LET r == StripNot(e.x) IN [x |-> r.x, negate |-> ~r.negate]
  ELSE [x |-> e, negate |-> FALSE]

JumpOp(e) ==
  CASE e.e = "cmp" -> ComparisonToCondJump(e.op, e.signed)
    [] e.e \in {"and", "or"} -> "BAD"
    [] OTHER -> "JNE"   \* x != 0

Negated(jop, negate) == IF negate THEN NegateCondJump(jop) ELSE jop

\* The end of compile(JumpIf), for test t.x, under Not if t.negate.
Jump(st, to, t) ==
  IF IsConst(t.x) THEN AddIf(Val(t.x) # t.negate, st, Goto(to))
                  ELSE Add(st, CondJump(Negated(JumpOp(t.x), t.negate), t.x, to))

\* compile(JumpIf)
CompileJumpIf(st0, to, test) ==
  LET r == CompileExpr(st0, test) IN Jump(r.st, to, StripNot(r.e))

\* compile(Assign), for a destination that is a Var
CompileAssign(st0, dst, src) ==
  LET r == CompileExpr(st0, src) IN Add(r.st, Set(dst, r.e))

\* The value of x && y or x || y in a new Var: it is that of x until the code
\* that follows a conditional jump assigns it that of y.
InVar(st0, op, x, y) ==
  LET shortcut == op = "or"   \* the value of x that makes y irrelevant
      dst   == Temp(st0.temps + 1)
      label == st0.labels + 1
      init  == IF x.e = "cmp" THEN [e |-> "const", v |-> shortcut] ELSE x
      test  == IF x.e = "cmp" THEN x ELSE dst
      st1   == CompileJumpIf(Add(NewLabel(NewTemp(st0)), Set(dst, init)), label,
                             IF shortcut THEN test ELSE Not(test))
  IN  [st |-> Add(CompileAssign(st1, dst, y), Label(label)), e |-> dst]

\* simplify_land() and simplify_lor()
SimplifyBoolean(st, op, x, y) ==
  LET shortcut == op = "or"
  IN  CASE IsConst(x) -> [st |-> st, e |-> IF Val(x) = shortcut THEN x ELSE y]
        [] ~IsConst(x) /\ IsConst(y) ->
             IF Val(y) = shortcut THEN [st |-> Add(st, [op |-> "eval", x |-> x]), e |-> y]
                                  ELSE [st |-> st, e |-> x]
        [] ~IsConst(x) /\ IsVar(y) ->
             [st |-> st, e |-> [e |-> op, x |-> x, y |-> y]]   \* no simplification
        [] OTHER -> InVar(st, op, x, y)

CompileExpr(st0, e) ==
  CASE e.e = "not" ->
         LET r == CompileExpr(st0, e.x) IN [st |-> r.st, e |-> Not(r.e)]
    [] e.e \in {"and", "or"} ->
         LET rx == CompileExpr(st0, e.x)
             ry == CompileExpr(rx.st, e.y)
         IN  SimplifyBoolean(ry.st, e.e, rx.e, ry.e)
    [] e.e = "call" ->
         LET st1 == NewTemp(st0)
         IN  [st |-> Add(st1, Set(Temp(st1.temps), e)), e |-> Temp(st1.temps)]
    [] OTHER -> [st |-> st0, e |-> e]

\* to_var()
ToVar(st0, e) ==
  IF IsVar(e) THEN [st |-> st0, e |-> e]
  ELSE LET st1 == NewTemp(st0)
       IN  [st |-> CompileAssign(st1, Temp(st1.temps), e), e |-> Temp(st1.temps)]

-----------------------------------------------------------------------------
(* Statements.                                                             *)

RECURSIVE Compile(_, _, _)
RECURSIVE CompileAll(_, _, _)
RECURSIVE CompileArms(_, _, _, _)
RECURSIVE CompileCases(_, _, _, _)

\* Mutant: no error outside loops and cases.
CompileStmt0_Silent(st0, node, ctx) ==
  LET to == IF node.op = "continue" THEN ctx.cont ELSE ctx.brk
  IN  IF to = None THEN st0 ELSE Add(st0, Goto(to))

\* compile(Stmt0): break, continue, fallthrough
CompileStmt0(st0, node, ctx) ==
  LET to == CASE node.op = "break" -> ctx.brk
              [] node.op = "continue" -> ctx.cont
              [] node.op = "fallthrough" -> ctx.fall
  IN  IF to = None THEN Error(st0) ELSE Add(st0, Goto(to))

\* Mutant: jumps to the then branch.
CompileIf_NotNegated(st0, node, ctx) ==
  LET r    == CompileExpr(st0, node.test)
      st1  == NewLabel(r.st)
      st2  == Compile(CompileJumpIf(st1, st1.labels, r.e), node.then, ctx)
  IN  Add(st2, Label(st1.labels))

\* compile(If), when test is not a constant
CompileBranches(st0, test, node, ctx) ==
  LET have_else == node.else # Void
      else      == st0.labels + 1
      endif     == IF have_else THEN else + 1 ELSE else
      st1       == [st0 EXCEPT !.labels = endif]
      st2       == Compile(CompileJumpIf(st1, else, Not(test)), node.then, ctx)
      st3       == IF have_else
                   THEN Compile(Add(Add(st2, Goto(endif)), Label(else)), node.else, ctx)
                   ELSE st2
  IN  Add(st3, Label(endif))

\* compile(If)
CompileIf(st0, node, ctx) ==
  LET r == CompileExpr(st0, node.test)
  IN  IF IsConst(r.e) THEN Compile(r.st, IF Val(r.e) THEN node.then ELSE node.else, ctx)
                      ELSE CompileBranches(r.st, r.e, node, ctx)

\* Mutant: continue goes back to the body without testing.
CompileFor_ContinueToLoop(st0, node, ctx) ==
  LET st1  == Compile(st0, node.init, ctx)
      st2  == NewLabels(st1, 3)
      loop == st1.labels + 1
      test == st1.labels + 2
      brk  == st1.labels + 3
      in   == [ctx EXCEPT !.brk = brk, !.cont = loop]
      st3  == Compile(Add(Add(st2, Goto(test)), Label(loop)), node.body, in)
      st4  == Compile(st3, node.post, in)
  IN  Add(CompileJumpIf(Add(st4, Label(test)), loop, node.test), Label(brk))

\* compile(For).  The label of continue is after post.  have_test is false
\* only for a constant test that is VoidExpr and true.
CompileFor(st0, node, ctx) ==
  LET st1       == Compile(st0, node.init, ctx)
      have_test == IsConst(node.test) => node.test # VoidExpr \/ ~Val(node.test)
      st2       == NewLabels(st1, 3)
      loop      == st1.labels + 1
      cont      == st1.labels + 2
      brk       == st1.labels + 3
      in        == [ctx EXCEPT !.brk = brk, !.cont = cont]
      st3       == Add(Add(st2, Goto(cont)), Label(loop))
      st4       == Compile(Compile(st3, node.body, in), node.post, in)
      st5       == CompileJumpIf(Add(st4, Label(cont)), loop, node.test)
  IN  IF IsConst(node.test) /\ have_test THEN st1 ELSE Add(st5, Label(brk))

\* compile(Block): the value of an expression is not used.
CompileAll(st0, list, ctx) ==
  IF list = << >> THEN st0
  ELSE CompileAll(Compile(st0, Head(list), ctx), Tail(list), ctx)

\* compile(Cond): arms still to compile, each a test and a body.
CompileArms(st0, arms, end, ctx) ==
  LET last == Len(arms) = 1
      st1  == IF last THEN st0 ELSE NewLabel(st0)
      next == IF last THEN end ELSE st1.labels
      st2  == Compile(CompileJumpIf(st1, next, Not(Head(arms).test)), Head(arms).body, ctx)
      st3  == IF last THEN st2 ELSE Add(st2, Goto(end))
  IN  IF arms = << >> THEN st0
      ELSE CompileArms(Add(st3, Label(next)), Tail(arms), end, ctx)

CompileCond(st0, node, ctx) ==
  IF node.arms = << >> THEN st0
  ELSE LET st1 == NewLabel(st0) IN CompileArms(st1, node.arms, st1.labels, ctx)

\* Mutant: the label fallthrough jumps to is not placed.
CompileCases_NoFallthroughLabel(st0, cases, at, ctx) ==
  LET c    == Head(cases)
      last == Len(cases) = 1
      next == IF last THEN at.brk ELSE st0.labels + 1
      fall == IF last THEN at.brk ELSE st0.labels + 2
      st1  == AddLabel(NewLabels(st0, 2), at.this)
      neq  == [e |-> "cmp", op |-> "NEQ", signed |-> FALSE, id |-> c.id]
      st2  == IF c.default THEN st1 ELSE CompileJumpIf(st1, next, neq)
      st3  == Compile(st2, c.body, [ctx EXCEPT !.brk = at.brk, !.fall = fall])
  IN  IF cases = << >> THEN st0
      ELSE CompileCases(Add(st3, Goto(at.brk)), Tail(cases),
                        [at EXCEPT !.this = next, !.fall = fall], ctx)

\* compile(Switch): cases still to compile.  at holds the label that tests the
\* next case, the one fallthrough enters it by, the one that enters a Default
\* that is not last, and the one after the Switch.
CompileCases(st0, cases, at, ctx) ==
  LET c     == Head(cases)
      last  == Len(cases) = 1
      next  == IF ~last THEN st0.labels + 1
               ELSE IF at.default # None THEN at.default ELSE at.brk
      fall  == IF last THEN at.brk ELSE st0.labels + 2
      skip  == c.default /\ ~last      \* entered only if no other case matches
      new   == skip /\ at.fall = None
      st1   == AddLabel(NewLabels(st0, IF last THEN 0 ELSE 2), at.this)
      st2   == AddIf(skip, NewLabels(st1, IF new THEN 1 ELSE 0), Goto(next))
      enter == IF new THEN st2.labels ELSE at.fall
      neq   == [e |-> "cmp", op |-> "NEQ", signed |-> FALSE, id |-> c.id]
      st3   == IF c.default THEN st2 ELSE CompileJumpIf(st2, next, neq)
      st4   == Compile(AddLabel(st3, enter), c.body,
                       [ctx EXCEPT !.brk = at.brk, !.fall = fall])
  IN  IF cases = << >> THEN st0
      ELSE CompileCases(AddIf(~last, st4, Goto(at.brk)), Tail(cases),
             [at EXCEPT !.this = next, !.fall = fall,
                        !.default = IF skip THEN enter ELSE @], ctx)

CompileSwitch(st0, node, ctx) ==
  LET defaults == {i \in DOMAIN node.cases : node.cases[i].default}
      r   == ToVar(st0, node.expr)
      st1 == NewLabel(r.st)
      at  == [this |-> None, fall |-> None, default |-> None, brk |-> st1.labels]
  IN  IF \E i, j \in defaults : i # j THEN Error(st0)   \* duplicate Default
      ELSE Add(CompileCases(st1, node.cases, at, ctx), Label(st1.labels))

\* compile(Return): the loop over the values to return, from the i-th on.
RECURSIVE ReturnValues(_, _, _)
ReturnValues(st0, vals, i) ==
  IF i > Len(vals) THEN st0
  ELSE LET r == CompileExpr(st0, vals[i])
       IN  ReturnValues(IF vals[i] = Result(i) THEN st0
                        ELSE Add(r.st, Set(Result(i), r.e)), vals, i + 1)

CompileReturn(st0, node) ==
  IF Len(node.vals) # ResultN
  THEN Add(Error(st0), ReturnOp(node.vals))   \* number of return values does not match
  ELSE Add(ReturnValues(st0, node.vals, 1), ReturnOp(Results))

\* compile(Node)
Compile(st0, node, ctx) ==
  CASE node.op = "void" -> st0
    [] node.op = "do" -> Add(st0, node)
    [] node.op = "expr" -> CompileExpr(st0, node.x).st
    [] node.op \in {"break", "continue", "fallthrough"} -> CompileStmt0(st0, node, ctx)
    [] node.op = "if" -> CompileIf(st0, node, ctx)
    [] node.op = "for" -> CompileFor(st0, node, ctx)
    [] node.op = "block" -> CompileAll(st0, node.list, ctx)
    [] node.op = "cond" -> CompileCond(st0, node, ctx)
    [] node.op = "switch" -> CompileSwitch(st0, node, ctx)
    [] node.op = "return" -> CompileReturn(st0, node)

\* compile(Func): prologue, body, and a RETURN unless the code ends with one.
CompileFunc(body) ==
  LET st   == Compile(Add(Empty, Label(0)), body, NoTargets)
      last == st.code[Len(st.code)]
  IN  AddIf(last.op # "return", st, ReturnOp(Results))

=============================================================================
