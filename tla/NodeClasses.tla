---------------------------- MODULE NodeClasses ----------------------------
(***************************************************************************)
(* The subclasses of Node: which headers each downcast accepts and which   *)
(* child each accessor reads.  A subclass redefines what it overrides and  *)
(* has the rest of its base.                                               *)
(***************************************************************************)
EXTENDS IrNodes

AnyOp == 0 .. MaxOp

\* bases: the class and those it derives from; get: accessors as the index of
\* the child and its class; rest: the accessor with an index, as the index of
\* its first child and their class.
NodeClass ==
  [name |-> "Node", bases |-> {"Node"}, types |-> Types, ops |-> AnyOp,
   get |-> <<>>, rest |-> <<>>]

Derived(base, name) == [base EXCEPT !.name = name, !.bases = @ \cup {name}]
OfTypes(base, name, types) == [Derived(base, name) EXCEPT !.types = types]
OfOps(base, name, ops) == [Derived(base, name) EXCEPT !.ops = ops]
WithGet(class, get) == [class EXCEPT !.get = get]
WithRest(class, first, as) == [class EXCEPT !.rest = <<first, as>>]

ExprClass == OfTypes(NodeClass, "Expr", VAR .. CONST)
StmtClass == OfTypes(NodeClass, "Stmt", STMT_0 .. STMT_N)
NameClass == OfTypes(NodeClass, "Name", {NAME})
FuncTypeClass == OfTypes(NodeClass, "FuncType", {FTYPE})

ConstClass == OfTypes(ExprClass, "Const", {CONST})
VarClass == OfTypes(ExprClass, "Var", {VAR})
LabelClass == OfTypes(ExprClass, "Label", {LABEL})
UnaryClass == WithGet(OfTypes(ExprClass, "Unary", {UNARY}), [x |-> <<0, "Expr">>])
BinaryClass ==
  WithGet(OfTypes(ExprClass, "Binary", {BINARY}), [x |-> <<0, "Expr">>, y |-> <<1, "Expr">>])
TupleClass == WithRest(OfTypes(ExprClass, "Tuple", {TUPLE, MEM}), 0, "Expr")
MemClass == [OfTypes(TupleClass, "Mem", {MEM}) EXCEPT !.ops = MEM_OP .. MaxOp]
CallClass ==
  WithRest(WithGet(OfOps(TupleClass, "Call", {CALL}),
                   [ftype |-> <<0, "FuncType">>, address |-> <<1, "Expr">>]), 2, "Expr")
CommaClass == OfOps(TupleClass, "Comma", {COMMA})

Stmt0Class == OfTypes(StmtClass, "Stmt0", {STMT_0})
BadStmtClass == OfOps(Stmt0Class, "BadStmt", {BAD_OP})
BreakClass == OfOps(Stmt0Class, "Break", {BREAK})
ContinueClass == OfOps(Stmt0Class, "Continue", {CONTINUE})
FallthroughClass == OfOps(Stmt0Class, "Fallthrough", {FALLTHROUGH})

Stmt1Class == WithGet(OfTypes(StmtClass, "Stmt1", {STMT_1}), [arg |-> <<0, "Expr">>])
GotoClass == WithGet(OfOps(Stmt1Class, "Goto", {GOTO}), [to |-> <<0, "Label">>])
IncClass == WithGet(OfOps(Stmt1Class, "Inc", {INC}), [expr |-> <<0, "Expr">>])
DecClass == WithGet(OfOps(Stmt1Class, "Dec", {DEC}), [expr |-> <<0, "Expr">>])

Stmt2Class == OfTypes(StmtClass, "Stmt2", {STMT_2})
AssignClass ==
  WithGet(OfOps(Stmt2Class, "Assign", ADD_ASSIGN .. ASSIGN),
          [dst |-> <<0, "Expr">>, src |-> <<1, "Expr">>])
\* Mutant: a Default is not a Case.
CaseClass_Only ==
  WithGet(OfOps(Stmt2Class, "Case", {CASE_}), [expr |-> <<0, "Expr">>, body |-> <<1, "Node">>])
CaseClass ==
  WithGet(OfOps(Stmt2Class, "Case", {CASE_, DEFAULT}),
          [expr |-> <<0, "Expr">>, body |-> <<1, "Node">>])
DefaultClass == OfOps(CaseClass, "Default", {DEFAULT})
JumpIfClass ==
  WithGet(OfOps(Stmt2Class, "JumpIf", {JUMP_IF}), [to |-> <<0, "Label">>, test |-> <<1, "Expr">>])

Stmt3Class == OfTypes(StmtClass, "Stmt3", {STMT_3})
IfClass ==
  WithGet(OfOps(Stmt3Class, "If", {IF_}),
          [test |-> <<0, "Expr">>, then |-> <<1, "Node">>, else_ |-> <<2, "Node">>])
Stmt4Class == OfTypes(StmtClass, "Stmt4", {STMT_4})
ForClass ==
  WithGet(OfOps(Stmt4Class, "For", {FOR}),
          [init |-> <<0, "Node">>, test |-> <<1, "Expr">>,
           post |-> <<2, "Node">>, body |-> <<3, "Node">>])

StmtNClass == OfTypes(StmtClass, "StmtN", {STMT_N})
AssignCallClass == OfOps(StmtNClass, "AssignCall", {ASSIGN_CALL})
BlockClass == OfOps(StmtNClass, "Block", {BLOCK})
CondClass == OfOps(StmtNClass, "Cond", {COND})
ReturnClass == OfOps(StmtNClass, "Return", {RETURN, MIR_RET, X86_RET})
SwitchClass ==
  WithRest(WithGet(OfOps(StmtNClass, "Switch", {SWITCH}), [expr |-> <<0, "Expr">>]), 1, "Case")

ClassList ==
  {NodeClass, ExprClass, StmtClass, NameClass, FuncTypeClass, ConstClass, VarClass, LabelClass,
   UnaryClass, BinaryClass, TupleClass, MemClass, CallClass, CommaClass, Stmt0Class,
   BadStmtClass, BreakClass, ContinueClass, FallthroughClass, Stmt1Class, GotoClass, IncClass,
   DecClass, Stmt2Class, AssignClass, CaseClass, DefaultClass, JumpIfClass, Stmt3Class, IfClass,
   Stmt4Class, ForClass, StmtNClass, AssignCallClass, BlockClass, CondClass, ReturnClass,
   SwitchClass}

ClassNames == {c.name : c \in ClassList}
Class == [n \in ClassNames |-> CHOOSE c \in ClassList : c.name = n]

\* Node::is<T>()
Is(name, node) ==
  IF /\ node.header.type \in Class[name].types
     /\ node.header.op \in Class[name].ops
  THEN node ELSE NoNode
=============================================================================
