------------------------------- MODULE Folding -------------------------------
(***************************************************************************)
(* Optimizer and eval: constant folding and simplification of IR trees.    *)
(* A tree is a header, its children and, for a variable or a constant, the *)
(* item or the words it holds (code: whether those are in the buffer).     *)
(* Equal trees are separate nodes, unless the author reused the handle of  *)
(* one: two equal trees that are reused are one node, and so is all below. *)
(***************************************************************************)
EXTENDS Words, Sequences, SequencesExt, FiniteSets

Header(type, kind, op) == [type |-> type, kind |-> kind, op |-> op]
HeaderLess(g, h) ==
  \/ g.type < h.type
  \/ g.type = h.type /\ g.kind < h.kind
  \/ g.type = h.type /\ g.kind = h.kind /\ g.op < h.op

Tree(header, args) ==
  [header |-> header, code |-> args # <<>>, at |-> 0, args |-> args, reused |-> FALSE]
NoTree == Tree(Header(STMT_0, eBad, BAD_OP), <<>>)
CrashTree == Tree(Header(STMT_0, eBad, MaxOp), <<>>)
Kind(e) == e.header.kind
Type(e) == e.header.type
Op(e) == e.header.op

VarTree(kind, id) == [Tree(Header(VAR, kind, 0), <<>>) EXCEPT !.at = id]

\* Const::create()
ConstTree(v) ==
  IF v = Crashed THEN CrashTree
  ELSE [Tree(Header(CONST, v.kind, 0), <<>>)
          EXCEPT !.code = ~IsDirect(v),
                 !.at = IF IsDirect(v) THEN MakeDirect(v) ELSE WriteIndirect(v)]
\* Const::val()
ConstVal(e) == IF e.code THEN ParseIndirect(Kind(e), e.at) ELSE ParseDirect(e.at)
IsConst(e) == Type(e) = CONST
VoidExpr == ConstTree(Zero(eVoid))

\* Unary::create(), Binary::create() and Comma::create() choose the kind.
UnaryTree(kind, op, x) == Tree(Header(UNARY, kind, op), <<x>>)
BinaryTree(op, x, y) ==
  Tree(Header(BINARY, IF op <= SHR THEN Kind(x) ELSE eBool, op), <<x, y>>)
TupleTree(kind, op, args) == Tree(Header(TUPLE, kind, op), args)
CommaTree(args) == TupleTree(eVoid, COMMA, args)
AssignTree(op, dst, src) == Tree(Header(STMT_2, eVoid, op), <<dst, src>>)
StepTree(op, dst) == Tree(Header(STMT_1, eVoid, op), <<dst>>)

IsComparison(op) == op \in LSS .. GEQ
IsAssociative(op) == op \in ADD .. COMMA
IsArithmetic(op) == op \in ADD .. COMMA
IsCommutative(op) == op \in ADD .. MIN

SwapComparison(op) ==
  CASE op = LSS -> GTR [] op = LEQ -> GEQ [] op = GTR -> LSS [] op = GEQ -> LEQ [] OTHER -> op
\* Mutant: the negation of < leaves out equality.
NotComparison_Strict(op) ==
  CASE op = LSS -> GTR [] op = LEQ -> GTR [] op = NEQ -> EQL [] op = EQL -> NEQ
    [] op = GTR -> LEQ [] op = GEQ -> LSS [] OTHER -> op
NotComparison(op) ==
  CASE op = LSS -> GEQ [] op = LEQ -> GTR [] op = NEQ -> EQL [] op = EQL -> NEQ
    [] op = GTR -> LEQ [] op = GEQ -> LSS [] OTHER -> op

\* to_op2(), to_opn() and their inverses; 0 when there is none.
Op2OfAssign(op) ==
  CASE op = SUB_ASSIGN -> SUB [] op = QUO_ASSIGN -> QUO [] op = REM_ASSIGN -> REM
    [] op = SHL_ASSIGN -> SHL [] op = SHR_ASSIGN -> SHR [] OTHER -> BAD_OP
OpNOfAssign(op) ==
  CASE op = ADD_ASSIGN -> ADD [] op = MUL_ASSIGN -> MUL [] op = AND_ASSIGN -> AND
    [] op = OR_ASSIGN -> OR [] op = XOR_ASSIGN -> XOR [] OTHER -> BAD_OP
AssignOfOp2(op) ==
  IF \E a \in ADD_ASSIGN .. ASSIGN : Op2OfAssign(a) = op
  THEN CHOOSE a \in ADD_ASSIGN .. ASSIGN : Op2OfAssign(a) = op ELSE BAD_OP
AssignOfOpN(op) ==
  IF \E a \in ADD_ASSIGN .. ASSIGN : OpNOfAssign(a) = op
  THEN CHOOSE a \in ADD_ASSIGN .. ASSIGN : OpNOfAssign(a) = op ELSE BAD_OP

(***************************************************************************)
(* Node::deep_equal(), deep_compare() and deep_pure(), of trees.           *)
(***************************************************************************)

AllowDivision == 1
AllowMemAccess == 2
AllowCall == 4

IsAllowed(h, allow) ==
  /\ AllowDivision \in allow \/ h.type # BINARY \/ h.op \notin QUO .. REM
  /\ AllowMemAccess \in allow \/ h.type # MEM
  /\ AllowCall \in allow \/ h.type # TUPLE \/ h.op # CALL

\* One handle: the same code and offset.
SameNode(a, b) == a.reused /\ a = b

\* Below two handles of one node nothing is looked at, be it allowed or not.  Of
\* two leaves that are in the buffer only the headers are compared.
RECURSIVE DeepEqual(_, _, _)
DeepEqual(a, b, allow) ==
  /\ a.header = b.header
  /\ a.code = b.code
  /\ IsAllowed(a.header, allow)
  /\ a.code \/ a.at = b.at
  /\ \/ SameNode(a, b)
     \/ /\ Len(a.args) = Len(b.args)
        /\ \A i \in DOMAIN a.args : DeepEqual(a.args[i], b.args[i], allow)

\* It finds 0 for two handles of one node without looking below, as it would there.
RECURSIVE DeepCompare(_, _)
DeepCompare(a, b) ==
  LET n == IF Len(a.args) < Len(b.args) THEN Len(a.args) ELSE Len(b.args)
      differs == SelectSeq([i \in 1 .. n |-> DeepCompare(a.args[i], b.args[i])],
                           LAMBDA c : c # 0)
      Sign(m, k) == IF m < k THEN -1 ELSE IF m > k THEN 1 ELSE 0
  IN CASE a.header # b.header -> IF HeaderLess(a.header, b.header) THEN -1 ELSE 1
       [] a.code # b.code -> IF a.code THEN 1 ELSE -1
       [] ~a.code -> Sign(a.at, b.at)
       [] differs # <<>> -> differs[1]
       [] OTHER -> Sign(Len(a.args), Len(b.args))

RECURSIVE DeepPure(_, _)
DeepPure(e, allow) ==
  \/ Type(e) = VAR \/ Type(e) >= LABEL
  \/ /\ Type(e) > STMT_N
     /\ IsAllowed(e.header, allow)
     /\ \A i \in DOMAIN e.args : DeepPure(e.args[i], allow)

(***************************************************************************)
(* eval.cpp                                                                *)
(***************************************************************************)

\* eval_unary_op(), eval_binary_op() and eval_tuple_op()
EvalUnary(kind, op, v) ==
  CASE op = XOR1 -> Invert(v) [] op = NOT1 -> IsZero(v) [] op = NEG1 -> Negate(v)
    [] op = CAST -> CastTo(v, kind) [] op = BITCOPY -> BitCopy(v, kind) [] OTHER -> BadVal
EvalBinary(op, a, b) ==
  CASE op = SUB -> Minus(a, b) [] op = QUO -> Over(a, b) [] op = REM -> Modulo(a, b)
    [] op = SHL -> ShiftLeft(a, b) [] op = SHR -> ShiftRight(a, b)
    [] op = LAND -> BothTrue(a, b) [] op = LOR -> EitherTrue(a, b)
    [] op = LSS -> IsLess(a, b) [] op = LEQ -> IsLessOrEqual(a, b)
    [] op = NEQ -> Differs(a, b) [] op = EQL -> IsEqual(a, b)
    [] op = GTR -> IsLess(b, a) [] op = GEQ -> IsLessOrEqual(b, a) [] OTHER -> BadVal

\* MAX and MIN of what was found so far and the next value.
Extreme(op, a, b) ==
  LET less == IsLess(a, b)
  IN IF ~IsValid(less) THEN BadVal ELSE IF IsTrue(less) = (op = MAX) THEN b ELSE a
EvalTuple(kind, op, values) ==
  LET step(a, v) ==
        CASE op = ADD -> Plus(a, v) [] op = MUL -> Times(a, v) [] op = AND -> BitAnd(a, v)
          [] op = OR -> BitOr(a, v) [] op = XOR -> BitXor(a, v)
          [] op \in {MAX, MIN} -> Extreme(op, a, v) [] OTHER -> a
  IN IF op = COMMA /\ values # <<>>
     THEN IF \E i \in DOMAIN values : ~IsValid(values[i]) THEN BadVal ELSE Last(values)
     ELSE FoldLeft(step, IdentityN(kind, op), values)

\* is_const(): of a tuple with an arithmetic operation no argument is looked at
\* in the end, the inner break leaves only the loop over them.
RECURSIVE IsConstExpr(_)
IsConstExpr(e) ==
  CASE Type(e) = UNARY -> IsConstExpr(e.args[1])
    [] Type(e) = BINARY -> IsConstExpr(e.args[1]) /\ IsConstExpr(e.args[2])
    [] Type(e) = TUPLE -> IsArithmetic(Op(e))
    [] OTHER -> IsConst(e)

\* eval_const()
RECURSIVE EvalConst(_)
EvalConst(e) ==
  LET values == [i \in DOMAIN e.args |-> EvalConst(e.args[i])]
      next(a, v) == IF IsValid(a) THEN EvalTuple(Kind(e), Op(e), <<a, v>>) ELSE a
  IN CASE Crashed \in Range(values) -> Crashed
       [] Type(e) = UNARY -> EvalUnary(Kind(e), Op(e), values[1])
       [] Type(e) = BINARY -> EvalBinary(Op(e), values[1], values[2])
       [] Type(e) = TUPLE /\ IsArithmetic(Op(e)) ->
            FoldLeft(next, IdentityN(Kind(e), Op(e)), values)
       [] IsConst(e) -> ConstVal(e)
       [] OTHER -> BadVal
=============================================================================
