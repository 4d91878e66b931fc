------------------------------ MODULE Optimizer ------------------------------
(***************************************************************************)
(* Optimizer: one call rewrites a tree bottom-up.  how is what it was told *)
(* to do: flags, the optimizations, and check, what compiled code must     *)
(* check while it runs.                                                    *)
(***************************************************************************)
EXTENDS Folding

FoldConstant == "FoldConstant"
SimplifyExpr == "SimplifyExpr"
FastMath == "FastMath"
OptAll == {FoldConstant, SimplifyExpr, FastMath}

\* allow_mask_pure()
PureMask(how) == {AllowDivision, AllowMemAccess} \ how.check

Same(a, b, how) == DeepEqual(a, b, PureMask(how))
Pure(e, how) == DeepPure(e, PureMask(how))

OneTree(kind) == ConstTree(One(kind))
TwoTree(kind) == ConstTree(CastTo(Val(eInt32, 2), kind))
ZeroTree(kind) == ConstTree(Zero(kind))

\* operator== of two values, as a condition.
Equals(a, b) == IsTrue(IsEqual(a, b))

\* simplify_unary()
SimplifyUnary(kind, op, x) ==
  CASE Type(x) = UNARY /\ op \in {XOR1, NEG1} /\ Op(x) = op -> x.args[1]
    [] Type(x) = UNARY /\ op = NEG1 /\ Op(x) = XOR1 ->
         TupleTree(Kind(x.args[1]), ADD, <<x.args[1], OneTree(Kind(x.args[1]))>>)
    [] Type(x) = UNARY /\ op = XOR1 /\ Op(x) = NEG1 ->
         BinaryTree(SUB, x.args[1], OneTree(Kind(x.args[1])))
    [] Type(x) = BINARY /\ op = NOT1 /\ IsComparison(Op(x)) ->
         BinaryTree(NotComparison(Op(x)), x.args[1], x.args[2])
    [] op \in {CAST, BITCOPY} /\ kind = Kind(x) -> x
    [] OTHER -> NoTree

\* try_optimize(Unary)
TryUnary(e, x, how) ==
  LET folded == IF FoldConstant \in how.flags /\ IsConst(x)
                THEN EvalUnary(Kind(e), Op(e), ConstVal(x)) ELSE BadVal
  IN CASE IsValid(folded) -> ConstTree(folded)
       [] SimplifyExpr \in how.flags -> SimplifyUnary(Kind(e), Op(e), x)
       [] OTHER -> NoTree

\* Mutant: what is not the last expression is dropped whatever it does.
SimplifyComma_All(args, how) == Last(args)

\* simplify_comma(): of the expressions before the last, those with effects.
SimplifyComma(args, how) ==
  LET kept == SelectSeq(Front(args), LAMBDA e : ~Pure(e, how))
  IN IF kept = <<>> THEN Last(args) ELSE CommaTree(Append(kept, Last(args)))

\* simplify_boolean()
SimplifyBoolean(op, x, y, how) ==
  LET deciding(c) == IsTrue(ConstVal(c)) = (op = LOR)
  IN CASE IsConst(x) -> IF deciding(x) THEN x ELSE y
       [] ~IsConst(x) /\ IsConst(y) ->
            IF deciding(y) THEN SimplifyComma(<<x, y>>, how) ELSE x
       [] OTHER -> NoTree

\* simplify_comparison()
SimplifyComparison(op, x, y, how) ==
  LET zero == IsConst(y) /\ IsUnsigned(Kind(y)) /\ ~IsTrue(ConstVal(y))
      same == ~IsConst(y) /\ Same(x, y, how)
  IN CASE zero /\ op \in {LSS, GEQ} -> SimplifyComma(<<x, ConstTree(Bit(op = GEQ))>>, how)
       [] zero /\ op = LEQ -> BinaryTree(EQL, x, y)
       [] zero /\ op = GTR -> BinaryTree(NEQ, x, y)
       [] same -> ConstTree(Bit(op \in {LEQ, EQL, GEQ}))
       [] OTHER -> NoTree

\* simplify_binary(), past partial_eval_binary(): a shift is left alone.
SimplifyOperation(op, x, y, how) ==
  CASE op \in {SUB, REM} /\ Same(x, y, how) -> ZeroTree(Kind(x))
    [] op = QUO /\ Same(x, y, how) -> OneTree(Kind(x))
    [] op \in {LAND, LOR} -> SimplifyBoolean(op, x, y, how)
    [] IsComparison(op) -> SimplifyComparison(op, x, y, how)
    [] OTHER -> NoTree

\* partial_eval_binary() and simplify_binary(): constants go to the right of
\* a comparison, a right operand that is the identity goes away.
SimplifyBinary(op0, x0, y0, how) ==
  LET swap == Type(x0) > Type(y0) /\ IsComparison(op0)
      op == IF swap THEN SwapComparison(op0) ELSE op0
      x == IF swap THEN y0 ELSE x0
      y == IF swap THEN x0 ELSE y0
      simple == SimplifyOperation(op, x, y, how)
  IN CASE IsConst(y) /\ Equals(Identity2(Kind(x), op), ConstVal(y)) /\ Type(x) # BINARY -> x
       [] IsConst(y) /\ Equals(Identity2(Kind(x), op), ConstVal(y)) ->
            LET inner == SimplifyOperation(Op(x), x.args[1], x.args[2], how)
            IN IF inner # NoTree THEN inner ELSE x
       [] simple # NoTree -> simple
       [] swap -> BinaryTree(op, x, y)
       [] OTHER -> NoTree

\* try_optimize(Binary)
TryBinary(e, x, y, how) ==
  LET folded == IF FoldConstant \in how.flags /\ IsConst(x) /\ IsConst(y)
                THEN EvalBinary(Op(e), ConstVal(x), ConstVal(y)) ELSE BadVal
  IN CASE IsValid(folded) -> ConstTree(folded)
       [] SimplifyExpr \in how.flags -> SimplifyBinary(Op(e), x, y, how)
       [] OTHER -> NoTree

\* simplify_assign(): (op= dst constant)
SimplifyAssign(op, dst, val, how) ==
  LET kind == Kind(dst)
      opn == OpNOfAssign(op)
      op2 == Op2OfAssign(op)
      identity == IF opn # BAD_OP THEN IdentityN(kind, opn) ELSE Identity2(kind, op2)
      more == IF opn = ADD THEN INC ELSE DEC
      less == IF opn = ADD THEN DEC ELSE INC
  IN CASE opn # BAD_OP /\ Equals(val, Absorbing(kind, opn)) ->
            AssignTree(ASSIGN, dst, ConstTree(Absorbing(kind, opn)))
       [] Equals(val, identity) /\ Pure(dst, how) -> VoidExpr
       [] (opn = ADD \/ op2 = SUB) /\ Equals(val, One(kind)) -> StepTree(more, dst)
       [] (opn = ADD \/ op2 = SUB) /\ Equals(val, MinusOne(kind)) -> StepTree(less, dst)
       [] OTHER -> NoTree

\* try_optimize(OpStmt2, dst, src) where both are the same expression
TryAssignSame(op, dst) ==
  CASE op = ADD_ASSIGN -> AssignTree(MUL_ASSIGN, dst, TwoTree(Kind(dst)))
    [] op \in {SUB_ASSIGN, REM_ASSIGN, XOR_ASSIGN} ->
         AssignTree(ASSIGN, dst, ZeroTree(Kind(dst)))
    [] op = QUO_ASSIGN -> AssignTree(ASSIGN, dst, OneTree(Kind(dst)))
    [] op \in {AND_ASSIGN, OR_ASSIGN, ASSIGN} -> VoidExpr
    [] OTHER -> NoTree

\* The assignment operation of (= dst (op dst y)), or none.
AssignOpOf(dst, src, how) ==
  LET first == Len(src.args) = 2 /\ Same(dst, src.args[1], how)
  IN CASE first /\ Type(src) = BINARY -> AssignOfOp2(Op(src))
       [] first /\ Type(src) = TUPLE -> AssignOfOpN(Op(src))
       [] OTHER -> BAD_OP

\* try_optimize(OpStmt2, dst, src) and make_assign()
RECURSIVE TryAssign(_, _, _, _)
TryAssign(op, dst, src, how) ==
  LET op1 == IF op = ASSIGN THEN AssignOpOf(dst, src, how) ELSE BAD_OP
  IN CASE IsConst(src) -> SimplifyAssign(op, dst, ConstVal(src), how)
       [] ~IsConst(src) /\ Same(dst, src, how) -> TryAssignSame(op, dst)
       [] ~IsConst(src) /\ ~Same(dst, src, how) /\ op1 # BAD_OP ->
            LET next == TryAssign(op1, dst, src.args[2], how)
            IN IF next # NoTree THEN next ELSE AssignTree(op1, dst, src.args[2])
       [] OTHER -> NoTree

\* A node whose children stayed the same keeps its handle, else it is written again
\* with its header: a new node.
Rebuilt(e, args) == IF args = e.args THEN e ELSE [e EXCEPT !.args = args, !.reused = FALSE]

\* The constants at the end of a list are folded from the right into one.
RECURSIVE FoldLast(_, _, _, _)
FoldLast(kind, op, args, v) ==
  IF args = <<>> \/ ~IsConst(Last(args)) THEN [args |-> args, v |-> v]
  ELSE FoldLast(kind, op, Front(args), EvalTuple(kind, op, <<ConstVal(Last(args)), v>>))

\* Mutant: the constant that was folded is forgotten.
PartialEvalTuple_Drops(e, children, how) ==
  LET folded == FoldLast(Kind(e), Op(e), children, IdentityN(Kind(e), Op(e)))
  IN TupleTree(Kind(e), Op(e), folded.args)

\* partial_eval_tuple(): sort, fold the constants, drop the identity.
PartialEvalTuple(e, children, how) ==
  LET kind == Kind(e)
      op == Op(e)
      identity == IdentityN(kind, op)
      sorted == IF IsCommutative(op)
                THEN SortSeq(children, LAMBDA a, b : DeepCompare(a, b) < 0) ELSE children
      folded == IF FoldConstant \in how.flags THEN FoldLast(kind, op, sorted, identity)
                ELSE [args |-> sorted, v |-> identity]
      constant == /\ Len(folded.args) < Len(sorted)
                  /\ IsTrue(Differs(folded.v, identity))
      absorbed == /\ constant
                  /\ Equals(folded.v, Absorbing(kind, op))
                  /\ \A i \in DOMAIN folded.args : Type(folded.args[i]) = VAR
      args == IF constant THEN Append(folded.args, ConstTree(folded.v)) ELSE folded.args
      associative == IsAssociative(op) /\ (FastMath \in how.flags \/ ~IsFloat(kind))
  IN CASE ~associative -> Rebuilt(e, children)
       [] associative /\ children = <<>> -> ConstTree(identity)
       [] associative /\ absorbed -> ConstTree(folded.v)
       [] associative /\ ~absorbed /\ args = <<>> -> ConstTree(folded.v)
       [] associative /\ ~absorbed /\ Len(args) = 1 -> args[1]
       [] OTHER -> Rebuilt(e, args)

(***************************************************************************)
(* The recursion.  A fault in any call below is the end of all of them.    *)
(***************************************************************************)

RECURSIVE OptimizeTree(_, _), FlattenChildren(_, _), FlattenChild(_, _, _)

\* flatten_children_tobuf(): arguments with the same header are taken apart,
\* before and after they are optimized.
FlattenChildren(e, how) ==
  LET parts == [i \in DOMAIN e.args |-> FlattenChild(e, e.args[i], how)]
  IN FlattenSeq(parts)
FlattenChild(e, child, how) ==
  LET done == OptimizeTree(child, how)
  IN CASE child.header = e.header -> FlattenChildren(child, how)
       [] child.header # e.header /\ done.header = e.header -> FlattenChildren(done, how)
       [] OTHER -> <<done>>

\* optimize(Node) and optimize(Tuple)
OptimizeTree(e, how) ==
  IF Type(e) = TUPLE
  THEN IF SimplifyExpr \notin how.flags \/ e.args = <<>> THEN e
       ELSE LET children == FlattenChildren(e, how)
            IN IF CrashTree \in Range(children) THEN CrashTree
               ELSE PartialEvalTuple(e, children, how)
  ELSE LET args == [i \in DOMAIN e.args |-> OptimizeTree(e.args[i], how)]
           tried == CASE e.args = <<>> -> e
                      [] Type(e) = UNARY -> TryUnary(e, args[1], how)
                      [] Type(e) = BINARY -> TryBinary(e, args[1], args[2], how)
                      [] Type(e) = STMT_2 /\ Op(e) \in ADD_ASSIGN .. ASSIGN ->
                           TryAssign(Op(e), args[1], args[2], how)
                      [] OTHER -> NoTree
       IN CASE CrashTree \in Range(args) -> CrashTree
            [] tried # NoTree -> tried
            [] OTHER -> Rebuilt(e, args)
=============================================================================
